----------------------------- MODULE BlockTools ------------------------------
(***************************************************************************)
(* fse_encode.cpp with fse_decode.cpp, and huf_encode.cpp with             *)
(* huf_decode.cpp: a file goes through in blocks.  The FSE tool normalizes *)
(* the frequencies of the whole file once and writes them in front; every  *)
(* block of the HUF tool stands for itself, stored raw when it does not    *)
(* get smaller.  The decoder runs when the encoder has written its last    *)
(* block; either gives up at the first error.                              *)
(***************************************************************************)
EXTENDS HufBlock

CONSTANTS
  REQ_TABLELOG,      \* the table of the FSE tool (14)
  BLOCK_BYTES,       \* the block of the FSE tool (256 K)
  HUF_BLOCK_BYTES,   \* the block of the HUF tool (128 K)
  FSE_FILES, HUF_FILES   \* the files to code

ASSUME BlockSizeAssumption ==
  /\ {BLOCK_BYTES, HUF_BLOCK_BYTES} \subseteq Nat \ {0}
  /\ << >> \notin FSE_FILES \cup HUF_FILES

VARIABLES
  tool,     \* "fse" or "huf"
  source,   \* the file to code
  stage,    \* "start", "encode", "decode", "done", or "failed"
  header,   \* what stands before the blocks
  blocks,   \* the blocks written
  out,      \* the bytes decoded
  held      \* every bit written found room in its container

toolVars == << tool, source, stage, header, blocks, out, held >>

BlockSize == IF tool = "fse" THEN BLOCK_BYTES ELSE HUF_BLOCK_BYTES

(* Where block k of a file lies.                                            *)
BlockOf(k) == SubSeq(source, (k - 1) * BlockSize + 1, Min({k * BlockSize, Len(source)}))

NothingWritten ==
  stage = "start" /\ header = << >> /\ blocks = << >> /\ out = << >> /\ held = TRUE

ToolInit ==
  /\ \/ tool = "fse" /\ source \in FSE_FILES
     \/ tool = "huf" /\ source \in HUF_FILES
  /\ NothingWritten

-----------------------------------------------------------------------------
(* The FSE tool's buffer for a block, which FSE_compressBound sizes.        *)
FSE_compressBound(size) == 512 + size + size \div 2 ^ 7 + 4 + WORD_BYTES

(* One symbol goes into the signature; else the distribution is written.    *)
FseStart ==
  LET count  == Histogram(source)
      shares == FSE_normalizeCount(count, REQ_TABLELOG)
  IN /\ tool = "fse" /\ stage = "start"
     /\ IF Cardinality(Range(source)) = 1
          THEN stage' = "decode" /\ header' = [rle |-> TRUE, sym |-> source[1]]
        ELSE IF shares.ok
          THEN /\ stage' = "encode"
               /\ header' = [rle |-> FALSE, tableLog |-> REQ_TABLELOG, norm |-> shares.norm]
        ELSE stage' = "failed" /\ UNCHANGED header
     /\ UNCHANGED << tool, source, blocks, out, held >>

FseCoded(src) ==
  FSE_compress_usingCTable(src, FSE_buildCTable(header.norm, header.tableLog),
                           FSE_compressBound(Len(src)))

(* The last block leads to the decoder.                                     *)
Written(block) ==
  /\ blocks' = Append(blocks, block)
  /\ stage' = IF (Len(blocks) + 1) * BlockSize >= Len(source) THEN "decode" ELSE stage

FseWritten(cs) == Written(cs.stream) /\ held' = (held /\ cs.held)

FseEncodeBlock ==
  /\ tool = "fse" /\ stage = "encode"
  /\ FseWritten(FseCoded(BlockOf(Len(blocks) + 1)))
  /\ UNCHANGED << tool, source, header, out >>

(* The whole block buffer is written: bytes that were not decoded are those *)
(* of the block before, or what malloc gave, here -1.                       *)
Stale(k) == IF Len(out) >= BlockSize THEN out[Len(out) - BlockSize + k] ELSE -1

(* What the decoder finds becomes part of the file, or ends it.             *)
Read(size, ds) ==
  IF ds.ok
    THEN /\ out' = out \o [ k \in 1 .. size |-> IF k <= Len(ds.out) THEN ds.out[k] ELSE Stale(k) ]
         /\ stage' = IF Len(out) + size = Len(source) THEN "done" ELSE stage
    ELSE stage' = "failed" /\ UNCHANGED out

(* The block the decoder stands at.                                         *)
NextSize  == Min({Len(source) - Len(out), BlockSize})
NextBlock == blocks[Len(out) \div BlockSize + 1]

FseDecodeBlock ==
  /\ tool = "fse" /\ stage = "decode" /\ ~header.rle
  /\ Read(NextSize, FSE_decompressWith(NextBlock, NextSize,
                                       FSE_buildDTable(header.norm, header.tableLog)))
  /\ UNCHANGED << tool, source, header, blocks, held >>

FseDecodeRle ==
  /\ tool = "fse" /\ stage = "decode" /\ header.rle
  /\ out' = [ k \in 1 .. Len(source) |-> header.sym ]
  /\ stage' = "done"
  /\ UNCHANGED << tool, source, header, blocks, held >>

-----------------------------------------------------------------------------
HufStart ==
  /\ tool = "huf" /\ stage = "start"
  /\ stage' = "encode"
  /\ UNCHANGED << tool, source, header, blocks, out, held >>

(* A block of no gain is stored raw; an error stops the tool.               *)
Stored(src, cs) ==
  IF cs.size = 0 \/ cs.size >= Len(src)
    THEN [status |-> "raw", size |-> Len(src), bytes |-> src, held |-> cs.held]
  ELSE IF cs.status = "rle" THEN cs @@ [sym |-> src[1]] ELSE cs

HufWritten(src, cs) ==
  IF cs.status = "error" THEN stage' = "failed" /\ UNCHANGED << blocks, held >>
  ELSE Written(Stored(src, cs)) /\ held' = (held /\ cs.held)

HufEncodeBlock ==
  LET src == BlockOf(Len(blocks) + 1)
  IN /\ tool = "huf" /\ stage = "encode"
     /\ HufWritten(src, HUF_compress(src))
     /\ UNCHANGED << tool, source, header, out >>

(* HUF_decompress.  Which of the two decoders is faster is a guess of       *)
(* HUF_selectDecoder from the sizes: either may be taken.                   *)
HUF_decompress(block, size, algo) ==
  CASE block.status = "raw" -> [ok |-> TRUE, out |-> block.bytes]
    [] block.status = "rle" -> [ok |-> TRUE, out |-> [ k \in 1 .. size |-> block.sym ]]
    [] block.status = "coded" -> HUF_decompress4X(block, size, algo)

HufDecodeBlock(algo) ==
  /\ tool = "huf" /\ stage = "decode"
  /\ Read(NextSize, HUF_decompress(NextBlock, NextSize, algo))
  /\ UNCHANGED << tool, source, header, blocks, held >>

ToolNext ==
  \/ FseStart
  \/ FseEncodeBlock
  \/ FseDecodeBlock
  \/ FseDecodeRle
  \/ HufStart
  \/ HufEncodeBlock
  \/ \E algo \in {"X1", "X2"} : HufDecodeBlock(algo)

ToolSpec == ToolInit /\ [][ToolNext]_toolVars

-----------------------------------------------------------------------------
(* The shares of the FSE table fill it exactly, and a symbol has a share    *)
(* exactly if it occurs: the decoder refuses any other table, and a symbol  *)
(* without a cell could not be coded.                                       *)
NormalizedIsComplete ==
  tool = "fse" /\ stage \in {"encode", "decode", "done"} /\ ~header.rle =>
    /\ MapThenSumSet(LAMBDA s : Share(header.norm[s]), DOMAIN header.norm)
         = 2 ^ header.tableLog
    /\ \A s \in DOMAIN header.norm : header.norm[s] # 0 <=> s \in Range(source)

(* The writers flush often enough: no bit of a block is ever pushed out of  *)
(* the container, however many bits the symbols between two flushes take.   *)
ContainerHolds == held

(* A file comes back from the FSE tool as far as it is decoded, the last    *)
(* two symbols of every block included, which the decoder finds by running  *)
(* into the end of the stream.  Of the files whose blocks fit the tool's    *)
(* block buffer, only those with a last block of one or two bytes fail: it  *)
(* has no stream.                                                           *)
FseComesBack ==
  tool = "fse" =>
    /\ IsPrefix(out, source)
    /\ stage = "done" => out = source
    /\ stage = "failed" => Len(source) % BLOCK_BYTES \in {1, 2}

CodedBlocks ==
  IF tool = "huf" THEN { k \in DOMAIN blocks : blocks[k].status = "coded" } ELSE {}

(* Cutting a tree to its limit leaves a tree: the codes are no longer than  *)
(* the limit, they are complete (one bit string more or less would be       *)
(* ambiguous or wasted), and a symbol that occurs more often has no longer  *)
(* code.                                                                    *)
LimitedTreeIsComplete ==
  \A k \in CodedBlocks :
    LET nbBits == blocks[k].tree.nbBits
        count  == blocks[k].count
        used   == { s \in DOMAIN count : count[s] > 0 }
    IN /\ \A s \in used : nbBits[s] \in 1 .. blocks[k].tree.maxBits
       /\ MapThenSumSet(LAMBDA s : 2 ^ (HUF_TABLELOG_MAX - nbBits[s]), used)
            = 2 ^ HUF_TABLELOG_MAX
       /\ \A s, t \in used : count[s] > count[t] => nbBits[s] <= nbBits[t]

SameTree(stats, nbBits) ==
  /\ stats.ok
  /\ \A s \in DOMAIN nbBits :
       stats.weights[s] = IF nbBits[s] = 0 THEN 0 ELSE stats.tableLog + 1 - nbBits[s]

(* The reader of a block's header finds the encoder's tree: the weight that *)
(* is not written is the one that completes it, and weights that went       *)
(* through the FSE coder come back.                                         *)
TreeComesBack ==
  \A k \in CodedBlocks : SameTree(HUF_readStats(blocks[k].header), blocks[k].tree.nbBits)

(* A file comes back from the HUF tool whichever decoder a block is given   *)
(* to, coded or raw: every stream ends at its first bit, and no segment     *)
(* runs into the next.                                                      *)
HufComesBack ==
  tool = "huf" =>
    /\ IsPrefix(out, source)
    /\ stage = "done" => out = source
    /\ stage # "failed"

(* What roundtrip_fse.sh tests of every data set: the decoder gives a file  *)
(* back.  A last block of one or two bytes has no stream, and the decoder   *)
(* refuses it.                                                              *)
EveryFseFileIsDecoded ==
  tool = "fse" => stage # "failed"

(* What huf_encode.cpp says of blocks without gain: they are stored raw.    *)
(* One that HUF_compress reports as an error is not: the tool gives up.     *)
EveryHufBlockIsStored ==
  tool = "huf" => stage # "failed"
=============================================================================
