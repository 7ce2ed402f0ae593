-------------------------------- MODULE Rans --------------------------------
(***************************************************************************)
(* The interleaved, blockwise rANS coder: rans_codec.h with the loops of   *)
(* rans_encode.cpp and rans_decode.cpp.                                    *)
(*                                                                         *)
(* Every block is coded backwards by WAYS states that take turns, and its  *)
(* words are pushed in front of each other; the decoder reads the file     *)
(* forwards.  Neither the number of words of a block nor its end is in the *)
(* file: the decoder must arrive at the flush words of the next block by   *)
(* itself.                                                                 *)
(***************************************************************************)
EXTENDS CumTable, Sequences

CONSTANTS
  SCALE_BITS,   \* TOTAL = 2 ^ SCALE_BITS (14)
  WORD_BITS,    \* bits of a renorm word (32)
  L,            \* RANS64_L, the least normalised state (2^31)
  RECIPROCAL,   \* numerator of the reciprocals (2^64)
  WAYS,         \* interleaved states (4)
  BLOCK,        \* BLOCK_BYTES
  MAX_SYMBOLS   \* longest file considered

B == 2 ^ WORD_BITS

(* What the proofs need is stated of B: they cannot compute with a power.   *)
ASSUME ScaleAssumption ==
  SCALE_BITS \in Nat /\ WORD_BITS \in Nat /\ TOTAL = 2 ^ SCALE_BITS
ASSUME IntervalAssumption ==
  /\ L \in Nat \ {0} /\ L % TOTAL = 0
  /\ B \in Nat /\ 1 < B /\ TOTAL <= B /\ L <= B
  /\ RECIPROCAL \in Nat /\ L * B <= RECIPROCAL
ASSUME BlockAssumption ==
  WAYS \in Nat \ {0} /\ BLOCK \in Nat \ {0} /\ MAX_SYMBOLS \in Nat

VARIABLES
  cum,       \* m
  data,      \* the input file
  i,         \* symbols of the finished blocks
  k,         \* symbols of the block that are not coded yet
  encs,      \* the states of the four encoders, in the order of the rotation
  buf,       \* the words buf_head .. of the block
  file,      \* the words written to the file
  phase      \* encoder: "block", "symbols", "written"

encVars == <<cum, data, i, k, encs, buf, file, phase>>

VARIABLES
  words_p,   \* position in file of the next word
  decs,      \* the states of the four decoders, in the order of the rotation
  out_buf,   \* the symbols decoded so far
  dec_left,  \* symbols of the block that are not decoded yet
  dec_phase  \* decoder: "block", "symbols", "done"

decVars == <<words_p, decs, out_buf, dec_left, dec_phase>>
vars == <<encVars, decVars>>

n == Len(data)
block_syms(done) == IF n - done < BLOCK THEN n - done ELSE BLOCK
Fresh == [ s \in 1 .. WAYS |-> L ]

Init ==
  /\ cum \in Tables
  /\ data \in UNION { [1 .. len -> Occurring(cum)] : len \in 1 .. MAX_SYMBOLS }
  /\ i = 0
  /\ k = 0
  /\ encs = Fresh
  /\ buf = << >>
  /\ file = << >>
  /\ phase = "block"
  /\ words_p = 1
  /\ decs = Fresh
  /\ out_buf = << >>
  /\ dec_left = 0
  /\ dec_phase = "block"

-----------------------------------------------------------------------------
StartBlock ==
  /\ phase = "block"
  /\ i < n
  /\ encs' = Fresh
  /\ buf' = << >>
  /\ k' = block_syms(i)
  /\ phase' = "symbols"
  /\ UNCHANGED <<cum, data, i, file, decVars>>

(* Faulty variant: the limit is not scaled to the word.                     *)
x_maxUnshifted(freq) == (L \div TOTAL) * freq

(* Faulty variant: the limit does not depend on the frequency.              *)
x_maxOfAll(freq) == (L \div TOTAL) * B * TOTAL

(* RansEncRenorm: the state from which on a word is emitted first.          *)
x_max(freq) == (L \div TOTAL) * B * freq

(* Faulty variant: the quotient of the product is not corrected.            *)
DivModUncorrected(x, freq) ==
  LET q == (x * ((RECIPROCAL - 1) \div freq)) \div RECIPROCAL
  IN <<q, x - q * freq>>

(* The quotient and the remainder of Rans64EncPut_no_div, from the          *)
(* reciprocal that model_build_rfreq stored for the symbol, with one        *)
(* correction.                                                              *)
DivMod(x, freq) ==
  LET rfreq == (RECIPROCAL - 1) \div freq
      q     == (x * rfreq) \div RECIPROCAL
      rem   == x - q * freq
  IN IF freq = 1 THEN <<x, 0>>
     ELSE IF rem >= freq THEN <<q + 1, rem - freq>> ELSE <<q, rem>>

Put(x, sym) ==
  LET qr == DivMod(x, Freq(cum, sym))
  IN qr[1] * TOTAL + qr[2] + cum[sym]

(* The rotation of the encoder: the last state is used and becomes the      *)
(* first.                                                                   *)
TurnBack(states, x) == <<x>> \o SubSeq(states, 1, WAYS - 1)

EncodeSymbol ==
  /\ phase = "symbols"
  /\ k > 0
  /\ LET sym == data[i + k]
         x   == encs[WAYS]
     IN IF x >= x_max(Freq(cum, sym))
          THEN /\ buf' = <<x % B>> \o buf
               /\ encs' = TurnBack(encs, Put(x \div B, sym))
          ELSE /\ encs' = TurnBack(encs, Put(x, sym))
               /\ UNCHANGED buf
  /\ k' = k - 1
  /\ UNCHANGED <<cum, data, i, file, phase, decVars>>

(* Faulty variant: the first state is pushed first.                         *)
FlushWordsReversed ==
  [ p \in 1 .. 2 * WAYS |->
      LET x == encs[WAYS - (p - 1) \div 2] IN IF p % 2 = 1 THEN x % B ELSE x \div B ]

(* The words of the final states as the file has them: low word, high word, *)
(* the first state first.                                                   *)
FlushWords ==
  [ p \in 1 .. 2 * WAYS |->
      LET x == encs[(p + 1) \div 2] IN IF p % 2 = 1 THEN x % B ELSE x \div B ]

FlushBlock ==
  /\ phase = "symbols"
  /\ k = 0
  /\ file' = file \o FlushWords \o buf
  /\ i' = i + block_syms(i)
  /\ phase' = "block"
  /\ UNCHANGED <<cum, data, k, encs, buf, decVars>>

CloseFile ==
  /\ phase = "block"
  /\ i = n
  /\ phase' = "written"
  /\ UNCHANGED <<cum, data, i, k, encs, buf, file, decVars>>

-----------------------------------------------------------------------------
DecStartBlock ==
  /\ phase = "written"
  /\ dec_phase = "block"
  /\ Len(out_buf) < n
  /\ decs' = [ s \in 1 .. WAYS |->
       file[words_p + 2 * s - 2] + B * file[words_p + 2 * s - 1] ]
  /\ words_p' = words_p + 2 * WAYS
  /\ dec_left' = block_syms(Len(out_buf))
  /\ dec_phase' = "symbols"
  /\ UNCHANGED <<encVars, out_buf>>

(* Rans64DecRenorm: the state from which on a word is read.                 *)
NeedsWord(x) == x < L

(* The decoder dereferences words_p for every symbol.  Behind the end of    *)
(* the file it meets the two words that were allocated and never written:   *)
(* any word, which matters only if it is consumed.                          *)
WordsAt(p) == IF p \in 1 .. Len(file) THEN { file[p] } ELSE 0 .. B - 1

(* The rotation of the decoder: the first state is used and becomes the     *)
(* last.                                                                    *)
TurnForward(states, x) == Tail(states) \o <<x>>

DecodeSymbol ==
  /\ dec_phase = "symbols"
  /\ dec_left > 0
  /\ LET x   == decs[1]
         v   == x % TOTAL
         sym == Find(cum, v)
         y   == Freq(cum, sym) * (x \div TOTAL) + v - cum[sym]
     IN /\ IF NeedsWord(y)
             THEN /\ \E word \in WordsAt(words_p) :
                       decs' = TurnForward(decs, y * B + word)
                  /\ words_p' = words_p + 1
             ELSE /\ decs' = TurnForward(decs, y)
                  /\ UNCHANGED words_p
        /\ out_buf' = Append(out_buf, sym)
  /\ dec_left' = dec_left - 1
  /\ UNCHANGED <<encVars, dec_phase>>

DecEndBlock ==
  /\ dec_phase = "symbols"
  /\ dec_left = 0
  /\ dec_phase' = IF Len(out_buf) = n THEN "done" ELSE "block"
  /\ UNCHANGED <<encVars, words_p, decs, out_buf, dec_left>>

Next ==
  \/ StartBlock \/ EncodeSymbol \/ FlushBlock \/ CloseFile
  \/ DecStartBlock \/ DecodeSymbol \/ DecEndBlock

Spec == Init /\ [][Next]_vars

-----------------------------------------------------------------------------
(* Types: every state, of the encoder and of the decoder, is normalised     *)
(* after each symbol, although both renormalise at most once ("never needs  *)
(* to loop").                                                               *)
TypeOK ==
  /\ cum \in Tables /\ data \in Seq(Occurring(cum))
  /\ i \in 0 .. n /\ k \in 0 .. BLOCK
  /\ encs \in [1 .. WAYS -> L .. L * B - 1]
  /\ buf \in Seq(0 .. B - 1) /\ file \in Seq(0 .. B - 1)
  /\ phase \in {"block", "symbols", "written"}
  /\ words_p \in 1 .. Len(file) + 1
  /\ decs \in [1 .. WAYS -> L .. L * B - 1]
  /\ out_buf \in Seq(Symbols)
  /\ dec_left \in 0 .. BLOCK
  /\ dec_phase \in {"block", "symbols", "done"}

(* The product with the reciprocal and its single correction give quotient  *)
(* and remainder of every state a symbol is put into.                       *)
DivisionFree ==
  phase = "symbols" /\ k > 0 =>
    LET freq == Freq(cum, data[i + k])
        x    == IF encs[WAYS] >= x_max(freq) THEN encs[WAYS] \div B ELSE encs[WAYS]
    IN DivMod(x, freq) = <<x \div freq, x % freq>>

(* The ceiling RENORM_BUF_WORDS was computed from, without its slack: the   *)
(* renorm words of a block hold at most SCALE_BITS bits for each of its     *)
(* symbols, although the states are rounded up by every symbol.             *)
RenormCeiling ==
  Len(buf) * WORD_BITS <= (block_syms(i) - k) * SCALE_BITS \/ phase # "symbols"

(* A block is decoded to what was encoded, and at its end every state is    *)
(* back where the encoder started: the words consumed are those emitted,    *)
(* and the next block starts where this one ended.                          *)
BlocksMeet ==
  /\ \A p \in 1 .. Len(out_buf) : out_buf[p] = data[p]
  /\ dec_phase \in {"symbols", "done"} /\ dec_left = 0 => decs = Fresh
  /\ dec_phase = "done" => words_p = Len(file) + 1 /\ out_buf = data
=============================================================================
