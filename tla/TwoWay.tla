------------------------------- MODULE TwoWay -------------------------------
(***************************************************************************)
(* rc24_2way_encode.c and rc24_2way_decode.c: two RC24 streams in one      *)
(* shared buffer.  Byte k of stream s lives at shared[k * 2 + s]; even      *)
(* positions of the file go to stream 0, odd positions to stream 1.  Both  *)
(* tools work through the file in blocks of an even number of symbols and  *)
(* write the code of both streams out in full; here it is one action for   *)
(* the stream whose turn it is.                                            *)
(***************************************************************************)
EXTENDS CumTable, Subbotin, Sequences, FiniteSetsExt

CONSTANTS
  DIGITS,     \* digits of elow and dlow (3)
  BLOCK,      \* PROGRESS_BLOCK and OUT_BUF_SIZE (16384, an even number)
  HEADROOM,   \* the 4096 of cap
  LENGTHS,    \* the file lengths considered
  FIRST_CUMS, \* the values of M.cums[1] considered
  RLE_SYMS    \* the symbols considered for files of a single symbol

(* The weight of a digit: the base to the power i.                          *)
Weight[i \in 0 .. DIGITS] == IF i = 0 THEN 1 ELSE D * Weight[i - 1]

ASSUME DigitsAssumption == DIGITS \in Nat \ {0} /\ TOP = Weight[DIGITS - 1]
ASSUME TotalBelowBot == TOTAL <= BOT
ASSUME BlockAssumption == BLOCK \in Nat \ {0} /\ BLOCK % 2 = 0
ASSUME InputAssumption ==
  /\ HEADROOM \in Nat
  /\ LENGTHS \subseteq Nat \ {0, 1}
  /\ \E longest \in LENGTHS : \A len \in LENGTHS : len <= longest
  /\ FIRST_CUMS \subseteq 0 .. TOTAL
  /\ RLE_SYMS \subseteq Symbols

VARIABLES
  cum,       \* M.cums of a file with several symbols
  is_rle,    \* the file has a single symbol
  sig3,      \* sig[3]: M.cums[1], which for an RLE file is its symbol
  n,         \* symbols of the file
  data,      \* the symbols coded so far
  i, k, blk, \* the counters of the encoding loops
  turn,      \* the stream that is coded
  phase,     \* encoder: "block" at the outer loop, "pair" at the inner loop,
             \* "second" between the streams, "renorm", then "written"
  elow, erange, spos,   \* per stream
  shared,    \* the shared buffer
  max_len    \* length of the longer stream, 0 before the flush

encVars == <<cum, is_rle, sig3, n, data, i, k, blk, turn, phase, elow, erange,
             spos, shared, max_len>>

VARIABLES
  dec_i, dec_k, dec_blk, \* the counters of the decoding loops
  dec_turn,              \* the stream that is renormalised
  dec_phase,             \* decoder: "start", "block", "pair", "renorm", then
                         \* "done", or "failed" on a file it cannot read
  dlow, drange, dcode, dpos,  \* per stream
  out_buf                     \* the symbols decoded so far

decVars == <<dec_i, dec_k, dec_blk, dec_turn, dec_phase, dlow, drange, dcode,
             dpos, out_buf>>
vars == <<encVars, decVars>>

Streams == {0, 1}
PerStream(value) == [ s \in Streams |-> value ]

cap == n \div 2 + n \div 50 + HEADROOM
Cells == 0 .. 2 * cap + 15

Init ==
  /\ n \in LENGTHS
  /\ cum \in { t \in Tables : t[1] \in FIRST_CUMS }
  /\ \/ is_rle = FALSE /\ sig3 = cum[1]
     \/ is_rle = TRUE /\ sig3 \in RLE_SYMS
  /\ data = << >>
  /\ i = 0 /\ k = 0 /\ blk = 0
  /\ turn = 0
  /\ phase = "block"
  /\ elow = PerStream(0)
  /\ erange = PerStream(WORD - 1)
  /\ spos = PerStream(0)
  /\ shared = [ c \in Cells |-> 0 ]
  /\ max_len = 0
  /\ dec_i = 0 /\ dec_k = 0 /\ dec_blk = 0
  /\ dec_turn = 0
  /\ dec_phase = "start"
  /\ dlow = PerStream(0)
  /\ drange = PerStream(0)
  /\ dcode = PerStream(0)
  /\ dpos = PerStream(0)
  /\ out_buf = << >>

-----------------------------------------------------------------------------
(* An RLE file is complete with its header.                                 *)
EncodeRle ==
  /\ is_rle
  /\ phase = "block"
  /\ data' = [ p \in 1 .. n |-> sig3 ]
  /\ phase' = "written"
  /\ UNCHANGED <<cum, is_rle, sig3, n, i, k, blk, turn, elow, erange, spos,
                 shared, max_len, decVars>>

(* Faulty variant: blocks are always full.                                  *)
FullBlock(start) == IF n - start < BLOCK THEN 0 ELSE BLOCK

(* The block that starts at i: blk &= ~1u makes its length even, which is   *)
(* 0 when one symbol is left.                                               *)
EvenBlock(start) ==
  LET rest == IF n - start < BLOCK THEN n - start ELSE BLOCK
  IN  rest - (rest % 2)

NextBlock ==
  /\ ~ is_rle
  /\ phase = "block"
  /\ i < n
  /\ blk' = EvenBlock(i)
  /\ k' = 0
  /\ phase' = "pair"
  /\ UNCHANGED <<cum, is_rle, sig3, n, data, i, turn, elow, erange, spos, shared,
                 max_len, decVars>>

EndBlock ==
  /\ phase = "pair"
  /\ k >= blk
  /\ i' = i + blk
  /\ phase' = "block"
  /\ UNCHANGED <<cum, is_rle, sig3, n, data, k, blk, turn, elow, erange, spos,
                 shared, max_len, decVars>>

Narrow(s, sym) ==
  LET r == erange[s] \div TOTAL
  IN /\ elow' = [ elow EXCEPT ![s] = (@ + r * cum[sym]) % REGISTER ]
     /\ erange' = [ erange EXCEPT ![s] = r * Freq(cum, sym) ]
     /\ turn' = s
     /\ data' = Append(data, sym)
     /\ phase' = "renorm"

EncodeEven ==
  /\ phase = "pair"
  /\ k < blk
  /\ \E sym \in Occurring(cum) : Narrow(0, sym)
  /\ UNCHANGED <<cum, is_rle, sig3, n, i, k, blk, spos, shared, max_len, decVars>>

EncodeOdd ==
  /\ phase = "second"
  /\ \E sym \in Occurring(cum) : Narrow(1, sym)
  /\ UNCHANGED <<cum, is_rle, sig3, n, i, k, blk, spos, shared, max_len, decVars>>

(* Faulty variant: the streams are laid out one after the other at half the *)
(* length of the file.                                                      *)
CellApart(p, s) == p + s * (n \div 2)

Cell(p, s) == p * 2 + s

EncodeShift ==
  /\ phase = "renorm"
  /\ MustShift(elow[turn], erange[turn])
  /\ shared' = [ shared EXCEPT ![Cell(spos[turn], turn)] =
                                 (elow[turn] \div TOP) % D ]
  /\ spos' = [ spos EXCEPT ![turn] = @ + 1 ]
  /\ elow' = [ elow EXCEPT ![turn] = ShiftedLow(@) ]
  /\ erange' = [ erange EXCEPT ![turn] = ShiftedRange(Kept(elow[turn], @)) ]
  /\ UNCHANGED <<cum, is_rle, sig3, n, data, i, k, blk, turn, phase, max_len,
                 decVars>>

EncodeReady ==
  /\ phase = "renorm"
  /\ ~ MustShift(elow[turn], erange[turn])
  /\ IF turn = 0 THEN phase' = "second" /\ UNCHANGED k
                 ELSE phase' = "pair" /\ k' = k + 2
  /\ UNCHANGED <<cum, is_rle, sig3, n, data, i, blk, turn, elow, erange, spos,
                 shared, max_len, decVars>>

(* The digits of elow go to the end of each stream.  FlushLow(s) is elow[s] *)
(* on its way out of the register, which this loop does not mask.           *)
FlushLow(s) ==
  LET f[j \in 0 .. DIGITS] ==
        IF j = 0 THEN elow[s] ELSE (f[j - 1] * D) % REGISTER
  IN  f

LowDigit(s, j) == (FlushLow(s)[j] \div TOP) % D

(* Faulty variant: max_len is the length of stream 0.                       *)
LongestIsFirst(len) == len[0]

Longest(len) == Max({ len[s] : s \in Streams })

Flush ==
  /\ ~ is_rle
  /\ phase = "block"
  /\ i >= n
  /\ shared' = [ c \in Cells |->
       LET s == c % 2
           j == c \div 2 - spos[s]
       IN IF j \in 0 .. DIGITS - 1 THEN LowDigit(s, j) ELSE shared[c] ]
  /\ spos' = [ s \in Streams |-> spos[s] + DIGITS ]
  /\ elow' = [ s \in Streams |-> FlushLow(s)[DIGITS] ]
  /\ max_len' = Longest(spos')
  /\ phase' = "written"
  /\ UNCHANGED <<cum, is_rle, sig3, n, data, i, k, blk, turn, erange, decVars>>

EncodeNext ==
  \/ EncodeRle \/ NextBlock \/ EndBlock \/ EncodeEven \/ EncodeOdd
  \/ EncodeShift \/ EncodeReady \/ Flush

-----------------------------------------------------------------------------
(* The decoder takes bit 0 of sig[3] for the RLE flag; the encoder writes   *)
(* that flag to sig[2].                                                     *)
TakenForRle == sig3 % 2 = 1

DecodeRle ==
  /\ phase = "written"
  /\ dec_phase = "start"
  /\ TakenForRle
  /\ out_buf' = [ p \in 1 .. n |-> sig3 ]
  /\ dec_phase' = "done"
  /\ UNCHANGED <<encVars, dec_i, dec_k, dec_blk, dec_turn, dlow, drange, dcode,
                 dpos>>

(* The table, which an RLE file does not have, cannot be read.              *)
DecodeNoTable ==
  /\ phase = "written"
  /\ dec_phase = "start"
  /\ ~ TakenForRle
  /\ is_rle
  /\ dec_phase' = "failed"
  /\ UNCHANGED <<encVars, dec_i, dec_k, dec_blk, dec_turn, dlow, drange, dcode,
                 dpos, out_buf>>

(* What the decoder reads of the shared buffer: the file has max_len bytes  *)
(* of each stream and 16 zeros are put behind them.                         *)
Read(p, s) == IF p < max_len THEN shared[Cell(p, s)] ELSE 0

(* What DIGITS digits of stream s make of dcode[s].                         *)
FirstDigits(s) ==
  LET f[j \in 0 .. DIGITS] ==
        IF j = 0 THEN 0 ELSE (f[j - 1] * D + Read(j - 1, s)) % WORD
  IN  f

DecInit ==
  /\ phase = "written"
  /\ dec_phase = "start"
  /\ ~ TakenForRle
  /\ ~ is_rle
  /\ drange' = PerStream(WORD - 1)
  /\ dcode' = [ s \in Streams |-> FirstDigits(s)[DIGITS] ]
  /\ dpos' = PerStream(DIGITS)
  /\ dec_phase' = "block"
  /\ UNCHANGED <<encVars, dec_i, dec_k, dec_blk, dec_turn, dlow, out_buf>>

DecNextBlock ==
  /\ dec_phase = "block"
  /\ dec_i # n
  /\ dec_blk' = EvenBlock(dec_i)
  /\ dec_k' = 0
  /\ dec_phase' = "pair"
  /\ UNCHANGED <<encVars, dec_i, dec_turn, dlow, drange, dcode, dpos, out_buf>>

DecEndBlock ==
  /\ dec_phase = "pair"
  /\ dec_k >= dec_blk
  /\ dec_i' = dec_i + dec_blk
  /\ dec_phase' = "block"
  /\ UNCHANGED <<encVars, dec_k, dec_blk, dec_turn, dlow, drange, dcode, dpos,
                 out_buf>>

DecDone ==
  /\ dec_phase = "block"
  /\ dec_i = n
  /\ dec_phase' = "done"
  /\ UNCHANGED <<encVars, dec_i, dec_k, dec_blk, dec_turn, dlow, drange, dcode,
                 dpos, out_buf>>

Quotient(s) == ((dcode[s] - dlow[s]) % REGISTER) \div (drange[s] \div TOTAL)

(* Both symbols of a pair are looked up before either stream renormalises.  *)
DecodePair ==
  /\ dec_phase = "pair"
  /\ dec_k < dec_blk
  /\ LET r   == [ s \in Streams |-> drange[s] \div TOTAL ]
         sym == [ s \in Streams |-> Find(cum, Quotient(s)) ]
     IN /\ dlow' = [ s \in Streams |-> (dlow[s] + r[s] * cum[sym[s]]) % REGISTER ]
        /\ drange' = [ s \in Streams |-> r[s] * Freq(cum, sym[s]) ]
        /\ out_buf' = Append(Append(out_buf, sym[0]), sym[1])
  /\ dec_turn' = 0
  /\ dec_phase' = "renorm"
  /\ UNCHANGED <<encVars, dec_i, dec_k, dec_blk, dcode, dpos>>

DecodeShift ==
  /\ dec_phase = "renorm"
  /\ MustShift(dlow[dec_turn], drange[dec_turn])
  /\ dcode' = [ dcode EXCEPT
       ![dec_turn] = (@ * D + Read(dpos[dec_turn], dec_turn)) % WORD ]
  /\ dpos' = [ dpos EXCEPT ![dec_turn] = @ + 1 ]
  /\ dlow' = [ dlow EXCEPT ![dec_turn] = ShiftedLow(@) ]
  /\ drange' = [ drange EXCEPT ![dec_turn] = ShiftedRange(Kept(dlow[dec_turn], @)) ]
  /\ UNCHANGED <<encVars, dec_i, dec_k, dec_blk, dec_turn, dec_phase, out_buf>>

DecodeReady ==
  /\ dec_phase = "renorm"
  /\ ~ MustShift(dlow[dec_turn], drange[dec_turn])
  /\ IF dec_turn = 0 THEN dec_turn' = 1 /\ UNCHANGED <<dec_k, dec_phase>>
     ELSE dec_phase' = "pair" /\ dec_k' = dec_k + 2 /\ UNCHANGED dec_turn
  /\ UNCHANGED <<encVars, dec_i, dec_blk, dlow, drange, dcode, dpos, out_buf>>

DecodeNext ==
  \/ DecodeRle \/ DecodeNoTable \/ DecInit \/ DecNextBlock \/ DecEndBlock
  \/ DecDone \/ DecodePair \/ DecodeShift \/ DecodeReady

Next == EncodeNext \/ DecodeNext

(* The tools are sequential programs: while there is a step, they take it.  *)
Spec == Init /\ [][Next]_vars /\ WF_vars(Next)

-----------------------------------------------------------------------------
(* Two things the tools take for granted, the hypotheses of the theorems.   *)
(* The shared buffer, which spos is never compared with, has room for cap   *)
(* digits of each stream and 8 more (rc24_2way_encode.c:93-94).             *)
StreamsFit == \A s \in Streams : spos[s] <= cap + 8

(* A file with a table is not taken for an RLE file.                        *)
FlagIsRead == is_rle \/ ~ TakenForRle

(* What the decoder gives back is the file: even positions from stream 0,   *)
(* odd ones from stream 1, and the symbol of an RLE file n times.           *)
RoundTrip == dec_phase = "done" => out_buf = data

(* The bytes of the two streams in the shared buffer do not overlap: each   *)
(* stream is read to its own last byte, never into the zeros that make the  *)
(* shorter stream as long as the longer one.                                *)
EachReadsItsOwn ==
  \A s \in Streams :
    /\ dpos[s] <= spos[s]
    /\ phase = "written" => spos[s] <= max_len \/ is_rle
    /\ dec_phase = "done" => dpos[s] = spos[s]

(* The file is written and read back: neither of the two outer loops turns  *)
(* forever, and the only file the decoder refuses is an RLE file it does    *)
(* not take for one.                                                        *)
EventuallyDecoded ==
  <>(dec_phase = IF is_rle /\ ~ TakenForRle THEN "failed" ELSE "done")

(* As the comment on the padding byte has it, a file of any length can be   *)
(* encoded ("padding for last odd symbol").                                 *)
EventuallyWritten == <>(phase = "written")

(* Each of the two streams is an RC24 stream of its own: what happens to    *)
(* stream s is the scalar coder working on every second symbol.             *)
EverySecond(symbols, s) ==
  [ j \in 1 .. (Len(symbols) + 1 - s) \div 2 |-> symbols[2 * j - 1 + s] ]

Half(symbols, s) == IF is_rle THEN << >> ELSE EverySecond(symbols, s)

BytesOf(buffer, len, s) == [ p \in 1 .. len |-> buffer[Cell(p - 1, s)] ]

StreamOut(s) == BytesOf(shared, spos[s], s)

StreamPhase(s) ==
  IF phase = "written" /\ ~ is_rle THEN "written"
  ELSE IF phase = "renorm" /\ turn = s THEN "renorm" ELSE "step"

StreamDecPhase(s) ==
  IF dec_phase \in {"start", "failed"} \/ is_rle THEN "start"
  ELSE IF dec_phase = "renorm" /\ dec_turn <= s THEN "renorm" ELSE "step"

(* The scalar coder has to hold what is in a buffer that can take 8 digits  *)
(* more than cap for each stream and has n \div 50 for half the symbols.    *)
AMPLE == Max(LENGTHS) + HEADROOM + 8

Even == INSTANCE Carryless WITH
  CHECKED <- FALSE, MAX_SYMBOLS <- Max(LENGTHS), HEADROOM <- AMPLE,
  n <- n \div 2, data <- Half(data, 0), low <- elow[0], range <- erange[0],
  out <- StreamOut(0), pos <- spos[0], phase <- StreamPhase(0),
  dec_low <- dlow[0], dec_range <- drange[0], code <- dcode[0],
  dec_pos <- dpos[0], out_buf <- Half(out_buf, 0), dec_phase <- StreamDecPhase(0)

Odd == INSTANCE Carryless WITH
  CHECKED <- FALSE, MAX_SYMBOLS <- Max(LENGTHS), HEADROOM <- AMPLE,
  n <- n \div 2, data <- Half(data, 1), low <- elow[1], range <- erange[1],
  out <- StreamOut(1), pos <- spos[1], phase <- StreamPhase(1),
  dec_low <- dlow[1], dec_range <- drange[1], code <- dcode[1],
  dec_pos <- dpos[1], out_buf <- Half(out_buf, 1), dec_phase <- StreamDecPhase(1)

ImplementsScalarCoder == Even!SafeSpec /\ Odd!SafeSpec
=============================================================================
