-------------------------------- MODULE Rc32 --------------------------------
(***************************************************************************)
(* The 32-bit carry coder of rc_codec_32.h with the loops of rc_encode32.c *)
(* and rc_decode32.c.  Words have base B (2^16 in the code), low and range *)
(* two words.                                                              *)
(*                                                                         *)
(* Every word goes into the buffer at once and a carry walks back through  *)
(* the buffer.  All writes are bounded by cap: pos counts the words even   *)
(* when they no longer fit, and rc_encode32.c gives up after the flush if  *)
(* pos exceeds cap.                                                        *)
(***************************************************************************)
EXTENDS CumTable, Sequences, FiniteSetsExt

CONSTANTS
  B,             \* word base, RC32_TOP
  MAX_SYMBOLS,   \* longest file considered
  HEADROOM       \* the 1024 of buf_words

ASSUME BaseAssumption  == B \in Nat /\ TOTAL <= B /\ 2 <= B
ASSUME MaxSymbolsAssumption == MAX_SYMBOLS \in Nat
ASSUME HeadroomAssumption == HEADROOM \in Nat /\ HEADROOM >= 2

VARIABLES
  cum,       \* M.cums
  n,         \* symbols of the file
  left,      \* symbols not coded yet
  data,      \* the symbols coded so far
  low,       \* e->low
  range,     \* e->range
  out,       \* the words stored in e->out
  pos,       \* e->pos
  status,    \* "encoding", then "written" or "overflow"
  code,      \* d->code
  dec_range, \* d->range
  dec_pos,   \* d->pos
  out_buf    \* the symbols decoded so far

encVars == <<cum, n, left, data, low, range, out, pos, status>>
decVars == <<code, dec_range, dec_pos, out_buf>>
vars == <<encVars, decVars>>

(* buf_words                                                                *)
cap == n + n \div 50 + HEADROOM

Init ==
  /\ cum \in Tables
  /\ n \in 1 .. MAX_SYMBOLS
  /\ left = n
  /\ data = << >>
  /\ low = 0
  /\ range = B * B - 1
  /\ out = << >>
  /\ pos = 0
  /\ status = "encoding"
  /\ code = 0
  /\ dec_range = 0
  /\ dec_pos = 0
  /\ out_buf = << >>

-----------------------------------------------------------------------------
(* Faulty variant: the carry stops at the first word it increments, whether *)
(* or not that word wrapped.                                                *)
CarryPatchOneWord(words) ==
  [ i \in 1 .. Len(words) |->
      IF i = Len(words) THEN (words[i] + 1) % B ELSE words[i] ]

(* rc32_carry_patch: the last word that does not wrap takes the carry, the  *)
(* words after it wrap to 0.  If every word wraps the carry is lost.        *)
rc32_carry_patch(words) ==
  LET absorbs == { i \in 1 .. Len(words) : words[i] # B - 1 }
      stop    == IF absorbs = {} THEN 0 ELSE Max(absorbs)
  IN  [ i \in 1 .. Len(words) |->
          IF i < stop THEN words[i] ELSE (words[i] + 1) % B ]

(* A bounded store of one word.                                             *)
Store(words, p, word) == IF p < cap THEN Append(words, word) ELSE words

(* Faulty variant: the scaled range is rounded up.                          *)
rRoundedUp == (range + TOTAL - 1) \div TOTAL

(* rc32_enc_step.  Its renormalisation is a loop in the code; one turn of   *)
(* it is enough, which the lower bound of range in TypeOK confirms.         *)
r           == range \div TOTAL
Sum(sym)    == low + r * cum[sym]
Width(sym)  == r * Freq(cum, sym)
Patched(sym) == IF Sum(sym) < B * B THEN out ELSE rc32_carry_patch(out)
Bottom(sym) == Sum(sym) % (B * B)

(* Faulty variant: low is not cut to its two words when a word leaves it.   *)
EncodeWideLow(sym) ==
  /\ left > 0
  /\ IF Width(sym) < B
       THEN /\ out' = Store(Patched(sym), pos, Bottom(sym) \div B)
            /\ pos' = pos + 1
            /\ low' = Bottom(sym) * B
            /\ range' = Width(sym) * B
       ELSE /\ out' = Patched(sym)
            /\ low' = Bottom(sym)
            /\ range' = Width(sym)
            /\ UNCHANGED pos
  /\ left' = left - 1
  /\ data' = Append(data, sym)
  /\ UNCHANGED <<cum, n, status, decVars>>

(* Faulty variant: the renormalisation emits both words of low.             *)
EncodeTwoWords(sym) ==
  /\ left > 0
  /\ IF Width(sym) < B
       THEN /\ out' = Store(Store(Patched(sym), pos, Bottom(sym) \div B),
                            pos + 1, Bottom(sym) % B)
            /\ pos' = pos + 2
            /\ low' = 0
            /\ range' = Width(sym) * B
       ELSE /\ out' = Patched(sym)
            /\ low' = Bottom(sym)
            /\ range' = Width(sym)
            /\ UNCHANGED pos
  /\ left' = left - 1
  /\ data' = Append(data, sym)
  /\ UNCHANGED <<cum, n, status, decVars>>

EncodeSymbol(sym) ==
  /\ left > 0
  /\ IF Width(sym) < B
       THEN /\ out' = Store(Patched(sym), pos, Bottom(sym) \div B)
            /\ pos' = pos + 1
            /\ low' = (Bottom(sym) % B) * B
            /\ range' = Width(sym) * B
       ELSE /\ out' = Patched(sym)
            /\ low' = Bottom(sym)
            /\ range' = Width(sym)
            /\ UNCHANGED pos
  /\ left' = left - 1
  /\ data' = Append(data, sym)
  /\ UNCHANGED <<cum, n, status, decVars>>

Encode == \E sym \in Occurring(cum) : EncodeSymbol(sym)

(* rc32_enc_flush, then the overflow check of rc_encode32.c.                *)
Flush ==
  /\ left = 0
  /\ status = "encoding"
  /\ out' = Store(Store(out, pos, low \div B), pos + 1, low % B)
  /\ pos' = pos + 2
  /\ low' = 0
  /\ status' = IF pos + 2 > cap THEN "overflow" ELSE "written"
  /\ UNCHANGED <<cum, n, left, data, range, decVars>>

-----------------------------------------------------------------------------
(* rc32_get: zero past the end of the stream.                               *)
rc32_get(p) == IF p < Len(out) THEN out[p + 1] ELSE 0

(* rc32_dec_init                                                            *)
DecInit ==
  /\ status = "written"
  /\ dec_range = 0
  /\ dec_range' = B * B - 1
  /\ code' = rc32_get(0) * B + rc32_get(1)
  /\ dec_pos' = 2
  /\ UNCHANGED <<encVars, out_buf>>

(* rc32_dec_get_cum, with its clamp for values in the tail of the range     *)
(* that the table does not cover.                                           *)
dec_r == dec_range \div TOTAL
Quotient == code \div dec_r
rc32_dec_get_cum == IF Quotient >= TOTAL THEN TOTAL - 1 ELSE Quotient

(* Faulty variant: the renormalisation keeps reading while range equals TOP.*)
DecStepReadsEarly(sym) ==
  LET offset == code - dec_r * cum[sym]
      width  == dec_r * Freq(cum, sym)
  IN IF width <= B
       THEN /\ code' = (offset * B + rc32_get(dec_pos)) % (B * B)
            /\ dec_range' = width * B
            /\ dec_pos' = dec_pos + 1
       ELSE /\ code' = offset % (B * B)
            /\ dec_range' = width
            /\ UNCHANGED dec_pos

(* rc32_dec_step                                                            *)
DecStep(sym) ==
  LET offset == code - dec_r * cum[sym]
      width  == dec_r * Freq(cum, sym)
  IN IF width < B
       THEN /\ code' = (offset * B + rc32_get(dec_pos)) % (B * B)
            /\ dec_range' = width * B
            /\ dec_pos' = dec_pos + 1
       ELSE /\ code' = offset % (B * B)
            /\ dec_range' = width
            /\ UNCHANGED dec_pos

Decode ==
  /\ dec_range > 0
  /\ Len(out_buf) < n
  /\ LET sym == Find(cum, rc32_dec_get_cum)
     IN DecStep(sym) /\ out_buf' = Append(out_buf, sym)
  /\ UNCHANGED encVars

Next == Encode \/ Flush \/ DecInit \/ Decode

Spec == Init /\ [][Next]_vars

-----------------------------------------------------------------------------
(* Types, with the lower bound of range that one turn of the                *)
(* renormalisation loop must restore.                                       *)
TypeOK ==
  /\ cum \in Tables
  /\ n \in 1 .. MAX_SYMBOLS
  /\ left \in 0 .. n
  /\ data \in Seq(Occurring(cum))
  /\ low \in 0 .. B * B - 1
  /\ range \in B .. B * B - 1
  /\ out \in Seq(0 .. B - 1)
  /\ pos \in Nat
  /\ status \in {"encoding", "written", "overflow"}
  /\ code \in 0 .. B * B - 1
  /\ dec_range \in {0} \cup (B .. B * B - 1)
  /\ dec_pos \in Nat
  /\ out_buf \in Seq(Symbols)

(* The buffer of rc_encode32.c is large enough for every file: no word is   *)
(* dropped at cap, and the overflow exit after the flush is never taken.    *)
BufferSuffices ==
  /\ pos <= cap
  /\ Len(out) = pos
  /\ status # "overflow"

(* A carry is absorbed inside the buffer: "In a correct stream a carry past *)
(* the buffer start is impossible" (rc_codec_32.h).                         *)
CarryNeverLost ==
  \A sym \in Occurring(cum) :
    left > 0 /\ Sum(sym) >= B * B => \E i \in 1 .. Len(out) : out[i] # B - 1

(* The decoder finds the symbols that were coded, never needs the clamp of  *)
(* rc32_dec_get_cum nor the zeros behind the stream, and ends with the      *)
(* stream fully read.                                                       *)
DecodesWhatWasCoded ==
  /\ \A i \in 1 .. Len(out_buf) : out_buf[i] = data[i]
  /\ dec_range > 0 /\ Len(out_buf) < n => Quotient < TOTAL
  /\ dec_pos <= Len(out)
  /\ dec_range > 0 /\ Len(out_buf) = n => dec_pos = Len(out)

(* The bounded in-place coder implements the textbook coder, whose buffer   *)
(* has no bound: no word and no carry is lost at cap.                       *)
Carry == INSTANCE CarryCoder WITH
  flushed <- status # "encoding",
  low     <- IF status = "encoding" THEN low
             ELSE out[Len(out) - 1] * B + out[Len(out)]
ImplementsCarryCoder == Carry!Spec
=============================================================================
