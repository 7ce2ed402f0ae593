------------------------------ MODULE Carryless -----------------------------
(***************************************************************************)
(* The carryless (Subbotin) range coders rc24_codec.h and rc32sub_codec.h  *)
(* with the loops of rc24_encode.c, rc24_decode.c, rc32sub_encode.c and    *)
(* rc32sub_decode.c.  Digits have base D (2^8 in the code).                *)
(*                                                                         *)
(* No carry ever reaches a digit that was written: when low and low + range *)
(* disagree in their top digit although range is already below BOT, range  *)
(* is trimmed to end at the next multiple of BOT.  One turn of the         *)
(* renormalisation loop is one step here, so that its termination is a     *)
(* property and not an assumption.                                         *)
(***************************************************************************)
EXTENDS CumTable, Subbotin, Sequences

CONSTANTS
  DIGITS,        \* digits of low: 3 in RC24, 4 in RC32SUB
  CHECKED,       \* the decoder of RC32SUB: it checks the end of its input and
                 \* clamps the value it looks up; that of RC24 does neither
  HEADROOM,      \* the 1024 of buf_bytes
  MAX_SYMBOLS    \* longest file considered

(* The weight of a digit: the base to the power i.                          *)
Weight[i \in 0 .. DIGITS] == IF i = 0 THEN 1 ELSE D * Weight[i - 1]

ASSUME DigitsAssumption == DIGITS \in Nat \ {0} /\ TOP = Weight[DIGITS - 1]
ASSUME TotalBelowBot == TOTAL <= BOT
ASSUME BoundAssumption ==
  CHECKED \in BOOLEAN /\ HEADROOM \in Nat /\ MAX_SYMBOLS \in Nat

VARIABLES
  cum,       \* M.cums
  n,         \* symbols of the file
  data,      \* the symbols coded so far
  low,       \* e->low
  range,     \* e->range
  out,       \* the digits stored in e->out
  pos,       \* e->pos
  phase,     \* the encoder: "step" between symbols, "renorm" in the loop of
             \* enc_step, then "written" or "overflow"
  dec_low,   \* d->low
  dec_range, \* d->range
  code,      \* d->code
  dec_pos,   \* d->pos
  out_buf,   \* the symbols decoded so far
  dec_phase  \* the decoder: "start", "step" or "renorm"

encVars == <<cum, n, data, low, range, out, pos, phase>>
decVars == <<dec_low, dec_range, code, dec_pos, out_buf, dec_phase>>
vars == <<encVars, decVars>>

(* buf_bytes                                                                *)
cap == n + n \div 50 + HEADROOM

Init ==
  /\ cum \in Tables
  /\ n \in 1 .. MAX_SYMBOLS
  /\ data = << >>
  /\ low = 0
  /\ range = WORD - 1
  /\ out = << >>
  /\ pos = 0
  /\ phase = "step"
  /\ dec_low = 0
  /\ dec_range = 0
  /\ code = 0
  /\ dec_pos = 0
  /\ out_buf = << >>
  /\ dec_phase = "start"

-----------------------------------------------------------------------------
(* Stores past cap are dropped, pos counts them all the same.               *)
Cut(digits) == SubSeq(digits, 1, IF Len(digits) < cap THEN Len(digits) ELSE cap)

EncodeSymbol(sym) ==
  /\ phase = "step"
  /\ Len(data) < n
  /\ LET r == range \div TOTAL
     IN /\ low' = (low + r * cum[sym]) % REGISTER
        /\ range' = r * Freq(cum, sym)
  /\ data' = Append(data, sym)
  /\ phase' = "renorm"
  /\ UNCHANGED <<cum, n, out, pos, decVars>>

Encode == \E sym \in Occurring(cum) : EncodeSymbol(sym)

(* One turn of the loop: a trim if needed, and a digit goes out.            *)
EncodeShift ==
  /\ phase = "renorm"
  /\ MustShift(low, range)
  /\ out' = Cut(Append(out, (low \div TOP) % D))
  /\ pos' = pos + 1
  /\ low' = ShiftedLow(low)
  /\ range' = ShiftedRange(Kept(low, range))
  /\ UNCHANGED <<cum, n, data, phase, decVars>>

(* The break out of the loop.                                               *)
EncodeReady ==
  /\ phase = "renorm"
  /\ ~ MustShift(low, range)
  /\ phase' = "step"
  /\ UNCHANGED <<cum, n, data, low, range, out, pos, decVars>>

(* low on its way out of the register in enc_flush, which does not mask it, *)
(* the digits written, and the overflow check: a coder whose buffer was too *)
(* small writes no stream.                                                  *)
FlushLow[i \in 0 .. DIGITS] ==
  IF i = 0 THEN low ELSE (FlushLow[i - 1] * D) % REGISTER

LowDigits == [ i \in 1 .. DIGITS |-> (FlushLow[i - 1] \div TOP) % D ]

(* Faulty variant: the overflow check is missing.                           *)
FlushUnchecked ==
  /\ phase = "step"
  /\ Len(data) = n
  /\ out' = Cut(out \o LowDigits)
  /\ pos' = pos + DIGITS
  /\ low' = FlushLow[DIGITS]
  /\ phase' = "written"
  /\ UNCHANGED <<cum, n, data, range, decVars>>

Flush ==
  /\ phase = "step"
  /\ Len(data) = n
  /\ out' = Cut(out \o LowDigits)
  /\ pos' = pos + DIGITS
  /\ low' = FlushLow[DIGITS]
  /\ phase' = IF pos + DIGITS > cap THEN "overflow" ELSE "written"
  /\ UNCHANGED <<cum, n, data, range, decVars>>

-----------------------------------------------------------------------------
(* The next digit of the stream: zero behind its end, which RC32SUB does    *)
(* not step over and RC24 does, into the zeros it padded the stream with.   *)
NextDigit == IF dec_pos < Len(out) THEN out[dec_pos + 1] ELSE 0
NextPos == IF CHECKED /\ dec_pos >= Len(out) THEN dec_pos ELSE dec_pos + 1

(* dec_init reads DIGITS digits one by one; a stream has at least as many.  *)
FirstDigits[i \in 0 .. DIGITS] ==
  IF i = 0 THEN 0 ELSE (FirstDigits[i - 1] * D + out[i]) % WORD

DecInit ==
  /\ phase = "written"
  /\ dec_phase = "start"
  /\ dec_range' = WORD - 1
  /\ code' = FirstDigits[DIGITS]
  /\ dec_pos' = DIGITS
  /\ dec_phase' = "step"
  /\ UNCHANGED <<encVars, dec_low, out_buf>>

(* dec_get_cum and the clamp of rc32sub_decode.c.  Both tools narrow the    *)
(* quotient to 16 bits first; below TOTAL, where DecodesWhatWasCoded puts   *)
(* it, that has no effect.                                                  *)
dec_r == dec_range \div TOTAL
Quotient == ((code - dec_low) % REGISTER) \div dec_r
GetCum == IF CHECKED /\ Quotient >= TOTAL THEN TOTAL - 1 ELSE Quotient

(* Faulty variant: the loop ends when the stream is used up.                *)
DecodeWhileDigits ==
  /\ dec_phase = "step"
  /\ Len(out_buf) < n
  /\ dec_pos < Len(out)
  /\ LET sym == Find(cum, GetCum)
     IN /\ dec_low' = (dec_low + dec_r * cum[sym]) % REGISTER
        /\ dec_range' = dec_r * Freq(cum, sym)
        /\ out_buf' = Append(out_buf, sym)
  /\ dec_phase' = "renorm"
  /\ UNCHANGED <<encVars, code, dec_pos>>

DecodeSymbol ==
  /\ dec_phase = "step"
  /\ Len(out_buf) < n
  /\ LET sym == Find(cum, GetCum)
     IN /\ dec_low' = (dec_low + dec_r * cum[sym]) % REGISTER
        /\ dec_range' = dec_r * Freq(cum, sym)
        /\ out_buf' = Append(out_buf, sym)
  /\ dec_phase' = "renorm"
  /\ UNCHANGED <<encVars, code, dec_pos>>

(* Faulty variant: the decoder does not trim.                               *)
DecodeShiftUntrimmed ==
  /\ dec_phase = "renorm"
  /\ MustShift(dec_low, dec_range)
  /\ code' = (code * D + NextDigit) % WORD
  /\ dec_pos' = NextPos
  /\ dec_low' = ShiftedLow(dec_low)
  /\ dec_range' = ShiftedRange(dec_range)
  /\ UNCHANGED <<encVars, out_buf, dec_phase>>

(* The loop of dec_step runs on the decoder's copies of low and range.      *)
DecodeShift ==
  /\ dec_phase = "renorm"
  /\ MustShift(dec_low, dec_range)
  /\ code' = (code * D + NextDigit) % WORD
  /\ dec_pos' = NextPos
  /\ dec_low' = ShiftedLow(dec_low)
  /\ dec_range' = ShiftedRange(Kept(dec_low, dec_range))
  /\ UNCHANGED <<encVars, out_buf, dec_phase>>

DecodeReady ==
  /\ dec_phase = "renorm"
  /\ ~ MustShift(dec_low, dec_range)
  /\ dec_phase' = "step"
  /\ UNCHANGED <<encVars, dec_low, dec_range, code, dec_pos, out_buf>>

Next ==
  \/ Encode \/ EncodeShift \/ EncodeReady \/ Flush
  \/ DecInit \/ DecodeSymbol \/ DecodeShift \/ DecodeReady

SafeSpec == Init /\ [][Next]_vars

(* The tools are sequential programs: while there is a step, they take it.  *)
Spec == SafeSpec /\ WF_vars(Next)

-----------------------------------------------------------------------------
(* Types, with the bounds that a finished renormalisation must restore: the *)
(* divisor range / TOTAL is then in the reciprocal table of rc_fast_div24.  *)
TypeOK ==
  /\ cum \in Tables
  /\ n \in 1 .. MAX_SYMBOLS
  /\ data \in Seq(Occurring(cum))
  /\ low \in 0 .. REGISTER - 1
  /\ range \in 1 .. WORD - 1
  /\ phase = "step" => range >= BOT
  /\ out \in Seq(0 .. D - 1)
  /\ pos \in Nat
  /\ phase \in {"step", "renorm", "written", "overflow"}
  /\ dec_low \in 0 .. WORD - 1
  /\ dec_phase = "start" \/ dec_range \in 1 .. WORD - 1
  /\ dec_phase = "step" => dec_range >= BOT
  /\ code \in 0 .. WORD - 1
  /\ dec_pos \in Nat
  /\ out_buf \in Seq(Symbols)
  /\ dec_phase \in {"start", "step", "renorm"}

(* The interval never extends past the top digit, so that no later symbol   *)
(* can carry into a digit already written; and the digit a turn of the loop *)
(* writes is the top digit of every value left in the interval, also after  *)
(* a trim ("range too small: Subbotin trim, then guaranteed shift-out").    *)
NoCarry ==
  phase \in {"step", "renorm"} =>
    /\ low + range <= WORD
    /\ MustShift(low, range) =>
         /\ Kept(low, range) > 0
         /\ (low + Kept(low, range) - 1) \div TOP = low \div TOP

(* What is decoded is what was coded.  The value looked up is always in the *)
(* table, in the coder that clamps it and in the one that does not.         *)
DecodesWhatWasCoded ==
  /\ Len(out_buf) <= Len(data)
  /\ \A i \in 1 .. Len(out_buf) : out_buf[i] = data[i]
  /\ dec_phase = "step" /\ Len(out_buf) < n => Quotient < TOTAL

(* The decoder reads exactly the digits of the stream, none of the zeros    *)
(* behind it, and leaves none; so a stream that was cut at the end of the   *)
(* encoder's buffer is never taken for a complete one.                      *)
ReadsExactlyTheStream ==
  /\ dec_pos <= Len(out)
  /\ phase = "written" => Len(out) = pos
  /\ dec_phase = "step" /\ Len(out_buf) = n => dec_pos = Len(out)

(* The loops of enc_step and dec_step end: the tools give up or finish.     *)
EventuallyDone ==
  <>(phase = "overflow" \/ (dec_phase = "step" /\ Len(out_buf) = n))
=============================================================================
