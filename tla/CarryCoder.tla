----------------------------- MODULE CarryCoder -----------------------------
(***************************************************************************)
(* The textbook carry-propagating range coder: the specification that the  *)
(* in-place encoder of rc_codec.h is measured against.                     *)
(*                                                                         *)
(* The interval [low, low + range) is kept in two words of base B.  Every  *)
(* narrowing adds to low; when low overflows its two words the carry is    *)
(* rippled through ALL the words already emitted (Ripple), at whatever     *)
(* distance the first word that can absorb it lies.  Nothing is cached and *)
(* no run of full words is tracked.                                        *)
(***************************************************************************)
EXTENDS CumTable, Sequences

CONSTANTS
  B,            \* word base (2^32 in rc_codec.h, 2^16 in rc_codec_32.h), with
                \* the assumptions the implementing module makes
  MAX_SYMBOLS   \* longest file considered

VARIABLES
  cum,       \* the table, fixed for the whole file
  left,      \* symbols of the file not coded yet
  low,       \* lower bound of the interval, modulo B * B
  range,     \* width of the interval
  out,       \* words emitted
  flushed    \* the last two words have been written

vars == <<cum, left, low, range, out, flushed>>

(* Add one to a string of base-B digits: the last digit that is not B - 1   *)
(* takes the carry, the full digits after it become zero.                   *)
Ripple(s) ==
  [ i \in 1 .. Len(s) |->
      IF \A j \in i + 1 .. Len(s) : s[j] = B - 1
        THEN IF s[i] = B - 1 THEN 0 ELSE s[i] + 1
        ELSE s[i] ]

Init ==
  /\ cum \in Tables
  /\ left \in 1 .. MAX_SYMBOLS
  /\ low = 0
  /\ range = B * B - 1
  /\ out = << >>
  /\ flushed = FALSE

(* One symbol: narrow, carry, and move the top word out when range has lost *)
(* a word of precision.                                                     *)
Narrow(sym) ==
  LET t      == range \div TOTAL
      sum    == low + t * cum[sym]
      bottom == sum % (B * B)
      width  == t * Freq(cum, sym)
      digits == IF sum < B * B THEN out ELSE Ripple(out)
  IN IF width < B
       THEN /\ out' = Append(digits, bottom \div B)
            /\ low' = (bottom % B) * B
            /\ range' = width * B
       ELSE /\ out' = digits
            /\ low' = bottom
            /\ range' = width

Encode ==
  /\ left > 0
  /\ \E sym \in Occurring(cum) : Narrow(sym)
  /\ left' = left - 1
  /\ UNCHANGED <<cum, flushed>>

Flush ==
  /\ left = 0
  /\ ~ flushed
  /\ flushed' = TRUE
  /\ out' = out \o <<low \div B, low % B>>
  /\ UNCHANGED <<cum, left, low, range>>

Next == Encode \/ Flush

Spec == Init /\ [][Next]_vars
=============================================================================
