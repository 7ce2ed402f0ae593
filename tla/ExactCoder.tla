----------------------------- MODULE ExactCoder -----------------------------
(***************************************************************************)
(* What range coding means, with arithmetic that never wraps: the interval *)
(* [val, val + width) is narrowed once per symbol and scaled up by a word  *)
(* when it has become narrower than a word.  There is no buffer and no     *)
(* carry.  The encoders of rc_codec.h and rc_codec_32.h implement it with  *)
(* val split into the words of the buffer and two words of low.            *)
(***************************************************************************)
EXTENDS CumTable

CONSTANTS
  B,            \* word base
  MAX_SYMBOLS   \* longest file considered

VARIABLES
  cum,     \* the table
  left,    \* symbols not coded yet
  val,     \* lower end of the interval, an unbounded integer
  width,   \* width of the interval
  words,   \* how often the interval was scaled up
  final    \* the lower end has been output as the code of the file

vars == <<cum, left, val, width, words, final>>

Init ==
  /\ cum \in Tables
  /\ left \in 1 .. MAX_SYMBOLS
  /\ val = 0
  /\ width = B * B - 1
  /\ words = 0
  /\ final = FALSE

Narrow(sym) ==
  LET t       == width \div TOTAL
      newVal  == val + t * cum[sym]
      newWide == t * Freq(cum, sym)
  IN IF newWide < B
       THEN /\ val' = newVal * B
            /\ width' = newWide * B
            /\ words' = words + 1
       ELSE /\ val' = newVal
            /\ width' = newWide
            /\ UNCHANGED words

Encode ==
  /\ left > 0
  /\ \E sym \in Occurring(cum) : Narrow(sym)
  /\ left' = left - 1
  /\ UNCHANGED <<cum, final>>

Finish ==
  /\ left = 0
  /\ ~ final
  /\ final' = TRUE
  /\ UNCHANGED <<cum, left, val, width, words>>

Next == Encode \/ Finish

Spec == Init /\ [][Next]_vars
=============================================================================
