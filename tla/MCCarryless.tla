---------------------------- MODULE MCCarryless ----------------------------
(***************************************************************************)
(* Both carryless coders in one run.  The constants of the configuration   *)
(* are those of RC32SUB, whose registers are as wide as its state; those   *)
(* of RC24, whose 24-bit state lies in registers of 32 bits, are set here. *)
(***************************************************************************)
EXTENDS Carryless

(* What the two have to have in common: RC24 has one digit less, and its top *)
(* digit is still a multiple of BOT.                                        *)
ASSUME NarrowAssumption ==
  /\ DIGITS >= 2 /\ HEADROOM >= 1 /\ REGISTER = WORD
  /\ \E k \in 1 .. TOP : TOP = D * (k * BOT)

VARIABLE coder

Rc24 == INSTANCE Carryless WITH
          DIGITS <- DIGITS - 1, TOP <- TOP \div D, WORD <- TOP,
          CHECKED <- FALSE, HEADROOM <- HEADROOM - 1

CodersInit ==
  \/ coder = "rc24" /\ Rc24!Init
  \/ coder = "rc32sub" /\ Init

CodersNext ==
  /\ UNCHANGED coder
  /\ \/ coder = "rc24" /\ Rc24!Next
     \/ coder = "rc32sub" /\ Next

(* A tool is sequential: while it has a step to take, it takes it.          *)
CodersSpec ==
  CodersInit /\ [][CodersNext]_<<coder, vars>> /\ WF_<<coder, vars>>(CodersNext)

(* The types of the coder that runs, with range back at BOT or above after  *)
(* every renormalisation (rc24_enc_step, rc32sub_enc_step).                 *)
RangeRestored == IF coder = "rc24" THEN Rc24!TypeOK ELSE TypeOK

(* No digit that was written can change, before and after a trim            *)
(* (rc24_codec.h:40-46, rc32sub_codec.h:65-83).                             *)
DigitsSettled == IF coder = "rc24" THEN Rc24!NoCarry ELSE NoCarry

(* Both decoders follow every trim, and no value they look up lies behind   *)
(* the table, with the clamp of rc32sub_decode.c:117 and without it.        *)
DecodersInStep ==
  IF coder = "rc24" THEN Rc24!DecodesWhatWasCoded ELSE DecodesWhatWasCoded

(* A decoder uses up its stream to the last digit and reads none behind it  *)
(* (rc24_codec.h:93-114, which does not check).                             *)
StreamsUsedUp ==
  IF coder = "rc24" THEN Rc24!ReadsExactlyTheStream ELSE ReadsExactlyTheStream
=============================================================================
