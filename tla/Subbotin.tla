------------------------------ MODULE Subbotin ------------------------------
(***************************************************************************)
(* The arithmetic of one turn of the Subbotin renormalisation loop, which  *)
(* rc24_codec.h, rc32sub_codec.h, rc24_2way_encode.c and                   *)
(* rc24_2way_decode.c each write out for an encoder and for a decoder.     *)
(* low has a top digit of weight TOP; digits have base D (2^8 in the code). *)
(***************************************************************************)
EXTENDS Integers

CONSTANTS
  D,         \* digit base
  TOP,       \* weight of the top digit
  WORD,      \* the modulus of low: 2^24 in RC24 (RC24_MASK), 2^32 in RC32SUB
  BOT,       \* the least range that is not renormalised
  REGISTER   \* modulus of the registers (2^32): D * TOP in RC32SUB, larger in
             \* RC24

ASSUME DigitAssumption == D \in Nat /\ D >= 2 /\ TOP \in Nat \ {0}
ASSUME WordAssumption == WORD = D * TOP
ASSUME BotAssumption ==
  BOT \in Nat \ {0} /\ \E k \in 1 .. TOP : TOP = k * BOT
ASSUME RegisterAssumption ==
  /\ \E k \in 1 .. D : REGISTER = k * (D * TOP)
  /\ REGISTER = D * TOP => D * BOT <= TOP

(* The two tests of the renormalisation loop.  low ^ (low + range) < TOP    *)
(* says that the sum, as the registers hold it, has the same digits from    *)
(* TOP upwards.                                                             *)
TopAgrees(lo, rg) == lo \div TOP = ((lo + rg) % REGISTER) \div TOP

(* Faulty variant: a trim is also made when range equals BOT.               *)
MustTrimAtBot(lo, rg) == ~ TopAgrees(lo, rg) /\ rg <= BOT

MustTrim(lo, rg) == ~ TopAgrees(lo, rg) /\ rg < BOT

(* Faulty variant: the mask without the negation.                           *)
TrimmedToMask(lo) == BOT - 1

(* -low & (BOT - 1)                                                         *)
Trimmed(lo) == (-lo) % BOT

(* The range a turn of the loop shifts.                                     *)
Kept(lo, rg) == IF TopAgrees(lo, rg) THEN rg ELSE Trimmed(lo)

MustShift(lo, rg) == TopAgrees(lo, rg) \/ MustTrim(lo, rg)

ShiftedLow(lo) == (lo * D) % WORD
ShiftedRange(rg) == (rg * D) % REGISTER
=============================================================================
