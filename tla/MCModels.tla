------------------------------ MODULE MCModels ------------------------------
(***************************************************************************)
(* Both models in one run, with the byte counts they are tried on, and the *)
(* divisions whose quotients are looked up in the 12-bit table.  The table *)
(* of the 14-bit model is as much larger as in the code: as long as a      *)
(* quarter of the square of the alphabet.                                  *)
(***************************************************************************)
EXTENDS Model14, FastDivision

CONSTANTS
  TOTAL14,    \* TARGET_TOTAL of model.h
  INPUTS14,   \* the byte counts for the 14-bit model
  DIVISORS32, \* the divisors of the 32-bit decoder (16 to 2^20)
  DIVISORS24  \* the divisors of the RC24 decoders (16 to 2^12)

(* The buckets are as fine as the analysis of model_12.h:223-227 asks for,  *)
(* and no reciprocal of rc_fast_div24 is off by enough to reach a quotient. *)
ASSUME DivisorAssumption ==
  /\ 9 * TOTAL + 3 * PowerOfTwo[IDX_BITS]
        <= PowerOfTwo[IDX_BITS] * PowerOfTwo[IDX_BITS]
  /\ DIVISORS32 \subseteq 1 .. PowerOfTwo[CODE_BITS] - 1
  /\ DIVISORS24 \subseteq Nat \ {0}
  /\ \A r \in DIVISORS24 : r * r * TOTAL <= PowerOfTwo[LUT24_BITS]

VARIABLE model

M14 == INSTANCE Model14 WITH TOTAL <- TOTAL14, INPUTS <- INPUTS14

ModelsInit ==
  \/ model = 12 /\ Init
  \/ model = 14 /\ M14!Init

ModelsNext ==
  /\ UNCHANGED model
  /\ \/ model = 12 /\ Next
     \/ model = 14 /\ M14!Next14

ModelsSpec == ModelsInit /\ [][ModelsNext]_<<model, vars>>

-----------------------------------------------------------------------------
(* Some frequent bytes, up to two less frequent ones, rare ones and absent  *)
(* ones, in two rotations: the sum falls short, exceeds the scale by less   *)
(* than, by as much as and by more than max_sym has to give.                *)
Counts(highs, mids, turns) ==
  { [ s \in Symbols |->
        LET p == (s + turn) % ALPHABET
        IN IF p < frequent THEN high
           ELSE IF p < frequent + 2 THEN mid
           ELSE IF p < frequent + 2 + rare THEN 1 ELSE 0 ] :
    frequent \in 0 .. ALPHABET, rare \in 0 .. ALPHABET,
    high \in highs, mid \in mids, turn \in turns }

FrequentAndRare == Counts({2, 5, 9}, {0, 1, 5}, {0, 5})

(* Files that a float of 12 digits counts one by one, but for the longest.  *)
(* With 98 and 127, with 184 and 511 and with 254 and 255, some shares that *)
(* are a little below a whole number are rounded up to it.                  *)
LongerFiles == Counts({3, 98, 127, 184, 254}, {1, 127, 255, 511}, {0, 5})

(* One half of the alphabet equally often, so that its counts take nearly   *)
(* all digits of a float, and each byte of the other half once.             *)
HalfRare ==
  { [ s \in Symbols |-> IF 2 * s < ALPHABET THEN count ELSE 1 ] :
    count \in 3 * 2 ^ (MANTISSA - 2) .. 7 * 2 ^ (MANTISSA - 3) }

(* A quarter of the alphabet and a sixteenth of the scale: 31 bytes that    *)
(* are each met 24 times, rare ones met once, and one more byte that makes  *)
(* up 24 with them.  At the real size, 127 bytes met 96 times and between   *)
(* 48 and 53 rare ones, a file of 12 KB, do the same.                       *)
ManyRare ==
  { [ s \in Symbols |->
        IF s < 31 THEN 24
        ELSE IF s = 31 THEN 24 - rare
        ELSE IF s < 32 + rare THEN 1 ELSE 0 ] : rare \in 9 .. 15 }

-----------------------------------------------------------------------------
(* As long as max_sym has more than the excess to give, the 12-bit table    *)
(* covers the whole scale and gives every byte of the file a frequency: all *)
(* that the coders need of it (model_12.h:89-141).                          *)
EveryByteCoded12 == model = 12 => EveryByteCoded

(* The lookup table and the binary search of model_12.h:148-198 agree, also *)
(* next to symbols without a frequency.                                     *)
LookupsAgree12 == model = 12 => LookupsAgree

(* The codes a decoder can divide by r.                                     *)
CodesFor(r) == 0 .. r * TOTAL - 1

Quotients32 == [ r \in DIVISORS32 |-> [ c \in CodesFor(r) |-> rc_fast_div(c, r) ] ]
Quotients24 == [ r \in DIVISORS24 |-> [ c \in CodesFor(r) |-> rc_fast_div24(c, r) ] ]

(* A decoder that divides by table and looks the quotient up finds the      *)
(* symbol whose share of the range holds the code.  rc_fast_div is called   *)
(* exact after one Newton step and one correction, rc_fast_div24 without    *)
(* any (model_12.h:223-227, 297-298).                                       *)
DivisionFindsSymbol ==
  model = 12 /\ Built =>
    \A s \in Occurring(cums) :
      /\ \A r \in DIVISORS32 : \A c \in r * cums[s] .. r * cums[s + 1] - 1 :
           lut[Quotients32[r][c]] = s
      /\ \A r \in DIVISORS24 : \A c \in r * cums[s] .. r * cums[s + 1] - 1 :
           lut[Quotients24[r][c]] = s

(* The 14-bit table is complete for every file of less than 2 ^ MANTISSA    *)
(* bytes: the largest share can pay for what is rounded up (model.h:96).    *)
ShorterFileModelled14 == model = 14 => M14!ShorterFileModelled

(* What model.h:19-20 says of every file, the longer ones included: a byte  *)
(* that occurs has a frequency, which the maximum pays for.                 *)
EveryFileModelled14 == model = 14 => M14!EveryFileModelled
=============================================================================
