------------------------------- MODULE Model12 ------------------------------
(***************************************************************************)
(* model12_build and the symbol lookup of model_12.h: how the byte counts  *)
(* of a file become the cumulative table of TOTAL = 4096, and how a        *)
(* decoder finds the symbol of a value, through the lookup table or by the *)
(* branchless binary search.                                               *)
(***************************************************************************)
EXTENDS CumTable, FiniteSets, FiniteSetsExt

CONSTANTS
  ALPHABET_BITS,  \* steps of the binary search (8)
  INPUTS          \* the raw_freq tables considered

(* How far the steps of the binary search go, from the last one, which goes *)
(* one symbol, back to one that would pass the whole alphabet.              *)
StepLength[j \in 0 .. ALPHABET_BITS] ==
  IF j = 0 THEN 1 ELSE 2 * StepLength[j - 1]

ASSUME AlphabetBitsAssumption ==
  /\ ALPHABET_BITS \in Nat
  /\ ALPHABET = StepLength[ALPHABET_BITS]
  /\ ALPHABET <= TOTAL
ASSUME InputAssumption == \A f \in INPUTS : f \in [Symbols -> Nat]

VARIABLES
  raw_freq,  \* the byte counts of the file
  scaled,    \* scaled[]
  over,      \* over: how much sum exceeds TOTAL, or what is left of it
  cums,      \* M->cums
  lut,       \* M->lut
  result,    \* the return value
  phase      \* "scale", "take" in the loop of the correction, "assemble",
             \* "done"

vars == <<raw_freq, scaled, over, cums, lut, result, phase>>

ZeroTable == [ s \in 0 .. ALPHABET |-> 0 ]

Init ==
  /\ raw_freq \in INPUTS
  /\ scaled = [ s \in Symbols |-> 0 ]
  /\ over = 0
  /\ cums = ZeroTable
  /\ lut = [ v \in 0 .. TOTAL |-> 0 ]
  /\ result = 0
  /\ phase = "scale"

Active == { s \in Symbols : raw_freq[s] > 0 }

(* The running sums of a table of frequencies.                              *)
Cumulative(f) ==
  LET m[s \in 0 .. ALPHABET] == IF s = 0 THEN 0 ELSE m[s - 1] + f[s - 1]
  IN m

(* The first symbol with the highest count; max_val starts at 1, so that    *)
(* a file in which no byte repeats has max_sym = 0, counted or not.         *)
max_sym ==
  LET max_val == Max({ raw_freq[s] : s \in Symbols })
  IN IF max_val <= 1 THEN 0 ELSE Min({ s \in Symbols : raw_freq[s] = max_val })

(* Faulty variant: a rare symbol may be scaled to nothing.                  *)
AtLeastZero(share) == share

AtLeastOne(share) == IF share = 0 THEN 1 ELSE share

AllScaled ==
  LET total_raw == Cumulative(raw_freq)[ALPHABET]
  IN [ s \in Symbols |->
         IF s \in Active THEN AtLeastOne((raw_freq[s] * TOTAL) \div total_raw)
         ELSE 0 ]

Excess == Cumulative(AllScaled)[ALPHABET] - TOTAL

-----------------------------------------------------------------------------
BuildEmpty ==
  /\ phase = "scale"
  /\ Active = {}
  /\ result' = -1
  /\ phase' = "done"
  /\ UNCHANGED <<raw_freq, scaled, over, cums, lut>>

BuildRle ==
  /\ phase = "scale"
  /\ \E s \in Symbols : Active = {s} /\ cums' = [ ZeroTable EXCEPT ![1] = s ]
  /\ result' = 1
  /\ phase' = "done"
  /\ UNCHANGED <<raw_freq, scaled, over, lut>>

Several ==
  /\ phase = "scale"
  /\ Cardinality(Active) > 1

(* A sum that falls short is filled up at max_sym.                          *)
FillUp ==
  /\ Several
  /\ Excess <= 0
  /\ scaled' = [ AllScaled EXCEPT ![max_sym] = @ - Excess ]
  /\ phase' = "assemble"
  /\ UNCHANGED <<raw_freq, over, cums, lut, result>>

(* An excess is taken from max_sym, all of its frequency if need be.        *)
Absorb ==
  /\ Several
  /\ Excess > 0
  /\ Excess <= AllScaled[max_sym]
  /\ scaled' = [ AllScaled EXCEPT ![max_sym] = @ - Excess ]
  /\ phase' = "assemble"
  /\ UNCHANGED <<raw_freq, over, cums, lut, result>>

(* An excess that is larger is spread.  scaled[max_sym] becomes 1 before it *)
(* is subtracted from over, which therefore keeps its value.                *)
StartTaking ==
  /\ Several
  /\ Excess > AllScaled[max_sym]
  /\ scaled' = [ AllScaled EXCEPT ![max_sym] = 1 ]
  /\ over' = Excess
  /\ phase' = "take"
  /\ UNCHANGED <<raw_freq, cums, lut, result>>

(* One turn of the correction loop.  Its limit of 1000000 turns is out of   *)
(* reach: over is below ALPHABET.                                           *)
Take ==
  /\ phase = "take"
  /\ over > 0
  /\ \E s \in Active : scaled[s] > 1
  /\ LET largest == Max({ scaled[s] : s \in Active })
         kmax    == Min({ s \in Active : scaled[s] = largest })
     IN scaled' = [ scaled EXCEPT ![kmax] = @ - 1 ]
  /\ over' = over - 1
  /\ UNCHANGED <<raw_freq, cums, lut, result, phase>>

StopTaking ==
  /\ phase = "take"
  /\ over = 0 \/ \A s \in Active : scaled[s] <= 1
  /\ phase' = "assemble"
  /\ UNCHANGED <<raw_freq, scaled, over, cums, lut, result>>

(* Faulty variant: the pass stops one value late.                           *)
LookupLate(m, v) ==
  Max({ s \in Symbols : \A t \in 1 .. s : m[t] < v })

(* The entry of the table for v: the pass over v moves on to the next       *)
(* symbol while that symbol starts at or below v.                           *)
Lookup(m, v) ==
  Max({ s \in Symbols : \A t \in 1 .. s : m[t] <= v })

Assemble ==
  /\ phase = "assemble"
  /\ cums' = Cumulative(scaled)
  /\ IF cums'[ALPHABET] = TOTAL
       THEN lut' = [ v \in 0 .. TOTAL |-> Lookup(cums', v) ] /\ result' = 0
       ELSE result' = -2 /\ UNCHANGED lut
  /\ phase' = "done"
  /\ UNCHANGED <<raw_freq, scaled, over>>

Next ==
  \/ BuildEmpty \/ BuildRle \/ FillUp \/ Absorb \/ StartTaking \/ Take
  \/ StopTaking \/ Assemble

Spec == Init /\ [][Next]_vars

(* model12_find without the lookup table: ALPHABET_BITS conditional steps,  *)
(* each half as long as the one before.                                     *)
BinarySearch(m, v) ==
  LET base[j \in 0 .. ALPHABET_BITS] ==
        IF j = 0 THEN 0
        ELSE LET mid == base[j - 1] + StepLength[ALPHABET_BITS - j]
             IN IF v >= m[mid] THEN mid ELSE base[j - 1]
  IN base[ALPHABET_BITS]

-----------------------------------------------------------------------------
Built == phase = "done" /\ result = 0

(* As long as max_sym has more than the excess to give, the table covers    *)
(* the whole scale and every byte of the file has a frequency: what the     *)
(* coders need of it.                                                       *)
EveryByteCoded ==
  phase = "done" /\ Cardinality(Active) > 1 /\ Excess < AllScaled[max_sym] =>
    result = 0 /\ cums \in Tables /\ Active \subseteq Occurring(cums)

(* The two ways to find a symbol agree with each other and with the table:  *)
(* both give the symbol in whose interval the value lies, also next to      *)
(* symbols that have none.                                                  *)
LookupsAgree ==
  Built => \A v \in 0 .. TOTAL - 1 :
    lut[v] = Find(cums, v) /\ BinarySearch(cums, v) = Find(cums, v)

(* Every file with two or more different bytes gets a table in which each   *)
(* of them has a frequency: "If raw_freq[i] > 0 but scaled[i] == 0:         *)
(* scaled[i] = 1 (subtract from max). The sum of scaled is brought to 4096  *)
(* by adjusting the maximum frequency." (model_12.h:19-20; model.h:19-20    *)
(* says the same of 16384)                                                  *)
EveryFileModelled ==
  phase = "done" /\ Cardinality(Active) > 1 =>
    result = 0 /\ Active \subseteq Occurring(cums)
=============================================================================
