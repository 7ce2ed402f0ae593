------------------------------ MODULE CumTable ------------------------------
(***************************************************************************)
(* The static order-0 frequency table every coder of the repository works  *)
(* from (cums_t of model.h, cums12_t of model_12.h): cum[s] is the start   *)
(* of the interval of symbol s, cum[s + 1] its end, cum[ALPHABET] = TOTAL. *)
(***************************************************************************)
EXTENDS Integers

CONSTANTS
  ALPHABET,   \* number of symbols (256 in the code)
  TOTAL       \* frequency scale (2^14 in model.h, 2^12 in model_12.h)

ASSUME AlphabetAssumption == ALPHABET \in Nat \ {0}
ASSUME TotalAssumption    == TOTAL \in Nat \ {0}

Symbols == 0 .. ALPHABET - 1

Freq(cum, s) == cum[s + 1] - cum[s]

(* The tables model_build returns 0 for.  A table that gives one symbol the *)
(* whole scale is not among them: one active symbol makes an RLE file.      *)
Tables ==
  { cum \in [0 .. ALPHABET -> 0 .. TOTAL] :
      /\ cum[0] = 0
      /\ cum[ALPHABET] = TOTAL
      /\ \A s, t \in 0 .. ALPHABET : s <= t => cum[s] <= cum[t]
      /\ \A s \in Symbols : Freq(cum, s) < TOTAL }

(* Faulty variant: a symbol whose frequency was rounded to zero is coded.   *)
AnySymbol(cum) == Symbols

(* The bytes a file with this table can hold: each was counted, so each has *)
(* a positive frequency.                                                    *)
Occurring(cum) == { s \in Symbols : Freq(cum, s) > 0 }

(* The symbol whose interval contains v: the entry lut[v] of the decoder's  *)
(* table, and what the binary search finds.                                 *)
Find(cum, v) ==
  CHOOSE s \in Symbols : cum[s] <= v /\ (v < cum[s + 1] \/ s = ALPHABET - 1)
=============================================================================
