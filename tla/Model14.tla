------------------------------ MODULE Model14 -------------------------------
(***************************************************************************)
(* model_build of model.h: the byte counts of a file scaled to the table   *)
(* of TOTAL = 16384 in single precision.  What it shares with              *)
(* model12_build (the counts, max_sym, the empty and the RLE file) is in   *)
(* Model12.  A float is a natural number over a power of two whose first   *)
(* MANTISSA binary digits alone may differ from zero.                      *)
(***************************************************************************)
EXTENDS Model12

CONSTANT MANTISSA   \* digits of a float (24)

ASSUME MantissaAssumption == MANTISSA \in Nat \ {0}

(* The digits of x in base 2, for x > 0.                                    *)
BitLength(x) == CHOOSE k \in 1 .. 30 : 2 ^ (k - 1) <= x /\ x < 2 ^ k

(* num / den to the nearest whole number, ties to the even one.             *)
NearestEven(num, den) ==
  LET q == num \div den
      twice == 2 * (num % den)
  IN IF twice > den \/ (twice = den /\ q % 2 = 1) THEN q + 1 ELSE q

(* The float nearest to the whole number x.                                 *)
Float(x) ==
  LET unit == IF BitLength(x) <= MANTISSA THEN 1
              ELSE 2 ^ (BitLength(x) - MANTISSA)
  IN NearestEven(x, unit) * unit

total_raw == Cumulative(raw_freq)[ALPHABET]

(* 1.0f / (float)total_raw is recip / 2 ^ recip_exp.                        *)
recip_exp == MANTISSA + BitLength(Float(total_raw) - 1) - 1
recip == NearestEven(2 ^ recip_exp, Float(total_raw))

(* Faulty variant: the share rounded to the nearest number.                 *)
ShareRounded(count) ==
  NearestEven(Float(Float(count) * TOTAL * recip), 2 ^ recip_exp)

(* The conversion to uint16_t cuts the fraction off.                        *)
Share(count) == Float(Float(count) * TOTAL * recip) \div 2 ^ recip_exp

Scaled == [ s \in Symbols |-> IF s \in Active THEN AtLeastOne(Share(raw_freq[s])) ELSE 0 ]

(* How much the shares exceed TOTAL; max_sym pays for it, or is given what  *)
(* is missing, without a check.  The table adds up in 16 bits.              *)
Surplus == Cumulative(Scaled)[ALPHABET] - TOTAL

Wrapped(m) == [ s \in DOMAIN m |-> m[s] % 65536 ]

BuildScaled ==
  /\ Several
  /\ scaled' = [ Scaled EXCEPT ![max_sym] = @ - Surplus ]
  /\ cums' = Wrapped(Cumulative(scaled'))
  /\ lut' = [ v \in 0 .. TOTAL |-> Lookup(cums', v) ]
  /\ result' = IF cums'[ALPHABET] = TOTAL THEN 0 ELSE -2
  /\ phase' = "done"
  /\ UNCHANGED <<raw_freq, over>>

Next14 == BuildEmpty \/ BuildRle \/ BuildScaled

-----------------------------------------------------------------------------
(* A file of fewer bytes than a float counts one by one (16 MB) gets a      *)
(* table that covers the scale, with a frequency for every byte that        *)
(* occurs.  Nothing checks that max_sym can pay the surplus (model.h:96):   *)
(* shares are rounded up to a whole number in such files too, but not       *)
(* enough of them to overdraw the largest.                                  *)
ShorterFileModelled ==
  phase = "done" /\ Cardinality(Active) > 1 /\ total_raw < 2 ^ MANTISSA =>
    /\ result = 0
    /\ \A s \in Symbols : cums[s] <= cums[s + 1]
    /\ Active \subseteq Occurring(cums)
=============================================================================
