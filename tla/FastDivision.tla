---------------------------- MODULE FastDivision ----------------------------
(***************************************************************************)
(* The two divisions by table of model_12.h: rc_fast_div of the 32-bit     *)
(* decoder built with USE_LUT_DIV, and rc_fast_div24 of the RC24 decoders. *)
(* The widths are constants; shifts multiply and divide by powers of two.  *)
(***************************************************************************)
EXTENDS Integers, FiniteSetsExt

CONSTANTS
  CODE_BITS,   \* width of code and r in rc_fast_div (32)
  IDX_BITS,    \* RCDIV_IDX_BITS (8)
  PREC,        \* RCDIV_PREC (48)
  LUT24_BITS   \* precision of the reciprocals of rc_fast_div24 (64)

ASSUME WidthAssumption ==
  /\ CODE_BITS \in Nat /\ IDX_BITS \in Nat /\ PREC \in Nat /\ LUT24_BITS \in Nat
  /\ IDX_BITS <= CODE_BITS /\ CODE_BITS + IDX_BITS <= PREC

PowerOfTwo[j \in 0 .. PREC + LUT24_BITS] ==
  IF j = 0 THEN 1 ELSE 2 * PowerOfTwo[j - 1]

IDX_SHIFT == CODE_BITS - IDX_BITS

(* RC_CLZ32 for x > 0                                                       *)
LeadingZeros(x) ==
  Max({ k \in 0 .. CODE_BITS : x * PowerOfTwo[k] < PowerOfTwo[CODE_BITS] })

(* g_rc_div_lut[idx]: the reciprocal of the upper end of the bucket idx.    *)
rc_div_lut(idx) == PowerOfTwo[PREC] \div ((idx + 1) * PowerOfTwo[IDX_SHIFT])

(* The estimate v1 of rc_fast_div after its Newton step.                    *)
NewtonEstimate(code, r) ==
  LET k     == LeadingZeros(r)
      mult  == rc_div_lut((r * PowerOfTwo[k]) \div PowerOfTwo[IDX_SHIFT])
      scale == PowerOfTwo[PREC - k]
      v0    == (code * mult) \div scale
      err   == code - v0 * r
  IN v0 + (err * mult) \div scale

(* Faulty variant: the Newton step without the upward correction.           *)
rc_fast_div_uncorrected(code, r) == NewtonEstimate(code, r)

rc_fast_div(code, r) ==
  LET v1 == NewtonEstimate(code, r)
  IN v1 + (IF (v1 + 1) * r <= code THEN 1 ELSE 0)

(* g_rc_div24_lut[r]: the code computes (2^64 - 1) / r + 1.                 *)
rc_div24_lut(r) == (PowerOfTwo[LUT24_BITS] - 1) \div r + 1

rc_fast_div24(code, r) == (code * rc_div24_lut(r)) \div PowerOfTwo[LUT24_BITS]
=============================================================================
