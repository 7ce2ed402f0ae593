------------------------------ MODULE Rc64Tools -----------------------------
(***************************************************************************)
(* The three programs of the 64-bit coder on one file: rc_encode writes    *)
(* it, rc_decode reads it back, and rc_diag goes through the same symbols  *)
(* beside the encoder.                                                     *)
(***************************************************************************)
EXTENDS RcRoundTrip64

VARIABLES
  enc,          \* the encoder state of rc_diag
  stats         \* its counters

Diag == INSTANCE RcDiag

toolVars == <<allVars, enc, stats>>

ToolsInit == RoundTripInit /\ Diag!DiagInit

EncodeAndDiagnose ==
  \E sym \in Occurring(cum) : EncodeData(sym) /\ Diag!DiagEncode(cum, sym)

FlushBoth == FlushFile /\ Diag!DiagFlush

DecodeFile == (DecInit \/ Decode) /\ UNCHANGED <<enc, stats>>

ToolsNext == EncodeAndDiagnose \/ FlushBoth \/ DecodeFile

ToolsSpec == ToolsInit /\ [][ToolsNext]_toolVars
-----------------------------------------------------------------------------
(* The deferred cache and the counted run of rc_diag are those of the coder *)
(* that writes in place, after every symbol and every carry: the "same      *)
(* algorithm" of the comment in rc_diag.c.                                  *)
DiagFollowsEncoder ==
  enc = [low |-> low, range |-> range, cache |-> cache, ff_count |-> ff_count]

(* The estimate of the report is one word more than rc_encode writes, for   *)
(* every file: the flush counts a cache word that rc_encode has already in   *)
(* its buffer, or never had.  Neither carries nor runs of full words make a *)
(* difference, whatever the comments above the estimate fear.               *)
EstimateIsOneWordHigh == flushed => Diag!StreamWordsApprox = Len(out) + 1
=============================================================================
