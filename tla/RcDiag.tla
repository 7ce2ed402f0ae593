------------------------------- MODULE RcDiag -------------------------------
(***************************************************************************)
(* rc_diag.c: an encoder "with the same algorithm as rc_encode" that       *)
(* writes nothing.  Its carry goes to a deferred cache, its run of full    *)
(* words is a bare number, and it counts the branches it takes to estimate *)
(* how many words rc_encode would write.                                   *)
(***************************************************************************)
EXTENDS CumTable

CONSTANT B      \* word base, SCHINDLER_BOTTOM_64

VARIABLES
  enc,          \* diag_enc_t: low, range, cache, ff_count
  stats         \* diag_stats_t: the counters the report is made of

diagVars == <<enc, stats>>

DiagInit ==
  /\ enc = [low |-> 0, range |-> B * B - 1, cache |-> 0, ff_count |-> 0]
  /\ stats = [carry_hits |-> 0, renorm_hits |-> 0, straddle_hits |-> 0,
              straddle_flushed |-> 0, straddle_max_chain |-> 0,
              flush_words |-> 0]

(* The longest run seen so far, updated wherever a run grows or ends.       *)
Longest(run) ==
  IF run > stats.straddle_max_chain THEN run ELSE stats.straddle_max_chain

(* Faulty variant: a carry forgets the run without counting its words.      *)
AfterCarryUncounted(e, c, hit) ==
  IF hit
    THEN <<[e EXCEPT !.cache = (@ + 1) % B, !.ff_count = 0],
           [c EXCEPT !.carry_hits = @ + 1]>>
    ELSE <<e, c>>

(* The carry branch: the run becomes zeros that are counted as written.     *)
AfterCarry(e, c, hit) ==
  IF hit
    THEN <<[e EXCEPT !.cache = (@ + 1) % B, !.ff_count = 0],
           [c EXCEPT !.carry_hits = @ + 1,
                     !.straddle_flushed = @ + e.ff_count,
                     !.straddle_max_chain = Longest(e.ff_count)]>>
    ELSE <<e, c>>

(* Faulty variant: the run survives the emission of the cache.              *)
AfterRenormKeepsRun(e, c) ==
  LET word == e.low \div B
      next == [e EXCEPT !.low = (@ % B) * B, !.range = @ * B]
      hit  == [c EXCEPT !.renorm_hits = @ + 1]
  IN IF e.range >= B THEN <<e, c>>
     ELSE IF word = B - 1
       THEN <<[next EXCEPT !.ff_count = @ + 1],
              [hit EXCEPT !.straddle_hits = @ + 1,
                          !.straddle_max_chain = Longest(e.ff_count + 1)]>>
       ELSE <<[next EXCEPT !.cache = word],
              [hit EXCEPT !.straddle_flushed = @ + e.ff_count,
                          !.straddle_max_chain = Longest(e.ff_count)]>>

(* The renormalisation: a full word joins the run, any other one ends it    *)
(* and becomes the cache.                                                   *)
AfterRenorm(e, c) ==
  LET word == e.low \div B
      next == [e EXCEPT !.low = (@ % B) * B, !.range = @ * B]
      hit  == [c EXCEPT !.renorm_hits = @ + 1]
  IN IF e.range >= B THEN <<e, c>>
     ELSE IF word = B - 1
       THEN <<[next EXCEPT !.ff_count = @ + 1],
              [hit EXCEPT !.straddle_hits = @ + 1,
                          !.straddle_max_chain = Longest(e.ff_count + 1)]>>
       ELSE <<[next EXCEPT !.cache = word, !.ff_count = 0],
              [hit EXCEPT !.straddle_flushed = @ + e.ff_count,
                          !.straddle_max_chain = Longest(e.ff_count)]>>

(* diag_encode_step                                                         *)
DiagEncode(cum, sym) ==
  LET t       == enc.range \div TOTAL
      bottom  == enc.low + t * cum[sym]
      narrow  == [enc EXCEPT !.low = bottom % (B * B),
                             !.range = t * Freq(cum, sym)]
      carried == AfterCarry(narrow, stats, bottom >= B * B)
      done    == AfterRenorm(carried[1], carried[2])
  IN enc' = done[1] /\ stats' = done[2]

(* diag_enc_flush: "cache + ff_count + 2 words of low"                      *)
DiagFlush ==
  /\ stats' = [stats EXCEPT !.flush_words = 1 + enc.ff_count + 2]
  /\ UNCHANGED enc

(* The estimate of the report, in words.                                    *)
StreamWordsApprox ==
  stats.renorm_hits - stats.straddle_hits + stats.straddle_flushed
    + stats.flush_words
=============================================================================
