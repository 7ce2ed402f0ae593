---------------------------- MODULE RcEncoder64 -----------------------------
(***************************************************************************)
(* The in-place 64-bit Schindler encoder of rc_codec.h, word for word of   *)
(* base B (2^32 in the code): rc_enc_init, rc_enc_step, rc_enc_flush and   *)
(* the symbol loop of rc_encode.c that calls them.                         *)
(*                                                                         *)
(* The encoder never ripples a carry through the buffer in the ordinary    *)
(* case.  It remembers the last emitted word that is not B - 1 (the cache, *)
(* at cache_ptr) and the run of full words after it (ff_start, ff_count);  *)
(* a carry increments the cache in place and clears the run with a memset. *)
(***************************************************************************)
EXTENDS CumTable, Sequences, FiniteSetsExt

CONSTANTS
  B,            \* word base, SCHINDLER_BOTTOM_64
  MAX_SYMBOLS   \* longest file considered

ASSUME BaseAssumption  == B \in Nat /\ TOTAL <= B /\ 2 <= B
ASSUME MaxSymbolsAssumption == MAX_SYMBOLS \in Nat

VARIABLES
  cum,        \* the table m of rc_encode.c
  left,       \* n - i: symbols of the file not coded yet
  low,        \* rc->low
  range,      \* rc->range
  cache,      \* rc->cache
  cache_ptr,  \* rc->cache_ptr: a position of out, or Dummy
  ff_start,   \* rc->ff_start: a position of out, or 0 for NULL
  ff_count,   \* rc->ff_count
  out,        \* the words buf_start .. out_ptr - 1
  flushed     \* rc_enc_flush has run

vars == <<cum, left, low, range, cache, cache_ptr, ff_start, ff_count, out,
          flushed>>

(* cache_ptr before the first safe emit: the static rc_enc_cache_dummy,     *)
(* which is written and never read.                                         *)
Dummy == 0

FullWord == B - 1

Init ==
  /\ cum \in Tables
  /\ left \in 1 .. MAX_SYMBOLS
  /\ low = 0
  /\ range = B * B - 1
  /\ cache = 0
  /\ cache_ptr = Dummy
  /\ ff_start = 0
  /\ ff_count = 0
  /\ out = << >>
  /\ flushed = FALSE

-----------------------------------------------------------------------------
(* Writes through pointers into the buffer; a write through Dummy leaves    *)
(* the buffer alone.                                                        *)
Poke(words, ptr, word) ==
  [ i \in 1 .. Len(words) |-> IF i = ptr THEN word ELSE words[i] ]

(* Faulty variant: the memset starts one word late.                         *)
ClearRunLate(words) ==
  [ i \in 1 .. Len(words) |->
      IF i \in ff_start + 1 .. ff_start + ff_count - 1 THEN 0 ELSE words[i] ]

(* memset(ff_start, 0, ff_count words)                                      *)
ClearRun(words) ==
  [ i \in 1 .. Len(words) |->
      IF i \in ff_start .. ff_start + ff_count - 1 THEN 0 ELSE words[i] ]

(* The backward walk of a wrapped cache: from the word before cache_ptr,    *)
(* full words become 0 until a word that is not full is incremented.        *)
WalkBack(words) ==
  LET below == { i \in 1 .. cache_ptr - 1 : words[i] # FullWord }
      stop  == IF below = {} THEN 0 ELSE Max(below)
  IN  [ i \in 1 .. Len(words) |->
          IF i = stop THEN words[i] + 1
          ELSE IF i \in stop + 1 .. cache_ptr THEN 0
          ELSE words[i] ]

(* The carry patch: what rc_enc_step does to the buffer when low wrapped.   *)
(* The three definitions name the cache, the buffer after the cache update  *)
(* and the buffer after the run of full words was cleared.                  *)
CarriedCache == (cache + 1) % B

(* Faulty variant: the cache is incremented but not written to the buffer   *)
(* (the deferred write of the older, not in-place coder).                   *)
CarriedOutDeferred == ClearRun(out)

CarriedOut ==
  ClearRun(IF CarriedCache = 0 THEN WalkBack(out)
                               ELSE Poke(out, cache_ptr, CarriedCache))

(* The renormalisation that ends rc_enc_step, given the cache, run length   *)
(* and buffer the carry branch left behind.                                 *)
Keep(bottom, width, word, run, words) ==
  /\ width >= B
  /\ low' = bottom
  /\ range' = width
  /\ cache' = word
  /\ ff_count' = run
  /\ out' = words
  /\ UNCHANGED <<cache_ptr, ff_start>>

(* Faulty variant: ff_start is set once and never moved to a new run.       *)
StraddleStaleStart(bottom, width, word, run, words) ==
  /\ width < B
  /\ bottom \div B = FullWord
  /\ ff_start' = IF ff_start = 0 THEN Len(words) + 1 ELSE ff_start
  /\ ff_count' = run + 1
  /\ out' = Append(words, FullWord)
  /\ low' = (bottom % B) * B
  /\ range' = width * B
  /\ cache' = word
  /\ UNCHANGED cache_ptr

Straddle(bottom, width, word, run, words) ==
  /\ width < B
  /\ bottom \div B = FullWord
  /\ ff_start' = IF run = 0 THEN Len(words) + 1 ELSE ff_start
  /\ ff_count' = run + 1
  /\ out' = Append(words, FullWord)
  /\ low' = (bottom % B) * B
  /\ range' = width * B
  /\ cache' = word
  /\ UNCHANGED cache_ptr

(* Faulty variant: the run is not forgotten when a new cache is taken.      *)
SafeEmitKeepsRun(bottom, width, words) ==
  /\ width < B
  /\ bottom \div B # FullWord
  /\ cache' = bottom \div B
  /\ cache_ptr' = Len(words) + 1
  /\ out' = Append(words, bottom \div B)
  /\ low' = (bottom % B) * B
  /\ range' = width * B
  /\ UNCHANGED <<ff_start, ff_count>>

(* Faulty variant: full words are cached like any other word.               *)
SafeEmitAnyWord(bottom, width, words) ==
  /\ width < B
  /\ cache' = bottom \div B
  /\ cache_ptr' = Len(words) + 1
  /\ out' = Append(words, bottom \div B)
  /\ ff_count' = 0
  /\ low' = (bottom % B) * B
  /\ range' = width * B
  /\ UNCHANGED ff_start

SafeEmit(bottom, width, words) ==
  /\ width < B
  /\ bottom \div B # FullWord
  /\ cache' = bottom \div B
  /\ cache_ptr' = Len(words) + 1
  /\ out' = Append(words, bottom \div B)
  /\ ff_count' = 0
  /\ low' = (bottom % B) * B
  /\ range' = width * B
  /\ UNCHANGED ff_start

Renorm(bottom, width, word, run, words) ==
  \/ Keep(bottom, width, word, run, words)
  \/ Straddle(bottom, width, word, run, words)
  \/ SafeEmit(bottom, width, words)

(* Faulty variant: the division of rc_enc_step rounds up.                   *)
ScaleRoundedUp == (range + TOTAL - 1) \div TOTAL

(* The narrowing of rc_enc_step: t, low + step without the wrap-around, and *)
(* the new range.                                                           *)
Scale      == range \div TOTAL
Sum(sym)   == low + Scale * cum[sym]
Width(sym) == Scale * Freq(cum, sym)

(* rc_enc_step on a symbol whose narrowing does not overflow low ...        *)

PlainStep(sym) ==
  /\ Sum(sym) < B * B
  /\ Renorm(Sum(sym), Width(sym), cache, ff_count, out)

(* ... and on one whose narrowing does: low < step in the code.             *)
CarryStep(sym) ==
  /\ Sum(sym) >= B * B
  /\ Renorm(Sum(sym) - B * B, Width(sym), CarriedCache, 0, CarriedOut)

EncodeSymbol(sym) ==
  /\ left > 0
  /\ PlainStep(sym) \/ CarryStep(sym)
  /\ left' = left - 1
  /\ UNCHANGED <<cum, flushed>>

Encode == \E sym \in Occurring(cum) : EncodeSymbol(sym)

Flush ==
  /\ left = 0
  /\ ~ flushed
  /\ flushed' = TRUE
  /\ out' = Poke(out, cache_ptr, cache) \o <<low \div B, low % B>>
  /\ UNCHANGED <<cum, left, low, range, cache, cache_ptr, ff_start, ff_count>>

Next == Encode \/ Flush

Spec == Init /\ [][Next]_vars
-----------------------------------------------------------------------------
(* Types of the encoder state.                                              *)
TypeOK ==
  /\ cum \in Tables
  /\ left \in 0 .. MAX_SYMBOLS
  /\ low \in 0 .. B * B - 1
  /\ range \in B .. B * B - 1
  /\ cache \in 0 .. B - 1
  /\ cache_ptr \in 0 .. Len(out)
  /\ ff_start \in 0 .. Len(out)
  /\ ff_count \in 0 .. Len(out)
  /\ out \in Seq(0 .. B - 1)
  /\ flushed \in BOOLEAN

(* A carry always finds a cache word in the buffer that can absorb it: the  *)
(* cache is not the dummy of a file without a safe emit, and it is not full, *)
(* so that the backward walk of rc_enc_step is never entered.  rc_codec.h   *)
(* claims the first half: "without renorm carry is impossible".             *)
CarryFindsItsCache ==
  \A sym \in Occurring(cum) :
    left > 0 /\ Sum(sym) >= B * B => cache_ptr # Dummy /\ cache # FullWord

(* The cached word and the word in the buffer agree, so that the last write *)
(* of rc_enc_flush changes nothing; while cache_ptr is the dummy the cache  *)
(* is 0 and nothing is lost.                                                *)
CacheMirrorsBuffer ==
  IF cache_ptr = Dummy THEN cache = 0 ELSE out[cache_ptr] = cache

(* As long as low + range exceeds two words a carry can still come, and then *)
(* the buffer is ready for it: the cache is a word that is not full, every   *)
(* word after it is full, and the recorded run is exactly those words.       *)
Headroom == low + range <= B * B

ReadyForCarry ==
  /\ cache_ptr # Dummy
  /\ cache # FullWord
  /\ ff_count = Len(out) - cache_ptr
  /\ ff_count > 0 => ff_start = cache_ptr + 1
  /\ \A i \in cache_ptr + 1 .. Len(out) : out[i] = FullWord

RunIsWholeTail == flushed \/ Headroom \/ ReadyForCarry

(* A word that absorbed a carry absorbs no second one: once a word was      *)
(* changed by a carry, no carry comes before the next safe emit replaces    *)
(* the cache.                                                               *)
OneCarryPerCache ==
  [][ (Headroom /\ cache_ptr' = cache_ptr) => (cache' = cache /\ Headroom') ]_vars

(* The in-place encoder implements the textbook coder that ripples every    *)
(* carry through the whole buffer.                                          *)
Carry == INSTANCE CarryCoder
ImplementsCarryCoder == Carry!Spec

(* It implements the exact coder: read as a number in base B, the words in  *)
(* the buffer and the two words of low are the exact lower end of the       *)
(* interval, however many carries were patched into the buffer.             *)
Number(words) ==
  LET spelled[j \in 0 .. Len(words)] ==
        IF j = 0 THEN 0 ELSE spelled[j - 1] * B + words[j]
  IN  spelled[Len(words)]

Exact ==
  INSTANCE ExactCoder WITH
    val   <- IF flushed THEN Number(out) ELSE Number(out) * (B * B) + low,
    width <- range,
    words <- IF flushed THEN Len(out) - 2 ELSE Len(out),
    final <- flushed
ImplementsExactCoder == Exact!Spec
=============================================================================
