-------------------------- MODULE Rc64Tools_proofs --------------------------
(***************************************************************************)
(* Proofs about the 64-bit coder for every word base, every scale that     *)
(* fits in a word, every table and every file.                             *)
(*                                                                         *)
(* The first part is about the in-place encoder: the bookkeeping           *)
(* invariant, that a carry finds its cache, and that the encoder           *)
(* implements the carry-rippling coder step for step.  The second is about *)
(* the three programs: rc_decode gives back what rc_encode was given and   *)
(* reads exactly the file, and rc_diag follows rc_encode step for step.    *)
(***************************************************************************)
EXTENDS Rc64Tools, CodedInterval

(* The inductive invariant: types, the cache in the buffer, the tail, and   *)
(* that the flush comes last.                                               *)
IInv ==
  /\ TypeOK
  /\ CacheMirrorsBuffer
  /\ RunIsWholeTail
  /\ flushed => left = 0

-----------------------------------------------------------------------------
(* The constants as the proofs use them.                                    *)
LEMMA Constants ==
  /\ B \in Nat \ {0} /\ TOTAL \in Nat \ {0} /\ TOTAL <= B
  /\ B * B \in Nat \ {0} /\ B < B * B /\ B <= B * B - 1
  /\ FullWord \in 0 .. B - 1
<1>1. B \in Nat /\ 2 <= B /\ TOTAL \in Nat \ {0} /\ TOTAL <= B
  BY BaseAssumption, TotalAssumption
<1>2. 2 * B <= B * B
  BY <1>1, MulMonotone, SMTT(30)
<1> QED
  BY <1>1, <1>2, SMTT(30) DEF FullWord

(* One narrowing: the new interval lies inside the old one and is not empty.*)
(* This is what makes one renormalisation enough: t >= 1, so range >= 1.    *)
LEMMA Narrowing ==
  ASSUME TypeOK, NEW sym \in Occurring(cum)
  PROVE  /\ Scale \in Nat /\ Scale >= 1
         /\ Sum(sym) \in Nat /\ low <= Sum(sym)
         /\ Width(sym) \in Nat /\ 1 <= Width(sym) /\ Width(sym) <= range
         /\ Sum(sym) + Width(sym) <= low + range
<1>1. /\ sym \in 0 .. ALPHABET - 1 /\ sym + 1 \in 0 .. ALPHABET
      /\ sym \in 0 .. ALPHABET
      /\ cum \in [0 .. ALPHABET -> 0 .. TOTAL]
      /\ Freq(cum, sym) >= 1
  BY AlphabetAssumption, Constants, SMTT(30)
     DEF TypeOK, Occurring, Symbols, Tables, Freq
<1>2. /\ cum[sym] \in Nat /\ cum[sym + 1] \in Nat /\ cum[sym + 1] <= TOTAL
      /\ Freq(cum, sym) \in Nat /\ Freq(cum, sym) = cum[sym + 1] - cum[sym]
  BY <1>1, Constants DEF Freq
<1>3. range \in Nat /\ TOTAL <= range /\ low \in Nat
  BY Constants DEF TypeOK
<1>4. Scale \in Nat /\ Scale >= 1 /\ TOTAL * Scale <= range
  BY <1>3, Constants, EuclideanDivision, DivPositive, SMTT(30) DEF Scale
<1> DEFINE t == Scale
           c == cum[sym]
           d == cum[sym + 1]
<1>5. t * d <= t * TOTAL /\ t * d \in Nat
  BY <1>2, <1>4, Constants, MulMonotone
<1>6. t * TOTAL <= range
  BY <1>4, Constants, SMTT(30)
<1>7. Width(sym) = t * d - t * c
  BY <1>2, <1>4, SMTT(30) DEF Width
<1>8. Sum(sym) = low + t * c /\ t * c \in Nat
  BY <1>2, <1>4, <1>3, SMTT(30) DEF Sum
<1>9. Width(sym) \in Nat /\ Width(sym) >= 1
  BY <1>1, <1>2, <1>4, SMTT(30) DEF Width
<1>a. t * TOTAL \in Nat
  BY <1>4, Constants, SMTT(30)
<1> HIDE DEF t, c, d
<1> QED
  BY <1>3, <1>4, <1>5, <1>6, <1>7, <1>8, <1>9, <1>a, SMTT(30)

-----------------------------------------------------------------------------
(* The arithmetic of one renormalisation: the top word of bottom leaves, the *)
(* rest moves up.  If the top word is full, the headroom is kept.           *)
LEMMA Shift ==
  ASSUME NEW bottom \in 0 .. B * B - 1, NEW width \in 1 .. B - 1
  PROVE  /\ bottom \div B \in 0 .. B - 1
         /\ (bottom % B) * B \in 0 .. B * B - 1
         /\ width * B \in B .. B * B - 1
         /\ bottom \div B = FullWord /\ bottom + width <= B * B
              => (bottom % B) * B + width * B <= B * B
<1> DEFINE q == bottom \div B
           r == bottom % B
<1>1. /\ bottom \in Nat /\ width \in Nat /\ B \in Nat \ {0} /\ B * B \in Nat
      /\ bottom < B * B
  BY Constants
<1>2. q \in Nat /\ r \in 0 .. B - 1 /\ bottom = B * q + r
  BY <1>1, EuclideanDivision
<1>3. q < B
  BY <1>1, DivSmall
<1> HIDE DEF q, r
<1>4. r * B \in Nat /\ r * B <= (B - 1) * B
  BY <1>1, <1>2, SMTT(30)
<1>5. width * B \in Nat /\ width * B <= (B - 1) * B /\ B <= width * B
  BY <1>1, SMTT(30)
<1>6. (B - 1) * B = B * B - B /\ B * B - B < B * B
  BY <1>1, SMTT(30)
<1>7. ASSUME q = FullWord, bottom + width <= B * B
      PROVE  r * B + width * B <= B * B
  <2>1. B * q = B * B - B
    BY <1>1, <1>7, SMTT(30) DEF FullWord
  <2>2. r + width <= B
    BY <1>1, <1>2, <1>7, <2>1, SMTT(30)
  <2>3. (r + width) * B <= B * B
    BY <1>1, <1>2, <2>2, SMTT(30)
  <2> QED
    BY <1>1, <1>2, <2>3, SMTT(30)
<1> QED
  BY <1>1, <1>2, <1>3, <1>4, <1>5, <1>6, <1>7 DEF q, r

(* The renormalisation step, in either case of the carry test: it restores  *)
(* the invariant from a cache, run and buffer that are consistent and that, *)
(* unless the headroom is already there, are ready for a carry.             *)
LEMMA RenormKeepsInvariant ==
  ASSUME TypeOK,
         NEW bottom \in 0 .. B * B - 1, NEW width \in 1 .. B * B - 1,
         NEW word \in 0 .. B - 1, NEW run \in 0 .. Len(out),
         NEW words \in Seq(0 .. B - 1), Len(words) = Len(out),
         IF cache_ptr = Dummy THEN word = 0 ELSE words[cache_ptr] = word,
         \/ bottom + width <= B * B
         \/ /\ cache_ptr # Dummy
            /\ word # FullWord
            /\ run = Len(out) - cache_ptr
            /\ run > 0 => ff_start = cache_ptr + 1
            /\ \A i \in cache_ptr + 1 .. Len(out) : words[i] = FullWord,
         Renorm(bottom, width, word, run, words),
         left' \in 0 .. MAX_SYMBOLS, ~ flushed, UNCHANGED <<cum, flushed>>
  PROVE  IInv'
<1> DEFINE top == bottom \div B
<1>1. Len(out) \in Nat /\ cache_ptr \in 0 .. Len(out) /\ ff_start \in 0 .. Len(out)
  BY DEF TypeOK
<1>2. CASE Keep(bottom, width, word, run, words)
  <2>1. TypeOK'
    BY <1>1, <1>2, Constants DEF TypeOK, Keep
  <2>2. CacheMirrorsBuffer'
    BY <1>1, <1>2 DEF CacheMirrorsBuffer, Keep
  <2>3. RunIsWholeTail'
    BY <1>1, <1>2 DEF RunIsWholeTail, Headroom, ReadyForCarry, Keep
  <2> QED
    BY <2>1, <2>2, <2>3 DEF IInv
<1>3. CASE Straddle(bottom, width, word, run, words)
  <2>1. /\ width \in 1 .. B - 1 /\ bottom \div B = FullWord
        /\ FullWord \in 0 .. B - 1
    BY <1>3, Constants DEF Straddle
  <2>r. /\ low' = (bottom % B) * B /\ range' = width * B
        /\ cache' = word /\ cache_ptr' = cache_ptr
        /\ ff_start' \in 0 .. Len(out) + 1
        /\ ff_count' \in 0 .. Len(out) + 1
    BY <1>1, <1>3 DEF Straddle
  <2>s. /\ low' \in 0 .. B * B - 1 /\ range' \in B .. B * B - 1
        /\ bottom + width <= B * B => low' + range' <= B * B
    BY <2>1, <2>r, Shift, Constants
  <2>2. /\ out' = Append(words, FullWord) /\ Len(out') = Len(out) + 1
        /\ out' \in Seq(0 .. B - 1)
        /\ out'[Len(out) + 1] = FullWord
        /\ \A i \in 1 .. Len(out) : out'[i] = words[i]
    BY <1>3, <2>1 DEF Straddle
  <2>3. TypeOK'
    <3>1. /\ cum' \in Tables /\ flushed' \in BOOLEAN
          /\ cache' \in 0 .. B - 1 /\ cache_ptr' \in 0 .. Len(out')
          /\ ff_start' \in 0 .. Len(out') /\ ff_count' \in 0 .. Len(out')
      BY <1>1, <2>r, <2>s, <2>2 DEF TypeOK
    <3> QED
      BY <3>1, <2>s, <2>2 DEF TypeOK
  <2>4. CacheMirrorsBuffer'
    BY <1>1, <1>3, <2>2 DEF CacheMirrorsBuffer, Straddle, Dummy
  <2>5. CASE bottom + width <= B * B
    <3>1. IInv'
      BY <2>s, <2>3, <2>4, <2>5 DEF IInv, RunIsWholeTail, Headroom
    <3> QED
      BY <3>1
  <2>6. CASE ~ (bottom + width <= B * B)
    <3>1. /\ cache_ptr # Dummy /\ word # FullWord
          /\ run \in Nat
          /\ run = Len(out) - cache_ptr
          /\ run > 0 => ff_start = cache_ptr + 1
          /\ \A i \in cache_ptr + 1 .. Len(out) : words[i] = FullWord
      BY <1>1, <2>6
    <3>2. /\ cache_ptr' = cache_ptr /\ cache' = word /\ ff_count' = run + 1
          /\ ff_start' = IF run = 0 THEN Len(out) + 1 ELSE ff_start
      BY <1>3 DEF Straddle
    <3>3. ASSUME NEW i \in cache_ptr + 1 .. Len(out) + 1
          PROVE  out'[i] = FullWord
      <4>1. CASE i = Len(out) + 1
        BY <2>2, <4>1
      <4>2. CASE i # Len(out) + 1
        <5>1. i \in cache_ptr + 1 .. Len(out) /\ i \in 1 .. Len(out)
          BY <1>1, <4>2
        <5> QED
          BY <2>2, <3>1, <5>1
      <4> QED
        BY <4>1, <4>2
    <3>4. /\ ff_count' = Len(out') - cache_ptr'
          /\ ff_start' = cache_ptr' + 1
      BY <1>1, <2>2, <3>1, <3>2, SMTT(60)
    <3>5. ReadyForCarry'
      BY <2>2, <3>1, <3>2, <3>3, <3>4 DEF ReadyForCarry, Dummy, FullWord
    <3> QED
      BY <2>3, <2>4, <3>5 DEF IInv, RunIsWholeTail
  <2> QED
    BY <2>5, <2>6
<1>4. CASE SafeEmit(bottom, width, words)
  <2>1. /\ width \in 1 .. B - 1 /\ bottom \div B # FullWord
    BY <1>4, Constants DEF SafeEmit
  <2>s. /\ top \in 0 .. B - 1 /\ cache' = top
        /\ low' \in 0 .. B * B - 1 /\ range' \in B .. B * B - 1
        /\ out' = Append(words, top)
    BY <1>4, <2>1, Shift, Constants DEF SafeEmit
  <2> HIDE DEF top
  <2>r. ff_start' = ff_start /\ ff_count' = 0 /\ cache_ptr' = Len(out) + 1
    BY <1>4 DEF SafeEmit
  <2>2. /\ Len(out') = Len(out) + 1
        /\ out' \in Seq(0 .. B - 1)
        /\ out'[Len(out) + 1] = top
    BY <2>s, AppendFacts
  <2>3. TypeOK'
    <3>1. cum' \in Tables /\ flushed' \in BOOLEAN
      BY DEF TypeOK
    <3>2. /\ cache_ptr' \in 0 .. Len(out')
          /\ ff_start' \in 0 .. Len(out') /\ ff_count' \in 0 .. Len(out')
      BY <1>1, <2>r, <2>2
    <3> QED
      BY <3>1, <3>2, <2>s, <2>2 DEF TypeOK
  <2>4. CacheMirrorsBuffer'
    BY <1>1, <2>r, <2>s, <2>2 DEF CacheMirrorsBuffer, Dummy
  <2>5. ReadyForCarry'
    <3>1. cache' # FullWord /\ cache_ptr' # Dummy
      BY <1>1, <2>1, <2>r, <2>s DEF Dummy, top
    <3>2. /\ ff_count' = Len(out') - cache_ptr' /\ ~ (ff_count' > 0)
          /\ cache_ptr' + 1 .. Len(out') = {}
      BY <1>1, <2>r, <2>s, <2>2, SMTT(60)
    <3> QED
      BY <3>1, <3>2 DEF ReadyForCarry, Dummy, FullWord
  <2> QED
    BY <2>3, <2>4, <2>5 DEF IInv, RunIsWholeTail
<1> QED
  BY <1>2, <1>3, <1>4 DEF Renorm

-----------------------------------------------------------------------------
(* The carry patch, when the buffer is ready for it, is the ripple of the   *)
(* textbook coder: the cache takes the carry, the full words after it clear.*)
LEMMA CarryPatch ==
  ASSUME TypeOK, CacheMirrorsBuffer, ReadyForCarry
  PROVE  /\ CarriedCache = cache + 1 /\ CarriedCache \in 0 .. B - 1
         /\ CarriedOut \in Seq(0 .. B - 1) /\ Len(CarriedOut) = Len(out)
         /\ CarriedOut[cache_ptr] = CarriedCache
         /\ CarriedOut = [ i \in 1 .. Len(out) |->
                             IF i < cache_ptr THEN out[i]
                             ELSE IF i = cache_ptr THEN cache + 1 ELSE 0 ]
         /\ CarriedOut = Carry!Ripple(out)
<1>1. /\ Len(out) \in Nat /\ cache_ptr \in 1 .. Len(out)
      /\ out[cache_ptr] = cache /\ cache \in 0 .. B - 2
      /\ ff_start \in Nat /\ ff_count = Len(out) - cache_ptr
      /\ ff_count > 0 => ff_start = cache_ptr + 1
      /\ out \in Seq(0 .. B - 1)
  BY Constants DEF TypeOK, CacheMirrorsBuffer, ReadyForCarry, Dummy, FullWord
<1>2. CarriedCache = cache + 1 /\ CarriedCache # 0 /\ CarriedCache \in 0 .. B - 1
  BY <1>1, Constants, SMTT(60) DEF CarriedCache
<1> DEFINE patched(i) == IF i < cache_ptr THEN out[i]
                         ELSE IF i = cache_ptr THEN cache + 1 ELSE 0
<1>3. CarriedOut = [ i \in 1 .. Len(out) |-> patched(i) ]
  <2>1. CarriedOut = ClearRun(Poke(out, cache_ptr, cache + 1))
    BY <1>2 DEF CarriedOut
  <2>2. /\ Len(Poke(out, cache_ptr, cache + 1)) = Len(out)
        /\ \A i \in 1 .. Len(out) : Poke(out, cache_ptr, cache + 1)[i]
                                    = IF i = cache_ptr THEN cache + 1 ELSE out[i]
    BY <1>1 DEF Poke
  <2>3. ASSUME NEW i \in 1 .. Len(out)
        PROVE  i \in ff_start .. ff_start + ff_count - 1 <=> i > cache_ptr
    BY <1>1
  <2> HIDE DEF patched
  <2>4. CarriedOut = [ i \in 1 .. Len(out) |->
                         IF i \in ff_start .. ff_start + ff_count - 1 THEN 0
                         ELSE Poke(out, cache_ptr, cache + 1)[i] ]
    BY <2>1, <2>2 DEF ClearRun
  <2>5. ASSUME NEW i \in 1 .. Len(out)
        PROVE  (IF i \in ff_start .. ff_start + ff_count - 1 THEN 0
                ELSE Poke(out, cache_ptr, cache + 1)[i]) = patched(i)
    BY <1>1, <2>2, <2>3 DEF patched
  <2> QED
    BY <2>4, <2>5
<1>4. Carry!Ripple(out) = [ i \in 1 .. Len(out) |-> patched(i) ]
  <2>1. ASSUME NEW i \in 1 .. Len(out)
        PROVE  (IF \A j \in i + 1 .. Len(out) : out[j] = B - 1
                  THEN IF out[i] = B - 1 THEN 0 ELSE out[i] + 1
                  ELSE out[i]) = patched(i)
    <3>1. CASE i < cache_ptr
      <4>1. cache_ptr \in i + 1 .. Len(out) /\ out[cache_ptr] # B - 1
        BY <1>1, <3>1, Constants
      <4> QED
        BY <3>1, <4>1
    <3>2. CASE i >= cache_ptr
      <4>1. \A j \in i + 1 .. Len(out) : out[j] = B - 1
        BY <1>1, <3>2 DEF ReadyForCarry, FullWord
      <4>2. i > cache_ptr => out[i] = B - 1
        BY <1>1, <3>2 DEF ReadyForCarry, FullWord
      <4>3. i = cache_ptr => out[i] # B - 1
        BY <1>1, Constants
      <4> QED
        BY <1>1, <3>2, <4>1, <4>2, <4>3
    <3> QED
      BY <1>1, <3>1, <3>2
  <2> HIDE DEF patched
  <2> QED
    BY <2>1 DEF Carry!Ripple
<1>5. ASSUME NEW i \in 1 .. Len(out) PROVE patched(i) \in 0 .. B - 1
  BY <1>1, Constants
<1>6. CarriedOut \in Seq(0 .. B - 1) /\ Len(CarriedOut) = Len(out)
  BY <1>1, <1>3, <1>5, RebuiltWords
<1>7. CarriedOut[cache_ptr] = cache + 1
  BY <1>1, <1>3
<1> QED
  BY <1>2, <1>3, <1>4, <1>6, <1>7

-----------------------------------------------------------------------------
LEMMA InitInvariant == Init => IInv
<1> SUFFICES ASSUME Init PROVE IInv
  OBVIOUS
<1>1. TypeOK
  <2>1. /\ low \in 0 .. B * B - 1 /\ range \in B .. B * B - 1
        /\ cache \in 0 .. B - 1
    BY Constants DEF Init
  <2>2. /\ out \in Seq(0 .. B - 1) /\ Len(out) = 0
        /\ cache_ptr = 0 /\ ff_start = 0 /\ ff_count = 0
    BY DEF Init, Dummy
  <2>3. cum \in Tables /\ left \in 0 .. MAX_SYMBOLS /\ flushed \in BOOLEAN
    <3>1. left \in 1 .. MAX_SYMBOLS
      BY DEF Init
    <3>2. left \in 0 .. MAX_SYMBOLS
      BY <3>1, MaxSymbolsAssumption
    <3> QED
      BY <3>2 DEF Init
  <2> QED
    BY <2>1, <2>2, <2>3 DEF TypeOK
<1>2. CacheMirrorsBuffer
  BY DEF Init, CacheMirrorsBuffer
<1>3. Headroom
  BY Constants DEF Init, Headroom
<1> QED
  BY <1>1, <1>2, <1>3 DEF Init, IInv, RunIsWholeTail

(* Where a narrowing can carry, there is no headroom, so the buffer is      *)
(* ready for the carry.                                                     *)
LEMMA CarryMeansReady ==
  ASSUME IInv, ~ flushed, NEW sym \in Occurring(cum), Sum(sym) >= B * B
  PROVE  ReadyForCarry /\ ~ Headroom
<1>1. ~ Headroom
  BY Narrowing, Constants DEF IInv, TypeOK, Headroom
<1> QED
  BY <1>1 DEF IInv, RunIsWholeTail

LEMMA PlainStepInvariant ==
  ASSUME IInv, ~ flushed, NEW sym \in Occurring(cum), PlainStep(sym),
         left' \in 0 .. MAX_SYMBOLS, UNCHANGED <<cum, flushed>>
  PROVE  IInv'
<1>1. /\ Sum(sym) \in 0 .. B * B - 1 /\ Width(sym) \in 1 .. B * B - 1
      /\ Sum(sym) + Width(sym) <= low + range
      /\ low + range \in Nat
  BY Narrowing, Constants, SMTT(60) DEF IInv, TypeOK, PlainStep
<1>2. /\ cache \in 0 .. B - 1 /\ ff_count \in 0 .. Len(out)
      /\ out \in Seq(0 .. B - 1)
      /\ IF cache_ptr = Dummy THEN cache = 0 ELSE out[cache_ptr] = cache
  BY DEF IInv, TypeOK, CacheMirrorsBuffer
<1>3. \/ Sum(sym) + Width(sym) <= B * B
      \/ ReadyForCarry
  BY <1>1, Constants DEF IInv, RunIsWholeTail, Headroom
<1>4. Renorm(Sum(sym), Width(sym), cache, ff_count, out)
  BY DEF PlainStep
<1> HIDE DEF Sum, Width
<1> QED
  BY <1>1, <1>2, <1>3, <1>4, RenormKeepsInvariant DEF IInv, ReadyForCarry

LEMMA CarryStepInvariant ==
  ASSUME IInv, ~ flushed, NEW sym \in Occurring(cum), CarryStep(sym),
         left' \in 0 .. MAX_SYMBOLS, UNCHANGED <<cum, flushed>>
  PROVE  IInv'
<1>1. /\ Sum(sym) - B * B \in 0 .. B * B - 1
      /\ Width(sym) \in 1 .. B * B - 1
      /\ (Sum(sym) - B * B) + Width(sym) <= B * B
  <2>1. /\ Sum(sym) \in Nat /\ Width(sym) \in Nat /\ 1 <= Width(sym)
        /\ Width(sym) <= range /\ Sum(sym) + Width(sym) <= low + range
    BY Narrowing DEF IInv
  <2>2. /\ low \in Nat /\ low < B * B /\ range \in Nat /\ range < B * B
        /\ Sum(sym) >= B * B /\ B * B \in Nat
    BY Constants DEF IInv, TypeOK, CarryStep
  <2> HIDE DEF Sum, Width
  <2> DEFINE BB == B * B
  <2> HIDE DEF BB
  <2>3. /\ Sum(sym) - BB \in 0 .. BB - 1
        /\ Width(sym) \in 1 .. BB - 1
        /\ (Sum(sym) - BB) + Width(sym) <= BB
    BY <2>1, <2>2 DEF BB
  <2> QED
    BY <2>3 DEF BB
<1>2. ReadyForCarry /\ Sum(sym) >= B * B
  BY CarryMeansReady DEF CarryStep
<1>3. /\ CarriedCache \in 0 .. B - 1
      /\ CarriedOut \in Seq(0 .. B - 1) /\ Len(CarriedOut) = Len(out)
      /\ cache_ptr # Dummy /\ CarriedOut[cache_ptr] = CarriedCache
  BY <1>2, CarryPatch DEF IInv, ReadyForCarry
<1>4. 0 \in 0 .. Len(out)
  BY DEF IInv, TypeOK
<1>5. Renorm(Sum(sym) - B * B, Width(sym), CarriedCache, 0, CarriedOut)
  BY DEF CarryStep
<1> QED
  BY <1>1, <1>3, <1>4, <1>5, RenormKeepsInvariant DEF IInv

LEMMA FlushInvariant == IInv /\ Flush => IInv'
<1> SUFFICES ASSUME IInv, Flush PROVE IInv'
  OBVIOUS
<1> DEFINE hi == low \div B
           lo == low % B
           words == Poke(out, cache_ptr, cache)
<1>1. hi \in 0 .. B - 1 /\ lo \in 0 .. B - 1
  <2>1. low \in Nat /\ low < B * B /\ B \in Nat \ {0}
    BY Constants DEF IInv, TypeOK
  <2>2. low \div B \in Nat /\ low % B \in 0 .. B - 1
    BY <2>1, EuclideanDivision
  <2>3. low \div B < B
    BY <2>1, DivSmall
  <2> QED
    BY <2>1, <2>2, <2>3
<1>2. words \in Seq(0 .. B - 1) /\ Len(words) = Len(out)
  <2>0. out \in Seq(0 .. B - 1) /\ cache \in 0 .. B - 1
    BY DEF IInv, TypeOK
  <2>1. \A i \in 1 .. Len(out) : out[i] \in 0 .. B - 1
    BY <2>0, ElementFacts
  <2>2. words = [ i \in 1 .. Len(out) |-> words[i] ]
    BY DEF Poke
  <2>3. \A i \in 1 .. Len(out) : words[i] \in 0 .. B - 1
    BY <2>0, <2>1 DEF Poke
  <2> HIDE DEF words
  <2> QED
    BY <2>0, <2>2, <2>3, RebuiltWords
<1>3. cache_ptr # Dummy => words[cache_ptr] = cache
  BY DEF IInv, TypeOK, Poke, Dummy
<1>4. out' = words \o <<hi, lo>>
  BY DEF Flush
<1> HIDE DEF hi, lo, words
<1>5. <<hi, lo>> \in Seq(0 .. B - 1) /\ Len(<<hi, lo>>) = 2
  BY <1>1
<1>6. /\ out' \in Seq(0 .. B - 1) /\ Len(out') = Len(out) + 2
      /\ \A i \in 1 .. Len(out) : out'[i] = words[i]
  BY <1>2, <1>4, <1>5
<1>7. TypeOK'
  BY <1>6 DEF IInv, TypeOK, Flush
<1>8. CacheMirrorsBuffer'
  BY <1>3, <1>6 DEF IInv, TypeOK, CacheMirrorsBuffer, Flush, Dummy
<1> QED
  BY <1>7, <1>8 DEF IInv, RunIsWholeTail, Flush

LEMMA NextInvariant == IInv /\ [Next]_vars => IInv'
<1> SUFFICES ASSUME IInv, [Next]_vars PROVE IInv'
  OBVIOUS
<1>1. CASE Encode
  <2>1. PICK sym \in Occurring(cum) : EncodeSymbol(sym)
    BY <1>1 DEF Encode
  <2>2. /\ ~ flushed /\ left' \in 0 .. MAX_SYMBOLS /\ UNCHANGED <<cum, flushed>>
    BY <2>1, MaxSymbolsAssumption DEF EncodeSymbol, IInv, TypeOK
  <2>3. PlainStep(sym) \/ CarryStep(sym)
    BY <2>1 DEF EncodeSymbol
  <2> QED
    BY <2>3, <2>2, PlainStepInvariant, CarryStepInvariant
<1>2. CASE Flush
  BY <1>2, FlushInvariant
<1>3. CASE UNCHANGED vars
  <2>1. TypeOK'
    BY <1>3 DEF IInv, TypeOK, vars
  <2>2. CacheMirrorsBuffer' /\ RunIsWholeTail'
    BY <1>3 DEF IInv, CacheMirrorsBuffer, RunIsWholeTail, Headroom,
                ReadyForCarry, vars
  <2> QED
    BY <1>3, <2>1, <2>2 DEF IInv, vars
<1> QED
  BY <1>1, <1>2, <1>3 DEF Next

THEOREM Invariance == Spec => []IInv
  BY InitInvariant, NextInvariant, PTL DEF Spec

(* The encoder state keeps its types: in particular range never falls below *)
(* the base after a step, so the single renormalisation of rc_enc_step (an  *)
(* if, not a loop) is enough, and rc->range / total is never 0.             *)
THEOREM TypeCorrect == Spec => []TypeOK
<1>1. IInv => TypeOK
  BY DEF IInv
<1> QED
  BY <1>1, Invariance, PTL

(* The cached word is always the word in the buffer: the store of           *)
(* rc_enc_flush through cache_ptr never changes the file.                   *)
THEOREM CacheIsInBuffer == Spec => []CacheMirrorsBuffer
<1>1. IInv => CacheMirrorsBuffer
  BY DEF IInv
<1> QED
  BY <1>1, Invariance, PTL

(* While a carry can come, the recorded run is the whole tail of full words. *)
THEOREM TailIsRecorded == Spec => []RunIsWholeTail
<1>1. IInv => RunIsWholeTail
  BY DEF IInv
<1> QED
  BY <1>1, Invariance, PTL

(* A carry always lands on a real cache word that can absorb it: it is never *)
(* lost in the dummy, and the backward walk of rc_enc_step is never entered. *)
THEOREM CarryIsAbsorbed == Spec => []CarryFindsItsCache
<1>1. IInv => CarryFindsItsCache
  <2> SUFFICES ASSUME IInv, NEW sym \in Occurring(cum), left > 0, Sum(sym) >= B * B
               PROVE  cache_ptr # Dummy /\ cache # FullWord
    BY DEF CarryFindsItsCache
  <2>1. ~ flushed
    BY DEF IInv
  <2>2. ReadyForCarry
    BY <2>1, CarryMeansReady
  <2> QED
    BY <2>2 DEF ReadyForCarry
<1> QED
  BY <1>1, Invariance, PTL

-----------------------------------------------------------------------------
(* After a carry the interval stays below the word limit until the next safe *)
(* emit: the in-place patch would corrupt the buffer if it hit one cache     *)
(* twice, and it never does.                                                 *)
THEOREM NoSecondCarry == Spec => OneCarryPerCache
<1> DEFINE Kept == Headroom /\ cache_ptr' = cache_ptr => cache' = cache /\ Headroom'
<1>1. IInv /\ [Next]_vars => [Kept]_vars
  <2> SUFFICES ASSUME IInv, Next, Headroom, cache_ptr' = cache_ptr
               PROVE  cache' = cache /\ Headroom'
    OBVIOUS
  <2>1. CASE Encode
    <3>1. PICK sym \in Occurring(cum) : EncodeSymbol(sym)
      BY <2>1 DEF Encode
    <3>2. ~ flushed
      BY <3>1 DEF EncodeSymbol, IInv, TypeOK
    <3>3. PlainStep(sym)
      BY <3>1, <3>2, CarryMeansReady DEF EncodeSymbol, CarryStep
    <3> DEFINE bottom == Sum(sym)
               width  == Width(sym)
    <3>4. /\ bottom \in 0 .. B * B - 1 /\ width \in Nat /\ 1 <= width
          /\ bottom + width <= low + range
      BY <3>3, Narrowing, Constants DEF IInv, PlainStep
    <3>5. bottom + width <= B * B
      BY <3>4, Constants DEF IInv, TypeOK, Headroom
    <3>6. Renorm(bottom, width, cache, ff_count, out)
      BY <3>3 DEF PlainStep
    <3> HIDE DEF bottom, width
    <3>7. CASE Keep(bottom, width, cache, ff_count, out)
      BY <3>5, <3>7 DEF Keep, Headroom
    <3>8. CASE Straddle(bottom, width, cache, ff_count, out)
      <4>1. width \in 1 .. B - 1 /\ bottom \div B = FullWord
        BY <3>4, <3>8, Constants DEF Straddle
      <4> QED
        BY <3>4, <3>5, <3>8, <4>1, Shift DEF Straddle, Headroom
    <3>9. CASE SafeEmit(bottom, width, out)
      <4>1. cache_ptr' = Len(out) + 1
        BY <3>9 DEF SafeEmit
      <4>2. cache_ptr \in 0 .. Len(out) /\ Len(out) \in Nat
        BY DEF IInv, TypeOK
      <4> QED
        BY <4>1, <4>2
    <3> QED
      BY <3>6, <3>7, <3>8, <3>9 DEF Renorm
  <2>2. CASE Flush
    BY <2>2 DEF Flush, Headroom
  <2> QED
    BY <2>1, <2>2 DEF Next
<1> QED
  BY <1>1, Invariance, PTL DEF Spec, OneCarryPerCache

-----------------------------------------------------------------------------
(* The renormalisation, after either branch of the carry test, is the one of *)
(* the textbook coder: which of the two emits ran makes no difference to low,*)
(* range and the buffer.                                                     *)
LEMMA RenormIsAbstract ==
  ASSUME NEW bottom \in 0 .. B * B - 1, NEW width \in 1 .. B * B - 1,
         NEW word, NEW run, NEW words, Renorm(bottom, width, word, run, words)
  PROVE  IF width < B
           THEN /\ out' = Append(words, bottom \div B)
                /\ low' = (bottom % B) * B
                /\ range' = width * B
           ELSE /\ out' = words
                /\ low' = bottom
                /\ range' = width
<1>1. CASE Keep(bottom, width, word, run, words)
  <2>1. ~ (width < B) /\ out' = words /\ low' = bottom /\ range' = width
    BY <1>1, Constants DEF Keep
  <2> QED
    BY <2>1
<1>2. CASE Straddle(bottom, width, word, run, words)
  BY <1>2 DEF Straddle
<1>3. CASE SafeEmit(bottom, width, words)
  BY <1>3 DEF SafeEmit
<1> QED
  BY <1>1, <1>2, <1>3 DEF Renorm

(* Every step of the in-place encoder is a step of the textbook coder.      *)
(* A symbol coded in place narrows the interval as the textbook coder does. *)
LEMMA EncodeNarrows ==
  ASSUME IInv, NEW sym \in Occurring(cum), EncodeSymbol(sym)
  PROVE  Carry!Narrow(sym)
<1> DEFINE BB == B * B
<1>2. ~ flushed
  BY DEF EncodeSymbol, IInv, TypeOK
<1>3. /\ Sum(sym) \in Nat /\ Width(sym) \in 1 .. B * B - 1
      /\ BB \in Nat \ {0}
  BY Narrowing, Constants DEF IInv, TypeOK
<1> DEFINE sum    == Sum(sym)
           width  == Width(sym)
           bottom == sum % BB
           digits == IF sum < BB THEN out ELSE Carry!Ripple(out)
<1>4. IF width < B
        THEN /\ out' = Append(digits, bottom \div B)
             /\ low' = (bottom % B) * B
             /\ range' = width * B
        ELSE /\ out' = digits
             /\ low' = bottom
             /\ range' = width
  <2>1. CASE PlainStep(sym)
    <3>1. /\ sum < BB /\ sum \in 0 .. B * B - 1
          /\ Renorm(sum, width, cache, ff_count, out)
      BY <1>3, <2>1 DEF PlainStep
    <3> HIDE DEF sum, width, BB
    <3>2. bottom = sum /\ digits = out
      <4>1. sum \in Nat /\ BB \in Nat \ {0} /\ sum < BB
        BY <1>3, <3>1 DEF sum
      <4> QED
        BY <4>1, SMTT(30)
    <3>3. width \in 1 .. B * B - 1
      BY <1>3 DEF width
    <3> HIDE DEF bottom, digits
    <3> QED
      BY <3>1, <3>2, <3>3, RenormIsAbstract
  <2>2. CASE CarryStep(sym)
    <3>1. /\ ~ (sum < BB)
          /\ Renorm(sum - BB, width, CarriedCache, 0, CarriedOut)
      BY <1>3, <2>2 DEF CarryStep
    <3>2. digits = CarriedOut
      BY <1>2, <2>2, <3>1, CarryMeansReady, CarryPatch DEF IInv, CarryStep
    <3>3. sum - BB \in 0 .. BB - 1
      <4>1. /\ sum \in Nat /\ sum <= low + range - width
            /\ low \in Nat /\ low < BB /\ range \in Nat /\ range < BB
            /\ width \in Nat
        BY Narrowing, Constants DEF IInv, TypeOK
      <4> HIDE DEF sum, width, BB
      <4> QED
        BY <1>3, <3>1, <4>1
    <3>4. bottom = sum - BB
      <4> HIDE DEF sum, BB
      <4> QED
        BY <1>3, <3>3, SMTT(30) DEF sum
    <3>5. width \in 1 .. B * B - 1 /\ sum - BB \in 0 .. B * B - 1
      BY <1>3, <3>3
    <3> HIDE DEF sum, width, bottom, digits, BB
    <3> QED
      BY <3>1, <3>2, <3>4, <3>5, RenormIsAbstract
  <2> QED
    BY <2>1, <2>2 DEF EncodeSymbol
<1>5. Carry!Narrow(sym)
  BY <1>4 DEF Carry!Narrow, Carry!Freq, Scale, Sum, Width, Freq
<1> QED
  BY <1>5

(* What the flush stores through cache_ptr is there already.                *)
LEMMA FlushKeepsCache ==
  ASSUME IInv
  PROVE  Poke(out, cache_ptr, cache) = out
<1>1. /\ Len(out) \in Nat /\ out = [ i \in 1 .. Len(out) |-> out[i] ]
      /\ cache_ptr \in 0 .. Len(out)
  BY DEF IInv, TypeOK
<1>2. ASSUME NEW i \in 1 .. Len(out), i = cache_ptr PROVE out[i] = cache
  BY <1>1, <1>2 DEF IInv, CacheMirrorsBuffer, Dummy
<1>3. ASSUME NEW i \in 1 .. Len(out)
      PROVE  (IF i = cache_ptr THEN cache ELSE out[i]) = out[i]
  BY <1>2
<1> QED
  BY <1>1, <1>3 DEF Poke

LEMMA StepImplements ==
  ASSUME IInv, [Next]_vars
  PROVE  [Carry!Next]_(Carry!vars)
<1>1. CASE Encode
  <2>1. PICK sym \in Occurring(cum) : EncodeSymbol(sym)
    BY <1>1 DEF Encode
  <2>2. Carry!Narrow(sym)
    BY <2>1, EncodeNarrows
  <2>3. sym \in Carry!Occurring(cum)
    BY DEF Occurring, Carry!Occurring, Symbols, Carry!Symbols, Freq, Carry!Freq
  <2>4. left > 0 /\ left' = left - 1 /\ UNCHANGED <<cum, flushed>>
    BY <2>1 DEF EncodeSymbol
  <2>5. Carry!Encode
    BY <2>2, <2>3, <2>4 DEF Carry!Encode
  <2> QED
    BY <2>5 DEF Carry!Next
<1>2. CASE Flush
  BY <1>2, FlushKeepsCache DEF Flush, Carry!Next, Carry!Flush
<1>3. CASE UNCHANGED vars
  BY <1>3 DEF vars, Carry!vars
<1> QED
  BY <1>1, <1>2, <1>3 DEF Next

(* The in-place encoder implements the textbook carry-propagating coder: the *)
(* cache and the recorded run of full words change how the carry is written, *)
(* never what the file contains.                                             *)
THEOREM Refinement == Spec => ImplementsCarryCoder
<1>1. Init => Carry!Init
  BY DEF Init, Carry!Init, Tables, Carry!Tables, Symbols, Carry!Symbols, Freq,
         Carry!Freq
<1>2. IInv /\ [Next]_vars => [Carry!Next]_(Carry!vars)
  BY StepImplements
<1> QED
  BY <1>1, <1>2, Invariance, PTL DEF Spec, Carry!Spec, ImplementsCarryCoder

-----------------------------------------------------------------------------
(* The three programs.                                                      *)

(* Encoder and file hold the data; a decoder that has begun is where the    *)
(* history of the encoder was after as many symbols.                        *)
Faithful ==
  /\ data \in Seq(Occurring(cum))
  /\ out_buf \in Seq(Symbols)
  /\ IF flushed THEN FileHolds(B, cum, data, out)
                ELSE Encodes(B, cum, data, out, low, range)
  /\ Len(out_buf) <= Len(data)
  /\ \A i \in 1 .. Len(out_buf) : out_buf[i] = data[i]
  /\ words_p \in Nat
  /\ IF words_p = 0
       THEN out_buf = << >>
       ELSE /\ flushed
            /\ DecoderAt(B, cum, data, out, Len(out_buf), code, dec_range,
                         words_p - 1)

RoundTripInv == IInv /\ Faithful

-----------------------------------------------------------------------------
LEMMA BaseFits == Base(B)
  BY BaseAssumption DEF Base

(* The encoder's part of every step of the three programs.                  *)
LEMMA EncoderPart ==
  ASSUME [ToolsNext]_toolVars
  PROVE  [Next]_vars
<1>1. CASE EncodeAndDiagnose
  <2>1. PICK sym \in Occurring(cum) : EncodeData(sym)
    BY <1>1 DEF EncodeAndDiagnose
  <2> QED
    BY <2>1 DEF EncodeData, Encode, Next
<1>2. CASE FlushBoth
  BY <1>2 DEF FlushBoth, FlushFile, Next
<1>3. CASE DecodeFile
  BY <1>3 DEF DecodeFile, DecInit, Decode
<1>4. CASE UNCHANGED toolVars
  BY <1>4 DEF toolVars, allVars
<1> QED
  BY <1>1, <1>2, <1>3, <1>4 DEF ToolsNext

(* One symbol adds to the number in the buffer and low what the narrowing   *)
(* adds to the interval.                                                    *)
LEMMA EncodeSpells ==
  ASSUME IInv, NEW sym \in Occurring(cum), EncodeSymbol(sym)
  PROVE  \E digits \in Seq(0 .. B - 1), bottom \in 0 .. B * B - 1 :
           /\ Len(digits) = Len(out)
           /\ Spells(B, out, Sum(sym), digits, bottom)
           /\ Renormed(B, digits, bottom, Width(sym), out', low', range')
<1> DEFINE sum    == Sum(sym)
           BB     == B * B
           bottom == sum % BB
           digits == IF sum < BB THEN out ELSE Carry!Ripple(out)
<1>1. /\ sum \in Nat /\ BB \in Nat \ {0} /\ ~ flushed
      /\ out \in Seq(0 .. B - 1)
  BY Narrowing, Constants DEF IInv, TypeOK, EncodeSymbol
<1>2. bottom \in 0 .. BB - 1
  <2> HIDE DEF sum, BB
  <2> QED
    BY <1>1, EuclideanDivision
<1>3. Renormed(B, digits, bottom, Width(sym), out', low', range')
  <2>1. Carry!Narrow(sym)
    BY EncodeNarrows
  <2>2. Sum(sym) = low + (range \div TOTAL) * cum[sym]
        /\ Width(sym) = (range \div TOTAL) * Freq(cum, sym)
    BY DEF Sum, Width, Scale
  <2> QED
    BY <2>1, <2>2 DEF Carry!Narrow, Carry!Freq, Freq, Renormed
<1>4. CASE sum < BB
  <2>1. bottom = sum
    <3> HIDE DEF sum, BB
    <3>1. sum \in 0 .. BB - 1
      BY <1>1, <1>4
    <3>2. sum % BB = sum
      BY <1>1, <3>1, ModSmall
    <3> QED
      BY <3>2
  <2>2. digits = out
    BY <1>4
  <2>3. Spells(B, out, Sum(sym), digits, bottom)
    BY <2>1, <2>2, PlainSpells
  <2> HIDE DEF digits, bottom
  <2> QED
    BY <1>1, <1>2, <1>3, <2>2, <2>3
<1>5. CASE ~ (sum < BB)
  <2>1. ReadyForCarry
    <3>1. sum >= BB
      <4> HIDE DEF sum, BB
      <4> QED
        BY <1>1, <1>5
    <3> QED
      BY <1>1, <3>1, CarryMeansReady
  <2>2. /\ CarriedOut \in Seq(0 .. B - 1) /\ Len(CarriedOut) = Len(out)
        /\ CarriedOut = [ i \in 1 .. Len(out) |->
                            IF i < cache_ptr THEN out[i]
                            ELSE IF i = cache_ptr THEN cache + 1 ELSE 0 ]
        /\ CarriedOut = Carry!Ripple(out)
    BY <2>1, CarryPatch DEF IInv
  <2>3. digits = CarriedOut
    BY <1>5, <2>2
  <2>4. Rippled(B, out, cache_ptr, CarriedOut)
    <3>1. /\ cache_ptr \in 1 .. Len(out) /\ out[cache_ptr] = cache
          /\ \A j \in cache_ptr + 1 .. Len(out) : out[j] = B - 1
      BY <2>1 DEF IInv, TypeOK, CacheMirrorsBuffer, ReadyForCarry, Dummy, FullWord
    <3>2. \A i \in 1 .. Len(out) :
            CarriedOut[i] = IF i < cache_ptr THEN out[i]
                            ELSE IF i = cache_ptr THEN out[i] + 1 ELSE 0
      BY <2>2, <3>1
    <3> QED
      BY <2>2, <3>1, <3>2 DEF Rippled
  <2>5. sum - BB = bottom
    <3>1. /\ sum < BB + BB
      <4> DEFINE width == Width(sym)
      <4>1. /\ low \in Nat /\ range \in Nat /\ width \in Nat /\ width >= 1
            /\ sum + width <= low + range /\ low < BB /\ range < BB
        BY Narrowing, Constants DEF IInv, TypeOK
      <4> HIDE DEF width, sum, BB
      <4> QED
        BY <1>1, <4>1
    <3> DEFINE m == sum - BB
    <3> HIDE DEF sum, BB
    <3>2. m \in 0 .. BB - 1
      BY <1>1, <1>5, <3>1
    <3>3. m % BB = m
      <4> HIDE DEF m
      <4> QED
        BY <1>1, <3>2, ModSmall
    <3>4. sum % BB = m % BB
      BY <1>1, <3>2, SMTT(30)
    <3> QED
      BY <3>3, <3>4
  <2>6. Spells(B, out, Sum(sym), CarriedOut, sum - BB)
    <3>1. out \in Seq(0 .. B - 1) /\ Sum(sym) \in Nat
      BY <1>1
    <3> QED
      BY <2>2, <2>4, <3>1, CarrySpells, BaseFits
  <2>7. Spells(B, out, Sum(sym), digits, bottom)
    BY <2>3, <2>5, <2>6
  <2> HIDE DEF digits, bottom
  <2> QED
    BY <1>2, <1>3, <2>2, <2>3, <2>7
<1> QED
  BY <1>4, <1>5

LEMMA InitFaithful ==
  ASSUME ToolsInit
  PROVE  RoundTripInv
<1>1. IInv
  BY InitInvariant DEF ToolsInit, RoundTripInit
<1>2. Encodes(B, cum, data, out, low, range)
  BY StartEncodes, BaseFits DEF ToolsInit, RoundTripInit, Init
<1>3. /\ data = << >> /\ out_buf = << >> /\ words_p = 0 /\ ~ flushed
      /\ Len(out_buf) = 0 /\ Len(data) = 0
  BY DEF ToolsInit, RoundTripInit, Init
<1> QED
  BY <1>1, <1>2, <1>3 DEF RoundTripInv, Faithful

LEMMA EncodeFaithful ==
  ASSUME RoundTripInv, NEW sym \in Occurring(cum), EncodeData(sym), IInv'
  PROVE  Faithful'
<1>1. /\ EncodeSymbol(sym) /\ data' = Append(data, sym) /\ decVars' = decVars
      /\ IInv /\ Faithful
  BY DEF EncodeData, RoundTripInv
<1>2. ~ flushed /\ cum' = cum /\ flushed' = flushed
  BY <1>1 DEF EncodeSymbol, IInv, TypeOK
<1>3. /\ data \in Seq(Occurring(cum)) /\ out_buf = << >> /\ words_p = 0
      /\ cum \in Tables /\ low \in Nat /\ range \in B .. B * B - 1
      /\ Encodes(B, cum, data, out, low, range)
  BY <1>1, <1>2 DEF Faithful, IInv, TypeOK
<1>4. data' \in Seq(Occurring(cum)) /\ Len(data') = Len(data) + 1
  BY <1>1, <1>3, AppendFacts
<1>5. data \in Seq(Symbols)
  <2>1. \A i \in 1 .. Len(data) : data[i] \in Symbols
    BY <1>3, ElementFacts DEF Occurring
  <2> QED
    BY <1>3, <2>1
<1>6. PICK digits \in Seq(0 .. B - 1), bottom \in 0 .. B * B - 1 :
        /\ Len(digits) = Len(out)
        /\ Spells(B, out, Sum(sym), digits, bottom)
        /\ Renormed(B, digits, bottom, Width(sym), out', low', range')
  BY <1>1, EncodeSpells
<1>7. /\ Spells(B, out, low + (range \div TOTAL) * cum[sym], digits, bottom)
      /\ Renormed(B, digits, bottom, (range \div TOTAL) * Freq(cum, sym),
                  out', low', range')
  BY <1>6 DEF Sum, Width, Scale
<1>8. Encodes(B, cum, Append(data, sym), out', low', range')
  BY <1>3, <1>5, <1>6, <1>7, StepEncodes, BaseFits
<1>9. out_buf' = << >> /\ words_p' = 0 /\ Len(out_buf') = 0
  BY <1>1, <1>3 DEF decVars
<1>a. Len(out_buf') <= Len(data') /\ out_buf' \in Seq(Symbols)
  BY <1>3, <1>4, <1>9
<1> QED
  BY <1>1, <1>2, <1>4, <1>8, <1>9, <1>a DEF Faithful

LEMMA FlushFaithful ==
  ASSUME RoundTripInv, FlushFile
  PROVE  Faithful'
<1>1. /\ Flush /\ data' = data /\ decVars' = decVars /\ ~ flushed /\ flushed'
      /\ cum' = cum /\ IInv /\ Faithful
  BY DEF FlushFile, Flush, RoundTripInv
<1> DEFINE hi == low \div B
           lo == low % B
<1>2. /\ out \in Seq(0 .. B - 1) /\ low \in 0 .. B * B - 1
      /\ Encodes(B, cum, data, out, low, range)
  BY <1>1 DEF IInv, TypeOK, Faithful
<1>3. out' = out \o <<hi, lo>>
  BY <1>1, FlushKeepsCache DEF Flush
<1>4. out \o <<hi, lo>> = Append(Append(out, hi), lo)
  <2>1. hi \in 0 .. B - 1 /\ lo \in 0 .. B - 1
    BY <1>2, TopWord, BaseFits
  <2> HIDE DEF hi, lo
  <2> QED
    BY <1>2, <2>1
<1>5. FileHolds(B, cum, data, out')
  <2>1. FileHolds(B, cum, data, Append(Append(out, low \div B), low % B))
    BY <1>2, FlushHolds, BaseFits DEF FileHolds
  <2> QED
    BY <1>3, <1>4, <2>1
<1>6. words_p = 0
  BY <1>1 DEF Faithful
<1> QED
  BY <1>1, <1>5, <1>6 DEF Faithful, decVars

(* rc_dec_init reads the two words the flush wrote or found.                *)
LEMMA DecInitFaithful ==
  ASSUME RoundTripInv, DecInit
  PROVE  Faithful'
<1>1. /\ flushed /\ words_p = 0 /\ dec_range' = B * B - 1 /\ words_p' = 3
      /\ vars' = vars /\ data' = data /\ out_buf' = out_buf /\ IInv /\ Faithful
  BY DEF DecInit, RoundTripInv
<1>2. /\ cum \in Tables /\ data \in Seq(Occurring(cum)) /\ out \in Seq(0 .. B - 1)
      /\ FileHolds(B, cum, data, out) /\ out_buf = << >>
  BY <1>1 DEF IInv, TypeOK, Faithful
<1>3. /\ Len(out) >= 2
      /\ DecoderAt(B, cum, data, out, 0, out[1] * B + out[2], B * B - 1, 2)
  BY <1>2, DecoderStarts, BaseFits
<1>4. code' = out[1] * B + out[2]
  <2>1. 1 \in 1 .. Len(out) /\ 2 \in 1 .. Len(out)
    BY <1>2, <1>3
  <2>2. WordsAt(1) = {out[1]} /\ WordsAt(2) = {out[2]}
    BY <2>1 DEF WordsAt
  <2> QED
    BY <2>2 DEF DecInit
<1>5. Len(out_buf) = 0 /\ words_p' - 1 = 2 /\ words_p' # 0 /\ words_p' \in Nat
  BY <1>1, <1>2
<1>6. DecoderAt(B, cum, data, out, Len(out_buf), code', dec_range', words_p' - 1)
  BY <1>1, <1>3, <1>4, <1>5
<1>7. cum' = cum /\ flushed' = flushed /\ out' = out
  BY <1>1 DEF vars
<1> QED
  BY <1>1, <1>5, <1>6, <1>7 DEF Faithful

(* rc_dec_get_cum and rc_dec_step: the next symbol is found inside the      *)
(* table, and the word that is read is in the file.                         *)
LEMMA DecodeFollows ==
  ASSUME RoundTripInv, words_p > 0, Len(out_buf) < Len(data)
  PROVE  LET sym    == data[Len(out_buf) + 1]
             t      == dec_range \div TOTAL
             width  == t * Freq(cum, sym)
             offset == code - t * cum[sym]
         IN  /\ GetCum \in 0 .. TOTAL - 1
             /\ Find(cum, GetCum) = sym
             /\ IF width < B
                  THEN /\ words_p \in 1 .. Len(out)
                       /\ DecoderAt(B, cum, data, out, Len(out_buf) + 1,
                                    (offset * B + out[words_p]) % (B * B),
                                    width * B, words_p)
                  ELSE DecoderAt(B, cum, data, out, Len(out_buf) + 1,
                                 offset % (B * B), width, words_p - 1)
<1>1. /\ cum \in Tables /\ data \in Seq(Occurring(cum)) /\ out \in Seq(0 .. B - 1)
      /\ words_p \in Nat /\ out_buf \in Seq(Symbols)
      /\ DecoderAt(B, cum, data, out, Len(out_buf), code, dec_range, words_p - 1)
  <2>1. words_p # 0
    OBVIOUS
  <2> QED
    BY <2>1 DEF RoundTripInv, IInv, TypeOK, Faithful
<1>2. Len(out_buf) \in 0 .. Len(data) - 1 /\ (words_p - 1) + 1 = words_p
  BY <1>1
<1> DEFINE sym    == data[Len(out_buf) + 1]
           t      == dec_range \div TOTAL
           width  == t * Freq(cum, sym)
           offset == code - t * cum[sym]
<1>3. /\ code \div t \in 0 .. TOTAL - 1
      /\ Find(cum, code \div t) = sym
      /\ IF width < B
           THEN /\ (words_p - 1) + 1 <= Len(out)
                /\ DecoderAt(B, cum, data, out, Len(out_buf) + 1,
                             (offset * B + out[(words_p - 1) + 1]) % (B * B),
                             width * B, (words_p - 1) + 1)
           ELSE DecoderAt(B, cum, data, out, Len(out_buf) + 1,
                          offset % (B * B), width, words_p - 1)
  BY <1>1, <1>2, DecoderSteps, BaseFits
<1>4. GetCum = code \div t
  BY DEF GetCum
<1> HIDE DEF sym, t, width, offset
<1>5. IF width < B
        THEN /\ words_p \in 1 .. Len(out)
             /\ DecoderAt(B, cum, data, out, Len(out_buf) + 1,
                          (offset * B + out[words_p]) % (B * B),
                          width * B, words_p)
        ELSE DecoderAt(B, cum, data, out, Len(out_buf) + 1,
                       offset % (B * B), width, words_p - 1)
  <2>1. words_p <= Len(out) => words_p \in 1 .. Len(out)
    BY <1>1
  <2> QED
    BY <1>2, <1>3, <2>1
<1> QED
  BY <1>3, <1>4, <1>5 DEF sym, t, width, offset

LEMMA DecodeFaithful ==
  ASSUME RoundTripInv, Decode
  PROVE  Faithful'
<1> DEFINE i == Len(out_buf) + 1
           sym == data[i]
           width  == (dec_range \div TOTAL) * Freq(cum, sym)
           offset == code - (dec_range \div TOTAL) * cum[sym]
<1>1. /\ words_p > 0 /\ Len(out_buf) < Len(data) /\ DecStep(sym)
      /\ out_buf' = Append(out_buf, sym) /\ vars' = vars /\ data' = data
  BY DecodeFollows DEF Decode
<1>2. /\ data \in Seq(Occurring(cum)) /\ out_buf \in Seq(Symbols) /\ words_p \in Nat
      /\ \A j \in 1 .. Len(out_buf) : out_buf[j] = data[j]
      /\ flushed /\ FileHolds(B, cum, data, out)
  <2>1. words_p # 0
    BY <1>1
  <2> QED
    BY <2>1 DEF RoundTripInv, Faithful
<1>3. i \in 1 .. Len(data) /\ sym \in Symbols
  <2>1. i \in 1 .. Len(data)
    BY <1>1, <1>2
  <2>2. sym \in Occurring(cum)
    BY <1>2, <2>1, ElementFacts
  <2> QED
    BY <2>1, <2>2 DEF Occurring
<1>4. /\ DecoderAt(B, cum, data, out, i, code', dec_range', words_p' - 1)
      /\ words_p' \in Nat /\ words_p' # 0
  <2>1. CASE width < B
    <3>1. /\ words_p \in 1 .. Len(out)
          /\ DecoderAt(B, cum, data, out, i,
                       (offset * B + out[words_p]) % (B * B), width * B, words_p)
      BY <1>1, <2>1, DecodeFollows
    <3>2. /\ \E word \in WordsAt(words_p) : code' = (offset * B + word) % (B * B)
          /\ dec_range' = width * B /\ words_p' = words_p + 1
      BY <1>1, <2>1 DEF DecStep
    <3>3. WordsAt(words_p) = {out[words_p]}
      BY <3>1 DEF WordsAt
    <3>4. code' = (offset * B + out[words_p]) % (B * B)
      BY <3>2, <3>3
    <3>5. words_p' - 1 = words_p /\ words_p' \in Nat /\ words_p' # 0
      BY <1>2, <3>2
    <3> HIDE DEF i, width, offset
    <3> QED
      BY <3>1, <3>2, <3>4, <3>5
  <2>2. CASE ~ (width < B)
    <3>1. DecoderAt(B, cum, data, out, i, offset % (B * B), width, words_p - 1)
      BY <1>1, <2>2, DecodeFollows
    <3>2. code' = offset % (B * B) /\ dec_range' = width /\ words_p' = words_p
      BY <1>1, <2>2 DEF DecStep
    <3> QED
      BY <1>1, <1>2, <3>1, <3>2
  <2> QED
    BY <2>1, <2>2
<1>5. /\ out_buf' \in Seq(Symbols) /\ Len(out_buf') = i /\ out_buf'[i] = sym
      /\ \A j \in 1 .. Len(out_buf) : out_buf'[j] = out_buf[j]
  BY <1>1, <1>2, <1>3, AppendFacts
<1>6. ASSUME NEW j \in 1 .. Len(out_buf') PROVE out_buf'[j] = data[j]
  <2>1. CASE j = i
    BY <1>5, <2>1
  <2>2. CASE j # i
    <3>1. j \in 1 .. Len(out_buf)
      BY <1>2, <1>5, <2>2
    <3> QED
      BY <1>2, <1>5, <3>1
  <2> QED
    BY <2>1, <2>2
<1>7. cum' = cum /\ flushed' = flushed /\ out' = out /\ Len(out_buf') <= Len(data)
  BY <1>1, <1>3, <1>5 DEF vars
<1> HIDE DEF i, sym
<1> QED
  BY <1>1, <1>2, <1>4, <1>5, <1>6, <1>7 DEF Faithful

LEMMA RoundTripStep == RoundTripInv /\ [ToolsNext]_toolVars => RoundTripInv'
<1> SUFFICES ASSUME RoundTripInv, [ToolsNext]_toolVars PROVE RoundTripInv'
  OBVIOUS
<1>1. IInv'
  BY EncoderPart, NextInvariant DEF RoundTripInv
<1>2. CASE EncodeAndDiagnose
  <2>1. PICK sym \in Occurring(cum) : EncodeData(sym)
    BY <1>2 DEF EncodeAndDiagnose
  <2> QED
    BY <1>1, <2>1, EncodeFaithful DEF RoundTripInv
<1>3. CASE FlushBoth
  BY <1>1, <1>3, FlushFaithful DEF FlushBoth, RoundTripInv
<1>4. CASE DecodeFile
  BY <1>1, <1>4, DecInitFaithful, DecodeFaithful DEF DecodeFile, RoundTripInv
<1>5. CASE UNCHANGED toolVars
  <2>1. Faithful'
    BY <1>5 DEF RoundTripInv, Faithful, toolVars, allVars, vars, decVars
  <2> QED
    BY <1>1, <2>1 DEF RoundTripInv
<1> QED
  BY <1>2, <1>3, <1>4, <1>5 DEF ToolsNext

THEOREM RoundTripInvariance == ToolsSpec => []RoundTripInv
  BY InitFaithful, RoundTripStep, PTL DEF ToolsSpec

(* The 64-bit coder is lossless: whatever rc_decode has decoded is what     *)
(* rc_encode was given, for every table and every file.                     *)
THEOREM Lossless == ToolsSpec => []DecodedIsPrefix
<1>1. RoundTripInv => DecodedIsPrefix
  BY DEF RoundTripInv, Faithful, DecodedIsPrefix
<1> QED
  BY <1>1, RoundTripInvariance, PTL

(* rc_dec_get_cum needs no clamp.                                           *)
THEOREM LookupStaysInTable == ToolsSpec => []CumInTable
<1>1. RoundTripInv => CumInTable
  BY DecodeFollows, Constants DEF CumInTable
<1> QED
  BY <1>1, RoundTripInvariance, PTL

(* rc_decode never reads the padding behind the file, and when the last     *)
(* symbol is decoded the file is used up.                                   *)
THEOREM FileIsUsedUp == ToolsSpec => []ReadsExactlyTheFile
<1>1. RoundTripInv => ReadsExactlyTheFile
  <2> SUFFICES ASSUME RoundTripInv, words_p > 0
               PROVE  /\ words_p - 1 <= Len(out)
                      /\ Len(out_buf) = Len(data) => words_p - 1 = Len(out)
    BY DEF ReadsExactlyTheFile
  <2>1. /\ cum \in Tables /\ data \in Seq(Occurring(cum))
        /\ out \in Seq(0 .. B - 1) /\ out_buf \in Seq(Symbols)
        /\ Len(out_buf) <= Len(data)
        /\ DecoderAt(B, cum, data, out, Len(out_buf), code, dec_range, words_p - 1)
    <3>1. words_p # 0
      OBVIOUS
    <3> QED
      BY <3>1 DEF RoundTripInv, IInv, TypeOK, Faithful
  <2>2. Len(out_buf) \in 0 .. Len(data)
    BY <2>1
  <2> QED
    BY <2>1, <2>2, DecoderPlace, BaseFits
<1> QED
  BY <1>1, RoundTripInvariance, PTL

-----------------------------------------------------------------------------
(* rc_diag beside rc_encode.                                                *)
DiagState == [low : Nat, range : Nat, cache : Nat, ff_count : Nat]

Counters ==
  [carry_hits : Nat, renorm_hits : Nat, straddle_hits : Nat,
   straddle_flushed : Nat, straddle_max_chain : Nat, flush_words : Nat]

(* The words the report counts as written before the flush.                 *)
Counted(c) == c.renorm_hits - c.straddle_hits + c.straddle_flushed

(* Every word of the buffer is counted once, or is in the pending run.      *)
Balanced ==
  IF flushed
    THEN Counted(stats) + stats.flush_words = Len(out) + 1
    ELSE Counted(stats) + ff_count = Len(out)

DiagInv ==
  /\ IInv
  /\ DiagFollowsEncoder
  /\ stats \in Counters
  /\ Balanced

LEMMA CounterFacts ==
  ASSUME NEW c \in Counters
  PROVE  /\ c.carry_hits \in Nat /\ c.renorm_hits \in Nat
         /\ c.straddle_hits \in Nat /\ c.straddle_flushed \in Nat
         /\ c.straddle_max_chain \in Nat /\ c.flush_words \in Nat
         /\ Counted(c) \in Int
<1>1. /\ c.carry_hits \in Nat /\ c.renorm_hits \in Nat
      /\ c.straddle_hits \in Nat /\ c.straddle_flushed \in Nat
      /\ c.straddle_max_chain \in Nat /\ c.flush_words \in Nat
  BY DEF Counters
<1> QED
  BY <1>1 DEF Counted

(* What the two kinds of word do to the count.                              *)
LEMMA RunGrows ==
  ASSUME NEW c \in Counters, NEW longest \in Nat
  PROVE  LET c1 == [c EXCEPT !.renorm_hits = c.renorm_hits + 1,
                             !.straddle_hits = c.straddle_hits + 1,
                             !.straddle_max_chain = longest]
         IN c1 \in Counters /\ Counted(c1) = Counted(c)
<1> DEFINE hits  == c.renorm_hits + 1
           words == c.straddle_hits + 1
           c1    == [c EXCEPT !.renorm_hits = hits,
                                 !.straddle_hits = words,
                                 !.straddle_max_chain = longest]
<1>1. /\ c.carry_hits \in Nat /\ c.renorm_hits \in Nat
      /\ c.straddle_hits \in Nat /\ c.straddle_flushed \in Nat
  BY DEF Counters
<1>2. c1 \in Counters
  <2>1. hits \in Nat /\ words \in Nat
    BY <1>1
  <2> HIDE DEF hits, words
  <2> QED
    BY <2>1 DEF Counters
<1>3. /\ c1.renorm_hits = c.renorm_hits + 1
      /\ c1.straddle_hits = c.straddle_hits + 1
      /\ c1.straddle_flushed = c.straddle_flushed
  BY DEF Counters
<1> HIDE DEF c1
<1>4. Counted(c1) = Counted(c)
  BY <1>1, <1>3 DEF Counted
<1> QED
  BY <1>2, <1>4 DEF c1

LEMMA RunEnds ==
  ASSUME NEW c \in Counters, NEW longest \in Nat, NEW run \in Nat
  PROVE  LET c1 == [c EXCEPT !.renorm_hits = c.renorm_hits + 1,
                             !.straddle_flushed = c.straddle_flushed + run,
                             !.straddle_max_chain = longest]
         IN c1 \in Counters /\ Counted(c1) = Counted(c) + 1 + run
<1> DEFINE hits  == c.renorm_hits + 1
           words == c.straddle_flushed + run
           c1    == [c EXCEPT !.renorm_hits = hits,
                                 !.straddle_flushed = words,
                                 !.straddle_max_chain = longest]
<1>1. /\ c.carry_hits \in Nat /\ c.renorm_hits \in Nat
      /\ c.straddle_hits \in Nat /\ c.straddle_flushed \in Nat
  BY DEF Counters
<1>2. c1 \in Counters
  <2>1. hits \in Nat /\ words \in Nat
    BY <1>1
  <2> HIDE DEF hits, words
  <2> QED
    BY <2>1 DEF Counters
<1>3. /\ c1.renorm_hits = c.renorm_hits + 1
      /\ c1.straddle_hits = c.straddle_hits
      /\ c1.straddle_flushed = c.straddle_flushed + run
  BY DEF Counters
<1> HIDE DEF c1
<1>4. Counted(c1) = Counted(c) + 1 + run
  BY <1>1, <1>3 DEF Counted
<1> QED
  BY <1>2, <1>4 DEF c1

LEMMA RunIsCleared ==
  ASSUME NEW c \in Counters, NEW longest \in Nat, NEW run \in Nat
  PROVE  LET c1 == [c EXCEPT !.carry_hits = c.carry_hits + 1,
                             !.straddle_flushed = c.straddle_flushed + run,
                             !.straddle_max_chain = longest]
         IN c1 \in Counters /\ Counted(c1) = Counted(c) + run
<1> DEFINE hits  == c.carry_hits + 1
           words == c.straddle_flushed + run
           c1    == [c EXCEPT !.carry_hits = hits,
                                 !.straddle_flushed = words,
                                 !.straddle_max_chain = longest]
<1>1. /\ c.carry_hits \in Nat /\ c.renorm_hits \in Nat
      /\ c.straddle_hits \in Nat /\ c.straddle_flushed \in Nat
  BY DEF Counters
<1>2. c1 \in Counters
  <2>1. hits \in Nat /\ words \in Nat
    BY <1>1
  <2> HIDE DEF hits, words
  <2> QED
    BY <2>1 DEF Counters
<1>3. /\ c1.renorm_hits = c.renorm_hits
      /\ c1.straddle_hits = c.straddle_hits
      /\ c1.straddle_flushed = c.straddle_flushed + run
  BY DEF Counters
<1> HIDE DEF c1
<1>4. Counted(c1) = Counted(c) + run
  BY <1>1, <1>3 DEF Counted
<1> QED
  BY <1>2, <1>4 DEF c1

(* One renormalisation of the two encoders, from the same state.            *)
LEMMA DiagRenorm ==
  ASSUME NEW e \in DiagState, NEW c \in Counters,
         stats \in Counters, NEW words \in Seq(0 .. B - 1),
         Renorm(e.low, e.range, e.cache, e.ff_count, words),
         Counted(c) + e.ff_count = Len(words)
  PROVE  LET done == Diag!AfterRenorm(e, c)
         IN  /\ done[1] = [low |-> low', range |-> range', cache |-> cache',
                           ff_count |-> ff_count']
             /\ done[2] \in Counters
             /\ Counted(done[2]) + ff_count' = Len(out')
<1> DEFINE hi   == e.low \div B
           lo   == (e.low % B) * B
           wide == e.range * B
           done == Diag!AfterRenorm(e, c)
<1>1. /\ e.low \in Nat /\ e.range \in Nat /\ e.cache \in Nat /\ e.ff_count \in Nat
      /\ e = [low |-> e.low, range |-> e.range, cache |-> e.cache,
              ff_count |-> e.ff_count]
  BY DEF DiagState
<1>3. \A run \in Nat : Diag!Longest(run) \in Nat
  BY DEF Diag!Longest, Counters
<1>4. CASE Keep(e.low, e.range, e.cache, e.ff_count, words)
  <2>1. done = <<e, c>>
    BY <1>4 DEF Keep, Diag!AfterRenorm
  <2> QED
    BY <1>1, <1>4, <2>1 DEF Keep
<1>5. CASE Straddle(e.low, e.range, e.cache, e.ff_count, words)
  <2> DEFINE e1 == [low |-> lo, range |-> wide, cache |-> e.cache,
                    ff_count |-> e.ff_count + 1]
             longest == Diag!Longest(e.ff_count + 1)
             c1 == [c EXCEPT !.renorm_hits = c.renorm_hits + 1,
                             !.straddle_hits = c.straddle_hits + 1,
                             !.straddle_max_chain = longest]
  <2>1. ~ (e.range >= B) /\ hi = B - 1
    BY <1>1, <1>5, Constants DEF Straddle, FullWord
  <2>2. done[1] = e1 /\ done[2] = c1
    <3>1. done[1] = [[e EXCEPT !.low = lo, !.range = wide]
                        EXCEPT !.ff_count = @ + 1]
      BY <2>1 DEF Diag!AfterRenorm
    <3>2. done[2] = [[c EXCEPT !.renorm_hits = @ + 1]
                        EXCEPT !.straddle_hits = @ + 1,
                               !.straddle_max_chain = Diag!Longest(e.ff_count + 1)]
      BY <2>1 DEF Diag!AfterRenorm
    <3> HIDE DEF hi, lo, wide, done
    <3> QED
      BY <1>1, <3>1, <3>2 DEF Counters, DiagState
  <2>3. c1 \in Counters /\ Counted(c1) = Counted(c)
    <3>1. longest \in Nat
      BY <1>1, <1>3
    <3> QED
      BY <3>1, RunGrows
  <2>4. Len(out') = Len(words) + 1 /\ ff_count' = e.ff_count + 1
    BY <1>5, AppendFacts, Constants DEF Straddle
  <2>5. e1 = [low |-> low', range |-> range', cache |-> cache',
              ff_count |-> ff_count']
    BY <1>5 DEF Straddle
  <2>6. Counted(c1) \in Int
    BY <2>3, CounterFacts
  <2> HIDE DEF hi, lo, wide, done, e1, c1
  <2>7. Counted(c1) + ff_count' = Len(out')
    BY <1>1, <2>3, <2>4, <2>6
  <2> QED
    BY <2>2, <2>3, <2>5, <2>7 DEF done
<1>6. CASE SafeEmit(e.low, e.range, words)
  <2> DEFINE e1 == [low |-> lo, range |-> wide, cache |-> hi, ff_count |-> 0]
             longest == Diag!Longest(e.ff_count)
             c1 == [c EXCEPT !.renorm_hits = c.renorm_hits + 1,
                             !.straddle_flushed = c.straddle_flushed + e.ff_count,
                             !.straddle_max_chain = longest]
  <2>1. ~ (e.range >= B) /\ hi # B - 1
    BY <1>1, <1>6, Constants DEF SafeEmit, FullWord
  <2>2. done[1] = e1 /\ done[2] = c1
    <3>1. done[1] = [[e EXCEPT !.low = lo, !.range = wide]
                        EXCEPT !.cache = hi, !.ff_count = 0]
      BY <2>1 DEF Diag!AfterRenorm
    <3>2. done[2] = [[c EXCEPT !.renorm_hits = @ + 1]
                        EXCEPT !.straddle_flushed = @ + e.ff_count,
                               !.straddle_max_chain = Diag!Longest(e.ff_count)]
      BY <2>1 DEF Diag!AfterRenorm
    <3> HIDE DEF hi, lo, wide, done
    <3> QED
      BY <1>1, <3>1, <3>2 DEF Counters, DiagState
  <2>3. c1 \in Counters /\ Counted(c1) = Counted(c) + 1 + e.ff_count
    <3>1. longest \in Nat
      BY <1>1, <1>3
    <3> QED
      BY <1>1, <3>1, RunEnds
  <2>4. Len(out') = Len(words) + 1 /\ ff_count' = 0
    <3>1. Len(Append(words, hi)) = Len(words) + 1
      <4> HIDE DEF hi
      <4> QED
        OBVIOUS
    <3> QED
      BY <1>6, <3>1 DEF SafeEmit
  <2>5. e1 = [low |-> low', range |-> range', cache |-> cache',
              ff_count |-> ff_count']
    BY <1>6 DEF SafeEmit
  <2>6. Counted(c1) \in Int /\ Counted(c) \in Int
    BY <2>3, CounterFacts
  <2> HIDE DEF hi, lo, wide, done, e1, c1
  <2>7. Counted(c1) + ff_count' = Len(out')
    BY <1>1, <2>3, <2>4, <2>6
  <2> QED
    BY <2>2, <2>3, <2>5, <2>7 DEF done
<1> QED
  BY <1>4, <1>5, <1>6 DEF Renorm

(* The two updates of the state of rc_diag before its renormalisation.      *)
LEMMA DiagUpdates ==
  ASSUME NEW e \in DiagState, NEW x \in Nat, NEW y \in Nat
  PROVE  /\ [e EXCEPT !.low = x, !.range = y] =
              [low |-> x, range |-> y, cache |-> e.cache, ff_count |-> e.ff_count]
         /\ [e EXCEPT !.cache = x, !.ff_count = 0] =
              [low |-> e.low, range |-> e.range, cache |-> x, ff_count |-> 0]
<1> DEFINE narrow  == [e EXCEPT !.low = x, !.range = y]
           carried == [e EXCEPT !.cache = x, !.ff_count = 0]
<1>1. /\ narrow \in DiagState /\ narrow.low = x /\ narrow.range = y
      /\ narrow.cache = e.cache /\ narrow.ff_count = e.ff_count
  BY DEF DiagState
<1>2. /\ carried \in DiagState /\ carried.low = e.low
      /\ carried.range = e.range /\ carried.cache = x /\ carried.ff_count = 0
  BY DEF DiagState
<1>3. \A f \in DiagState :
        f = [low |-> f.low, range |-> f.range, cache |-> f.cache,
             ff_count |-> f.ff_count]
  BY DEF DiagState
<1> HIDE DEF narrow, carried
<1> QED
  BY <1>1, <1>2, <1>3 DEF narrow, carried

(* A sum that wraps wraps once.                                             *)
LEMMA SumWraps ==
  ASSUME IInv, NEW sym \in Occurring(cum), Sum(sym) >= B * B
  PROVE  Sum(sym) % (B * B) = Sum(sym) - B * B /\ Sum(sym) - B * B \in Nat
<1> DEFINE sum == Sum(sym)
           BB  == B * B
           m   == sum - BB
<1>1. sum \in Nat /\ BB \in Nat \ {0} /\ sum >= BB /\ sum < BB + BB
  <2> DEFINE width == Width(sym)
  <2>1. /\ low \in Nat /\ range \in Nat /\ width \in Nat /\ width >= 1
        /\ sum + width <= low + range /\ low < BB /\ range < BB
        /\ sum \in Nat /\ BB \in Nat \ {0} /\ sum >= BB
    BY Narrowing, Constants DEF IInv, TypeOK
  <2> HIDE DEF width, sum, BB
  <2> QED
    BY <2>1
<1> HIDE DEF sum, BB
<1>2. m \in 0 .. BB - 1
  BY <1>1
<1>3. m % BB = m
  <2> HIDE DEF m
  <2> QED
    BY <1>1, <1>2, ModSmall
<1>4. sum % BB = m % BB
  BY <1>1, <1>2, SMTT(30)
<1> QED
  BY <1>2, <1>3, <1>4 DEF sum, BB

LEMMA DiagEncodeKeeps ==
  ASSUME DiagInv, NEW sym \in Occurring(cum), EncodeSymbol(sym),
         Diag!DiagEncode(cum, sym)
  PROVE  DiagFollowsEncoder' /\ stats' \in Counters /\ Balanced'
<1> DEFINE sum     == Sum(sym)
           width   == Width(sym)
           BB      == B * B
           narrow  == [low |-> sum % BB, range |-> width, cache |-> cache,
                       ff_count |-> ff_count]
           carried == Diag!AfterCarry(narrow, stats, sum >= BB)
<1>1. /\ IInv /\ stats \in Counters /\ Balanced /\ ~ flushed /\ ~ flushed'
      /\ enc = [low |-> low, range |-> range, cache |-> cache,
                ff_count |-> ff_count]
  BY DEF DiagInv, DiagFollowsEncoder, EncodeSymbol, IInv, TypeOK
<1>2. /\ cache \in Nat /\ ff_count \in Nat /\ out \in Seq(0 .. B - 1)
      /\ sum \in Nat /\ width \in Nat /\ BB \in Nat \ {0}
  BY <1>1, Narrowing, Constants DEF IInv, TypeOK
<1>3. Counted(stats) + ff_count = Len(out) /\ Counted(stats) \in Int
  BY <1>1, CounterFacts DEF Balanced
<1>4. LET done == Diag!AfterRenorm(carried[1], carried[2])
      IN enc' = done[1] /\ stats' = done[2]
  <2>1. [enc EXCEPT !.low = (enc.low + (enc.range \div TOTAL) * cum[sym]) % (B * B),
                    !.range = (enc.range \div TOTAL) * Freq(cum, sym)] = narrow
    <3> DEFINE bottom == (low + (range \div TOTAL) * cum[sym]) % (B * B)
               span   == (range \div TOTAL) * Freq(cum, sym)
    <3>1. enc.low = low /\ enc.range = range
      BY <1>1
    <3>2. narrow = [low |-> bottom, range |-> span, cache |-> cache,
                    ff_count |-> ff_count]
      BY DEF Sum, Width, Scale
    <3>3. bottom \in Nat /\ span \in Nat
      <4>1. bottom = sum % BB /\ span = width
        BY DEF Sum, Width, Scale
      <4> HIDE DEF bottom, span, sum, width, BB
      <4> QED
        BY <1>2, <4>1, EuclideanDivision
    <3>4. low \in Nat /\ range \in Nat
      BY <1>1, Constants DEF IInv, TypeOK
    <3>5. enc \in DiagState /\ enc.cache = cache /\ enc.ff_count = ff_count
      BY <1>1, <1>2, <3>4 DEF DiagState
    <3> HIDE DEF bottom, span, narrow
    <3>6. [enc EXCEPT !.low = bottom, !.range = span] = narrow
      BY <3>2, <3>3, <3>5, DiagUpdates, ZenonT(60)
    <3> QED
      BY <3>1, <3>6 DEF bottom, span
  <2>2. enc.low + (enc.range \div TOTAL) * cum[sym] = sum
    BY <1>1 DEF Sum, Scale
  <2> HIDE DEF narrow, sum
  <2> QED
    BY <2>1, <2>2 DEF Diag!DiagEncode, Diag!Freq, Freq
<1>5. \E words \in Seq(0 .. B - 1) :
        /\ carried[1] \in DiagState /\ carried[2] \in Counters
        /\ Renorm(carried[1].low, carried[1].range, carried[1].cache,
                  carried[1].ff_count, words)
        /\ Counted(carried[2]) + carried[1].ff_count = Len(words)
  <2>1. CASE PlainStep(sym)
    <3>1. sum < BB /\ Renorm(sum, width, cache, ff_count, out)
      BY <2>1 DEF PlainStep
    <3>2. sum % BB = sum /\ ~ (sum >= BB)
      <4> HIDE DEF sum, BB
      <4>1. sum \in 0 .. BB - 1
        BY <1>2, <3>1
      <4> QED
        BY <1>2, <4>1, <3>1, ModSmall
    <3>3. carried = <<narrow, stats>>
      BY <3>2 DEF Diag!AfterCarry
    <3>4. narrow \in DiagState
      <4> HIDE DEF sum, width, BB
      <4> QED
        BY <1>2, <3>2 DEF DiagState
    <3> HIDE DEF sum, width, BB, carried
    <3> QED
      BY <1>1, <1>2, <1>3, <3>1, <3>2, <3>3, <3>4
  <2>2. CASE CarryStep(sym)
    <3>1. /\ sum >= BB
          /\ Renorm(sum - BB, width, CarriedCache, 0, CarriedOut)
      BY <2>2 DEF CarryStep
    <3>2. ReadyForCarry
      BY <1>1, <3>1, CarryMeansReady
    <3>3. /\ CarriedCache \in Nat /\ CarriedCache = (cache + 1) % B
          /\ CarriedOut \in Seq(0 .. B - 1) /\ Len(CarriedOut) = Len(out)
      BY <1>1, <3>2, CarryPatch, Constants DEF IInv, CarriedCache
    <3>4. sum % BB = sum - BB /\ sum - BB \in Nat
      BY <1>1, <3>1, SumWraps
    <3> DEFINE longest == Diag!Longest(ff_count)
               e1 == [low |-> sum - BB, range |-> width, cache |-> CarriedCache,
                      ff_count |-> 0]
               c1 == [stats EXCEPT !.carry_hits = stats.carry_hits + 1,
                         !.straddle_flushed = stats.straddle_flushed + ff_count,
                         !.straddle_max_chain = longest]
    <3>5. carried = <<e1, c1>>
      <4>1. carried = <<[narrow EXCEPT !.cache = (narrow.cache + 1) % B, !.ff_count = 0],
                        [stats EXCEPT !.carry_hits = stats.carry_hits + 1,
                           !.straddle_flushed = stats.straddle_flushed + narrow.ff_count,
                           !.straddle_max_chain = Diag!Longest(narrow.ff_count)]>>
        BY <3>1 DEF Diag!AfterCarry
      <4>2. [narrow EXCEPT !.cache = (narrow.cache + 1) % B, !.ff_count = 0] = e1
        <5> DEFINE word == (cache + 1) % B
                   wrapped == sum % BB
                   rest == sum - BB
        <5>1. word = CarriedCache /\ wrapped = rest
          BY <3>3, <3>4
        <5>2. narrow.cache = cache
          OBVIOUS
        <5>3. /\ narrow.low = wrapped /\ narrow.range = width
              /\ e1 = [low |-> rest, range |-> width, cache |-> CarriedCache,
                       ff_count |-> 0]
          OBVIOUS
        <5>4. narrow \in DiagState
          <6> HIDE DEF sum, width, BB
          <6> QED
            BY <1>2, <3>4 DEF DiagState
        <5> HIDE DEF word, wrapped, rest, width, narrow, e1
        <5>5. [narrow EXCEPT !.cache = word, !.ff_count = 0] = e1
          BY <3>3, <5>1, <5>3, <5>4, DiagUpdates
        <5> QED
          BY <5>2, <5>5 DEF word
      <4>3. narrow.ff_count = ff_count
        OBVIOUS
      <4> HIDE DEF narrow, carried, sum, width, BB
      <4> QED
        BY <4>1, <4>2, <4>3
    <3>6. c1 \in Counters /\ Counted(c1) = Counted(stats) + ff_count
      <4>1. longest \in Nat
        BY <1>1, <1>2 DEF Diag!Longest, Counters
      <4> HIDE DEF longest
      <4> QED
        BY <1>1, <1>2, <4>1, RunIsCleared
    <3>7. e1 \in DiagState
      <4> HIDE DEF sum, width, BB
      <4> QED
        BY <1>2, <3>3, <3>4 DEF DiagState
    <3> HIDE DEF sum, width, BB, carried, c1
    <3>8. Counted(c1) + 0 = Len(CarriedOut)
      BY <1>2, <1>3, <3>3, <3>6
    <3> QED
      BY <3>1, <3>3, <3>5, <3>6, <3>7, <3>8
  <2> QED
    BY <2>1, <2>2 DEF EncodeSymbol
<1> DEFINE done == Diag!AfterRenorm(carried[1], carried[2])
<1>6. /\ done[1] = [low |-> low', range |-> range', cache |-> cache',
                     ff_count |-> ff_count']
      /\ done[2] \in Counters
      /\ Counted(done[2]) + ff_count' = Len(out')
  <2> HIDE DEF carried
  <2>1. PICK words \in Seq(0 .. B - 1) :
          /\ carried[1] \in DiagState /\ carried[2] \in Counters
          /\ Renorm(carried[1].low, carried[1].range, carried[1].cache,
                    carried[1].ff_count, words)
          /\ Counted(carried[2]) + carried[1].ff_count = Len(words)
    BY <1>5
  <2> QED
    BY <1>1, <2>1, DiagRenorm
<1> HIDE DEF done, carried
<1> QED
  BY <1>1, <1>4, <1>6 DEF done, DiagFollowsEncoder, Balanced

LEMMA DiagInitial == ToolsInit => DiagInv
<1> SUFFICES ASSUME ToolsInit PROVE DiagInv
  OBVIOUS
<1>1. IInv
  BY InitInvariant DEF ToolsInit, RoundTripInit
<1>2. /\ DiagFollowsEncoder /\ ff_count = 0 /\ Len(out) = 0 /\ ~ flushed
  BY DEF ToolsInit, RoundTripInit, Init, Diag!DiagInit, DiagFollowsEncoder
<1>3. /\ stats \in Counters /\ Counted(stats) = 0
  BY DEF ToolsInit, Diag!DiagInit, Counters, Counted
<1> QED
  BY <1>1, <1>2, <1>3 DEF DiagInv, Balanced

LEMMA DiagFlushKeeps ==
  ASSUME DiagInv, FlushBoth
  PROVE  DiagFollowsEncoder' /\ stats' \in Counters /\ Balanced'
<1>1. /\ ~ flushed /\ flushed' /\ enc' = enc
      /\ UNCHANGED <<low, range, cache, ff_count>>
      /\ out' = Poke(out, cache_ptr, cache) \o <<low \div B, low % B>>
      /\ stats' = [stats EXCEPT !.flush_words = 1 + ff_count + 2]
  BY DEF FlushBoth, FlushFile, Flush, Diag!DiagFlush, DiagInv, DiagFollowsEncoder
<1>2. /\ stats \in Counters /\ ff_count \in Nat /\ out \in Seq(0 .. B - 1)
      /\ Counted(stats) + ff_count = Len(out) /\ Counted(stats) \in Int
  BY <1>1, CounterFacts DEF DiagInv, IInv, TypeOK, Balanced
<1>3. Len(out') = Len(out) + 2
  <2> DEFINE words == Poke(out, cache_ptr, cache)
             hi == low \div B
             lo == low % B
  <2>1. out' = out \o <<hi, lo>>
    BY <1>1, FlushKeepsCache DEF Flush, FlushBoth, FlushFile, DiagInv
  <2> HIDE DEF hi, lo
  <2> QED
    BY <1>2, <2>1
<1>4. /\ stats' \in Counters /\ Counted(stats') = Counted(stats)
      /\ stats'.flush_words = ff_count + 3
  <2> DEFINE w == 1 + ff_count + 2
  <2>1. w \in Nat /\ w = ff_count + 3
    BY <1>2
  <2>2. stats' = [stats EXCEPT !.flush_words = w]
    BY <1>1
  <2> HIDE DEF w
  <2>3. /\ stats' \in Counters /\ stats'.flush_words = w
        /\ stats'.renorm_hits = stats.renorm_hits
        /\ stats'.straddle_hits = stats.straddle_hits
        /\ stats'.straddle_flushed = stats.straddle_flushed
    BY <1>2, <2>1, <2>2 DEF Counters
  <2> QED
    BY <2>1, <2>3, Zenon DEF Counted
<1>5. Counted(stats') + stats'.flush_words = Len(out') + 1
  BY <1>2, <1>3, <1>4
<1> QED
  BY <1>1, <1>4, <1>5 DEF DiagInv, DiagFollowsEncoder, Balanced

LEMMA DiagStep == DiagInv /\ [ToolsNext]_toolVars => DiagInv'
<1> SUFFICES ASSUME DiagInv, [ToolsNext]_toolVars PROVE DiagInv'
  OBVIOUS
<1>1. IInv'
  BY EncoderPart, NextInvariant DEF DiagInv
<1>2. CASE EncodeAndDiagnose
  BY <1>1, <1>2, DiagEncodeKeeps DEF EncodeAndDiagnose, EncodeData, DiagInv
<1>3. CASE FlushBoth
  BY <1>1, <1>3, DiagFlushKeeps DEF DiagInv
<1>4. CASE DecodeFile \/ UNCHANGED toolVars
  <2>1. UNCHANGED <<vars, enc, stats>>
    BY <1>4 DEF DecodeFile, DecInit, Decode, toolVars, allVars
  <2> QED
    BY <1>1, <2>1 DEF DiagInv, DiagFollowsEncoder, Balanced, vars
<1> QED
  BY <1>2, <1>3, <1>4 DEF ToolsNext

(* rc_diag runs the same algorithm as rc_encode: its deferred cache and its *)
(* bare run length are those of the coder that writes in place.             *)
THEOREM DiagRunsBeside == ToolsSpec => []DiagFollowsEncoder
<1>1. DiagInv => DiagFollowsEncoder
  BY DEF DiagInv
<1> QED
  BY <1>1, DiagInitial, DiagStep, PTL DEF ToolsSpec

(* The report of rc_diag is one word more than rc_encode writes: no carry   *)
(* and no run of full words makes it miss a word or count one twice.        *)
THEOREM EstimateIsExactlyOneHigh == ToolsSpec => []EstimateIsOneWordHigh
<1>1. DiagInv => EstimateIsOneWordHigh
  BY DEF DiagInv, Balanced, EstimateIsOneWordHigh, Diag!StreamWordsApprox,
         Counted
<1> QED
  BY <1>1, DiagInitial, DiagStep, PTL DEF ToolsSpec

-----------------------------------------------------------------------------
(* Number is the last of the numbers the prefixes of the words spell.       *)
LEMMA NumberIsSpelled ==
  ASSUME NEW words \in Seq(0 .. B - 1), NEW P, Prefixes(B, words, P)
  PROVE  Number(words) = P[Len(words)] /\ Number(words) \in Nat
<1> DEFINE n == Len(words)
           W == CHOOSE f : f = [ j \in 0 .. n |->
                                   IF j = 0 THEN 0 ELSE f[j - 1] * B + words[j] ]
<1>1. Number(words) = W[n]
  BY Zenon DEF Number
<1>2. /\ P \in [0 .. n -> Nat] /\ P[0] = 0
      /\ \A j \in 1 .. n : P[j] = P[j - 1] * B + words[j]
  BY DEF Prefixes
<1>3. n \in Nat
  OBVIOUS
<1>4. P = [ j \in 0 .. n |-> IF j = 0 THEN 0 ELSE P[j - 1] * B + words[j] ]
  <2>1. P = [ j \in 0 .. n |-> P[j] ]
    BY <1>2
  <2>2. ASSUME NEW j \in 0 .. n
        PROVE  P[j] = IF j = 0 THEN 0 ELSE P[j - 1] * B + words[j]
    <3>1. j = 0 \/ j \in 1 .. n
      BY <1>3
    <3>2. 1 .. n \in SUBSET Nat /\ 0 \notin 1 .. n
      BY <1>3
    <3> QED
      BY <1>2, <3>1, <3>2, Zenon
  <2> QED
    BY <2>1, <2>2, Zenon
<1>5. W = [ j \in 0 .. n |-> IF j = 0 THEN 0 ELSE W[j - 1] * B + words[j] ]
  BY <1>4, Zenon
<1> HIDE DEF W, n
<1>6. /\ \A j \in 0 .. n : W[j] = IF j = 0 THEN 0 ELSE W[j - 1] * B + words[j]
      /\ W = [ j \in 0 .. n |-> W[j] ]
  BY <1>5, Zenon
<1>7. /\ 0 \in 0 .. n /\ n \in 0 .. n
      /\ \A j \in 1 .. n : j \in 0 .. n /\ j # 0
  BY <1>3
<1>8. W[0] = 0 /\ \A j \in 1 .. n : W[j] = W[j - 1] * B + words[j]
  BY <1>6, <1>7, Zenon
<1>9. W \in [0 .. n -> Nat]
  <2>1. ASSUME NEW j \in 1 .. n, W[j - 1] \in Nat PROVE W[j] \in Nat
    <3>1. W[j - 1] * B \in Nat
      BY <2>1, Constants, SMTT(60)
    <3>2. words[j] \in Nat
      BY ElementFacts, Constants DEF n
    <3> DEFINE product == W[j - 1] * B
    <3>3. W[j] = product + words[j] /\ product \in Nat
      BY <1>8, <3>1, Zenon
    <3> HIDE DEF product
    <3> QED
      BY <3>2, <3>3
  <2>2. W[0] \in Nat
    BY <1>8
  <2>3. \A j \in 1 .. n : W[j - 1] \in Nat => W[j] \in Nat
    BY <2>1, Zenon
  <2> QED
    BY <1>3, <1>6, <2>2, <2>3, StaysIn, Zenon
<1>10. Prefixes(B, words, W)
  BY <1>8, <1>9, Zenon DEF Prefixes, n
<1>11. W[n] = P[n]
  BY <1>3, <1>10, PrefixesAgree, Zenon DEF n
<1>12. P[n] \in Nat
  BY <1>2, <1>7
<1> QED
  BY <1>1, <1>11, <1>12 DEF n

(* One more word multiplies the number by the base and adds the word.       *)
LEMMA NumberExtends ==
  ASSUME NEW words \in Seq(0 .. B - 1), NEW word \in 0 .. B - 1
  PROVE  /\ Number(words) \in Nat
         /\ Number(Append(words, word)) = Number(words) * B + word
<1> DEFINE longer == Append(words, word)
           n == Len(words)
<1>0. B \in Nat
  BY Constants
<1>1. PICK P : Prefixes(B, words, P)
  BY <1>0, PrefixesExist
<1> DEFINE Q == WithWord(B, words, word, P)
<1>2. Prefixes(B, longer, Q) /\ Q[n + 1] = P[n] * B + word
  BY <1>0, <1>1, ExtendPrefixes
<1>3. longer \in Seq(0 .. B - 1) /\ Len(longer) = n + 1
  BY AppendFacts
<1>4. Number(words) = P[n] /\ Number(words) \in Nat
  BY <1>1, NumberIsSpelled
<1> HIDE DEF longer, Q, n
<1>5. Number(longer) = Q[n + 1]
  BY <1>2, <1>3, NumberIsSpelled
<1> QED
  BY <1>2, <1>4, <1>5 DEF longer

(* One symbol moves the number in buffer and low to the lower end of the    *)
(* narrowed interval: the exact coder narrows the same way.                 *)
LEMMA EncodeIsExact ==
  ASSUME IInv, NEW sym \in Occurring(cum), EncodeSymbol(sym)
  PROVE  Exact!Narrow(sym)
<1> DEFINE BB  == B * B
           t   == range \div TOTAL
           sum == Sum(sym)
           old == Number(out)
<1>1. PICK digits \in Seq(0 .. B - 1), bottom \in 0 .. B * B - 1 :
        /\ Len(digits) = Len(out)
        /\ Spells(B, out, sum, digits, bottom)
        /\ Renormed(B, digits, bottom, Width(sym), out', low', range')
  BY EncodeSpells
<1>2. /\ ~ flushed /\ ~ flushed' /\ out \in Seq(0 .. B - 1) /\ Len(out) \in Nat
      /\ low \in Nat /\ B \in Nat
  BY Constants DEF IInv, TypeOK, EncodeSymbol
<1>3. sum = low + t * cum[sym] /\ Width(sym) = t * Freq(cum, sym)
      /\ Exact!Freq(cum, sym) = Freq(cum, sym)
  BY DEF Sum, Width, Scale, Freq, Exact!Freq
<1> DEFINE new == Number(digits)
<1>4. new * BB + bottom = old * BB + sum /\ old \in Nat /\ new \in Nat
  <2>1. PICK P : Prefixes(B, out, P)
    BY <1>2, PrefixesExist
  <2>2. PICK Q : /\ Prefixes(B, digits, Q)
                 /\ Q[Len(out)] * BB + bottom = P[Len(out)] * BB + sum
    BY <1>1, <2>1 DEF Spells
  <2>3. old = P[Len(out)] /\ old \in Nat
    BY <1>2, <2>1, NumberIsSpelled
  <2>4. new = Q[Len(out)] /\ new \in Nat
    BY <1>1, <2>2, NumberIsSpelled
  <2> HIDE DEF old, new, sum, BB
  <2> QED
    BY <2>2, <2>3, <2>4
<1>5. old * BB + sum = old * BB + low + t * cum[sym]
  <2> DEFINE a == old * BB
             b == t * cum[sym]
  <2>1. a \in Nat /\ b \in Nat
    <3>1. sum \in Nat /\ BB \in Nat
      BY Narrowing, Constants DEF IInv, TypeOK
    <3>2. a \in Nat
      <4> HIDE DEF old, BB
      <4> QED
        BY <1>4, <3>1, SMTT(60)
    <3>3. b \in Nat
      <4> DEFINE c == cum[sym]
      <4>1. t \in Nat /\ c \in Nat
        BY Narrowing, TableFacts DEF IInv, TypeOK, Scale
      <4> HIDE DEF t, c
      <4> QED
        BY <4>1, MulMonotone DEF c
    <3> QED
      BY <3>2, <3>3
  <2>2. sum = low + b
    BY <1>3
  <2> HIDE DEF a, b, sum
  <2> QED
    BY <1>2, <2>1, <2>2 DEF a, b
<1> HIDE DEF old, new, sum, t
<1> DEFINE target == old * BB + low + t * cum[sym]
<1>6. new * BB + bottom = target
  BY <1>4, <1>5
<1>7. /\ Exact!Narrow(sym) =
           IF t * Freq(cum, sym) < B
             THEN /\ Number(out') * BB + low' = target * B
                  /\ range' = (t * Freq(cum, sym)) * B
                  /\ Len(out') = Len(out) + 1
             ELSE /\ Number(out') * BB + low' = target
                  /\ range' = t * Freq(cum, sym)
                  /\ Len(out') = Len(out)
  BY <1>2, <1>3 DEF Exact!Narrow, old, t
<1>8. CASE Width(sym) < B
  <2> DEFINE top == bottom \div B
             rest == (bottom % B) * B
  <2>1. out' = Append(digits, top) /\ low' = rest /\ range' = Width(sym) * B
    BY <1>1, <1>8 DEF Renormed
  <2>2. top \in 0 .. B - 1
    BY TopWord, BaseFits
  <2>3. (new * BB + bottom) * B = (new * B + top) * BB + rest
    BY <1>4, ShiftOut, BaseFits
  <2> HIDE DEF top, rest, BB
  <2>4. Number(out') = new * B + top /\ Len(out') = Len(out) + 1
    BY <1>1, <2>1, <2>2, NumberExtends, AppendFacts DEF new
  <2>5. Number(out') * BB + low' = target * B
    BY <1>6, <2>1, <2>3, <2>4, Zenon
  <2> QED
    BY <1>3, <1>7, <1>8, <2>1, <2>4, <2>5, Zenon
<1>9. CASE ~ (Width(sym) < B)
  <2>1. out' = digits /\ low' = bottom /\ range' = Width(sym)
    BY <1>1, <1>9 DEF Renormed
  <2>2. Number(out') * BB + low' = target
    BY <1>6, <2>1 DEF new
  <2> HIDE DEF target, BB
  <2> QED
    BY <1>1, <1>3, <1>7, <1>9, <2>1, <2>2, Zenon
<1> QED
  BY <1>8, <1>9

(* The flush writes low behind the words, so that the file spells the lower *)
(* end of the last interval.                                                *)
LEMMA FlushIsExact ==
  ASSUME IInv, Flush
  PROVE  Exact!Finish
<1> DEFINE hi   == low \div B
           lo   == low % B
           head == Append(out, hi)
           BB   == B * B
           old  == Number(out)
<1>1. /\ left = 0 /\ ~ flushed /\ flushed' /\ flushed' = TRUE
      /\ cum' = cum /\ left' = left /\ range' = range
      /\ out \in Seq(0 .. B - 1) /\ low \in 0 .. B * B - 1 /\ B \in Nat
  BY Constants DEF Flush, IInv, TypeOK
<1>2. hi \in 0 .. B - 1 /\ lo \in 0 .. B - 1 /\ low = hi * B + lo
  BY <1>1, TopWord, BaseFits
<1>3. out' = out \o <<hi, lo>>
  BY FlushKeepsCache DEF Flush
<1> HIDE DEF hi, lo
<1>4. out \o <<hi, lo>> = Append(head, lo)
  BY <1>1, <1>2
<1>5. /\ old \in Nat /\ Number(head) = old * B + hi
      /\ head \in Seq(0 .. B - 1) /\ Len(head) = Len(out) + 1
  BY <1>1, <1>2, NumberExtends, AppendFacts
<1> HIDE DEF head, old
<1>6. /\ Number(out') = Number(head) * B + lo
      /\ Len(out') = Len(head) + 1
  <2>1. Number(Append(head, lo)) = Number(head) * B + lo
    BY <1>2, <1>5, NumberExtends
  <2>2. Len(Append(head, lo)) = Len(head) + 1
    BY <1>2, <1>5, AppendFacts
  <2>3. out' = Append(head, lo)
    BY <1>3, <1>4
  <2> QED
    BY <2>1, <2>2, <2>3, Zenon
<1>7. Number(out') = old * BB + low
  <2>1. (old * B + hi) * B = old * (B * B) + hi * B
    BY <1>1, <1>2, <1>5, SMTT(60)
  <2>2. old * (B * B) \in Nat /\ hi * B \in Nat
    BY <1>1, <1>2, <1>5, SMTT(60)
  <2> QED
    BY <1>2, <1>5, <1>6, <2>1, <2>2
<1>8. Len(out') - 2 = Len(out)
  BY <1>1, <1>5, <1>6
<1>9. /\ (IF flushed' THEN Number(out') ELSE Number(out') * (B * B) + low')
           = (IF flushed THEN Number(out) ELSE Number(out) * (B * B) + low)
      /\ (IF flushed' THEN Len(out') - 2 ELSE Len(out'))
           = (IF flushed THEN Len(out) - 2 ELSE Len(out))
  BY <1>1, <1>7, <1>8, Zenon DEF old
<1> QED
  BY <1>1, <1>9, Zenon DEF Exact!Finish

LEMMA StepIsExact ==
  ASSUME IInv, [Next]_vars
  PROVE  [Exact!Next]_(Exact!vars)
<1>1. CASE Encode
  <2>1. PICK sym \in Occurring(cum) : EncodeSymbol(sym)
    BY <1>1 DEF Encode
  <2>2. Exact!Narrow(sym)
    BY <2>1, EncodeIsExact
  <2>3. sym \in Exact!Occurring(cum)
    BY DEF Occurring, Exact!Occurring, Symbols, Exact!Symbols, Freq, Exact!Freq
  <2>4. left > 0 /\ left' = left - 1 /\ cum' = cum /\ flushed' = flushed
    BY <2>1 DEF EncodeSymbol
  <2>5. Exact!Encode
    BY <2>2, <2>3, <2>4 DEF Exact!Encode
  <2> QED
    BY <2>5 DEF Exact!Next
<1>2. CASE Flush
  BY <1>2, FlushIsExact DEF Exact!Next
<1>3. CASE UNCHANGED vars
  BY <1>3 DEF vars, Exact!vars
<1> QED
  BY <1>1, <1>2, <1>3 DEF Next

LEMMA InitIsExact == Init => Exact!Init
<1> SUFFICES ASSUME Init PROVE Exact!Init
  OBVIOUS
<1>1. /\ cum \in Tables /\ left \in 1 .. MAX_SYMBOLS /\ low = 0
      /\ range = B * B - 1 /\ out = << >> /\ flushed = FALSE
  BY DEF Init
<1>2. Tables = Exact!Tables
  BY DEF Tables, Exact!Tables, Symbols, Exact!Symbols, Freq, Exact!Freq
<1>3. Number(out) = 0
  <2>1. out \in Seq(0 .. B - 1) /\ B \in Nat /\ Len(out) = 0
    BY <1>1, Constants
  <2>2. PICK P : Prefixes(B, out, P)
    BY <2>1, PrefixesExist
  <2>3. P[0] = 0
    BY <2>2 DEF Prefixes
  <2> QED
    BY <2>1, <2>2, <2>3, NumberIsSpelled
<1>4. Number(out) * (B * B) + low = 0
  <2> DEFINE BB == B * B
  <2>1. BB \in Nat
    BY Constants
  <2> HIDE DEF BB
  <2>2. 0 * BB + 0 = 0
    BY <2>1
  <2> QED
    BY <1>1, <1>3, <2>2 DEF BB
<1>5. Len(out) = 0
  BY <1>1
<1> QED
  BY <1>1, <1>2, <1>4, <1>5 DEF Exact!Init

(* Whatever carries were patched into the words already written, buffer and *)
(* low read as one number are the exact lower end of the interval: the      *)
(* 64-bit encoder implements range coding with numbers that never wrap.     *)
THEOREM ExactRefinement == Spec => ImplementsExactCoder
<1>1. IInv /\ [Next]_vars => [Exact!Next]_(Exact!vars)
  BY StepIsExact
<1> QED
  BY <1>1, InitIsExact, Invariance, PTL
     DEF Spec, Exact!Spec, ImplementsExactCoder
=============================================================================
