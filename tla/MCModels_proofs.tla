--------------------------- MODULE MCModels_proofs ---------------------------
(***************************************************************************)
(* Proofs about the 12-bit model for every alphabet, every scale and every *)
(* count of the bytes: the table that is built covers the scale and gives  *)
(* every byte of the file a frequency, as long as max_sym can pay for the  *)
(* bytes that were rounded up; the lookup table and the binary search find *)
(* the symbol whose interval a value lies in; and the two divisions by     *)
(* table are exact, for every width of the registers and of the tables.    *)
(***************************************************************************)
EXTENDS MCModels, CodedInterval, FiniteSetTheorems

-----------------------------------------------------------------------------
(* Greatest and least elements, as the model names them.                    *)
LEMMA MaxFacts ==
  ASSUME NEW b \in Nat, NEW S \in SUBSET (0 .. b), S # {}
  PROVE  Max(S) \in S /\ \A x \in S : x <= Max(S)
<1>1. \E m \in S : \A x \in S : x <= m
  BY GreatestElement
<1>2. \A m \in S : (\A x \in S : x <= m) <=> (\A x \in S : m >= x)
  OBVIOUS
<1>3. \E m \in S : \A x \in S : m >= x
  BY <1>1, <1>2, Zenon
<1>4. Max(S) = CHOOSE m \in S : \A x \in S : m >= x
  BY Zenon DEF Max
<1>5. Max(S) \in S /\ \A x \in S : Max(S) >= x
  BY <1>3, <1>4, Zenon
<1> QED
  BY <1>2, <1>5, Zenon

LEMMA MinFacts ==
  ASSUME NEW S \in SUBSET Nat, S # {}
  PROVE  Min(S) \in S
<1>1. \E m \in S : \A x \in S : m <= x
  BY LeastElement
<1>2. Min(S) = CHOOSE m \in S : \A x \in S : m <= x
  BY Zenon DEF Min
<1> QED
  BY <1>1, <1>2, Zenon

LEMMA SymbolFacts ==
  /\ ALPHABET \in Nat \ {0} /\ TOTAL \in Nat \ {0} /\ ALPHABET \in 0 .. ALPHABET
  /\ \A s \in Symbols : s \in Nat /\ s \in 0 .. ALPHABET /\ s + 1 \in 1 .. ALPHABET
  /\ \A s \in 1 .. ALPHABET : s - 1 \in Symbols /\ s - 1 \in 0 .. ALPHABET
  BY AlphabetAssumption, TotalAssumption DEF Symbols

-----------------------------------------------------------------------------
(* Running sums.                                                            *)
Sums(f, m) ==
  /\ m \in [0 .. ALPHABET -> Nat]
  /\ m[0] = 0
  /\ \A s \in Symbols : m[s + 1] = m[s] + f[s]

LEMMA CumulativeSums ==
  ASSUME NEW f \in [Symbols -> Nat]
  PROVE  Sums(f, Cumulative(f))
<1> DEFINE m == ALPHABET
           step == [ s \in 1 .. m |-> [ x \in Nat |-> x + f[s - 1] ] ]
           Body(g) == g = [ s \in 0 .. m |-> IF s = 0 THEN 0 ELSE g[s - 1] + f[s - 1] ]
<1>1. m \in Nat /\ 0 \in Nat /\ \A s \in 1 .. m : s - 1 \in Symbols /\ f[s - 1] \in Nat
  BY SymbolFacts
<1>2. step \in [1 .. m -> [Nat -> Nat]]
  BY <1>1
<1>3. PICK g : g \in [0 .. m -> Nat] /\ Recursive(m, 0, step, g)
  <2> HIDE DEF step
  <2> QED
    BY <1>1, <1>2, Recursion
<1>4. ASSUME NEW s \in 0 .. m, s # 0
      PROVE  step[s][g[s - 1]] = g[s - 1] + f[s - 1]
  <2>1. s \in 1 .. m /\ s - 1 \in 0 .. m
    BY <1>1, <1>4
  <2>2. g[s - 1] \in Nat
    BY <1>3, <2>1
  <2> QED
    BY <2>1, <2>2
<1> HIDE DEF step
<1>5. Body(g)
  <2>1. [ s \in 0 .. m |-> IF s = 0 THEN 0 ELSE step[s][g[s - 1]] ]
          = [ s \in 0 .. m |-> IF s = 0 THEN 0 ELSE g[s - 1] + f[s - 1] ]
    BY <1>4, Zenon
  <2> QED
    BY <1>3, <2>1, Zenon DEF Recursive
<1>6. Cumulative(f) = CHOOSE h : Body(h)
  BY Zenon DEF Cumulative
<1>7. ASSUME NEW h, Body(h) PROVE Sums(f, h)
  <2>1. \A s \in 0 .. m : h[s] = IF s = 0 THEN 0 ELSE h[s - 1] + f[s - 1]
    BY <1>7, Zenon
  <2>2. /\ \A s \in 1 .. m : s \in 0 .. m /\ s # 0
        /\ 0 \in 0 .. m
    BY <1>1
  <2>3. h[0] = 0 /\ \A s \in 1 .. m : h[s] = h[s - 1] + f[s - 1]
    BY <2>1, <2>2, Zenon
  <2>4. \A s \in 1 .. m : h[s - 1] \in Nat => h[s] \in Nat
    <3>1. ASSUME NEW s \in 1 .. m, h[s - 1] \in Nat PROVE h[s] \in Nat
      <4>1. h[s] = h[s - 1] + f[s - 1] /\ f[s - 1] \in Nat
        BY <1>1, <2>3
      <4> QED
        BY <3>1, <4>1
    <3> QED
      BY <3>1
  <2>5. h = [ s \in 0 .. m |-> h[s] ]
    BY <1>7, Zenon
  <2>6. h \in [0 .. m -> Nat]
    BY <1>1, <2>3, <2>4, <2>5, StaysIn, ZenonT(60)
  <2>7. ASSUME NEW s \in Symbols PROVE h[s + 1] = h[s] + f[s]
    <3>1. s + 1 \in 1 .. m /\ (s + 1) - 1 = s
      BY SymbolFacts
    <3> QED
      BY <2>3, <3>1
  <2> QED
    BY <2>3, <2>6, <2>7, Zenon DEF Sums, m
<1> HIDE DEF Body
<1>8. Body(Cumulative(f))
  BY <1>5, <1>6, Zenon
<1> QED
  BY <1>7, <1>8, Zenon

(* The sums grow, and by each frequency.                                    *)
LEMMA SumsGrow ==
  ASSUME NEW f \in [Symbols -> Nat], NEW m, Sums(f, m)
  PROVE  \A s, t \in 0 .. ALPHABET : s <= t => m[s] <= m[t]
<1>1. ASSUME NEW s \in 0 .. ALPHABET, NEW t0 \in 0 .. ALPHABET, s <= t0, m[s] > m[t0]
      PROVE  FALSE
  <2> DEFINE Bad == { t \in 0 .. ALPHABET : s <= t /\ m[s] > m[t] }
  <2>1. Bad \in SUBSET Nat /\ t0 \in Bad
    BY <1>1
  <2>2. PICK t \in Bad : \A u \in Bad : t <= u
    <3> HIDE DEF Bad
    <3> QED
      BY <2>1, LeastElement
  <2>3. t \in 0 .. ALPHABET /\ s <= t /\ m[s] > m[t]
    BY <2>2
  <2>4. m[s] \in Nat /\ m[t] \in Nat
    BY <2>3 DEF Sums
  <2>5. s < t /\ t - 1 \in 0 .. ALPHABET /\ s <= t - 1 /\ t - 1 \in Symbols
    BY <2>3, <2>4, SymbolFacts DEF Symbols
  <2>6. m[t - 1] \in Nat /\ f[t - 1] \in Nat
    BY <2>5 DEF Sums
  <2>7. (t - 1) + 1 = t
    BY <2>3
  <2>8. m[t] = m[t - 1] + f[t - 1]
    BY <2>5, <2>7, Zenon DEF Sums
  <2>9. t - 1 \in Bad
    BY <2>3, <2>4, <2>5, <2>6, <2>8
  <2> HIDE DEF Bad
  <2> QED
    BY <2>2, <2>3, <2>9
<1>2. \A s \in 0 .. ALPHABET : m[s] \in Nat
  BY DEF Sums
<1> QED
  BY <1>1, <1>2

LEMMA PartsOfSum ==
  ASSUME NEW f \in [Symbols -> Nat], NEW m, Sums(f, m)
  PROVE  /\ m[ALPHABET] \in Nat
         /\ \A s \in Symbols : f[s] <= m[ALPHABET] /\ Freq(m, s) = f[s]
         /\ \A s, t \in Symbols : s # t => f[s] + f[t] <= m[ALPHABET]
<1>1. m[ALPHABET] \in Nat /\ \A s \in 0 .. ALPHABET : m[s] \in Nat
  BY SymbolFacts DEF Sums
<1>2. ASSUME NEW s \in Symbols
      PROVE  /\ m[s] \in Nat /\ m[s + 1] = m[s] + f[s] /\ f[s] \in Nat
             /\ m[s + 1] <= m[ALPHABET] /\ Freq(m, s) = f[s]
  <2>1. s \in 0 .. ALPHABET /\ s + 1 \in 0 .. ALPHABET /\ s + 1 <= ALPHABET
        /\ ALPHABET \in 0 .. ALPHABET
    BY SymbolFacts
  <2>2. m[s] \in Nat /\ f[s] \in Nat /\ m[s + 1] = m[s] + f[s]
    BY <1>1, <2>1 DEF Sums
  <2>3. m[s + 1] <= m[ALPHABET]
    BY <2>1, SumsGrow
  <2> QED
    BY <2>2, <2>3 DEF Freq
<1>3. ASSUME NEW s \in Symbols, NEW t \in Symbols, s < t
      PROVE  f[s] + f[t] <= m[ALPHABET]
  <2>1. s + 1 \in 0 .. ALPHABET /\ t \in 0 .. ALPHABET /\ s + 1 <= t
    BY <1>3, SymbolFacts
  <2>2. m[s + 1] <= m[t]
    BY <2>1, SumsGrow
  <2> QED
    BY <1>1, <1>2, <2>2
<1>4. ASSUME NEW s \in Symbols, NEW t \in Symbols, s # t
      PROVE  f[s] + f[t] <= m[ALPHABET]
  <2>1. s < t \/ t < s
    BY <1>4, SymbolFacts
  <2>2. f[s] + f[t] = f[t] + f[s]
    BY <1>2
  <2> QED
    BY <1>3, <2>1, <2>2
<1>5. \A s \in Symbols : f[s] <= m[ALPHABET]
  BY <1>1, <1>2
<1> QED
  BY <1>1, <1>2, <1>4, <1>5, Zenon

(* One frequency that changes by e changes the whole sum by e.              *)
OthersKept(f, g, x) == \A s \in Symbols : s # x => g[s] = f[s]

LEMMA SumChanges ==
  ASSUME NEW f \in [Symbols -> Nat], NEW g \in [Symbols -> Nat],
         NEW m, Sums(f, m), NEW w, Sums(g, w),
         NEW x \in Symbols, NEW e \in Int, g[x] = f[x] - e, OthersKept(f, g, x)
  PROVE  w[ALPHABET] = m[ALPHABET] - e
<1> DEFINE Right(s) == w[s] = IF s <= x THEN m[s] ELSE m[s] - e
           Bad == { s \in 0 .. ALPHABET : ~ Right(s) }
<1>1. /\ \A s \in 0 .. ALPHABET : m[s] \in Nat /\ w[s] \in Nat
      /\ m[0] = 0 /\ w[0] = 0
  BY DEF Sums
<1>2. ASSUME Bad # {} PROVE FALSE
  <2>1. Bad \in SUBSET Nat
    OBVIOUS
  <2>2. PICK t \in Bad : \A u \in Bad : t <= u
    <3> HIDE DEF Bad
    <3> QED
      BY <1>2, <2>1, LeastElement
  <2>3. t \in 0 .. ALPHABET /\ ~ Right(t) /\ x \in Nat
    BY <2>2, SymbolFacts
  <2>4. t # 0
    BY <1>1, <2>3
  <2>5. /\ t - 1 \in Symbols /\ t - 1 \in 0 .. ALPHABET /\ (t - 1) + 1 = t
        /\ ~ (t <= t - 1)
    BY <2>3, <2>4, SymbolFacts DEF Symbols
  <2>6. Right(t - 1)
    BY <2>2, <2>5
  <2>7. m[t] = m[t - 1] + f[t - 1] /\ w[t] = w[t - 1] + g[t - 1]
    BY <2>5, Zenon DEF Sums
  <2>8. /\ f[t - 1] \in Nat /\ g[t - 1] \in Nat
        /\ g[t - 1] = IF t - 1 = x THEN f[t - 1] - e ELSE f[t - 1]
    BY <2>5 DEF OthersKept
  <2>9. m[t - 1] \in Nat /\ w[t - 1] \in Nat
    BY <1>1, <2>5
  <2> QED
    BY <2>3, <2>6, <2>7, <2>8, <2>9
<1>3. ALPHABET \in 0 .. ALPHABET /\ ~ (ALPHABET <= x)
  BY SymbolFacts DEF Symbols
<1> HIDE DEF Right
<1>4. Right(ALPHABET)
  BY <1>2, <1>3
<1> QED
  BY <1>3, <1>4 DEF Right

-----------------------------------------------------------------------------
(* What the scaling makes of the counts.                                    *)
Counted == raw_freq \in [Symbols -> Nat]

LEMMA CountsAddUp ==
  ASSUME Counted
  PROVE  /\ Sums(raw_freq, Cumulative(raw_freq))
         /\ Cumulative(raw_freq)[ALPHABET] \in Nat
         /\ \A s \in Symbols : raw_freq[s] <= Cumulative(raw_freq)[ALPHABET]
         /\ Active \subseteq Symbols
<1>1. raw_freq \in [Symbols -> Nat]
  BY DEF Counted
<1>2. Sums(raw_freq, Cumulative(raw_freq))
  BY <1>1, CumulativeSums
<1>3. Active \subseteq Symbols
  BY DEF Active
<1> QED
  BY <1>1, <1>2, <1>3, PartsOfSum

LEMMA SharesFit ==
  ASSUME Counted
  PROVE  /\ AllScaled \in [Symbols -> Nat]
         /\ \A s \in Active : AllScaled[s] >= 1
         /\ Excess \in Int
         /\ Sums(AllScaled, Cumulative(AllScaled))
<1> DEFINE total == Cumulative(raw_freq)[ALPHABET]
           share(s) == AtLeastOne((raw_freq[s] * TOTAL) \div total)
<1>1. AllScaled = [ s \in Symbols |-> IF s \in Active THEN share(s) ELSE 0 ]
  BY Zenon DEF AllScaled
<1>2. ASSUME NEW s \in Active PROVE share(s) \in Nat /\ share(s) >= 1
  <2>1. s \in Symbols /\ raw_freq[s] \in Nat /\ raw_freq[s] > 0
    BY DEF Active, Counted
  <2>2. total \in Nat \ {0}
    BY <2>1, CountsAddUp
  <2> HIDE DEF total
  <2>3. raw_freq[s] * TOTAL \in Nat
    BY <2>1, TotalAssumption, SMTT(30)
  <2>4. (raw_freq[s] * TOTAL) \div total \in Nat
    BY <2>2, <2>3, EuclideanDivision
  <2> QED
    BY <2>4 DEF AtLeastOne
<1> HIDE DEF share
<1>3. /\ AllScaled \in [Symbols -> Nat]
      /\ \A s \in Active : AllScaled[s] >= 1
  BY <1>1, <1>2, CountsAddUp
<1>4. Sums(AllScaled, Cumulative(AllScaled))
  BY <1>3, CumulativeSums
<1>5. Excess \in Int
  BY <1>3, <1>4, PartsOfSum, TotalAssumption DEF Excess
<1> QED
  BY <1>3, <1>4, <1>5

LEMMA MaxSymIsSymbol ==
  ASSUME Counted
  PROVE  max_sym \in Symbols
<1> DEFINE V == { raw_freq[s] : s \in Symbols }
           top == Max(V)
           Firsts == { s \in Symbols : raw_freq[s] = top }
<1>1. max_sym = IF top <= 1 THEN 0 ELSE Min(Firsts)
  BY Zenon DEF max_sym
<1>2. 0 \in Symbols /\ Symbols \subseteq Nat
  BY SymbolFacts DEF Symbols
<1>3. top \in V
  <2> DEFINE b == Cumulative(raw_freq)[ALPHABET]
  <2>1. b \in Nat /\ \A s \in Symbols : raw_freq[s] \in Nat /\ raw_freq[s] <= b
    BY CountsAddUp DEF Counted
  <2> HIDE DEF b
  <2>2. V \in SUBSET (0 .. b) /\ V # {}
    BY <1>2, <2>1
  <2> HIDE DEF V
  <2> QED
    BY <2>1, <2>2, MaxFacts
<1>4. Min(Firsts) \in Firsts
  <2>1. Firsts \in SUBSET Nat /\ Firsts # {}
    BY <1>2, <1>3
  <2> HIDE DEF Firsts
  <2> QED
    BY <2>1, MinFacts
<1> QED
  BY <1>1, <1>2, <1>4

(* Two bytes are in a file of more than one.                                *)
LEMMA AnotherByte ==
  ASSUME Counted, Cardinality(Active) > 1
  PROVE  \A s : \E t \in Active : t # s
<1>1. ASSUME NEW s, \A t \in Active : t = s PROVE FALSE
  <2>1. CASE Active = {}
    <3>1. Cardinality(Active) = 0
      BY <2>1, FS_EmptySet
    <3> QED
      BY <3>1
  <2>2. CASE Active # {}
    <3>1. Active = {s}
      BY <1>1, <2>2
    <3>2. Cardinality(Active) = 1
      BY <3>1, FS_Singleton
    <3> QED
      BY <3>2
  <2> QED
    BY <2>1, <2>2
<1> QED
  BY <1>1

LEMMA NoneOrOneByte ==
  /\ Active = {} => ~ (Cardinality(Active) > 1)
  /\ \A s : Active = {s} => ~ (Cardinality(Active) > 1)
<1>1. Active = {} => Cardinality(Active) = 0
  BY FS_EmptySet
<1>2. \A s : Active = {s} => Cardinality(Active) = 1
  BY FS_Singleton
<1> QED
  BY <1>1, <1>2

-----------------------------------------------------------------------------
(* The inductive invariant of the 12-bit model.  What max_sym pays is the   *)
(* whole excess, so that the frequencies add up to the scale; a table that  *)
(* is built is that of the frequencies, with its lookup table.              *)
CanPay == Excess < AllScaled[max_sym]

PaidFor ==
  /\ Cumulative(scaled)[ALPHABET] = TOTAL
  /\ \A s \in Active : scaled[s] >= 1

BuildInv ==
  /\ Counted
  /\ phase \in {"scale", "take", "assemble", "done"}
  /\ phase \in {"take", "assemble"} =>
       Cardinality(Active) > 1 /\ scaled \in [Symbols -> Nat]
  /\ phase = "take" => ~ CanPay
  /\ phase = "assemble" /\ CanPay => PaidFor
  /\ Built =>
       /\ scaled \in [Symbols -> Nat] /\ Cardinality(Active) > 1
       /\ cums = Cumulative(scaled) /\ cums[ALPHABET] = TOTAL
       /\ lut = [ v \in 0 .. TOTAL |-> Lookup(cums, v) ]
  /\ phase = "done" /\ Cardinality(Active) > 1 /\ CanPay => result = 0 /\ PaidFor

LEMMA BuildStarts == Init => BuildInv
<1> SUFFICES ASSUME Init PROVE BuildInv
  OBVIOUS
<1>1. raw_freq \in INPUTS /\ phase = "scale"
  BY DEF Init
<1>2. Counted
  BY <1>1, InputAssumption DEF Counted
<1> QED
  BY <1>1, <1>2 DEF BuildInv, Built

(* What depends on the counts only stays.                                   *)
LEMMA CountsStay ==
  ASSUME raw_freq' = raw_freq
  PROVE  /\ (Counted' <=> Counted) /\ Active' = Active /\ max_sym' = max_sym
         /\ AllScaled' = AllScaled /\ Excess' = Excess /\ (CanPay' <=> CanPay)
         /\ Cardinality(Active)' = Cardinality(Active)
<1>1. Counted' <=> Counted
  BY Zenon DEF Counted
<1>2. Active' = Active /\ max_sym' = max_sym
  BY Zenon DEF Active, max_sym
<1>3. AllScaled' = AllScaled
  BY <1>2, Zenon DEF AllScaled
<1>4. Excess' = Excess
  BY <1>3, Zenon DEF Excess
<1>5. CanPay' <=> CanPay
  BY <1>2, <1>3, <1>4, Zenon DEF CanPay
<1> QED
  BY <1>1, <1>2, <1>3, <1>4, <1>5, Zenon

(* An excess that max_sym pays, or a shortage it is given.                  *)
LEMMA PayingSteps ==
  ASSUME BuildInv, FillUp \/ Absorb
  PROVE  BuildInv'
<1>1. /\ phase = "scale" /\ Cardinality(Active) > 1 /\ phase' = "assemble"
      /\ scaled' = [ AllScaled EXCEPT ![max_sym] = AllScaled[max_sym] - Excess ]
      /\ Excess <= 0 \/ Excess <= AllScaled[max_sym]
      /\ raw_freq' = raw_freq
  BY DEF FillUp, Absorb, Several
<1>2. /\ AllScaled \in [Symbols -> Nat] /\ \A s \in Active : AllScaled[s] >= 1
      /\ Excess \in Int /\ Sums(AllScaled, Cumulative(AllScaled))
      /\ max_sym \in Symbols /\ Counted
  BY SharesFit, MaxSymIsSymbol DEF BuildInv
<1> DEFINE f == AllScaled
           x == max_sym
           e == Excess
           g == scaled'
<1>3. /\ f \in [Symbols -> Nat] /\ e \in Int /\ x \in Symbols /\ f[x] \in Nat
      /\ e <= 0 \/ e <= f[x]
  BY <1>1, <1>2
<1>4. g = [ f EXCEPT ![x] = f[x] - e ]
  BY <1>1
<1>5. \A s \in Active : s \in Symbols /\ f[s] >= 1
  BY <1>2, CountsAddUp
<1> HIDE DEF f, x, e, g
<1>6. f[x] - e \in Nat
  BY <1>3
<1>7. /\ g \in [Symbols -> Nat] /\ g[x] = f[x] - e
      /\ \A s \in Symbols : s # x => g[s] = f[s]
  BY <1>3, <1>4, <1>6
<1>8. Cumulative(g)[ALPHABET] = TOTAL
  <2>1. Sums(f, Cumulative(f)) /\ Sums(g, Cumulative(g))
    BY <1>3, <1>7, CumulativeSums
  <2>2. OthersKept(f, g, x)
    BY <1>7, Zenon DEF OthersKept
  <2>3. Cumulative(g)[ALPHABET] = Cumulative(f)[ALPHABET] - e
    BY <1>3, <1>7, <2>1, <2>2, SumChanges
  <2>4. e = Cumulative(f)[ALPHABET] - TOTAL
    BY Zenon DEF e, f, Excess
  <2>5. Cumulative(f)[ALPHABET] \in Nat /\ TOTAL \in Nat
    BY <1>3, <2>1, PartsOfSum, TotalAssumption
  <2> QED
    BY <2>3, <2>4, <2>5
<1>9. CanPay => \A s \in Active : g[s] >= 1
  <2>1. ASSUME CanPay, NEW s \in Active PROVE g[s] >= 1
    <3>1. e < f[x]
      BY <2>1 DEF CanPay, e, f, x
    <3> QED
      BY <1>3, <1>5, <1>7, <3>1
  <2> QED
    BY <2>1
<1>10. CanPay' => PaidFor'
  <2>1. /\ Cumulative(scaled')[ALPHABET] = TOTAL
        /\ CanPay => \A s \in Active : scaled'[s] >= 1
    BY <1>8, <1>9 DEF g
  <2> QED
    BY <1>1, <2>1, CountsStay, Zenon DEF PaidFor
<1>11. scaled' \in [Symbols -> Nat]
  BY <1>7 DEF g
<1> QED
  BY <1>1, <1>2, <1>10, <1>11, CountsStay DEF BuildInv, Built

(* Spreading an excess that max_sym cannot pay.                             *)
LEMMA TakingSteps ==
  ASSUME BuildInv, StartTaking \/ Take \/ StopTaking
  PROVE  BuildInv'
<1>1. raw_freq' = raw_freq /\ phase' \in {"take", "assemble"}
  BY DEF StartTaking, Take, StopTaking
<1>2. Counted' /\ ~ Built' /\ phase' # "done"
  BY <1>1, CountsStay DEF BuildInv, Built
<1>3. /\ Cardinality(Active) > 1 /\ ~ CanPay /\ scaled' \in [Symbols -> Nat]
  <2>1. CASE StartTaking
    <3>1. /\ Cardinality(Active) > 1 /\ Excess > AllScaled[max_sym]
          /\ scaled' = [ AllScaled EXCEPT ![max_sym] = 1 ]
      BY <2>1 DEF StartTaking, Several
    <3>2. /\ AllScaled \in [Symbols -> Nat] /\ max_sym \in Symbols /\ Excess \in Int
      BY SharesFit, MaxSymIsSymbol DEF BuildInv
    <3> DEFINE f == AllScaled
               x == max_sym
               e == Excess
    <3>3. f \in [Symbols -> Nat] /\ x \in Symbols /\ e \in Int /\ e > f[x]
      BY <3>1, <3>2
    <3> HIDE DEF f, x, e
    <3>4. ~ (e < f[x])
      BY <3>3
    <3>5. [ f EXCEPT ![x] = 1 ] \in [Symbols -> Nat]
      BY <3>3
    <3> QED
      BY <3>1, <3>4, <3>5, Zenon DEF CanPay, f, x, e
  <2>2. CASE Take
    <3> DEFINE largest == Max({ scaled[s] : s \in Active })
               Tops == { s \in Active : scaled[s] = largest }
               kmax == Min(Tops)
    <3>1. /\ phase = "take" /\ \E s \in Active : scaled[s] > 1
          /\ scaled' = [ scaled EXCEPT ![kmax] = scaled[kmax] - 1 ]
      BY <2>2 DEF Take
    <3>2. /\ Cardinality(Active) > 1 /\ ~ CanPay /\ scaled \in [Symbols -> Nat]
          /\ Active \subseteq Symbols
      BY <3>1, CountsAddUp DEF BuildInv
    <3>3. /\ largest \in { scaled[s] : s \in Active }
          /\ \A v \in { scaled[s] : s \in Active } : v <= largest
      <4> DEFINE b == Cumulative(scaled)[ALPHABET]
                 V == { scaled[s] : s \in Active }
      <4>1. b \in Nat /\ \A s \in Symbols : scaled[s] <= b /\ scaled[s] \in Nat
        BY <3>2, CumulativeSums, PartsOfSum
      <4> HIDE DEF b
      <4>2. V \in SUBSET (0 .. b) /\ V # {}
        BY <3>1, <3>2, <4>1
      <4> HIDE DEF V
      <4>3. Max(V) \in V /\ \A v \in V : v <= Max(V)
        BY <4>1, <4>2, MaxFacts
      <4> QED
        BY <4>3 DEF V
    <3> HIDE DEF largest
    <3>4. kmax \in Tops
      <4>1. Tops \in SUBSET Nat /\ Tops # {}
        BY <3>2, <3>3, SymbolFacts
      <4> HIDE DEF Tops
      <4> QED
        BY <4>1, MinFacts
    <3>5. kmax \in Symbols /\ scaled[kmax] > 1 /\ scaled[kmax] \in Nat
      <4>1. kmax \in Active /\ scaled[kmax] = largest
        BY <3>4
      <4> HIDE DEF kmax
      <4> QED
        BY <3>1, <3>2, <3>3, <4>1
    <3> HIDE DEF kmax
    <3>6. scaled' \in [Symbols -> Nat]
      BY <3>1, <3>2, <3>5
    <3> QED
      BY <3>2, <3>6
  <2>3. CASE StopTaking
    BY <2>3 DEF StopTaking, BuildInv
  <2> QED
    BY <2>1, <2>2, <2>3
<1> QED
  BY <1>1, <1>2, <1>3, CountsStay DEF BuildInv

(* The table from the frequencies.                                          *)
LEMMA AssembleStep ==
  ASSUME BuildInv, Assemble
  PROVE  BuildInv'
<1>1. /\ phase = "assemble" /\ phase' = "done" /\ raw_freq' = raw_freq
      /\ scaled' = scaled /\ cums' = Cumulative(scaled)
      /\ IF cums'[ALPHABET] = TOTAL
           THEN lut' = [ v \in 0 .. TOTAL |-> Lookup(cums', v) ] /\ result' = 0
           ELSE result' = -2 /\ lut' = lut
  BY DEF Assemble
<1>2. /\ Cardinality(Active) > 1 /\ scaled \in [Symbols -> Nat] /\ Counted
      /\ CanPay => PaidFor
  BY <1>1 DEF BuildInv
<1>3. PaidFor' <=> PaidFor
  BY <1>1, CountsStay, Zenon DEF PaidFor
<1>4. cums' = Cumulative(scaled')
  BY <1>1, Zenon
<1>5. CanPay => result' = 0
  BY <1>1, <1>2 DEF PaidFor
<1>6. result' = 0 =>
        cums'[ALPHABET] = TOTAL /\ lut' = [ v \in 0 .. TOTAL |-> Lookup(cums', v) ]
  BY <1>1
<1>7. Built' =>
       /\ scaled' \in [Symbols -> Nat] /\ Cardinality(Active)' > 1
       /\ cums' = Cumulative(scaled') /\ cums'[ALPHABET] = TOTAL
       /\ lut' = [ v \in 0 .. TOTAL |-> Lookup(cums', v) ]
  BY <1>1, <1>2, <1>4, <1>6, CountsStay DEF Built
<1> QED
  BY <1>1, <1>2, <1>3, <1>5, <1>7, CountsStay DEF BuildInv

LEMMA BuildSteps ==
  ASSUME BuildInv, [Next]_vars
  PROVE  BuildInv'
<1>1. CASE BuildEmpty \/ BuildRle
  <2>1. /\ raw_freq' = raw_freq /\ phase' = "done" /\ result' # 0
        /\ ~ (Cardinality(Active) > 1)
    BY <1>1, NoneOrOneByte DEF BuildEmpty, BuildRle
  <2> QED
    BY <2>1, CountsStay DEF BuildInv, Built
<1>2. CASE UNCHANGED vars
  <2>1. /\ raw_freq' = raw_freq /\ scaled' = scaled /\ phase' = phase
        /\ result' = result /\ cums' = cums /\ lut' = lut
    BY <1>2 DEF vars
  <2>2. /\ PaidFor' <=> PaidFor
        /\ Cumulative(scaled)' = Cumulative(scaled)
    BY <2>1, CountsStay, Zenon DEF PaidFor
  <2> QED
    BY <2>1, <2>2, CountsStay, Zenon DEF BuildInv, Built
<1> QED
  BY <1>1, <1>2, PayingSteps, TakingSteps, AssembleStep DEF Next

-----------------------------------------------------------------------------
(* The symbol of a value: the one whose interval it lies in.                *)
LiesIn(m, s, v) == m[s] <= v /\ v < m[s + 1]

Rises(m) ==
  /\ m \in [0 .. ALPHABET -> Nat]
  /\ m[0] = 0 /\ m[ALPHABET] = TOTAL
  /\ \A s, t \in 0 .. ALPHABET : s <= t => m[s] <= m[t]

LEMMA OnlyOne ==
  ASSUME NEW m, Rises(m), NEW v \in Nat,
         NEW s \in Symbols, NEW t \in Symbols, LiesIn(m, s, v), LiesIn(m, t, v)
  PROVE  s = t
<1>1. /\ s \in Nat /\ t \in Nat /\ s \in 0 .. ALPHABET /\ t \in 0 .. ALPHABET
      /\ s + 1 \in 0 .. ALPHABET /\ t + 1 \in 0 .. ALPHABET
  BY SymbolFacts
<1>2. /\ m[s] \in Nat /\ m[t] \in Nat /\ m[s + 1] \in Nat /\ m[t + 1] \in Nat
      /\ s + 1 <= t => m[s + 1] <= m[t]
      /\ t + 1 <= s => m[t + 1] <= m[s]
  BY <1>1 DEF Rises
<1> QED
  BY <1>1, <1>2 DEF LiesIn

(* What the table holds ...                                                 *)
LEMMA LookupFindsInterval ==
  ASSUME NEW m, Rises(m), NEW v \in 0 .. TOTAL - 1
  PROVE  Lookup(m, v) \in Symbols /\ LiesIn(m, Lookup(m, v), v)
<1> DEFINE S == { s \in Symbols : \A t \in 1 .. s : m[t] <= v }
           s0 == Lookup(m, v)
<1>1. s0 = Max(S)
  BY Zenon DEF Lookup
<1>2. s0 \in S /\ \A s \in S : s <= s0
  <2>1. S \in SUBSET (0 .. ALPHABET) /\ S # {} /\ ALPHABET \in Nat
    <3>1. 0 \in Symbols /\ \A t \in 1 .. 0 : m[t] <= v
      BY SymbolFacts DEF Symbols
    <3>2. 0 \in S
      BY <3>1
    <3> QED
      BY <3>2, SymbolFacts
  <2> HIDE DEF S, s0
  <2> QED
    BY <1>1, <2>1, MaxFacts
<1> HIDE DEF s0
<1>3. s0 \in Symbols /\ \A t \in 1 .. s0 : m[t] <= v
  BY <1>2
<1>4. v \in Nat /\ v < TOTAL /\ \A t \in 0 .. ALPHABET : m[t] \in Nat
  BY TotalAssumption DEF Rises
<1>5. s0 \in Nat /\ s0 \in 0 .. ALPHABET /\ s0 + 1 \in 1 .. ALPHABET
  BY <1>3, SymbolFacts
<1>6. m[s0] <= v
  <2>1. CASE s0 = 0
    BY <1>4, <2>1 DEF Rises
  <2>2. CASE s0 # 0
    <3>1. s0 \in 1 .. s0
      BY <1>5, <2>2
    <3> QED
      BY <1>3, <3>1
  <2> QED
    BY <2>1, <2>2
<1>7. v < m[s0 + 1]
  <2>1. ASSUME m[s0 + 1] <= v PROVE FALSE
    <3>1. ASSUME s0 + 1 = ALPHABET PROVE FALSE
      <4>1. m[s0 + 1] = TOTAL
        BY <3>1, Zenon DEF Rises
      <4>2. TOTAL <= v
        BY <2>1, <4>1, Zenon
      <4>3. v \in Nat /\ v < TOTAL
        BY <1>4
      <4> HIDE DEF S
      <4> QED
        BY <4>2, <4>3, TotalAssumption
    <3>2. s0 + 1 \in Symbols
      BY <1>5, <3>1, SymbolFacts DEF Symbols
    <3>3. ASSUME NEW t \in 1 .. s0 + 1 PROVE m[t] <= v
      <4>1. t \in 1 .. s0 \/ t = s0 + 1
        BY <1>5
      <4> QED
        BY <1>3, <2>1, <4>1
    <3>4. s0 + 1 \in S
      BY <3>2, <3>3
    <3>5. ~ (s0 + 1 <= s0)
      BY <1>5
    <3> HIDE DEF S
    <3> QED
      BY <1>2, <3>4, <3>5
  <2>2. m[s0 + 1] \in Nat
    BY <1>4, <1>5
  <2> QED
    BY <1>4, <2>1, <2>2
<1> QED
  BY <1>3, <1>6, <1>7 DEF LiesIn, s0

(* ... is what a decoder looks for ...                                      *)
LEMMA FindIsTheInterval ==
  ASSUME NEW m, Rises(m), NEW v \in 0 .. TOTAL - 1,
         NEW s \in Symbols, LiesIn(m, s, v)
  PROVE  Find(m, v) = s
<1> DEFINE Hit(t) == m[t] <= v /\ (v < m[t + 1] \/ t = ALPHABET - 1)
<1>1. ASSUME NEW t \in Symbols PROVE Hit(t) <=> LiesIn(m, t, v)
  <2>1. ASSUME t = ALPHABET - 1 PROVE v < m[t + 1]
    <3>1. t + 1 = ALPHABET
      BY <2>1, SymbolFacts
    <3>2. m[t + 1] = TOTAL
      BY <3>1, Zenon DEF Rises
    <3> QED
      BY <3>2, TotalAssumption
  <2> QED
    BY <2>1, Zenon DEF LiesIn
<1>2. Find(m, v) = CHOOSE t \in Symbols : Hit(t)
  BY Zenon DEF Find
<1> HIDE DEF Hit
<1>3. Hit(s) /\ \A t \in Symbols : Hit(t) => t = s
  <2>1. v \in Nat
    OBVIOUS
  <2> QED
    BY <1>1, <2>1, OnlyOne
<1> QED
  BY <1>2, <1>3, Zenon

(* ... and what the binary search ends at.                                  *)
LEMMA StepLengths ==
  /\ StepLength \in [0 .. ALPHABET_BITS -> Nat]
  /\ StepLength[0] = 1
  /\ \A j \in 1 .. ALPHABET_BITS : StepLength[j] = 2 * StepLength[j - 1]
<1>1. 2 \in Nat /\ ALPHABET_BITS \in Nat
  BY AlphabetBitsAssumption
<1>2. PowersUpTo(2, ALPHABET_BITS, StepLength)
  BY Zenon DEF StepLength, PowersUpTo
<1> QED
  BY <1>1, <1>2, Powers

(* The steps of the search, on any function that takes them.                *)
Search(m, v, g) ==
  /\ g \in [0 .. ALPHABET_BITS -> Nat]
  /\ g[0] = 0
  /\ \A j \in 1 .. ALPHABET_BITS :
       LET mid == g[j - 1] + StepLength[ALPHABET_BITS - j]
       IN  g[j] = IF v >= m[mid] THEN mid ELSE g[j - 1]

LEMMA BinarySearchSteps ==
  ASSUME NEW m, NEW v
  PROVE  \E g : Search(m, v, g) /\ BinarySearch(m, v) = g[ALPHABET_BITS]
<1> DEFINE n == ALPHABET_BITS
           Next1(x, j) == IF v >= m[x + StepLength[n - j]]
                            THEN x + StepLength[n - j] ELSE x
           step == [ j \in 1 .. n |-> [ x \in Nat |-> Next1(x, j) ] ]
           Body(g) == g = [ j \in 0 .. n |->
                              IF j = 0 THEN 0 ELSE Next1(g[j - 1], j) ]
<1>1. n \in Nat /\ 0 \in Nat /\ \A j \in 1 .. n : \A x \in Nat : Next1(x, j) \in Nat
  <2>1. n \in Nat
    BY AlphabetBitsAssumption
  <2>2. ASSUME NEW j \in 1 .. n, NEW x \in Nat PROVE Next1(x, j) \in Nat
    <3>1. n - j \in 0 .. n
      BY <2>1
    <3>2. x + StepLength[n - j] \in Nat
      BY <3>1, StepLengths
    <3> QED
      BY <3>2
  <2> QED
    BY <2>1, <2>2
<1> HIDE DEF Next1
<1>2. step \in [1 .. n -> [Nat -> Nat]]
  BY <1>1
<1>3. PICK g : g \in [0 .. n -> Nat] /\ Recursive(n, 0, step, g)
  <2> HIDE DEF step
  <2> QED
    BY <1>1, <1>2, Recursion
<1>4. ASSUME NEW j \in 0 .. n, j # 0
      PROVE  step[j][g[j - 1]] = Next1(g[j - 1], j)
  <2>1. j \in 1 .. n /\ j - 1 \in 0 .. n
    BY <1>1, <1>4
  <2>2. g[j - 1] \in Nat
    BY <1>3, <2>1
  <2> QED
    BY <2>1, <2>2
<1> HIDE DEF step
<1>5. Body(g)
  <2>1. [ j \in 0 .. n |-> IF j = 0 THEN 0 ELSE step[j][g[j - 1]] ]
          = [ j \in 0 .. n |-> IF j = 0 THEN 0 ELSE Next1(g[j - 1], j) ]
    BY <1>4, Zenon
  <2> QED
    BY <1>3, <2>1, Zenon DEF Recursive
<1> DEFINE base == CHOOSE h : Body(h)
<1>6. BinarySearch(m, v) = base[n]
  BY Zenon DEF BinarySearch, Next1
<1>7. ASSUME NEW h, Body(h) PROVE Search(m, v, h)
  <2>1. \A j \in 0 .. n : h[j] = IF j = 0 THEN 0 ELSE Next1(h[j - 1], j)
    BY <1>7, Zenon
  <2>2. /\ \A j \in 1 .. n : j \in 0 .. n /\ j # 0
        /\ 0 \in 0 .. n
    BY <1>1
  <2>3. h[0] = 0 /\ \A j \in 1 .. n : h[j] = Next1(h[j - 1], j)
    BY <2>1, <2>2, Zenon
  <2>4. \A j \in 1 .. n : h[j - 1] \in Nat => h[j] \in Nat
    BY <1>1, <2>3, Zenon
  <2>5. h = [ j \in 0 .. n |-> h[j] ]
    BY <1>7, Zenon
  <2>6. h \in [0 .. n -> Nat]
    BY <1>1, <2>3, <2>4, <2>5, StaysIn, ZenonT(60)
  <2> QED
    BY <2>3, <2>6, Zenon DEF Search, Next1
<1> HIDE DEF Body
<1>8. Body(base)
  BY <1>5, Zenon
<1> HIDE DEF base
<1> QED
  BY <1>6, <1>7, <1>8, Zenon

LEMMA BinarySearchFindsInterval ==
  ASSUME NEW m, Rises(m), NEW v \in 0 .. TOTAL - 1
  PROVE  BinarySearch(m, v) \in Symbols /\ LiesIn(m, BinarySearch(m, v), v)
<1> DEFINE n == ALPHABET_BITS
<1>1. n \in Nat /\ v \in Nat /\ v < TOTAL /\ TOTAL \in Nat
  BY AlphabetBitsAssumption, TotalAssumption
<1>2. PICK g : Search(m, v, g) /\ BinarySearch(m, v) = g[n]
  BY BinarySearchSteps
<1> DEFINE len(j) == StepLength[n - j]
           Right(j) == /\ g[j] + len(j) <= ALPHABET
                       /\ m[g[j]] <= v /\ v < m[g[j] + len(j)]
           Bad == { j \in 0 .. n : ~ Right(j) }
<1>3. ASSUME NEW j \in 0 .. n PROVE len(j) \in Nat /\ g[j] \in Nat
  <2>1. n - j \in 0 .. n
    BY <1>1
  <2> QED
    BY <1>2, <2>1, StepLengths DEF Search
<1>4. ASSUME NEW j \in 1 .. n
      PROVE  /\ len(j - 1) = 2 * len(j)
             /\ g[j] = IF v >= m[g[j - 1] + len(j)] THEN g[j - 1] + len(j) ELSE g[j - 1]
  <2>1. n - (j - 1) \in 1 .. n /\ (n - (j - 1)) - 1 = n - j
    BY <1>1
  <2>2. len(j - 1) = 2 * len(j)
    BY <2>1, StepLengths
  <2> QED
    BY <1>2, <2>2, Zenon DEF Search
<1>5. len(0) = ALPHABET /\ len(n) = 1
  <2>1. n - 0 = n /\ n - n = 0
    BY <1>1
  <2> QED
    BY <2>1, StepLengths, AlphabetBitsAssumption
<1> HIDE DEF len
<1>6. Right(0)
  <2>1. g[0] = 0 /\ m[0] = 0 /\ m[ALPHABET] = TOTAL
    BY <1>2 DEF Search, Rises
  <2>2. 0 + ALPHABET = ALPHABET /\ ALPHABET <= ALPHABET
    BY SymbolFacts
  <2> QED
    BY <1>1, <1>5, <2>1, <2>2
<1>7. ASSUME NEW j \in 1 .. n, Right(j - 1) PROVE Right(j)
  <2>1. j \in 0 .. n /\ j - 1 \in 0 .. n
    BY <1>1
  <2> DEFINE a == g[j - 1]
             c == len(j)
  <2>2. a \in Nat /\ c \in Nat
    BY <1>3, <2>1
  <2>3. /\ len(j - 1) = 2 * c
        /\ g[j] = IF v >= m[a + c] THEN a + c ELSE a
    BY <1>4
  <2>4. a + 2 * c <= ALPHABET /\ m[a] <= v /\ v < m[a + 2 * c]
    BY <1>7, <2>3
  <2> HIDE DEF a, c
  <2>5. a + c \in 0 .. ALPHABET /\ (a + c) + c = a + 2 * c
    BY <2>2, <2>4, SymbolFacts
  <2>6. m[a + c] \in Nat
    BY <2>5 DEF Rises
  <2>7. CASE v >= m[a + c]
    <3>1. g[j] = a + c
      BY <2>3, <2>7
    <3> QED
      BY <2>4, <2>5, <2>7, <3>1 DEF c
  <2>8. CASE ~ (v >= m[a + c])
    <3>1. g[j] = a /\ v < m[a + c] /\ a + c <= ALPHABET
      BY <1>1, <2>3, <2>5, <2>6, <2>8
    <3> QED
      BY <2>4, <3>1 DEF c
  <2> QED
    BY <2>7, <2>8
<1>8. ASSUME Bad # {} PROVE FALSE
  <2>1. Bad \in SUBSET Nat
    OBVIOUS
  <2>2. PICK j \in Bad : \A u \in Bad : j <= u
    <3> HIDE DEF Bad
    <3> QED
      BY <1>8, <2>1, LeastElement
  <2>3. j \in 0 .. n /\ ~ Right(j)
    BY <2>2
  <2> HIDE DEF Right
  <2>4. j # 0
    BY <1>6, <2>3
  <2>5. j \in 1 .. n /\ j - 1 \in 0 .. n /\ ~ (j <= j - 1)
    BY <1>1, <2>3, <2>4
  <2>6. Right(j - 1)
    BY <2>2, <2>5
  <2> QED
    BY <1>7, <2>3, <2>5, <2>6
<1>9. Right(n)
  <2>1. n \in 0 .. n
    BY <1>1
  <2> HIDE DEF Right
  <2> QED
    BY <1>8, <2>1
<1>10. g[n] \in Nat /\ g[n] + 1 <= ALPHABET /\ m[g[n]] <= v /\ v < m[g[n] + 1]
  <2>1. n \in 0 .. n
    BY <1>1
  <2> QED
    BY <1>3, <1>5, <1>9, <2>1
<1>11. g[n] \in Symbols
  BY <1>10, SymbolFacts DEF Symbols
<1> QED
  BY <1>2, <1>10, <1>11 DEF LiesIn

-----------------------------------------------------------------------------
(* The two properties of the model that is built.                           *)
LEMMA BuiltRises ==
  ASSUME BuildInv, Built
  PROVE  Rises(cums)
<1>1. /\ scaled \in [Symbols -> Nat] /\ cums = Cumulative(scaled)
      /\ cums[ALPHABET] = TOTAL
  BY DEF BuildInv
<1>2. Sums(scaled, cums)
  BY <1>1, CumulativeSums
<1>3. \A s, t \in 0 .. ALPHABET : s <= t => cums[s] <= cums[t]
  BY <1>1, <1>2, SumsGrow
<1> QED
  BY <1>1, <1>2, <1>3, Zenon DEF Sums, Rises

LEMMA LookupsFind == BuildInv => LookupsAgree
<1> SUFFICES ASSUME BuildInv, Built, NEW v \in 0 .. TOTAL - 1
             PROVE  lut[v] = Find(cums, v) /\ BinarySearch(cums, v) = Find(cums, v)
  BY Zenon DEF LookupsAgree
<1>1. Rises(cums)
  BY BuiltRises
<1>2. v \in 0 .. TOTAL
  BY TotalAssumption
<1>3. lut[v] = Lookup(cums, v)
  BY <1>2, Zenon DEF BuildInv
<1>4. Lookup(cums, v) = Find(cums, v)
  BY <1>1, LookupFindsInterval, FindIsTheInterval
<1>5. BinarySearch(cums, v) = Find(cums, v)
  BY <1>1, BinarySearchFindsInterval, FindIsTheInterval
<1> QED
  BY <1>3, <1>4, <1>5

LEMMA BytesAreCoded == BuildInv => EveryByteCoded
<1> SUFFICES ASSUME BuildInv, phase = "done", Cardinality(Active) > 1, CanPay
             PROVE  result = 0 /\ cums \in Tables /\ Active \subseteq Occurring(cums)
  BY Zenon DEF EveryByteCoded, CanPay
<1>1. result = 0 /\ PaidFor /\ Counted
  BY DEF BuildInv
<1>2. /\ scaled \in [Symbols -> Nat] /\ cums = Cumulative(scaled)
      /\ cums[ALPHABET] = TOTAL /\ \A s \in Active : scaled[s] >= 1
  BY <1>1 DEF BuildInv, Built, PaidFor
<1>3. Rises(cums) /\ Sums(scaled, cums)
  BY <1>1, <1>2, BuiltRises, CumulativeSums DEF Built
<1>4. Active \subseteq Symbols
  BY <1>1, CountsAddUp
<1>5. \A s \in Symbols : Freq(cums, s) = scaled[s] /\ scaled[s] \in Nat
  BY <1>2, <1>3, PartsOfSum
<1>6. ASSUME NEW s \in Symbols PROVE Freq(cums, s) < TOTAL
  <2>1. PICK t \in Active : t # s
    BY <1>1, AnotherByte
  <2>2. t \in Symbols /\ scaled[t] >= 1
    BY <1>2, <1>4
  <2>3. scaled[s] + scaled[t] <= TOTAL
    BY <1>2, <1>3, <2>1, <2>2, PartsOfSum
  <2> QED
    BY <1>5, <2>2, <2>3, TotalAssumption
<1>7. cums \in [0 .. ALPHABET -> 0 .. TOTAL]
  <2>1. ASSUME NEW s \in 0 .. ALPHABET PROVE cums[s] \in 0 .. TOTAL
    <3>1. cums[s] \in Nat /\ s <= ALPHABET /\ ALPHABET \in 0 .. ALPHABET
      BY <1>3, SymbolFacts DEF Rises
    <3>2. cums[s] <= TOTAL
      BY <1>3, <3>1 DEF Rises
    <3> QED
      BY <3>1, <3>2, TotalAssumption
  <2>2. cums \in [0 .. ALPHABET -> Nat]
    BY <1>3 DEF Rises
  <2> QED
    BY <2>1, <2>2
<1>8. cums \in Tables
  BY <1>3, <1>6, <1>7, Zenon DEF Tables, Rises
<1>9. Active \subseteq Occurring(cums)
  BY <1>2, <1>4, <1>5 DEF Occurring
<1> QED
  BY <1>1, <1>8, <1>9

-----------------------------------------------------------------------------
(* Division by a reciprocal that is rounded down.                           *)
LEMMA CancelFactor ==
  ASSUME NEW a \in Nat \ {0}, NEW x \in Int, NEW y \in Int, a * x <= a * y
  PROVE  x <= y
<1>1. ASSUME y + 1 <= x PROVE FALSE
  <2>1. a * (y + 1) <= a * x
    BY <1>1, SMTT(30)
  <2>2. a * (y + 1) = a * y + a
    BY SMTT(30)
  <2> QED
    BY <2>1, <2>2, SMTT(30)
<1> QED
  BY <1>1

(* What the product q with a reciprocal leaves of x: the error d of the     *)
(* reciprocal times x, and what the cut of the product takes.               *)
Leaves(x, r, w, d, q) ==
  /\ q \in Nat /\ x - q * r \in Nat
  /\ \E t \in 0 .. w - 1 : w * (x - q * r) = x * d + t * r

LEMMA RoundedDown ==
  ASSUME NEW x \in Nat, NEW r \in Nat, NEW m \in Nat, NEW w \in Nat \ {0},
         NEW d \in Nat, w = m * r + d
  PROVE  Leaves(x, r, w, d, (x * m) \div w)
<1> DEFINE q == (x * m) \div w
           t == (x * m) % w
<1>1. x * m \in Nat
  BY SMTT(30)
<1>2. q \in Nat /\ t \in 0 .. w - 1 /\ x * m = w * q + t
  BY <1>1, EuclideanDivision
<1> HIDE DEF q, t
<1>3. w * (x - q * r) = x * d + t * r
  <2>1. w * (x - q * r) = w * x - (w * q) * r
    BY <1>2, SMTT(30)
  <2>2. (x * m) * r = (w * q) * r + t * r
    BY <1>2, SMTT(30)
  <2>3. w * x = x * (m * r) + x * d
    BY SMTT(30)
  <2>4. x * (m * r) = (x * m) * r
    BY SMTT(30)
  <2> DEFINE A == w * x
             Q == (w * q) * r
             E == x * (m * r)
             G == x * d
             H == t * r
  <2>5. A \in Int /\ Q \in Int /\ E \in Int /\ G \in Int /\ H \in Int
    BY <1>2
  <2> HIDE DEF A, Q, E, G, H
  <2>6. A = E + G /\ E = Q + H
    BY <2>2, <2>3, <2>4, Zenon DEF A, Q, E, G, H
  <2>7. A - Q = G + H
    BY <2>5, <2>6
  <2> QED
    BY <2>1, <2>7, Zenon DEF A, Q, G, H
<1>4. x - q * r \in Int /\ x * d \in Nat /\ t * r \in Nat
  BY <1>2, SMTT(30)
<1>5. x - q * r >= 0
  <2>1. w * 0 <= w * (x - q * r)
    BY <1>3, <1>4
  <2> QED
    BY <1>4, <2>1, CancelFactor
<1>6. x - q * r \in Nat
  BY <1>4, <1>5
<1> QED
  BY <1>2, <1>3, <1>6, Zenon DEF q, Leaves

(* One Newton step and one correction upwards divide exactly, where the     *)
(* reciprocal is not off by more than three parts in as many as there are   *)
(* buckets.                                                                 *)
LEMMA TwiceRounded ==
  ASSUME NEW total \in Nat, NEW b \in Nat \ {0}, NEW w \in Nat \ {0}, NEW d \in Nat,
         b * d <= 3 * w, 9 * total + 3 * b <= b * b
  PROVE  total * (d * d) + w * d <= w * w
<1> DEFINE B2 == b * b
           e  == b * d
           ww == w * w
<1>1. e \in Nat /\ ww \in Nat /\ B2 \in Nat \ {0}
  BY SMTT(30)
<1>2. e <= 3 * w /\ 9 * total + 3 * b <= B2
  OBVIOUS
<1>3. B2 * (total * (d * d) + w * d) = total * (e * e) + b * (w * e)
  BY SMTT(30)
<1> HIDE DEF e, ww, B2
<1>4. e * e <= (3 * w) * (3 * w) /\ w * e <= w * (3 * w)
  <2>1. e * e <= e * (3 * w)
    BY <1>1, <1>2, MulMonotone
  <2>2. (3 * w) * e <= (3 * w) * (3 * w)
    BY <1>1, <1>2, MulMonotone
  <2>3. e * (3 * w) = (3 * w) * e
    BY <1>1, SMTT(30)
  <2>4. e * e \in Nat /\ (3 * w) * e \in Nat /\ (3 * w) * (3 * w) \in Nat
    BY <1>1, SMTT(30)
  <2>5. w * e <= w * (3 * w)
    BY <1>1, <1>2, MulMonotone
  <2> QED
    BY <2>1, <2>2, <2>3, <2>4, <2>5
<1>5. (3 * w) * (3 * w) = 9 * ww /\ w * (3 * w) = 3 * ww
  BY SMTT(30) DEF ww
<1>6. total * (e * e) <= total * (9 * ww) /\ b * (w * e) <= b * (3 * ww)
  <2>1. e * e \in Nat /\ w * e \in Nat /\ 9 * ww \in Nat /\ 3 * ww \in Nat
    BY <1>1, SMTT(30)
  <2>2. e * e <= 9 * ww /\ w * e <= 3 * ww
    BY <1>4, <1>5
  <2>3. total * (e * e) <= total * (9 * ww)
    BY <2>1, <2>2, MulMonotone
  <2>4. b * (w * e) <= b * (3 * ww)
    BY <2>1, <2>2, MulMonotone
  <2> QED
    BY <2>3, <2>4
<1>7. total * (9 * ww) + b * (3 * ww) = ww * (9 * total + 3 * b)
  BY <1>1, SMTT(30)
<1>8. ww * (9 * total + 3 * b) <= ww * B2
  BY <1>1, <1>2, MulMonotone
<1>9. ww * B2 = B2 * ww
  BY <1>1, SMTT(30)
<1> DEFINE X == total * (d * d) + w * d
           Y1 == total * (e * e)
           Y2 == b * (w * e)
           Z1 == total * (9 * ww)
           Z2 == b * (3 * ww)
           U == ww * (9 * total + 3 * b)
<1>10. X \in Int /\ Y1 \in Int /\ Y2 \in Int /\ Z1 \in Int /\ Z2 \in Int /\ U \in Int
       /\ B2 * ww \in Int /\ B2 * X \in Int
  BY <1>1
<1>11. /\ B2 * X = Y1 + Y2 /\ Y1 <= Z1 /\ Y2 <= Z2 /\ Z1 + Z2 = U
       /\ U <= B2 * ww
  BY <1>3, <1>6, <1>7, <1>8, <1>9, Zenon
<1> HIDE DEF X, Y1, Y2, Z1, Z2, U
<1>12. B2 * X <= B2 * ww
  BY <1>10, <1>11
<1>13. X <= ww
  BY <1>1, <1>10, <1>12, CancelFactor
<1> QED
  BY <1>13 DEF X, ww

LEMMA Commuted ==
  ASSUME NEW w \in Int, NEW e \in Int, NEW d \in Int
  PROVE  w * (e * d) = d * (w * e)
  BY SMTT(30)

LEMMA SumTimes ==
  ASSUME NEW x \in Int, NEW y \in Int, NEW r \in Int
  PROVE  (x + y) * r = x * r + y * r
  BY SMTT(30)

LEMMA Swapped ==
  ASSUME NEW x \in Int, NEW y \in Int
  PROVE  x * y = y * x
  BY SMTT(30)

LEMMA ProductIsNat ==
  ASSUME NEW x \in Nat, NEW y \in Nat
  PROVE  x * y \in Nat /\ x * y = y * x
  BY SMTT(30)

LEMMA Distributed ==
  ASSUME NEW d \in Int, NEW c \in Int, NEW t \in Int, NEW r \in Int
  PROVE  d * (c * d + t * r) = c * (d * d) + t * (r * d)
  BY SMTT(30)

(* The upward correction of rc_fast_div.                                    *)
Corrected(v, c, r) == v + (IF (v + 1) * r <= c THEN 1 ELSE 0)

(* The estimates v0 and v1 of c \div r: m / w is the reciprocal of r, off by *)
(* d / w, and b is the number of buckets.                                    *)
Estimates(c, r, m, w, d, b, v0, v1) ==
  /\ c \in Nat /\ r \in Nat \ {0} /\ m \in Nat /\ w \in Nat \ {0} /\ d \in Nat
  /\ b \in Nat \ {0}
  /\ w = m * r + d /\ b * d <= 3 * w
  /\ v0 = (c * m) \div w
  /\ v1 = v0 + ((c - v0 * r) * m) \div w

LEMMA OneNewtonStep ==
  ASSUME NEW c, NEW r, NEW m, NEW w, NEW d, NEW b, NEW v0, NEW v1,
         Estimates(c, r, m, w, d, b, v0, v1),
         NEW total \in Nat, c < r * total, 9 * total + 3 * b <= b * b
  PROVE  Corrected(v1, c, r) = c \div r
<1> DEFINE e == c - v0 * r
<1>0. /\ c \in Nat /\ r \in Nat \ {0} /\ m \in Nat /\ w \in Nat \ {0} /\ d \in Nat
      /\ b \in Nat \ {0}
      /\ w = m * r + d /\ b * d <= 3 * w
      /\ v0 = (c * m) \div w
      /\ v1 = v0 + (e * m) \div w
  BY Zenon DEF Estimates
<1> USE <1>0
<1> HIDE DEF e
<1>1. /\ v0 \in Nat /\ e \in Nat
      /\ \E t \in 0 .. w - 1 : w * e = c * d + t * r
  <2>1. r \in Nat
    OBVIOUS
  <2>2. Leaves(c, r, w, d, (c * m) \div w)
    BY <2>1, RoundedDown, Zenon
  <2>3. Leaves(c, r, w, d, v0)
    BY <2>2, Zenon
  <2> QED
    BY <2>3, Zenon DEF Leaves, e
<1>2. PICK t1 \in 0 .. w - 1 : w * e = c * d + t1 * r
  BY <1>1
<1> DEFINE dl == (e * m) \div w
           f  == e - dl * r
<1>3. /\ dl \in Nat /\ f \in Nat
      /\ \E t \in 0 .. w - 1 : w * f = e * d + t * r
  <2>1. e \in Nat /\ r \in Nat
    BY <1>1
  <2>2. Leaves(e, r, w, d, (e * m) \div w)
    BY <2>1, RoundedDown, Zenon
  <2> QED
    BY <2>2, Zenon DEF Leaves
<1>4. PICK t2 \in 0 .. w - 1 : w * f = e * d + t2 * r
  BY <1>3
<1>5. v1 = v0 + dl
  OBVIOUS
<1>6. c = v1 * r + f
  <2> DEFINE X == v0 * r
             Y == dl * r
  <2>1. v0 \in Nat /\ dl \in Nat /\ e \in Nat
    BY <1>1, <1>3
  <2> HIDE DEF dl
  <2>2. X \in Int /\ Y \in Int
    BY <2>1
  <2>3. v1 * r = X + Y
    <3>1. (v0 + dl) * r = X + Y
      BY <2>1, SumTimes
    <3> QED
      BY <1>5, <3>1, Zenon
  <2>4. e = c - X /\ f = e - Y
    BY Zenon DEF e
  <2> HIDE DEF X, Y, f
  <2> QED
    BY <1>5, <2>1, <2>2, <2>3, <2>4
<1> HIDE DEF dl, f
<1>7. e * d <= w * r
  <2>1. w * (e * d) = d * (c * d + t1 * r)
    <3>1. w * (e * d) = d * (w * e)
      <4>1. e \in Nat
        BY <1>1
      <4> QED
        BY <4>1, Commuted
    <3> QED
      BY <1>2, <3>1, Zenon
  <2>2. d * (c * d + t1 * r) = c * (d * d) + t1 * (r * d)
    BY Distributed
  <2>3. c * (d * d) <= (r * total) * (d * d)
    <3>1. c <= r * total /\ r * total \in Nat /\ d * d \in Nat
      BY SMTT(30)
    <3>2. (d * d) * c <= (d * d) * (r * total)
      BY <3>1, MulMonotone
    <3> QED
      BY <3>2, SMTT(30)
  <2>4. t1 * (r * d) <= w * (r * d)
    <3>1. t1 <= w /\ t1 \in Nat /\ r * d \in Nat
      BY SMTT(30)
    <3>2. (r * d) * t1 <= (r * d) * w
      BY <3>1, MulMonotone
    <3> QED
      BY <3>1, <3>2, SMTT(30)
  <2>5. (r * total) * (d * d) + w * (r * d) = r * (total * (d * d) + w * d)
    BY SMTT(30)
  <2>6. r * (total * (d * d) + w * d) <= r * (w * w)
    <3>1. total * (d * d) + w * d \in Nat /\ w * w \in Nat
      BY SMTT(30)
    <3> QED
      BY <3>1, TwiceRounded, MulMonotone
  <2>7. r * (w * w) = w * (w * r)
    BY SMTT(30)
  <2> DEFINE A == w * (e * d)
             C1 == c * (d * d)
             C2 == t1 * (r * d)
             D1 == (r * total) * (d * d)
             D2 == w * (r * d)
             E1 == r * (total * (d * d) + w * d)
             F1 == w * (w * r)
  <2>8. A \in Int /\ C1 \in Int /\ C2 \in Int /\ D1 \in Int /\ D2 \in Int
        /\ E1 \in Int /\ F1 \in Int
    BY <1>1
  <2>9. A = C1 + C2 /\ C1 <= D1 /\ C2 <= D2 /\ D1 + D2 = E1 /\ E1 <= F1
    BY <2>1, <2>2, <2>3, <2>4, <2>5, <2>6, <2>7, Zenon
  <2> HIDE DEF A, C1, C2, D1, D2, E1, F1
  <2>10. A <= F1
    BY <2>8, <2>9
  <2>11. w * (e * d) <= w * (w * r)
    BY <2>10 DEF A, F1
  <2>12. e * d \in Int /\ w * r \in Int
    BY <1>1
  <2> QED
    BY <2>11, <2>12, CancelFactor
<1>8. f < 2 * r
  <2>1. t2 * r < w * r
    BY SMTT(30)
  <2>2. w * (2 * r) = w * r + w * r
    BY SMTT(30)
  <2> DEFINE A == w * f
             E1 == e * d
             T1 == t2 * r
             W1 == w * r
             W2 == w * (2 * r)
  <2>3. A \in Int /\ E1 \in Int /\ T1 \in Int /\ W1 \in Int /\ W2 \in Int
    BY <1>1, <1>3
  <2>4. A = E1 + T1 /\ E1 <= W1 /\ T1 < W1 /\ W2 = W1 + W1
    BY <1>4, <1>7, <2>1, <2>2
  <2> HIDE DEF A, E1, T1, W1, W2
  <2>5. A < W2
    BY <2>3, <2>4
  <2>6. ASSUME 2 * r <= f PROVE FALSE
    <3>1. w * (2 * r) <= w * f
      BY <1>3, <2>6, MulMonotone
    <3> QED
      BY <2>3, <2>5, <3>1 DEF A, W2
  <2> QED
    BY <1>3, <2>6
<1>9. v1 \in Nat /\ v1 * r \in Nat
  BY <1>1, <1>3, <1>5, SMTT(30)
<1>10. (v1 + 1) * r = v1 * r + r
  BY <1>9, SMTT(30)
<1>11. CASE f < r
  <2>1. f \in 0 .. r - 1 /\ c = r * v1 + f
    BY <1>3, <1>6, <1>9, <1>11, SMTT(30)
  <2>2. c \div r = v1
    BY <1>9, <2>1, Quotients
  <2>3. ~ ((v1 + 1) * r <= c)
    BY <1>3, <1>6, <1>9, <1>10, <1>11
  <2> QED
    BY <1>9, <2>2, <2>3 DEF Corrected
<1>12. CASE ~ (f < r)
  <2>1. f - r \in 0 .. r - 1
    BY <1>3, <1>8, <1>12
  <2>2. r * (v1 + 1) = v1 * r + r /\ v1 + 1 \in Int
    BY <1>9, SMTT(30)
  <2>3. c = r * (v1 + 1) + (f - r)
    BY <1>3, <1>6, <1>9, <2>2
  <2>4. c \div r = v1 + 1
    BY <2>1, <2>2, <2>3, Quotients
  <2>5. (v1 + 1) * r <= c
    BY <1>3, <1>6, <1>9, <1>10, <1>12
  <2> QED
    BY <2>4, <2>5 DEF Corrected
<1> QED
  BY <1>11, <1>12

(* The powers of two behind the shifts.                                     *)
LEMMA TwoPowers ==
  /\ PREC + LUT24_BITS \in Nat
  /\ PowerOfTwo \in [0 .. PREC + LUT24_BITS -> Nat]
  /\ PowerOfTwo[0] = 1
  /\ \A j \in 1 .. PREC + LUT24_BITS : PowerOfTwo[j] = 2 * PowerOfTwo[j - 1]
<1>1. 2 \in Nat /\ PREC + LUT24_BITS \in Nat
  BY WidthAssumption
<1>2. PowersUpTo(2, PREC + LUT24_BITS, PowerOfTwo)
  BY Zenon DEF PowerOfTwo, PowersUpTo
<1> QED
  BY <1>1, <1>2, Powers

LEMMA PowersPositive ==
  ASSUME NEW j \in 0 .. PREC + LUT24_BITS
  PROVE  PowerOfTwo[j] \in Nat \ {0}
<1> DEFINE Bad == { x \in 0 .. PREC + LUT24_BITS : PowerOfTwo[x] = 0 }
<1>1. ASSUME Bad # {} PROVE FALSE
  <2>1. Bad \in SUBSET Nat
    OBVIOUS
  <2>2. PICK x \in Bad : \A y \in Bad : x <= y
    <3> HIDE DEF Bad
    <3> QED
      BY <1>1, <2>1, LeastElement
  <2>3. x \in 0 .. PREC + LUT24_BITS /\ PowerOfTwo[x] = 0
    OBVIOUS
  <2>4. CASE x = 0
    BY <2>3, <2>4, TwoPowers
  <2>5. CASE x # 0
    <3>1. x \in 1 .. PREC + LUT24_BITS /\ x - 1 \in 0 .. PREC + LUT24_BITS
      BY <2>3, <2>5, TwoPowers
    <3>2. PowerOfTwo[x] = 2 * PowerOfTwo[x - 1] /\ PowerOfTwo[x - 1] \in Nat
      BY <3>1, TwoPowers
    <3>3. PowerOfTwo[x - 1] = 0
      BY <2>3, <3>2
    <3>4. x - 1 \in Bad /\ ~ (x <= x - 1)
      BY <3>1, <3>3
    <3> QED
      BY <2>2, <3>4
  <2> QED
    BY <2>4, <2>5
<1>2. PowerOfTwo[j] # 0
  BY <1>1
<1> QED
  BY <1>2, TwoPowers

LEMMA PowersMultiply ==
  ASSUME NEW a \in Nat, NEW b \in Nat, a + b <= PREC + LUT24_BITS
  PROVE  PowerOfTwo[a + b] = PowerOfTwo[a] * PowerOfTwo[b]
<1> DEFINE N == PREC + LUT24_BITS
           Right(x) == PowerOfTwo[a + x] = PowerOfTwo[a] * PowerOfTwo[x]
           Bad == { x \in 0 .. b : ~ Right(x) }
<1>1. N \in Nat /\ a \in 0 .. N /\ \A x \in 0 .. b : x \in 0 .. N /\ a + x \in 0 .. N
  BY TwoPowers
<1>2. PowerOfTwo[a] \in Nat
  BY <1>1, TwoPowers
<1>3. Right(0)
  BY <1>2, TwoPowers
<1>4. ASSUME NEW x \in 1 .. b, Right(x - 1) PROVE Right(x)
  <2>1. x \in 1 .. N /\ a + x \in 1 .. N /\ (a + x) - 1 = a + (x - 1)
    BY <1>1
  <2>2. PowerOfTwo[a + x] = 2 * PowerOfTwo[(a + x) - 1]
    BY <2>1, TwoPowers
  <2>3. PowerOfTwo[x] = 2 * PowerOfTwo[x - 1] /\ PowerOfTwo[x - 1] \in Nat
    <3>1. x - 1 \in 0 .. N
      <4>1. x \in 1 .. N
        BY <2>1
      <4> HIDE <1>4
      <4> HIDE DEF N, Right
      <4> QED
        BY <1>1, <4>1
    <3>2. PowerOfTwo[x] = 2 * PowerOfTwo[x - 1]
      BY <2>1, TwoPowers, Zenon
    <3>3. PowerOfTwo[x - 1] \in Nat
      BY <3>1, TwoPowers, Zenon
    <3> QED
      BY <3>2, <3>3
  <2>4. PowerOfTwo[(a + x) - 1] = PowerOfTwo[a] * PowerOfTwo[x - 1]
    BY <1>4, <2>1
  <2>5. 2 * (PowerOfTwo[a] * PowerOfTwo[x - 1])
          = PowerOfTwo[a] * (2 * PowerOfTwo[x - 1])
    BY <1>2, <2>3, SMTT(30)
  <2> QED
    BY <2>2, <2>3, <2>4, <2>5, Zenon
<1> HIDE DEF Right
<1>5. ASSUME Bad # {} PROVE FALSE
  <2>1. Bad \in SUBSET Nat
    OBVIOUS
  <2>2. PICK x \in Bad : \A y \in Bad : x <= y
    <3> HIDE DEF Bad
    <3> QED
      BY <1>5, <2>1, LeastElement
  <2>3. x \in 0 .. b /\ ~ Right(x)
    OBVIOUS
  <2>4. x # 0
    BY <1>3, <2>3
  <2>5. x \in 1 .. b /\ x - 1 \in 0 .. b /\ ~ (x <= x - 1)
    BY <2>3, <2>4
  <2>6. x - 1 \in Bad
    BY <1>4, <2>3, <2>5
  <2> QED
    BY <2>2, <2>5, <2>6
<1>6. Right(b)
  BY <1>5
<1> QED
  BY <1>6 DEF Right

(* A divisor that is shifted until its top bit is set.                      *)
LEMMA Normalised ==
  ASSUME NEW r \in 1 .. PowerOfTwo[CODE_BITS] - 1
  PROVE  /\ LeadingZeros(r) \in 0 .. CODE_BITS
         /\ r * PowerOfTwo[LeadingZeros(r)] < PowerOfTwo[CODE_BITS]
         /\ PowerOfTwo[CODE_BITS] <= 2 * (r * PowerOfTwo[LeadingZeros(r)])
<1> DEFINE W == PowerOfTwo[CODE_BITS]
           S == { k \in 0 .. CODE_BITS : r * PowerOfTwo[k] < W }
<1>1. /\ CODE_BITS \in Nat /\ CODE_BITS \in 0 .. PREC + LUT24_BITS
      /\ \A k \in 0 .. CODE_BITS : k \in 0 .. PREC + LUT24_BITS
      /\ \A k \in 1 .. CODE_BITS : k \in 1 .. PREC + LUT24_BITS
  BY WidthAssumption
<1>2. W \in Nat /\ r \in Nat /\ 1 <= r /\ r < W
  <2>1. W \in Nat
    BY <1>1, TwoPowers, Zenon
  <2>2. r \in 1 .. W - 1
    OBVIOUS
  <2> HIDE DEF W
  <2> QED
    BY <2>1, <2>2
<1>3. PowerOfTwo[0] = 1 /\ 0 \in 0 .. CODE_BITS
  BY <1>1, TwoPowers
<1>4. S \in SUBSET (0 .. CODE_BITS) /\ 0 \in S
  BY <1>2, <1>3
<1>5. LeadingZeros(r) = Max(S)
  BY Zenon DEF LeadingZeros
<1> DEFINE k0 == LeadingZeros(r)
<1>6. k0 \in S /\ \A k \in S : k <= k0
  <2> HIDE DEF S, k0
  <2>1. S # {}
    BY <1>4
  <2>2. Max(S) \in S /\ \A k \in S : k <= Max(S)
    BY <1>1, <1>4, <2>1, MaxFacts
  <2> QED
    BY <1>5, <2>2, Zenon DEF k0
<1> HIDE DEF k0
<1>7. k0 \in 0 .. CODE_BITS /\ r * PowerOfTwo[k0] < W
  BY <1>6
<1>8. PowerOfTwo[k0] \in Nat
  BY <1>1, <1>7, TwoPowers
<1>9. k0 # CODE_BITS
  <2>1. W <= r * W
    <3>1. W * 1 <= W * r
      BY <1>2, MulMonotone
    <3> QED
      BY <1>2, <3>1, SMTT(30)
  <2>2. r * W \in Nat
    BY <1>2, SMTT(30)
  <2>3. ASSUME k0 = CODE_BITS PROVE FALSE
    <3>1. r * W < W
      BY <1>7, <2>3, Zenon
    <3> QED
      BY <1>2, <2>1, <2>2, <3>1
  <2> QED
    BY <2>3
<1>10. k0 + 1 \in 1 .. CODE_BITS /\ (k0 + 1) - 1 = k0 /\ ~ (k0 + 1 <= k0)
  BY <1>1, <1>7, <1>9
<1>11. PowerOfTwo[k0 + 1] = 2 * PowerOfTwo[k0]
  <2>1. k0 + 1 \in 1 .. PREC + LUT24_BITS
    BY <1>1, <1>10
  <2> QED
    BY <1>10, <2>1, TwoPowers
<1>12. ~ (r * PowerOfTwo[k0 + 1] < W)
  <2>1. k0 + 1 \notin S
    BY <1>6, <1>10
  <2>2. k0 + 1 \in 0 .. CODE_BITS
    BY <1>10
  <2> QED
    BY <2>1, <2>2
<1>13. r * (2 * PowerOfTwo[k0]) = 2 * (r * PowerOfTwo[k0])
  BY <1>2, <1>8, SMTT(30)
<1>14. W <= 2 * (r * PowerOfTwo[k0])
  <2> DEFINE X == r * PowerOfTwo[k0]
  <2>1. X \in Nat
    BY <1>2, <1>8, SMTT(30)
  <2>2. ~ (2 * X < W)
    BY <1>11, <1>12, <1>13, Zenon
  <2> HIDE DEF X, W
  <2>3. W <= 2 * X
    BY <1>2, <2>1, <2>2
  <2> QED
    BY <2>3 DEF X, W
<1> QED
  BY <1>7, <1>14, Zenon DEF k0

(* The reciprocal of the upper end of a bucket: never more than that of the *)
(* divisor, and off by at most three parts in as many as there are buckets. *)
LEMMA BucketReciprocal ==
  ASSUME NEW p \in Nat \ {0}, NEW w \in Nat \ {0}, NEW z \in Nat \ {0}, p = w * z,
         NEW b \in Nat \ {0}, NEW s \in Nat \ {0}, b * (b * s) <= p,
         NEW r \in Nat, r * z < b * s, b * s <= 2 * (r * z),
         NEW top, top = ((r * z) \div s + 1) * s,
         NEW m, m = p \div top
  PROVE  m \in Nat /\ m * r <= w /\ b * (w - m * r) <= 3 * w
<1> DEFINE x == r * z
           bs == b * s
<1>1. x \in Nat /\ bs \in Nat
  BY SMTT(30)
<1>2. x < bs /\ bs <= 2 * x /\ b * bs <= p
  OBVIOUS
<1>3. top \in Nat \ {0} /\ x < top /\ top <= x + s /\ top <= bs
  <2> DEFINE q == x \div s
  <2>1. top = (q + 1) * s
    OBVIOUS
  <2> HIDE DEF x, bs
  <2>2. q \in Nat /\ x % s \in 0 .. s - 1 /\ x = s * q + (x % s)
    BY <1>1, EuclideanDivision
  <2>3. q < b
    <3>1. x < s * b
      BY <1>1, <1>2, SMTT(30) DEF bs
    <3> QED
      BY <1>1, <3>1, DivSmall
  <2> HIDE DEF q
  <2>4. (q + 1) * s = s * q + s /\ s * q \in Nat
    BY <2>2, SMTT(30)
  <2>5. (q + 1) * s <= bs
    <3>1. s * (q + 1) <= s * b
      BY <2>2, <2>3, MulMonotone
    <3>2. s * (q + 1) = (q + 1) * s /\ s * b = b * s
      BY <2>2, SMTT(30)
    <3> QED
      BY <3>1, <3>2, Zenon DEF bs
  <2> QED
    BY <1>1, <2>1, <2>2, <2>4, <2>5
<1>4. m \in Nat /\ p % top \in 0 .. top - 1 /\ p = top * m + (p % top)
  <2>1. p \in Nat
    OBVIOUS
  <2> QED
    <3>1. /\ p \div top \in Nat /\ p % top \in 0 .. top - 1
          /\ p = top * (p \div top) + (p % top)
      BY <1>3, <2>1, EuclideanDivision, Zenon
    <3> QED
      BY <3>1, Zenon
<1> HIDE DEF x, bs
<1> DEFINE mx == m * x
           mt == m * top
           ms == m * s
           d  == w - m * r
<1>5. mx \in Nat /\ mt \in Nat /\ ms \in Nat /\ top * m = mt
  <2>1. x \in Nat /\ top \in Nat /\ m \in Nat /\ s \in Nat
    BY <1>1, <1>3, <1>4
  <2> QED
    BY <2>1, ProductIsNat
<1>6. mx <= mt /\ mt <= mx + ms
  <2>1. x <= top /\ top <= x + s /\ x + s \in Nat
    BY <1>1, <1>3
  <2>2. m * x <= m * top
    BY <1>1, <1>3, <1>4, <2>1, MulMonotone
  <2>3. m * top <= m * (x + s)
    BY <1>3, <1>4, <2>1, MulMonotone
  <2>4. m * (x + s) = m * x + m * s
    BY <1>1, <1>4, SMTT(30)
  <2> QED
    BY <2>2, <2>3, <2>4, Zenon
<1>7. mt <= p /\ p <= mt + top
  <2> DEFINE rest == p % top
  <2>1. rest \in 0 .. top - 1 /\ p = mt + rest
    BY <1>4, <1>5, Zenon
  <2> HIDE DEF mx, mt, ms, rest
  <2> QED
    BY <1>3, <1>5, <2>1
<1>8. b * ms <= 2 * mx
  <2>1. m * bs <= m * (2 * x)
    BY <1>1, <1>2, <1>4, MulMonotone, SMTT(60)
  <2>2. m * bs = b * ms
    BY <1>4, SMTT(30) DEF bs
  <2>3. m * (2 * x) = 2 * mx
    BY <1>1, <1>4, SMTT(30)
  <2> QED
    BY <2>1, <2>2, <2>3, Zenon
<1>9. z * (m * r) = mx
  <2>1. m \in Int
    BY <1>4
  <2>2. z * (m * r) = m * (z * r) /\ z * r = r * z
    BY <2>1, Commuted, Swapped
  <2> QED
    BY <2>2, Zenon DEF x
<1>10. p = z * w
  BY SMTT(30)
<1>11. m * r <= w
  <2>1. m * r \in Nat
    BY <1>4, SMTT(30)
  <2>2. mx <= p
    BY <1>5, <1>6, <1>7
  <2>3. z * (m * r) <= z * w
    BY <1>9, <1>10, <2>2, Zenon
  <2> QED
    BY <2>1, <2>3, CancelFactor
<1>12. b * (p - mx) <= 3 * p
  <2>1. p - mx <= ms + bs /\ p - mx \in Nat /\ ms + bs \in Nat
    BY <1>1, <1>3, <1>5, <1>6, <1>7
  <2>2. b * (p - mx) <= b * (ms + bs)
    BY <2>1, MulMonotone
  <2>3. b * (ms + bs) = b * ms + b * bs
    BY <1>1, <1>5, SMTT(30)
  <2> DEFINE A == b * (p - mx)
             C == b * (ms + bs)
             E == b * ms
             F == b * bs
  <2>4. A \in Int /\ C \in Int /\ E \in Int /\ F \in Int
    BY <1>1, <1>5
  <2>5. A <= C /\ C = E + F /\ E <= 2 * mx /\ F <= p
    BY <1>2, <1>8, <2>2, <2>3, Zenon
  <2> HIDE DEF A, C, E, F
  <2>6. A <= 3 * p
    BY <1>5, <1>6, <1>7, <2>4, <2>5
  <2> QED
    BY <2>6 DEF A
<1>13. b * d <= 3 * w
  <2>1. d \in Nat
    BY <1>4, <1>11
  <2>2. z * d = p - mx
    <3>1. z * d = z * w - z * (m * r)
      BY <1>4, SMTT(30)
    <3> QED
      BY <1>9, <1>10, <3>1, Zenon
  <2> HIDE DEF d
  <2>3. z * (b * d) = b * (z * d)
    BY <2>1, Commuted
  <2>4. z * (3 * w) = 3 * p
    BY <1>10, SMTT(30)
  <2>5. z * (b * d) <= z * (3 * w)
    BY <1>12, <2>2, <2>3, <2>4, Zenon
  <2>6. b * d \in Int /\ 3 * w \in Int
    BY <2>1
  <2> QED
    BY <2>5, <2>6, CancelFactor
<1> QED
  BY <1>4, <1>11, <1>13

LEMMA PowersGrow ==
  ASSUME NEW i \in 0 .. PREC + LUT24_BITS, NEW j \in 0 .. i
  PROVE  PowerOfTwo[j] <= PowerOfTwo[i]
<1>1. /\ j \in Nat /\ i - j \in Nat /\ j + (i - j) = i /\ i <= PREC + LUT24_BITS
      /\ j \in 0 .. PREC + LUT24_BITS /\ i - j \in 0 .. PREC + LUT24_BITS
  BY TwoPowers
<1>2. PowerOfTwo[i] = PowerOfTwo[j] * PowerOfTwo[i - j]
  BY <1>1, PowersMultiply
<1>3. PowerOfTwo[j] \in Nat \ {0} /\ PowerOfTwo[i - j] \in Nat \ {0}
  BY <1>1, PowersPositive
<1>4. PowerOfTwo[j] * 1 <= PowerOfTwo[j] * PowerOfTwo[i - j]
  BY <1>3, MulMonotone
<1> QED
  BY <1>2, <1>3, <1>4

(* rc_fast_div: one step and one correction are enough, and the correction  *)
(* is only ever upwards (model_12.h:217-229, 273-288).                      *)
THEOREM FastDivisionIsExact ==
  ASSUME NEW r \in 1 .. PowerOfTwo[CODE_BITS] - 1, NEW code \in 0 .. r * TOTAL - 1
  PROVE  rc_fast_div(code, r) = code \div r
<1> DEFINE k == LeadingZeros(r)
           z == PowerOfTwo[k]
           p == PowerOfTwo[PREC]
           w == PowerOfTwo[PREC - k]
           b == PowerOfTwo[IDX_BITS]
           s == PowerOfTwo[IDX_SHIFT]
           top == ((r * z) \div s + 1) * s
           m == p \div top
           v0 == (code * m) \div w
           e == code - v0 * r
           v1 == v0 + (e * m) \div w
<1>1. k \in 0 .. CODE_BITS /\ r * z < PowerOfTwo[CODE_BITS]
      /\ PowerOfTwo[CODE_BITS] <= 2 * (r * z)
  BY Normalised, Zenon
<1> HIDE DEF k
<1>2. /\ CODE_BITS \in Nat /\ IDX_BITS \in Nat /\ PREC \in Nat /\ LUT24_BITS \in Nat
      /\ IDX_SHIFT \in Nat /\ IDX_BITS + IDX_SHIFT = CODE_BITS
      /\ IDX_BITS + CODE_BITS \in 0 .. PREC
      /\ k \in Nat /\ PREC - k \in Nat /\ (PREC - k) + k = PREC
  BY <1>1, WidthAssumption DEF IDX_SHIFT
<1>3. /\ CODE_BITS \in 0 .. PREC + LUT24_BITS /\ IDX_BITS \in 0 .. PREC + LUT24_BITS
      /\ IDX_SHIFT \in 0 .. PREC + LUT24_BITS /\ k \in 0 .. PREC + LUT24_BITS
      /\ PREC - k \in 0 .. PREC + LUT24_BITS /\ PREC \in 0 .. PREC + LUT24_BITS
      /\ IDX_BITS + CODE_BITS <= PREC + LUT24_BITS
      /\ IDX_BITS + IDX_SHIFT <= PREC + LUT24_BITS
      /\ (PREC - k) + k <= PREC + LUT24_BITS
  BY <1>2
<1>4. /\ z \in Nat \ {0} /\ p \in Nat \ {0} /\ w \in Nat \ {0}
      /\ b \in Nat \ {0} /\ s \in Nat \ {0}
  BY <1>3, PowersPositive, Zenon
<1>5. p = w * z
  <2>1. PowerOfTwo[(PREC - k) + k] = PowerOfTwo[PREC - k] * PowerOfTwo[k]
    BY <1>2, <1>3, PowersMultiply, Zenon
  <2> QED
    BY <1>2, <2>1, Zenon
<1>6. PowerOfTwo[CODE_BITS] = b * s
  <2>1. PowerOfTwo[IDX_BITS + IDX_SHIFT] = b * s
    BY <1>2, <1>3, PowersMultiply, Zenon
  <2> QED
    BY <1>2, <2>1, Zenon
<1>7. b * (b * s) <= p
  <2>1. PowerOfTwo[IDX_BITS + CODE_BITS] = b * PowerOfTwo[CODE_BITS]
    BY <1>2, <1>3, PowersMultiply, Zenon
  <2>2. PowerOfTwo[IDX_BITS + CODE_BITS] <= p
    BY <1>2, <1>3, PowersGrow, Zenon
  <2> QED
    BY <1>6, <2>1, <2>2, Zenon
<1>8. /\ 9 * TOTAL + 3 * b <= b * b /\ TOTAL \in Nat
      /\ r \in Nat \ {0} /\ code \in Nat /\ code < r * TOTAL
  <2>1. 9 * TOTAL + 3 * b <= b * b
    BY DivisorAssumption, Zenon
  <2>2. TOTAL \in Nat
    BY TotalAssumption
  <2>3. PowerOfTwo[CODE_BITS] \in Nat
    BY <1>3, PowersPositive
  <2>4. r \in Nat \ {0}
    BY <2>3
  <2>5. r * TOTAL \in Nat
    BY <2>2, <2>4, ProductIsNat
  <2>6. code \in Nat /\ code < r * TOTAL
    BY <2>5
  <2> QED
    BY <2>1, <2>2, <2>4, <2>6, Zenon
<1>9. r * z < b * s /\ b * s <= 2 * (r * z)
  BY <1>1, <1>6, Zenon
<1> HIDE DEF z, p, w, b, s
<1>10. m \in Nat /\ m * r <= w /\ b * (w - m * r) <= 3 * w
  <2>1. r \in Nat
    BY <1>8
  <2> QED
    BY <1>4, <1>5, <1>7, <1>9, <2>1, BucketReciprocal, Zenon
<1> DEFINE d == w - m * r
<1>11. d \in Nat /\ w = m * r + d /\ b * d <= 3 * w
  <2> DEFINE mr == m * r
  <2>1. mr \in Nat
    BY <1>8, <1>10, ProductIsNat, Zenon
  <2>2. mr <= w /\ b * (w - mr) <= 3 * w
    BY <1>10, Zenon
  <2> HIDE DEF mr
  <2>3. w - mr \in Nat /\ w = mr + (w - mr)
    BY <1>4, <2>1, <2>2
  <2> QED
    BY <2>2, <2>3, Zenon DEF mr
<1>12. NewtonEstimate(code, r) = v1
  BY DEF NewtonEstimate, rc_div_lut, z, p, w, s, k
<1>13. Estimates(code, r, m, w, d, b, v0, v1)
  BY <1>4, <1>8, <1>10, <1>11, Zenon DEF Estimates
<1> HIDE DEF m, d, v0, e, v1
<1>14. rc_fast_div(code, r) = Corrected(v1, code, r)
  <2>1. rc_fast_div(code, r) = Corrected(NewtonEstimate(code, r), code, r)
    BY DEF rc_fast_div, Corrected
  <2> QED
    BY <1>12, <2>1, Zenon
<1>15. Corrected(v1, code, r) = code \div r
  BY <1>8, <1>13, OneNewtonStep, Zenon
<1> QED
  BY <1>14, <1>15, Zenon

(* rc_fast_div24: the high half of the product with the rounded-up          *)
(* reciprocal is the quotient, and no correction is needed                  *)
(* (model_12.h:306-313).                                                    *)
THEOREM FastDivision24IsExact ==
  ASSUME NEW r \in Nat \ {0}, NEW code \in 0 .. r * TOTAL - 1,
         r * r * TOTAL <= PowerOfTwo[LUT24_BITS]
  PROVE  rc_fast_div24(code, r) = code \div r
<1> DEFINE p == PowerOfTwo[LUT24_BITS]
           M == (p - 1) \div r + 1
           q == code \div r
<1>1. p \in Nat \ {0}
  <2>1. LUT24_BITS \in 0 .. PREC + LUT24_BITS
    BY WidthAssumption
  <2> QED
    BY <2>1, PowersPositive, Zenon
<1>2. TOTAL \in Nat /\ r * TOTAL \in Nat /\ code \in Nat /\ code <= r * TOTAL
  <2>1. TOTAL \in Nat /\ r * TOTAL \in Nat
    BY TotalAssumption, ProductIsNat
  <2> QED
    BY <2>1
<1>3. r * r * TOTAL <= p
  OBVIOUS
<1>4. rc_fast_div24(code, r) = (code * M) \div p
  BY Zenon DEF rc_fast_div24, rc_div24_lut
<1> HIDE DEF p
<1>5. M \in Nat /\ \E e \in 0 .. r - 1 : r * M = p + e
  <2> DEFINE t == (p - 1) % r
             h == (p - 1) \div r
  <2>1. p - 1 \in Nat
    BY <1>1
  <2>2. h \in Nat /\ t \in 0 .. r - 1 /\ p - 1 = r * h + t
    BY <2>1, EuclideanDivision
  <2>3. M = h + 1
    OBVIOUS
  <2> HIDE DEF t, h, M
  <2>4. r * (h + 1) = r * h + r
    BY <2>2, SMTT(30)
  <2> DEFINE rh == r * h
             e == (r - 1) - t
  <2>5. rh \in Int
    BY <2>2
  <2>6. p - 1 = rh + t /\ r * M = rh + r
    BY <2>2, <2>3, <2>4, Zenon
  <2> HIDE DEF rh
  <2>7. e \in 0 .. r - 1 /\ r * M = p + e
    BY <1>1, <2>2, <2>5, <2>6
  <2> HIDE DEF e
  <2> QED
    BY <2>2, <2>3, <2>7
<1>6. PICK e \in 0 .. r - 1 : r * M = p + e
  BY <1>5
<1> HIDE DEF M
<1>7. q \in Nat /\ r * q <= code /\ code + 1 <= r * (q + 1)
  <2>1. q \in Nat /\ code % r \in 0 .. r - 1 /\ code = r * q + (code % r)
    BY <1>2, EuclideanDivision
  <2> DEFINE t == code % r
             rq == r * q
  <2> HIDE DEF q
  <2>2. r * (q + 1) = rq + r /\ rq \in Nat
    BY <2>1, SMTT(30)
  <2>3. t \in 0 .. r - 1 /\ code = rq + t
    BY <2>1, Zenon
  <2> HIDE DEF t, rq
  <2>4. rq <= code /\ code + 1 <= rq + r
    BY <1>2, <2>2, <2>3
  <2> QED
    BY <2>1, <2>2, <2>4, Zenon DEF rq
<1> HIDE DEF q
(* The product with the reciprocal, r times: code * p and less than p more. *)
<1>8. r * (code * M) = code * p + code * e
  <2>1. r * (code * M) = code * (r * M)
    BY <1>2, <1>5, Commuted
  <2>2. code * (p + e) = code * p + code * e
    BY <1>1, <1>2, SMTT(30)
  <2> QED
    BY <1>6, <2>1, <2>2, Zenon
<1>9. code * e \in Nat /\ code * e < p
  <2>1. CASE code = 0
    BY <1>1, <2>1
  <2>2. CASE code # 0
    <3>1. code * e < code * r
      BY <1>2, <2>2, SMTT(30)
    <3>2. code * r <= (r * TOTAL) * r
      <4>1. r * code <= r * (r * TOTAL)
        BY <1>2, MulMonotone
      <4>2. r * code = code * r /\ r * (r * TOTAL) = (r * TOTAL) * r
        BY <1>2, Swapped
      <4> QED
        BY <4>1, <4>2, Zenon
    <3>3. (r * TOTAL) * r = r * r * TOTAL
      BY <1>2, SMTT(30)
    <3> DEFINE A == code * e
               C == code * r
               E == (r * TOTAL) * r
    <3>4. A \in Nat /\ C \in Nat /\ E \in Nat
      BY <1>2, ProductIsNat
    <3>5. A < C /\ C <= E /\ E <= p
      BY <1>3, <3>1, <3>2, <3>3, Zenon
    <3> HIDE DEF A, C, E
    <3>6. A \in Nat /\ A < p
      BY <1>1, <3>4, <3>5
    <3> QED
      BY <3>6 DEF A
  <2> QED
    BY <2>1, <2>2
<1> DEFINE X == code * M
           low == p * q
<1>10. X \in Nat /\ low \in Nat /\ low + p \in Nat
  BY <1>1, <1>2, <1>5, <1>7, ProductIsNat
<1>11. r * low <= r * X /\ r * X + 1 <= r * (low + p)
  <2>1. p * (r * q) <= p * code /\ p * (code + 1) <= p * (r * (q + 1))
    <3>1. r * q \in Nat /\ r * (q + 1) \in Nat
      BY <1>7, SMTT(30)
    <3> QED
      BY <1>1, <1>2, <1>7, <3>1, MulMonotone
  <2>2. p * (r * q) = r * low
    BY <1>1, <1>7, Commuted
  <2>3. p * (r * (q + 1)) = r * (low + p)
    <3>1. p * (r * (q + 1)) = r * (p * (q + 1))
      BY <1>1, <1>7, Commuted
    <3>2. p * (q + 1) = low + p
      BY <1>1, <1>7, SMTT(30)
    <3> QED
      BY <3>1, <3>2, Zenon
  <2>4. p * (code + 1) = code * p + p /\ p * code = code * p
    BY <1>1, <1>2, SMTT(30)
  <2> DEFINE cp == code * p
             ce == code * e
             rl == r * low
             rx == r * X
             rp == r * (low + p)
  <2>5. cp \in Nat /\ ce \in Nat /\ rl \in Nat /\ rx \in Nat /\ rp \in Nat
    BY <1>1, <1>2, <1>9, <1>10, ProductIsNat
  <2>6. rl <= cp /\ cp + p <= rp /\ rx = cp + ce /\ ce < p
    BY <1>8, <1>9, <2>1, <2>2, <2>3, <2>4, Zenon
  <2> HIDE DEF cp, ce, rl, rx, rp
  <2>7. rl <= rx /\ rx + 1 <= rp
    BY <1>1, <2>5, <2>6
  <2> QED
    BY <2>7 DEF rl, rx, rp
<1> HIDE DEF X, low
<1>12. low <= X
  BY <1>10, <1>11, CancelFactor
<1>13. X < low + p
  <2>1. ASSUME low + p <= X PROVE FALSE
    <3>1. r * (low + p) <= r * X
      BY <1>10, <2>1, MulMonotone
    <3> DEFINE A == r * (low + p)
               C == r * X
    <3>2. A \in Nat /\ C \in Nat
      BY <1>10, ProductIsNat
    <3>3. A <= C /\ C + 1 <= A
      BY <1>11, <3>1, Zenon
    <3> HIDE DEF A, C
    <3> QED
      BY <3>2, <3>3
  <2> QED
    BY <1>10, <2>1
<1>14. X - low \in 0 .. p - 1 /\ X = low + (X - low)
  BY <1>1, <1>10, <1>12, <1>13
<1>15. X = p * q + (X - low)
  BY <1>14, Zenon DEF low
<1>16. X \div p = q
  BY <1>1, <1>7, <1>10, <1>14, <1>15, Quotients
<1> QED
  BY <1>4, <1>16, Zenon DEF X, q

(* What lies in r times the interval of a symbol divides to its interval.   *)
LEMMA QuotientFindsSymbol ==
  ASSUME BuildInv, Built, NEW s \in Symbols, NEW r \in Nat \ {0},
         NEW c \in r * cums[s] .. r * cums[s + 1] - 1
  PROVE  c \in 0 .. r * TOTAL - 1 /\ lut[c \div r] = s
<1> DEFINE lo == cums[s]
           hi == cums[s + 1]
           q == c \div r
<1>1. Rises(cums)
  BY BuiltRises
<1>2. /\ lo \in Nat /\ hi \in Nat /\ hi <= TOTAL /\ TOTAL \in Nat
  <2>1. s \in 0 .. ALPHABET /\ s + 1 \in 0 .. ALPHABET
    BY SymbolFacts
  <2>2. lo \in Nat /\ hi \in Nat
    BY <1>1, <2>1 DEF Rises
  <2>3. hi <= TOTAL
    <3>1. ALPHABET \in 0 .. ALPHABET /\ s + 1 <= ALPHABET
      BY <2>1, SymbolFacts
    <3>2. cums[s + 1] <= cums[ALPHABET] /\ cums[ALPHABET] = TOTAL
      BY <1>1, <2>1, <3>1, Zenon DEF Rises
    <3> QED
      BY <3>2, Zenon
  <2> QED
    BY <2>2, <2>3, TotalAssumption, Zenon
<1> HIDE DEF lo, hi
<1>3. r * lo \in Nat /\ r * hi \in Nat /\ r * TOTAL \in Nat /\ r * hi <= r * TOTAL
  BY <1>2, MulMonotone, ProductIsNat
<1>4. c \in r * lo .. r * hi - 1
  BY Zenon DEF lo, hi
<1>5. c \in Nat /\ r * lo <= c /\ c < r * hi /\ c \in 0 .. r * TOTAL - 1
  BY <1>3, <1>4
<1>6. q \in Nat /\ c % r \in 0 .. r - 1 /\ c = r * q + (c % r)
  BY <1>5, EuclideanDivision
<1>7. q < hi
  <2>1. hi # 0
    <3>1. ASSUME hi = 0 PROVE FALSE
      <4>1. r * hi = 0
        BY <3>1
      <4> QED
        BY <1>5, <4>1
    <3> QED
      BY <3>1
  <2> QED
    BY <1>2, <1>5, <2>1, DivSmall
<1>8. lo <= q
  <2>1. ASSUME q + 1 <= lo PROVE FALSE
    <3>1. r * (q + 1) <= r * lo
      BY <1>2, <1>6, <2>1, MulMonotone
    <3>2. r * (q + 1) = r * q + r
      BY <1>6, SMTT(30)
    <3> DEFINE rq == r * q
               t == c % r
               rl == r * lo
    <3>3. rq \in Nat
      BY <1>6, ProductIsNat
    <3>4. rq + r <= rl /\ rl <= c /\ c = rq + t /\ t \in 0 .. r - 1 /\ rl \in Nat
      BY <1>3, <1>5, <1>6, <3>1, <3>2, Zenon
    <3> HIDE DEF rq, t, rl
    <3> QED
      BY <1>5, <3>3, <3>4
  <2> QED
    BY <1>2, <1>6, <2>1
<1> HIDE DEF q
<1>9. q \in 0 .. TOTAL - 1
  BY <1>2, <1>6, <1>7
<1>10. lut[q] = Find(cums, q)
  BY <1>9, LookupsFind DEF LookupsAgree
<1>11. LiesIn(cums, s, q)
  BY <1>7, <1>8 DEF LiesIn, lo, hi
<1>12. Find(cums, q) = s
  BY <1>1, <1>9, <1>11, FindIsTheInterval
<1> QED
  BY <1>5, <1>10, <1>12 DEF q

-----------------------------------------------------------------------------
(* The invariant of the 12-bit half of the run.                             *)
ModelsInv == model = 12 => BuildInv

(* How the sums, the frequencies and the tables of the 12-bit model hang    *)
(* together at every step of model12_build (model_12.h:62-165).             *)
THEOREM BuildingInvariance == ModelsSpec => []ModelsInv
<1>1. ModelsInit => ModelsInv
  BY BuildStarts DEF ModelsInit, ModelsInv
<1>2. ModelsInv /\ [ModelsNext]_<<model, vars>> => ModelsInv'
  <2> SUFFICES ASSUME ModelsInv, [ModelsNext]_<<model, vars>>, model' = 12
               PROVE  BuildInv'
    BY Zenon DEF ModelsInv
  <2>1. model = 12 /\ (Next \/ UNCHANGED vars)
    BY DEF ModelsNext
  <2> QED
    BY <2>1, BuildSteps DEF ModelsInv
<1> QED
  BY <1>1, <1>2, PTL DEF ModelsSpec

(* Every byte of the file has a frequency and the table covers the scale,   *)
(* as long as max_sym has more than the excess to give (model_12.h:89-141). *)
THEOREM EveryByteIsCoded == ModelsSpec => []EveryByteCoded12
<1>1. ModelsInv => EveryByteCoded12
  BY BytesAreCoded DEF ModelsInv, EveryByteCoded12
<1> QED
  BY <1>1, BuildingInvariance, PTL

(* The lookup table and the branchless binary search find the symbol whose  *)
(* interval the value lies in, for any table that is built                  *)
(* (model_12.h:148-198).                                                    *)
THEOREM LookupsFindTheSymbol == ModelsSpec => []LookupsAgree12
<1>1. ModelsInv => LookupsAgree12
  BY LookupsFind DEF ModelsInv, LookupsAgree12
<1> QED
  BY <1>1, BuildingInvariance, PTL

(* A decoder that divides by one of the two tables finds the symbol whose   *)
(* share of the range holds the code, for every divisor the coders use      *)
(* (model_12.h:273-288, 311-313).                                           *)
THEOREM TabledDivisionsFindTheSymbol == ModelsSpec => []DivisionFindsSymbol
<1>1. ASSUME ModelsInv PROVE DivisionFindsSymbol
  <2> SUFFICES ASSUME model = 12, Built, NEW s \in Occurring(cums)
               PROVE  /\ \A r \in DIVISORS32 : \A c \in r * cums[s] .. r * cums[s + 1] - 1 :
                           lut[Quotients32[r][c]] = s
                      /\ \A r \in DIVISORS24 : \A c \in r * cums[s] .. r * cums[s + 1] - 1 :
                           lut[Quotients24[r][c]] = s
    BY Zenon DEF DivisionFindsSymbol
  <2>1. BuildInv /\ s \in Symbols
    BY <1>1 DEF ModelsInv, Occurring
  <2>2. ASSUME NEW r \in DIVISORS32, NEW c \in r * cums[s] .. r * cums[s + 1] - 1
        PROVE  lut[Quotients32[r][c]] = s
    <3>1. r \in 1 .. PowerOfTwo[CODE_BITS] - 1
      BY DivisorAssumption, Zenon
    <3>2. r \in Nat \ {0}
      <4>1. CODE_BITS \in 0 .. PREC + LUT24_BITS
        BY WidthAssumption
      <4>2. PowerOfTwo[CODE_BITS] \in Nat
        BY <4>1, TwoPowers, Zenon
      <4> QED
        BY <3>1, <4>2
    <3>3. c \in 0 .. r * TOTAL - 1 /\ lut[c \div r] = s
      BY <2>1, <3>2, QuotientFindsSymbol, Zenon
    <3>4. rc_fast_div(c, r) = c \div r
      BY <3>1, <3>3, FastDivisionIsExact, Zenon
    <3>5. Quotients32[r][c] = rc_fast_div(c, r)
      BY <3>3, Zenon DEF Quotients32, CodesFor
    <3> QED
      BY <3>3, <3>4, <3>5, Zenon
  <2>3. ASSUME NEW r \in DIVISORS24, NEW c \in r * cums[s] .. r * cums[s + 1] - 1
        PROVE  lut[Quotients24[r][c]] = s
    <3>1. r \in Nat \ {0} /\ r * r * TOTAL <= PowerOfTwo[LUT24_BITS]
      BY DivisorAssumption, Zenon
    <3>2. c \in 0 .. r * TOTAL - 1 /\ lut[c \div r] = s
      BY <2>1, <3>1, QuotientFindsSymbol, Zenon
    <3>3. rc_fast_div24(c, r) = c \div r
      BY <3>1, <3>2, FastDivision24IsExact, Zenon
    <3>4. Quotients24[r][c] = rc_fast_div24(c, r)
      BY <3>2, Zenon DEF Quotients24, CodesFor
    <3> QED
      BY <3>2, <3>3, <3>4, Zenon
  <2> QED
    BY <2>2, <2>3, Zenon
<1> QED
  BY <1>1, BuildingInvariance, PTL
=============================================================================
