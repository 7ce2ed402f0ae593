--------------------------- MODULE CodedInterval ----------------------------
(***************************************************************************)
(* Why a file that was range coded can be decoded, as facts about numbers  *)
(* that hold for the 64-bit and the 32-bit coder alike.                    *)
(*                                                                         *)
(* The intervals the encoder went through are a history H: H[i] is the     *)
(* interval after i symbols, its lower end an exact integer (the numbers   *)
(* of ExactCoder).  The words of a buffer are read as prefixes: P[j] is    *)
(* the number the first j words spell.  An encoder keeps the lower end of  *)
(* the last interval as the words of its buffer followed by the two words  *)
(* of low; a file encodes every symbol because the number it spells lies   *)
(* in every interval of the history.                                       *)
(*                                                                         *)
(* The first part states facts about naturals, integer division and        *)
(* sequences that the proofs of all coders cite.                           *)
(***************************************************************************)
EXTENDS CumTable, Sequences, TLAPS, WellFoundedInduction

(* The least-number principle.  A proof by induction over a file assumes    *)
(* that the set of counterexamples is not empty and looks at its least one. *)
LEMMA LeastElement ==
  ASSUME NEW S \in SUBSET Nat, S # {}
  PROVE  \E m \in S : \A k \in S : m <= k
<1> DEFINE Smaller == { p \in Nat \X Nat : p[1] < p[2] }
<1>1. IsWellFoundedOn(Smaller, Nat)
  <2>1. Smaller = OpToRel(<, Nat)
    BY Zenon DEF OpToRel
  <2> QED
    BY <2>1, NatLessThanWellFounded, Zenon
<1>2. PICK m \in S : \A k \in S : <<k, m>> \notin Smaller
  <2> HIDE DEF Smaller
  <2> QED
    BY <1>1, WFMin
<1>3. ASSUME NEW k \in S PROVE m <= k
  <2>1. m \in Nat /\ k \in Nat
    OBVIOUS
  <2>2. <<k, m>> \in Nat \X Nat /\ <<k, m>>[1] = k /\ <<k, m>>[2] = m
    BY <2>1
  <2>3. ~ (k < m)
    BY <1>2, <2>2
  <2> QED
    BY <2>1, <2>3
<1> QED
  BY <1>2, <1>3

(* A set of numbers below a bound has a greatest one.                       *)
LEMMA GreatestElement ==
  ASSUME NEW n \in Nat, NEW S \in SUBSET (0 .. n), S # {}
  PROVE  \E m \in S : \A k \in S : k <= m
<1> DEFINE D == { d \in Nat : n - d \in S }
<1>1. D \in SUBSET Nat
  OBVIOUS
<1>2. D # {}
  <2>1. PICK k \in S : TRUE
    OBVIOUS
  <2>2. k \in 0 .. n
    OBVIOUS
  <2>3. n - k \in Nat /\ n - (n - k) = k
    BY <2>2
  <2> QED
    BY <2>1, <2>3
<1>3. PICK d \in D : \A e \in D : d <= e
  BY <1>1, <1>2, LeastElement
<1>4. n - d \in S /\ d \in Nat
  OBVIOUS
<1>5. ASSUME NEW k \in S PROVE k <= n - d
  <2>1. k \in 0 .. n
    OBVIOUS
  <2>2. n - k \in Nat /\ n - (n - k) = k
    BY <2>1
  <2>3. n - k \in D
    BY <2>2
  <2>4. d <= n - k
    BY <1>3, <2>3
  <2> QED
    BY <1>4, <2>1, <2>4
<1> QED
  BY <1>4, <1>5

(* f satisfies the recursive definition with this start and these steps.    *)
Recursive(n, first, step, f) ==
  f = [ i \in 0 .. n |-> IF i = 0 THEN first ELSE step[i][f[i - 1]] ]

(* A recursive function over 0 .. n exists: what tlapm has to be shown      *)
(* before it lets the definition of one be unfolded.                        *)
LEMMA Recursion ==
  ASSUME NEW S, NEW first \in S, NEW n \in Nat,
         NEW step \in [1 .. n -> [S -> S]]
  PROVE  \E f : f \in [0 .. n -> S] /\ Recursive(n, first, step, f)
<1> DEFINE Upto(k, f) == /\ f \in [0 .. k -> S] /\ f[0] = first
                         /\ \A i \in 1 .. k : f[i] = step[i][f[i - 1]]
           Bad == { k \in 0 .. n : ~ \E f : Upto(k, f) }
<1>1. Bad = {}
  <2>1. ASSUME Bad # {} PROVE FALSE
    <3>1. Bad \in SUBSET Nat
      OBVIOUS
    <3>2. PICK m \in Bad : \A k \in Bad : m <= k
      <4> HIDE DEF Bad
      <4> QED
        BY <2>1, <3>1, LeastElement
    <3>3. m \in 0 .. n /\ ~ \E f : Upto(m, f)
      OBVIOUS
    <3>4. m # 0
      <4> DEFINE f == [ i \in 0 .. 0 |-> first ]
      <4>1. Upto(0, f)
        OBVIOUS
      <4> HIDE DEF f
      <4> QED
        BY <3>3, <4>1
    <3>5. m - 1 \in 0 .. n /\ ~ (m <= m - 1) /\ m \in 1 .. n
      BY <3>3, <3>4
    <3>6. m - 1 \notin Bad
      BY <3>2, <3>5
    <3>7. PICK f : Upto(m - 1, f)
      BY <3>5, <3>6
    <3> DEFINE g == [ i \in 0 .. m |->
                        IF i = m THEN step[m][f[m - 1]] ELSE f[i] ]
    <3>8. step[m][f[m - 1]] \in S
      <4>1. f[m - 1] \in S
        BY <3>5, <3>7
      <4>2. step[m] \in [S -> S]
        BY <3>5
      <4> QED
        BY <4>1, <4>2
    <3>9. Upto(m, g)
      <4>1. g \in [0 .. m -> S] /\ g[0] = first
        BY <3>5, <3>7, <3>8
      <4>2. ASSUME NEW i \in 1 .. m PROVE g[i] = step[i][g[i - 1]]
        <5>1. CASE i = m
          BY <3>5, <5>1
        <5>2. CASE i # m
          <6>1. i \in 1 .. m - 1 /\ g[i] = f[i] /\ g[i - 1] = f[i - 1]
            BY <3>5, <5>2
          <6> QED
            BY <3>7, <6>1
        <5> QED
          BY <5>1, <5>2
      <4> HIDE DEF g
      <4> QED
        BY <4>1, <4>2
    <3> HIDE DEF g
    <3> QED
      BY <3>3, <3>9
  <2> QED
    BY <2>1
<1>2. PICK f : Upto(n, f)
  BY <1>1, SMTT(60)
<1>3. f = [ i \in 0 .. n |-> IF i = 0 THEN first ELSE step[i][f[i - 1]] ]
  BY <1>2
<1> QED
  BY <1>2, <1>3, Zenon DEF Recursive

(* A function over 0 .. n that starts in S and stays there.                 *)
LEMMA StaysIn ==
  ASSUME NEW S, NEW n \in Nat, NEW f, f = [ i \in 0 .. n |-> f[i] ],
         f[0] \in S, \A i \in 1 .. n : f[i - 1] \in S => f[i] \in S
  PROVE  f \in [0 .. n -> S]
<1> DEFINE Bad == { i \in 0 .. n : f[i] \notin S }
<1>1. Bad = {}
  <2>1. ASSUME Bad # {} PROVE FALSE
    <3>1. Bad \in SUBSET Nat
      OBVIOUS
    <3>2. PICK m \in Bad : \A k \in Bad : m <= k
      <4> HIDE DEF Bad
      <4> QED
        BY <2>1, <3>1, LeastElement
    <3>3. m \in 0 .. n /\ f[m] \notin S
      OBVIOUS
    <3>4. m # 0
      BY <3>3
    <3>5. m - 1 \in 0 .. n /\ ~ (m <= m - 1) /\ m \in 1 .. n
      BY <3>3, <3>4
    <3>6. f[m - 1] \in S
      BY <3>2, <3>5
    <3> QED
      BY <3>3, <3>5, <3>6
  <2> QED
    BY <2>1
<1> QED
  BY <1>1

-----------------------------------------------------------------------------
(* Integer division and remainder by a positive divisor.                    *)
LEMMA EuclideanDivision ==
  ASSUME NEW a \in Nat, NEW b \in Nat \ {0}
  PROVE  /\ a \div b \in Nat
         /\ a % b \in 0 .. b - 1
         /\ a = b * (a \div b) + (a % b)
  BY SMTT(30)

(* A quotient and a remainder that fit are the quotient and the remainder.  *)
LEMMA Quotients ==
  ASSUME NEW a \in Int, NEW b \in Nat \ {0}, NEW q \in Int, NEW r \in 0 .. b - 1,
         a = b * q + r
  PROVE  a \div b = q /\ a % b = r
  BY SMTT(30)

(* A dividend that is not smaller has a positive quotient.                  *)
LEMMA DivPositive ==
  ASSUME NEW a \in Nat, NEW b \in Nat \ {0}, b <= a
  PROVE  a \div b >= 1
  BY EuclideanDivision, SMTT(30)

LEMMA DivSmall ==
  ASSUME NEW a \in Nat, NEW b \in Nat \ {0}, NEW c \in Nat \ {0}, a < b * c
  PROVE  a \div b < c
<1>1. /\ a \div b \in Nat
      /\ b * (a \div b) <= a
  BY EuclideanDivision, SMTT(30)
<1>2. ASSUME a \div b >= c PROVE FALSE
  <2>1. b * (a \div b) >= b * c
    BY <1>1, <1>2, SMTT(30)
  <2>2. b * c \in Nat
    BY SMTT(30)
  <2> QED
    BY <1>1, <2>1, <2>2, SMTT(30)
<1> QED
  BY <1>1, <1>2

LEMMA ModSmall ==
  ASSUME NEW b \in Nat \ {0}, NEW a \in 0 .. b - 1
  PROVE  a % b = a /\ a \div b = 0
  BY SMTT(30)

LEMMA MulMonotone ==
  ASSUME NEW a \in Nat, NEW b \in Nat, NEW c \in Nat, b <= c
  PROVE  a * b <= a * c /\ a * b \in Nat
  BY SMTT(30)

(* The powers of b, as a recursive definition has them.                     *)
PowersUpTo(b, m, W) ==
  W = CHOOSE f : f = [ i \in 0 .. m |-> IF i = 0 THEN 1 ELSE b * f[i - 1] ]

LEMMA Powers ==
  ASSUME NEW b \in Nat, NEW m \in Nat, NEW W, PowersUpTo(b, m, W)
  PROVE  /\ W \in [0 .. m -> Nat]
         /\ W[0] = 1
         /\ \A i \in 1 .. m : W[i] = b * W[i - 1]
<1> DEFINE step == [ i \in 1 .. m |-> [ x \in Nat |-> b * x ] ]
<1>0. \A x \in Nat : b * x \in Nat
  BY SMTT(30)
<1>1. step \in [1 .. m -> [Nat -> Nat]]
  BY <1>0
<1>2. 1 \in Nat /\ m \in Nat
  OBVIOUS
<1>3. PICK f : f \in [0 .. m -> Nat] /\ Recursive(m, 1, step, f)
  <2> HIDE DEF step
  <2> QED
    BY <1>1, <1>2, Recursion
<1>4. ASSUME NEW i \in 0 .. m, i # 0
      PROVE  step[i][f[i - 1]] = b * f[i - 1]
  <2>1. i \in 1 .. m /\ i - 1 \in 0 .. m
    BY <1>4
  <2>2. f[i - 1] \in Nat
    BY <1>3, <2>1
  <2> QED
    BY <2>1, <2>2
<1> HIDE DEF step
<1>5. f = [ i \in 0 .. m |-> IF i = 0 THEN 1 ELSE b * f[i - 1] ]
  <2>1. [ i \in 0 .. m |-> IF i = 0 THEN 1 ELSE step[i][f[i - 1]] ]
          = [ i \in 0 .. m |-> IF i = 0 THEN 1 ELSE b * f[i - 1] ]
    BY <1>4, Zenon
  <2> QED
    BY <1>3, <2>1, Zenon DEF Recursive
<1>6. W = [ i \in 0 .. m |-> IF i = 0 THEN 1 ELSE b * W[i - 1] ]
  BY <1>5, Zenon DEF PowersUpTo
<1> DEFINE Good(g) == /\ g \in [0 .. m -> Nat]
                      /\ g[0] = 1
                      /\ \A i \in 1 .. m : g[i] = b * g[i - 1]
<1>7. ASSUME NEW g,
             g = [ i \in 0 .. m |-> IF i = 0 THEN 1 ELSE b * g[i - 1] ]
      PROVE  Good(g)
  <2>1. \A i \in 0 .. m : g[i] = IF i = 0 THEN 1 ELSE b * g[i - 1]
    BY <1>7, Zenon
  <2>2. /\ \A i \in 1 .. m : i \in 0 .. m /\ i # 0
        /\ 0 \in 0 .. m
    BY <1>2
  <2>3. g[0] = 1 /\ \A i \in 1 .. m : g[i] = b * g[i - 1]
    BY <2>1, <2>2, Zenon
  <2>4. \A i \in 1 .. m : g[i - 1] \in Nat => g[i] \in Nat
    BY <1>0, <2>3, Zenon
  <2>5. g = [ i \in 0 .. m |-> g[i] ]
    BY <1>7, Zenon
  <2>6. g \in [0 .. m -> Nat]
    BY <1>2, <2>3, <2>4, <2>5, StaysIn, Zenon
  <2> QED
    BY <2>3, <2>6
<1> HIDE DEF Good
<1>8. Good(W)
  BY <1>6, <1>7, ZenonT(60)
<1> QED
  BY <1>8 DEF Good

-----------------------------------------------------------------------------
(* Appending a word.                                                        *)
LEMMA AppendFacts ==
  ASSUME NEW S, NEW s \in Seq(S), NEW x \in S
  PROVE  /\ Append(s, x) \in Seq(S)
         /\ Len(Append(s, x)) = Len(s) + 1
         /\ Append(s, x)[Len(s) + 1] = x
         /\ \A i \in 1 .. Len(s) : Append(s, x)[i] = s[i]
  OBVIOUS

LEMMA ElementFacts ==
  ASSUME NEW S, NEW s \in Seq(S), NEW i \in 1 .. Len(s)
  PROVE  s[i] \in S
  OBVIOUS

(* A buffer rebuilt word by word has the old length.                        *)
LEMMA RebuiltWords ==
  ASSUME NEW S, NEW s \in Seq(S), NEW f,
         f = [ i \in 1 .. Len(s) |-> f[i] ], \A i \in 1 .. Len(s) : f[i] \in S
  PROVE  f \in Seq(S) /\ Len(f) = Len(s)
<1>1. Len(s) \in Nat
  OBVIOUS
<1> QED
  BY <1>1

-----------------------------------------------------------------------------
Base(base) == base \in Nat /\ TOTAL <= base /\ 2 <= base

(* The interval h reached from g by coding one symbol.                      *)
PartWidth(g) == g.width \div TOTAL
NewVal(cum, g, sym) == g.val + PartWidth(g) * cum[sym]
NewWidth(cum, g, sym) == PartWidth(g) * Freq(cum, sym)

Narrowed(base, cum, g, sym, h) ==
  IF NewWidth(cum, g, sym) < base
    THEN /\ h.val = NewVal(cum, g, sym) * base
         /\ h.width = NewWidth(cum, g, sym) * base
         /\ h.words = g.words + 1
    ELSE /\ h.val = NewVal(cum, g, sym)
         /\ h.width = NewWidth(cum, g, sym)
         /\ h.words = g.words

Intervals(base) == [val : Nat, width : base .. base * base - 1, words : Nat]

(* H is the history of coding data with the table cum.                      *)
History(base, cum, data, H) ==
  /\ H \in [0 .. Len(data) -> Intervals(base)]
  /\ H[0].val = 0 /\ H[0].width = base * base - 1 /\ H[0].words = 0
  /\ \A i \in 1 .. Len(data) : Narrowed(base, cum, H[i - 1], data[i], H[i])

(* P holds the numbers the prefixes of words spell.                         *)
Prefixes(base, words, P) ==
  /\ P \in [0 .. Len(words) -> Nat]
  /\ P[0] = 0
  /\ \A j \in 1 .. Len(words) : P[j] = P[j - 1] * base + words[j]

(* The prefixes of words with one more word.                                *)
WithWord(base, words, word, P) ==
  [ j \in 0 .. Len(words) + 1 |->
      IF j = Len(words) + 1 THEN P[Len(words)] * base + word ELSE P[j] ]

(* An encoder with this buffer, low and range has coded data.               *)
Encodes(base, cum, data, out, low, range) ==
  \E H, P :
    /\ History(base, cum, data, H)
    /\ Prefixes(base, out, P)
    /\ H[Len(data)].val = P[Len(out)] * (base * base) + low
    /\ H[Len(data)].width = range
    /\ H[Len(data)].words = Len(out)

(* Adding sum to the number in the buffer out leaves digits in the buffer   *)
(* and bottom in the two words of low: the carry loses nothing.             *)
Spells(base, out, sum, digits, bottom) ==
  \A P : Prefixes(base, out, P) =>
    \E Q : /\ Prefixes(base, digits, Q)
           /\ Q[Len(out)] * (base * base) + bottom
                = P[Len(out)] * (base * base) + sum

(* digits is out after a carry that the word at stop absorbs.               *)
Rippled(base, out, stop, digits) ==
  /\ stop \in 1 .. Len(out)
  /\ \A j \in stop + 1 .. Len(out) : out[j] = base - 1
  /\ Len(digits) = Len(out)
  /\ \A i \in 1 .. Len(out) :
       digits[i] = IF i < stop THEN out[i]
                   ELSE IF i = stop THEN out[i] + 1 ELSE 0

(* The renormalisation that ends an encoder step.                           *)
Renormed(base, digits, bottom, width, out2, low2, range2) ==
  IF width < base
    THEN /\ out2 = Append(digits, bottom \div base)
         /\ low2 = (bottom % base) * base
         /\ range2 = width * base
    ELSE /\ out2 = digits
         /\ low2 = bottom
         /\ range2 = width

(* The file with these words holds data: what remains of Encodes when the   *)
(* two words of low have been written.                                      *)
Holds(base, data, file, H, P) ==
  /\ Prefixes(base, file, P)
  /\ H[Len(data)].val = P[Len(file)]
  /\ H[Len(data)].words + 2 = Len(file)

(* The number the file spells, cut to the precision of interval h, lies in  *)
(* h.                                                                       *)
Inside(file, P, h) ==
  /\ h.words + 2 <= Len(file)
  /\ h.val <= P[h.words + 2]
  /\ P[h.words + 2] < h.val + h.width

-----------------------------------------------------------------------------
(* The table entries around a symbol that occurs.                           *)
LEMMA TableFacts ==
  ASSUME NEW cum \in Tables, NEW sym \in Occurring(cum)
  PROVE  /\ sym \in Symbols /\ sym \in 0 .. ALPHABET /\ sym + 1 \in 0 .. ALPHABET
         /\ cum[sym] \in Nat /\ cum[sym + 1] \in Nat /\ cum[sym + 1] <= TOTAL
         /\ Freq(cum, sym) = cum[sym + 1] - cum[sym]
         /\ Freq(cum, sym) \in Nat /\ Freq(cum, sym) >= 1
<1>1. /\ sym \in 0 .. ALPHABET - 1 /\ sym + 1 \in 0 .. ALPHABET
      /\ sym \in 0 .. ALPHABET
      /\ cum \in [0 .. ALPHABET -> 0 .. TOTAL]
      /\ Freq(cum, sym) >= 1
  BY AlphabetAssumption, TotalAssumption, SMTT(30)
     DEF Occurring, Symbols, Tables, Freq
<1> QED
  BY <1>1, TotalAssumption DEF Freq, Symbols

(* The lookup finds the one symbol whose interval holds the value.          *)
LEMMA FindSymbol ==
  ASSUME NEW cum \in Tables, NEW sym \in Occurring(cum), NEW v \in Nat,
         cum[sym] <= v, v < cum[sym + 1]
  PROVE  Find(cum, v) = sym
<1> DEFINE Hit(s) == cum[s] <= v /\ (v < cum[s + 1] \/ s = ALPHABET - 1)
<1>1. sym \in Symbols /\ Hit(sym)
  BY TableFacts
<1>2. ASSUME NEW s \in Symbols, Hit(s) PROVE s = sym
  <2>1. /\ s \in 0 .. ALPHABET /\ s + 1 \in 0 .. ALPHABET
        /\ sym \in 0 .. ALPHABET /\ sym + 1 \in 0 .. ALPHABET
        /\ s \in Int /\ sym \in Int /\ sym <= ALPHABET - 1
    BY AlphabetAssumption, TableFacts DEF Symbols
  <2>2. /\ \A x \in 0 .. ALPHABET : cum[x] \in Nat
        /\ \A x, y \in 0 .. ALPHABET : x <= y => cum[x] <= cum[y]
    BY TotalAssumption DEF Tables
  <2>3. ASSUME s < sym PROVE FALSE
    <3>1. cum[s + 1] <= cum[sym] /\ cum[s + 1] \in Nat /\ cum[sym] \in Nat
      BY <2>1, <2>2, <2>3
    <3>2. s # ALPHABET - 1
      BY <2>1, <2>3, AlphabetAssumption
    <3> QED
      BY <1>2, <3>1, <3>2
  <2>4. ASSUME sym < s PROVE FALSE
    <3>1. cum[sym + 1] <= cum[s] /\ cum[sym + 1] \in Nat /\ cum[s] \in Nat
      BY <2>1, <2>2, <2>4
    <3> QED
      BY <1>2, <3>1
  <2> QED
    BY <2>1, <2>3, <2>4
<1> HIDE DEF Hit
<1>3. Find(cum, v) = CHOOSE s \in Symbols : Hit(s)
  BY DEF Find, Hit
<1> QED
  BY <1>1, <1>2, <1>3

(* A range of at least TOTAL is divided among the symbols: each has a part  *)
(* of its own that is not empty.                                            *)
LEMMA Subdivision ==
  ASSUME NEW cum \in Tables, NEW sym \in Occurring(cum),
         NEW width \in Nat, TOTAL <= width
  PROVE  LET t == width \div TOTAL
         IN  /\ t \in Nat /\ t >= 1
             /\ t * cum[sym] \in Nat
             /\ t * Freq(cum, sym) \in Nat /\ t * Freq(cum, sym) >= 1
             /\ t * cum[sym] + t * Freq(cum, sym) = t * cum[sym + 1]
             /\ t * cum[sym] + t * Freq(cum, sym) <= width
<1> DEFINE t == width \div TOTAL
           c == cum[sym]
           d == cum[sym + 1]
           f == Freq(cum, sym)
<1>1. width \in Nat /\ TOTAL <= width /\ TOTAL \in Nat \ {0}
  BY TotalAssumption
<1>2. t \in Nat /\ t >= 1 /\ TOTAL * t <= width
  <2>1. /\ t \in Nat
        /\ width % TOTAL \in 0 .. TOTAL - 1
        /\ width = TOTAL * t + (width % TOTAL)
    BY <1>1, EuclideanDivision
  <2>2. t >= 1
    BY <1>1, DivPositive
  <2> HIDE DEF t
  <2> QED
    BY <1>1, <2>1, <2>2, SMTT(30)
<1>3. c \in Nat /\ d \in Nat /\ d <= TOTAL /\ f = d - c /\ f \in Nat /\ f >= 1
  BY TableFacts
<1> HIDE DEF t, c, d, f
<1>4. t * d <= t * TOTAL /\ t * d \in Nat /\ t * TOTAL = TOTAL * t
  BY <1>1, <1>2, <1>3, SMTT(30)
<1>5. t * f = t * d - t * c /\ t * c \in Nat
  BY <1>2, <1>3, SMTT(30)
<1>6. t * f \in Nat /\ t * f >= 1
  BY <1>2, <1>3, SMTT(30)
<1>7. t * c + t * f = t * d /\ t * c + t * f <= width
  BY <1>1, <1>2, <1>4, <1>5, <1>6
<1> QED
  BY <1>2, <1>5, <1>6, <1>7 DEF t, c, d, f

(* Coding a symbol leaves an interval that is not empty and lies in the old *)
(* one.                                                                     *)
LEMMA Subinterval ==
  ASSUME NEW base, Base(base), NEW cum \in Tables, NEW sym \in Occurring(cum),
         NEW width \in base .. base * base - 1
  PROVE  LET t == width \div TOTAL
         IN  /\ t \in Nat /\ t >= 1
             /\ t * cum[sym] \in Nat
             /\ t * Freq(cum, sym) \in Nat /\ t * Freq(cum, sym) >= 1
             /\ t * cum[sym] + t * Freq(cum, sym) = t * cum[sym + 1]
             /\ t * cum[sym] + t * Freq(cum, sym) <= width
<1>1. base \in Nat /\ TOTAL <= base /\ base * base \in Nat
  BY SMTT(30) DEF Base
<1>2. width \in Nat /\ TOTAL <= width
  BY <1>1, TotalAssumption
<1> QED
  BY <1>2, Subdivision

(* An offset in the part of a symbol is looked up as that symbol, with a    *)
(* value inside the table.                                                  *)
LEMMA LookupFinds ==
  ASSUME NEW cum \in Tables, NEW sym \in Occurring(cum),
         NEW t \in Nat \ {0}, NEW code \in Nat,
         t * cum[sym] <= code, code < t * cum[sym] + t * Freq(cum, sym)
  PROVE  /\ code \div t \in 0 .. TOTAL - 1
         /\ Find(cum, code \div t) = sym
<1> DEFINE c == cum[sym]
           d == cum[sym + 1]
           f == Freq(cum, sym)
           x == code \div t
<1>1. c \in Nat /\ d \in Nat /\ d <= TOTAL /\ f = d - c /\ f \in Nat
  BY TableFacts
<1>2. t \in Nat \ {0} /\ t * c \in Nat
  BY <1>1, MulMonotone
<1>3. code \in Nat
  OBVIOUS
<1>4. t * c <= code /\ code < t * d
  <2>1. t * c <= code /\ code < t * c + t * f
    OBVIOUS
  <2> HIDE DEF c, d, f
  <2>2. t * c + t * f = t * d
    BY <1>1, SMTT(30)
  <2> QED
    BY <2>1, <2>2
<1> HIDE DEF c, d, f
<1>5. x \in Nat /\ code % t \in 0 .. t - 1 /\ code = t * x + (code % t)
  BY <1>2, <1>3, EuclideanDivision
<1> DEFINE m == code % t
<1> HIDE DEF x, m
<1>6. ASSUME x < c PROVE FALSE
  <2>1. t * (x + 1) <= t * c /\ t * (x + 1) = t * x + t /\ t * x \in Nat
    BY <1>1, <1>2, <1>5, <1>6, SMTT(30)
  <2>2. m \in 0 .. t - 1 /\ code = t * x + m
    BY <1>5 DEF m
  <2> QED
    BY <1>2, <1>3, <1>4, <2>1, <2>2
<1>7. x < d
  <2>1. t * d \in Nat
    BY <1>1, <1>2, MulMonotone
  <2>2. d # 0
    <3>1. t * 0 = 0
      BY <1>2
    <3> QED
      BY <1>3, <1>4, <3>1
  <2> QED
    BY <1>1, <1>2, <1>3, <1>4, <2>2, DivSmall DEF x
<1>8. x \in 0 .. TOTAL - 1 /\ c <= x /\ x < d
  BY <1>1, <1>5, <1>6, <1>7, TotalAssumption
<1>9. Find(cum, x) = sym
  BY <1>5, <1>8, FindSymbol DEF c, d
<1> QED
  BY <1>8, <1>9 DEF x
-----------------------------------------------------------------------------
(* Before the first symbol.                                                 *)
LEMMA StartEncodes ==
  ASSUME NEW base, Base(base), NEW cum
  PROVE  Encodes(base, cum, << >>, << >>, 0, base * base - 1)
<1> DEFINE H == [ i \in 0 .. 0 |-> [val   |-> 0,
                                    width |-> base * base - 1,
                                    words |-> 0] ]
           P == [ j \in 0 .. 0 |-> 0 ]
<1>1. /\ base \in Nat /\ base * base \in Nat /\ base <= base * base - 1
      /\ 0 * (base * base) = 0
  <2>1. base \in Nat /\ 2 <= base
    BY DEF Base
  <2>2. base * base >= 2 * base /\ base * base \in Nat
    BY <2>1, MulMonotone, SMTT(30)
  <2> QED
    BY <2>1, <2>2
<1>2. Len(<< >>) = 0 /\ 1 .. 0 = {}
  OBVIOUS
<1>3. H[0] \in Intervals(base)
  BY <1>1 DEF Intervals
<1>4. History(base, cum, << >>, H)
  BY <1>2, <1>3 DEF History
<1>5. Prefixes(base, << >>, P)
  BY <1>2 DEF Prefixes
<1>6. /\ H[0].val = P[0] * (base * base) + 0
      /\ H[0].width = base * base - 1 /\ H[0].words = 0
  BY <1>1
<1> HIDE DEF H, P
<1> QED
  BY <1>2, <1>4, <1>5, <1>6 DEF Encodes

(* One more interval in the history.                                        *)
LEMMA ExtendHistory ==
  ASSUME NEW base, NEW cum, NEW data \in Seq(Symbols), NEW sym \in Symbols,
         NEW H, History(base, cum, data, H), NEW h \in Intervals(base),
         Narrowed(base, cum, H[Len(data)], sym, h)
  PROVE  History(base, cum, Append(data, sym),
                 [ i \in 0 .. Len(data) + 1 |->
                     IF i = Len(data) + 1 THEN h ELSE H[i] ])
<1> DEFINE n == Len(data)
           H2 == [ i \in 0 .. n + 1 |-> IF i = n + 1 THEN h ELSE H[i] ]
<1>1. /\ n \in Nat /\ Len(Append(data, sym)) = n + 1
      /\ Append(data, sym)[n + 1] = sym
      /\ \A i \in 1 .. n : Append(data, sym)[i] = data[i]
  BY AppendFacts
<1>2. /\ H \in [0 .. n -> Intervals(base)]
      /\ H[0].val = 0 /\ H[0].width = base * base - 1 /\ H[0].words = 0
      /\ \A i \in 1 .. n : Narrowed(base, cum, H[i - 1], data[i], H[i])
  BY DEF History
<1> HIDE DEF n
<1>3. H2 \in [0 .. n + 1 -> Intervals(base)] /\ H2[0] = H[0]
  BY <1>1, <1>2
<1>4. ASSUME NEW i \in 1 .. n + 1
      PROVE  Narrowed(base, cum, H2[i - 1], Append(data, sym)[i], H2[i])
  <2>1. CASE i = n + 1
    <3>1. H2[i - 1] = H[n] /\ H2[i] = h /\ Append(data, sym)[i] = sym
      BY <1>1, <2>1
    <3> QED
      BY <3>1 DEF n
  <2>2. CASE i # n + 1
    <3>1. /\ i \in 1 .. n /\ H2[i - 1] = H[i - 1] /\ H2[i] = H[i]
          /\ Append(data, sym)[i] = data[i]
      BY <1>1, <2>2
    <3> QED
      BY <1>2, <3>1
  <2> QED
    BY <2>1, <2>2
<1> HIDE DEF H2
<1>5. History(base, cum, Append(data, sym), H2)
  BY <1>1, <1>2, <1>3, <1>4 DEF History
<1> QED
  BY <1>5 DEF H2, n

(* One more word in the buffer.                                             *)
LEMMA ExtendPrefixes ==
  ASSUME NEW base \in Nat, NEW words \in Seq(0 .. base - 1),
         NEW word \in 0 .. base - 1, NEW P, Prefixes(base, words, P)
  PROVE  LET Q == WithWord(base, words, word, P)
         IN  /\ Prefixes(base, Append(words, word), Q)
             /\ Q[Len(words) + 1] = P[Len(words)] * base + word
<1> DEFINE n == Len(words)
           last == P[n] * base + word
           Q == WithWord(base, words, word, P)
<1>0. Q = [ j \in 0 .. n + 1 |-> IF j = n + 1 THEN last ELSE P[j] ]
  BY DEF WithWord
<1>1. /\ n \in Nat /\ Len(Append(words, word)) = n + 1
      /\ Append(words, word)[n + 1] = word
      /\ \A i \in 1 .. n : Append(words, word)[i] = words[i]
  BY AppendFacts
<1>2. /\ P \in [0 .. n -> Nat] /\ P[0] = 0
      /\ \A j \in 1 .. n : P[j] = P[j - 1] * base + words[j]
  BY DEF Prefixes
<1>3. last \in Nat
  <2>1. P[n] \in Nat /\ word \in Nat /\ base \in Nat
    BY <1>1, <1>2 DEF Base
  <2>2. P[n] * base \in Nat
    <3> DEFINE p == P[n]
    <3>1. p \in Nat
      BY <2>1
    <3> HIDE DEF p
    <3>2. p * base \in Nat
      BY <2>1, <3>1, MulMonotone
    <3> QED
      BY <3>2 DEF p
  <2> QED
    BY <2>1, <2>2
<1> HIDE DEF n
<1>l. last = P[n] * base + word
  OBVIOUS
<1> HIDE DEF last, Q
<1>4. Q \in [0 .. n + 1 -> Nat] /\ Q[0] = 0 /\ Q[n + 1] = last
      /\ \A j \in 0 .. n : Q[j] = P[j]
  BY <1>0, <1>1, <1>2, <1>3
<1>5. ASSUME NEW j \in 1 .. n + 1
      PROVE  Q[j] = Q[j - 1] * base + Append(words, word)[j]
  <2>1. CASE j = n + 1
    <3>1. Q[j] = last /\ j - 1 = n /\ n \in 0 .. n
      BY <1>1, <1>4, <2>1
    <3>2. Q[j - 1] = P[n] /\ Append(words, word)[j] = word
      BY <1>1, <1>4, <2>1, <3>1
    <3> QED
      BY <1>l, <3>1, <3>2
  <2>2. CASE j # n + 1
    <3>1. j \in 1 .. n /\ j \in 0 .. n /\ j - 1 \in 0 .. n
      BY <1>1, <2>2
    <3>2. Q[j] = P[j] /\ Q[j - 1] = P[j - 1] /\ Append(words, word)[j] = words[j]
      BY <1>1, <1>4, <3>1
    <3> QED
      BY <1>2, <3>1, <3>2
  <2> QED
    BY <2>1, <2>2
<1>6. Prefixes(base, Append(words, word), Q)
  BY <1>1, <1>4, <1>5 DEF Prefixes
<1> QED
  BY <1>4, <1>6, <1>l DEF n, Q

(* The prefixes of all words can be spelled.                                *)
LEMMA PrefixesExist ==
  ASSUME NEW base \in Nat, NEW words \in Seq(0 .. base - 1)
  PROVE  \E V : Prefixes(base, words, V)
<1> DEFINE step == [ i \in 1 .. Len(words) |-> [ x \in Nat |-> x * base + words[i] ] ]
<1>1. step \in [1 .. Len(words) -> [Nat -> Nat]]
  <2>1. ASSUME NEW i \in 1 .. Len(words), NEW x \in Nat
        PROVE  x * base + words[i] \in Nat
    <3>1. x * base \in Nat
      BY SMTT(60)
    <3>2. words[i] \in 0 .. base - 1
      BY ElementFacts
    <3> DEFINE y == x * base
    <3>3. y \in Nat /\ words[i] \in Nat
      BY <3>1, <3>2
    <3> HIDE DEF y
    <3>4. y + words[i] \in Nat
      BY <3>3
    <3> QED
      BY <3>4 DEF y
  <2> QED
    BY <2>1, Zenon
<1>2. 0 \in Nat /\ Len(words) \in Nat
  OBVIOUS
<1>3. PICK V : V \in [0 .. Len(words) -> Nat]
               /\ Recursive(Len(words), 0, step, V)
  <2> HIDE DEF step
  <2> QED
    BY <1>1, <1>2, Recursion
<1>4. V[0] = 0 /\ \A j \in 1 .. Len(words) : V[j] = V[j - 1] * base + words[j]
  <2>1. \A j \in 0 .. Len(words) :
          V[j] = IF j = 0 THEN 0 ELSE step[j][V[j - 1]]
    <3> HIDE DEF step
    <3> QED
      BY <1>3, Zenon DEF Recursive
  <2>2. ASSUME NEW j \in 1 .. Len(words)
        PROVE  V[j] = V[j - 1] * base + words[j]
    <3>1. j \in 0 .. Len(words) /\ j # 0 /\ j - 1 \in 0 .. Len(words)
      BY <1>2
    <3>2. V[j] = step[j][V[j - 1]] /\ V[j - 1] \in Nat
      BY <1>3, <2>1, <3>1
    <3> QED
      BY <3>2
  <2>3. 0 \in 0 .. Len(words)
    BY <1>2
  <2> QED
    BY <2>1, <2>2, <2>3
<1> QED
  BY <1>3, <1>4 DEF Prefixes

(* Two ways to spell the same words agree.                                  *)
LEMMA PrefixesAgree ==
  ASSUME NEW base, NEW words, Len(words) \in Nat,
         NEW P, Prefixes(base, words, P), NEW Q, Prefixes(base, words, Q)
  PROVE  P[Len(words)] = Q[Len(words)]
<1> DEFINE n == Len(words)
           Bad == { j \in 0 .. n : P[j] # Q[j] }
<1>1. n \in Nat /\ n \in 0 .. n
  OBVIOUS
<1>2. /\ P[0] = 0 /\ Q[0] = 0
      /\ \A j \in 1 .. n : P[j] = P[j - 1] * base + words[j]
      /\ \A j \in 1 .. n : Q[j] = Q[j - 1] * base + words[j]
  BY DEF Prefixes
<1> HIDE DEF n
<1>3. ASSUME Bad # {} PROVE FALSE
  <2>1. Bad \in SUBSET Nat
    BY <1>1
  <2>2. PICK m \in Bad : \A j \in Bad : m <= j
    <3> HIDE DEF Bad
    <3> QED
      BY <1>3, <2>1, LeastElement
  <2>3. m \in 0 .. n /\ P[m] # Q[m]
    BY <2>2
  <2>4. m # 0
    BY <1>2, <2>3
  <2>5. m \in 1 .. n /\ m - 1 \in 0 .. n /\ ~ (m <= m - 1)
    BY <1>1, <2>3, <2>4
  <2>6. P[m - 1] = Q[m - 1]
    BY <2>2, <2>5
  <2> QED
    BY <1>2, <2>3, <2>5, <2>6, Zenon
<1> QED
  BY <1>1, <1>3 DEF n

(* The two words of low: the top one leaves the interval, the other moves   *)
(* up.                                                                      *)
LEMMA TopWord ==
  ASSUME NEW base, Base(base), NEW bottom \in 0 .. base * base - 1
  PROVE  /\ bottom \div base \in 0 .. base - 1
         /\ bottom % base \in 0 .. base - 1
         /\ bottom = (bottom \div base) * base + (bottom % base)
         /\ (bottom % base) * base \in 0 .. base * base - 1
<1>1. /\ base \in Nat \ {0} /\ base * base \in Nat /\ bottom \in Nat
      /\ bottom < base * base
  BY MulMonotone, SMTT(30) DEF Base
<1> DEFINE q == bottom \div base
           m == bottom % base
<1>2. q \in Nat /\ m \in 0 .. base - 1 /\ bottom = base * q + m
  BY <1>1, EuclideanDivision
<1>3. q < base
  BY <1>1, DivSmall
<1> HIDE DEF q, m
<1>4. base * q = q * base
  BY <1>1, <1>2, SMTT(30)
<1>5. m * base \in Nat /\ m * base <= (base - 1) * base
  BY <1>1, <1>2, SMTT(30)
<1>6. (base - 1) * base = base * base - base
  BY <1>1, SMTT(30)
<1>7. m * base <= base * base - 1 /\ q \in 0 .. base - 1 /\ bottom = q * base + m
  BY <1>1, <1>2, <1>3, <1>4, <1>5, <1>6
<1> QED
  BY <1>2, <1>5, <1>7, <1>1 DEF q, m

(* After the renormalisation the interval has its types again, and an       *)
(* interval that ended inside its two words still does, unless the word that *)
(* left is not full.                                                        *)
LEMMA RenormedTypes ==
  ASSUME NEW base, Base(base), NEW digits \in Seq(0 .. base - 1),
         NEW bottom \in 0 .. base * base - 1, NEW width \in 1 .. base * base - 1,
         NEW out2, NEW low2, NEW range2,
         Renormed(base, digits, bottom, width, out2, low2, range2)
  PROVE  /\ out2 \in Seq(0 .. base - 1)
         /\ Len(out2) = IF width < base THEN Len(digits) + 1 ELSE Len(digits)
         /\ \A i \in 1 .. Len(digits) : out2[i] = digits[i]
         /\ low2 \in 0 .. base * base - 1
         /\ range2 \in base .. base * base - 1
         /\ bottom + width <= base * base =>
              \/ low2 + range2 <= base * base
              \/ /\ Len(out2) = Len(digits) + 1
                 /\ out2[Len(digits) + 1] # base - 1
<1> DEFINE q == bottom \div base
           m == bottom % base
           BB == base * base
<1>1. /\ base \in Nat /\ 2 <= base /\ BB \in Nat /\ bottom \in 0 .. BB - 1
      /\ q \in 0 .. base - 1 /\ m \in 0 .. base - 1 /\ bottom = q * base + m
      /\ m * base \in 0 .. BB - 1
  <2>1. base \in Nat /\ 2 <= base /\ BB \in Nat
    BY MulMonotone DEF Base
  <2> QED
    BY <2>1, TopWord
<1>2. width \in 1 .. BB - 1
  OBVIOUS
<1>3. BB = base * base
  OBVIOUS
<1> HIDE DEF q, m, BB
<1>4. CASE width < base
  <2>1. out2 = Append(digits, q) /\ low2 = m * base /\ range2 = width * base
    BY <1>4 DEF Renormed, q, m
  <2>2. /\ out2 \in Seq(0 .. base - 1) /\ Len(out2) = Len(digits) + 1
        /\ out2[Len(digits) + 1] = q
        /\ \A i \in 1 .. Len(digits) : out2[i] = digits[i]
    BY <1>1, <2>1, AppendFacts
  <2>3. range2 \in base .. BB - 1
    <3>1. /\ width \in Nat /\ width * base \in Nat /\ base <= width * base
          /\ width * base <= (base - 1) * base /\ (base - 1) * base = BB - base
      BY <1>1, <1>2, <1>3, <1>4, SMTT(30)
    <3> DEFINE x == width * base
               y == (base - 1) * base
    <3>2. x \in Nat /\ base <= x /\ x <= y /\ y = BB - base /\ range2 = x
      BY <2>1, <3>1
    <3> HIDE DEF x, y
    <3> QED
      BY <1>1, <3>2
  <2>4. ASSUME q = base - 1, bottom + width <= BB
        PROVE  low2 + range2 <= BB
    <3>1. q * base = BB - base
      BY <1>1, <1>3, <2>4, SMTT(30)
    <3>2. m + width <= base /\ m \in Nat /\ width \in Nat
      BY <1>1, <1>2, <2>4, <3>1
    <3>3. (m + width) * base <= base * base
      BY <1>1, <3>2, SMTT(30)
    <3>4. (m + width) * base = m * base + width * base
      BY <1>1, <3>2, SMTT(30)
    <3> QED
      BY <1>3, <2>1, <3>3, <3>4
  <2> QED
    BY <1>1, <1>4, <2>1, <2>2, <2>3, <2>4 DEF BB
<1>5. CASE ~ (width < base)
  <2>1. out2 = digits /\ low2 = bottom /\ range2 = width
    BY <1>5 DEF Renormed
  <2>2. range2 \in base .. BB - 1
    BY <1>1, <1>2, <1>5, <2>1
  <2> QED
    BY <1>1, <1>5, <2>1, <2>2 DEF BB
<1> QED
  BY <1>4, <1>5

(* The number in the buffer and low grows by what the narrowing adds; a     *)
(* carry into the digits is part of the sum.                                *)
LEMMA ShiftOut ==
  ASSUME NEW base, Base(base), NEW bottom \in 0 .. base * base - 1,
         NEW p \in Nat
  PROVE  (p * (base * base) + bottom) * base
           = (p * base + bottom \div base) * (base * base) + (bottom % base) * base
<1> DEFINE q == bottom \div base
           m == bottom % base
<1>1. /\ base \in Nat /\ q \in Nat /\ m \in Nat /\ bottom = q * base + m
  <2>1. /\ q \in 0 .. base - 1 /\ m \in 0 .. base - 1 /\ bottom = q * base + m
    BY TopWord
  <2> QED
    BY <2>1 DEF Base
<1> HIDE DEF q, m
<1>2. (p * (base * base) + (q * base + m)) * base
        = (p * base + q) * (base * base) + m * base
  BY <1>1, SMTT(30)
<1> QED
  BY <1>1, <1>2 DEF q, m

(* One symbol.  digits is the buffer after the carry, bottom what is left   *)
(* in the two words of low; together they spell the sum.                    *)
LEMMA StepEncodes ==
  ASSUME NEW base, Base(base), NEW cum \in Tables,
         NEW data \in Seq(Symbols), NEW sym \in Occurring(cum),
         NEW out, NEW digits \in Seq(0 .. base - 1), Len(digits) = Len(out),
         NEW low \in Nat, NEW range \in base .. base * base - 1,
         NEW bottom \in 0 .. base * base - 1,
         Encodes(base, cum, data, out, low, range),
         Spells(base, out, low + (range \div TOTAL) * cum[sym], digits, bottom),
         NEW out2, NEW low2, NEW range2,
         Renormed(base, digits, bottom, (range \div TOTAL) * Freq(cum, sym),
                  out2, low2, range2)
  PROVE  Encodes(base, cum, Append(data, sym), out2, low2, range2)
<1> DEFINE n == Len(data)
           k == Len(out)
           t == range \div TOTAL
           width == t * Freq(cum, sym)
           BB == base * base
<1>0. /\ base \in Nat /\ 2 <= base /\ BB \in Nat /\ n \in Nat /\ k \in Nat
      /\ sym \in Symbols /\ Len(Append(data, sym)) = n + 1
  BY MulMonotone, AppendFacts, TableFacts DEF Base
<1>1. PICK H, P :
        /\ History(base, cum, data, H)
        /\ Prefixes(base, out, P)
        /\ H[n].val = P[k] * BB + low
        /\ H[n].width = range
        /\ H[n].words = k
  BY DEF Encodes
<1>2. PICK Q :
        /\ Prefixes(base, digits, Q)
        /\ Q[k] * BB + bottom = P[k] * BB + (low + t * cum[sym])
  BY <1>1 DEF Spells
<1>3. /\ t \in Nat /\ t >= 1 /\ t * cum[sym] \in Nat
      /\ width \in Nat /\ width >= 1 /\ t * cum[sym] + width <= range
      /\ width <= range /\ range <= BB - 1 /\ range \in Nat
  <2>1. /\ t \in Nat /\ t >= 1 /\ t * cum[sym] \in Nat
        /\ width \in Nat /\ width >= 1 /\ t * cum[sym] + width <= range
    BY Subinterval
  <2>2. range \in base .. BB - 1
    OBVIOUS
  <2> DEFINE add == t * cum[sym]
  <2>3. add \in Nat /\ add + width <= range
    BY <2>1
  <2> HIDE DEF t, width, BB, add
  <2>4. width <= range /\ range <= BB - 1 /\ range \in Nat
    BY <1>0, <2>1, <2>2, <2>3
  <2> QED
    BY <2>1, <2>4
<1>i. IF width < base
        THEN /\ out2 = Append(digits, bottom \div base)
             /\ low2 = (bottom % base) * base
             /\ range2 = width * base
        ELSE /\ out2 = digits /\ low2 = bottom /\ range2 = width
  BY DEF Renormed
<1>4. H[n] \in Intervals(base) /\ P[k] \in Nat /\ Q[k] \in Nat
  <2>1. H \in [0 .. n -> Intervals(base)]
    BY <1>1 DEF History
  <2>2. P \in [0 .. k -> Nat] /\ Q \in [0 .. k -> Nat]
    BY <1>1, <1>2 DEF Prefixes
  <2> HIDE DEF n, k
  <2> QED
    BY <1>0, <2>1, <2>2
<1> DEFINE sum == Q[k] * BB + bottom
<1>5. /\ NewVal(cum, H[n], sym) = sum
      /\ NewWidth(cum, H[n], sym) = width
      /\ sum \in Nat
  <2>1. P[k] * BB \in Nat /\ Q[k] * BB \in Nat /\ bottom \in Nat
    <3>1. bottom \in 0 .. BB - 1
      OBVIOUS
    <3> DEFINE p == P[k]
               q == Q[k]
    <3>2. p \in Nat /\ q \in Nat
      BY <1>4
    <3> HIDE DEF BB, p, q
    <3>3. p * BB \in Nat /\ q * BB \in Nat
      BY <1>0, <3>2, MulMonotone
    <3> QED
      BY <1>0, <3>1, <3>3 DEF p, q
  <2>2. NewVal(cum, H[n], sym) = (P[k] * BB + low) + t * cum[sym]
    BY <1>1 DEF NewVal, PartWidth
  <2>3. NewWidth(cum, H[n], sym) = width
    BY <1>1 DEF NewWidth, PartWidth
  <2> DEFINE pb == P[k] * BB
             qb == Q[k] * BB
             add == t * cum[sym]
  <2>4. /\ pb \in Nat /\ qb \in Nat /\ add \in Nat /\ low \in Nat
        /\ NewVal(cum, H[n], sym) = (pb + low) + add
        /\ qb + bottom = pb + (low + add) /\ sum = qb + bottom
    BY <1>2, <1>3, <2>1, <2>2
  <2> HIDE DEF pb, qb, add, sum
  <2> QED
    BY <2>1, <2>3, <2>4
<1>6. sum = Q[k] * BB + bottom
  OBVIOUS
<1> HIDE DEF t, width, sum, BB
<1>7. CASE width < base
  <2> DEFINE h == [ val   |-> sum * base,
                    width |-> width * base,
                    words |-> k + 1 ]
             H2 == [ i \in 0 .. n + 1 |-> IF i = n + 1 THEN h ELSE H[i] ]
  <2>1. sum * base \in Nat /\ width * base \in base .. BB - 1
    <3>1. sum * base \in Nat
      BY <1>0, <1>5, MulMonotone
    <3>2. /\ width * base >= base /\ width * base <= (base - 1) * base
          /\ width * base \in Nat
      BY <1>0, <1>3, <1>7, SMTT(30)
    <3>3. (base - 1) * base = BB - base
      BY <1>0, SMTT(30) DEF BB
    <3> QED
      BY <1>0, <3>1, <3>2, <3>3
  <2>2. h \in Intervals(base)
    BY <1>0, <2>1 DEF Intervals, BB
  <2>3. Narrowed(base, cum, H[n], sym, h)
    BY <1>1, <1>5, <1>7 DEF Narrowed
  <2>5. bottom \div base \in 0 .. base - 1
    BY TopWord
  <2> DEFINE word == bottom \div base
             R == WithWord(base, digits, word, Q)
  <2>6. /\ Prefixes(base, Append(digits, word), R)
        /\ R[k + 1] = Q[k] * base + word
    <3>1. base \in Nat /\ word \in 0 .. base - 1 /\ Prefixes(base, digits, Q)
      BY <1>0, <1>2, <2>5
    <3> HIDE DEF word
    <3>2. /\ Prefixes(base, Append(digits, word), R)
          /\ R[Len(digits) + 1] = Q[Len(digits)] * base + word
      BY <3>1, ExtendPrefixes
    <3> QED
      BY <3>2
  <2> HIDE DEF R
  <2>8. sum * base = R[k + 1] * BB + (bottom % base) * base
    BY <1>4, <1>6, <2>6, ShiftOut DEF BB
  <2>9. /\ out2 = Append(digits, bottom \div base) /\ low2 = (bottom % base) * base
        /\ range2 = width * base /\ Len(out2) = k + 1
    BY <1>0, <1>7, <1>i, <2>5, AppendFacts, SMTT(60)
  <2>a. h.val = R[Len(out2)] * BB + low2 /\ h.width = range2 /\ h.words = Len(out2)
    BY <2>8, <2>9
  <2> HIDE DEF h
  <2>4. History(base, cum, Append(data, sym), H2)
    BY <1>0, <1>1, <2>2, <2>3, ExtendHistory
  <2>7. H2[n + 1] = h
    BY <1>0
  <2> HIDE DEF H2
  <2> QED
    BY <1>0, <2>4, <2>6, <2>7, <2>9, <2>a DEF Encodes, BB
<1>8. CASE ~ (width < base)
  <2> DEFINE h == [ val |-> sum, width |-> width, words |-> k ]
             H2 == [ i \in 0 .. n + 1 |-> IF i = n + 1 THEN h ELSE H[i] ]
  <2>2. h \in Intervals(base)
    BY <1>0, <1>3, <1>5, <1>8 DEF Intervals, BB
  <2>3. Narrowed(base, cum, H[n], sym, h)
    BY <1>1, <1>5, <1>8 DEF Narrowed
  <2>9. /\ out2 = digits /\ low2 = bottom /\ range2 = width /\ Len(out2) = k
    BY <1>8, <1>i
  <2>a. h.val = Q[Len(out2)] * BB + low2 /\ h.width = range2 /\ h.words = Len(out2)
    BY <1>6, <2>9
  <2> HIDE DEF h
  <2>4. History(base, cum, Append(data, sym), H2)
    BY <1>0, <1>1, <2>2, <2>3, ExtendHistory
  <2>7. H2[n + 1] = h
    BY <1>0
  <2> HIDE DEF H2
  <2> QED
    BY <1>0, <1>2, <2>4, <2>7, <2>9, <2>a DEF Encodes, BB
<1> QED
  BY <1>7, <1>8

(* Without a carry the buffer stays as it is.                               *)
LEMMA PlainSpells ==
  ASSUME NEW base, NEW out, NEW sum
  PROVE  Spells(base, out, sum, out, sum)
  BY DEF Spells

(* A carry out of the two words of low adds one to the number in the buffer: *)
(* the last word that is not full takes it, the full words after it clear.  *)
LEMMA CarrySpells ==
  ASSUME NEW base, Base(base), NEW out \in Seq(0 .. base - 1),
         NEW stop, NEW digits \in Seq(0 .. base - 1),
         Rippled(base, out, stop, digits), NEW sum \in Nat
  PROVE  Spells(base, out, sum, digits, sum - base * base)
<1> SUFFICES ASSUME NEW P, Prefixes(base, out, P)
             PROVE  \E Q : /\ Prefixes(base, digits, Q)
                           /\ Q[Len(out)] * (base * base) + (sum - base * base)
                                = P[Len(out)] * (base * base) + sum
  BY DEF Spells
<1> DEFINE n == Len(out)
           BB == base * base
           Q == [ j \in 0 .. n |-> IF j < stop THEN P[j] ELSE P[j] + 1 ]
<1>1. n \in Nat /\ stop \in 1 .. n /\ base \in Nat /\ BB \in Nat
  BY MulMonotone DEF Base, Rippled
<1>r. /\ \A j \in stop + 1 .. n : out[j] = base - 1
      /\ \A i \in 1 .. n : digits[i] = IF i < stop THEN out[i]
                                       ELSE IF i = stop THEN out[i] + 1 ELSE 0
      /\ Len(digits) = n
  BY DEF Rippled
<1>2. /\ P \in [0 .. n -> Nat] /\ P[0] = 0
      /\ \A j \in 1 .. n : P[j] = P[j - 1] * base + out[j]
  BY DEF Prefixes
<1>w. \A j \in 1 .. n : out[j] \in 0 .. base - 1
  BY ElementFacts
<1> HIDE DEF n, BB
<1>3. Q \in [0 .. n -> Nat] /\ Q[0] = 0
  <2>1. \A j \in 0 .. n : P[j] \in Nat /\ P[j] + 1 \in Nat
    BY <1>2
  <2>2. 0 \in 0 .. n /\ 0 < stop
    BY <1>1
  <2> QED
    BY <1>2, <2>1, <2>2
<1>4. ASSUME NEW j \in 1 .. n PROVE Q[j] = Q[j - 1] * base + digits[j]
  <2>1. /\ j \in 0 .. n /\ j - 1 \in 0 .. n /\ j \in Int
        /\ P[j] \in Nat /\ P[j - 1] \in Nat /\ out[j] \in Nat
        /\ P[j] = P[j - 1] * base + out[j]
    BY <1>1, <1>2, <1>w
  <2>d. digits[j] = IF j < stop THEN out[j]
                    ELSE IF j = stop THEN out[j] + 1 ELSE 0
    BY <1>r
  <2>q. /\ Q[j] = IF j < stop THEN P[j] ELSE P[j] + 1
        /\ Q[j - 1] = IF j - 1 < stop THEN P[j - 1] ELSE P[j - 1] + 1
    BY <2>1
  <2>i. j - 1 < j /\ stop \in Int /\ j \in Int
    BY <1>1, <2>1
  <2> HIDE DEF Q
  <2>2. CASE j < stop
    <3>1. j < stop /\ j - 1 < stop
      BY <2>i, <2>2
    <3> QED
      BY <2>1, <2>d, <2>q, <3>1
  <2>3. CASE j = stop
    <3>1. ~ (j < stop) /\ j - 1 < stop
      BY <2>i, <2>3
    <3>2. Q[j] = P[j] + 1 /\ Q[j - 1] = P[j - 1] /\ digits[j] = out[j] + 1
      BY <2>d, <2>q, <2>3, <3>1, Zenon
    <3>3. P[j - 1] * base \in Nat
      BY <1>1, <2>1, MulMonotone, SMTT(60)
    <3> DEFINE product == P[j - 1] * base
    <3>4. product \in Nat /\ P[j] = product + out[j] /\ out[j] \in Nat
      BY <2>1, <3>3, Zenon
    <3> HIDE DEF product
    <3>5. P[j] + 1 = product + (out[j] + 1)
      BY <3>4
    <3> QED
      BY <3>2, <3>5, Zenon DEF product
  <2>4. CASE j > stop
    <3>1. Q[j] = P[j] + 1 /\ Q[j - 1] = P[j - 1] + 1 /\ digits[j] = 0
      <4>1. ~ (j < stop) /\ ~ (j - 1 < stop) /\ j # stop /\ j \in 0 .. n
            /\ j - 1 \in 0 .. n
        BY <1>1, <2>1, <2>4
      <4> QED
        BY <2>d, <2>q, <4>1, Zenon
    <3>2. out[j] = base - 1
      BY <1>1, <1>r, <2>4
    <3> DEFINE p == P[j - 1]
    <3>3. p \in Nat /\ P[j] = p * base + (base - 1)
      BY <2>1, <3>2
    <3> HIDE DEF p
    <3>4. p * base \in Nat /\ (p + 1) * base = p * base + base
      BY <1>1, <3>3, SMTT(30)
    <3>5. P[j] + 1 = (p + 1) * base
      BY <1>1, <3>3, <3>4
    <3>6. (p + 1) * base \in Nat
      BY <1>1, <3>4
    <3> QED
      BY <3>1, <3>5, <3>6 DEF p
  <2> QED
    BY <1>1, <2>1, <2>2, <2>3, <2>4
<1>5. Q[n] = P[n] + 1 /\ P[n] \in Nat
  BY <1>1, <1>2
<1> HIDE DEF Q
<1>6. Prefixes(base, digits, Q)
  BY <1>3, <1>4, <1>r DEF Prefixes
<1>7. Q[n] * BB + (sum - BB) = P[n] * BB + sum
  <2> DEFINE p == P[n]
  <2>1. p \in Nat /\ Q[n] = p + 1
    BY <1>5
  <2> HIDE DEF p
  <2>2. (p + 1) * BB = p * BB + BB /\ p * BB \in Nat
    BY <1>1, <2>1, SMTT(30)
  <2>3. (p + 1) * BB + (sum - BB) = p * BB + sum
    BY <1>1, <2>2
  <2> QED
    BY <2>1, <2>3 DEF p
<1> QED
  BY <1>6, <1>7 DEF n, BB

(* The flush: the two words of low complete the number.                     *)
LEMMA FlushHolds ==
  ASSUME NEW base, Base(base), NEW cum, NEW data,
         NEW out \in Seq(0 .. base - 1), NEW low \in 0 .. base * base - 1,
         NEW range, Encodes(base, cum, data, out, low, range)
  PROVE  \E H, P :
           /\ History(base, cum, data, H)
           /\ Holds(base, data, Append(Append(out, low \div base), low % base), H, P)
<1> DEFINE k == Len(out)
           hi == low \div base
           lo == low % base
           BB == base * base
<1>1. PICK H, P :
        /\ History(base, cum, data, H)
        /\ Prefixes(base, out, P)
        /\ H[Len(data)].val = P[k] * BB + low
        /\ H[Len(data)].words = k
  BY DEF Encodes
<1>2. /\ hi \in 0 .. base - 1 /\ lo \in 0 .. base - 1 /\ low = hi * base + lo
      /\ base \in Nat
  BY TopWord DEF Base
<1>3. k \in Nat /\ P \in [0 .. k -> Nat]
  BY <1>1 DEF Prefixes
<1>4. P[k] \in Nat
  BY <1>3
<1> DEFINE Q == WithWord(base, out, hi, P)
           R == WithWord(base, Append(out, hi), lo, Q)
<1> HIDE DEF hi, lo
<1>5. Prefixes(base, Append(out, hi), Q) /\ Q[k + 1] = P[k] * base + hi
  BY <1>1, <1>2, ExtendPrefixes
<1>6. Append(out, hi) \in Seq(0 .. base - 1) /\ Len(Append(out, hi)) = k + 1
  BY <1>2, AppendFacts
<1> DEFINE head == Append(out, hi)
           file == Append(head, lo)
<1> HIDE DEF Q, head, k
<1>7. Prefixes(base, file, R) /\ R[k + 1 + 1] = Q[k + 1] * base + lo
  <2>1. /\ head \in Seq(0 .. base - 1) /\ Len(head) = k + 1
        /\ Prefixes(base, head, Q)
    BY <1>5, <1>6 DEF head
  <2>2. R = WithWord(base, head, lo, Q)
    BY DEF head
  <2> HIDE DEF R
  <2> QED
    BY <1>2, <2>1, <2>2, ExtendPrefixes
<1>8. Len(file) = k + 2
  BY <1>2, <1>3, <1>6, AppendFacts DEF head
<1>9. P[k] * BB + low = Q[k + 1] * base + lo
  <2> DEFINE p == P[k]
  <2>1. p \in Nat /\ Q[k + 1] = p * base + hi
    BY <1>4, <1>5
  <2> HIDE DEF p
  <2>2. (p * base + hi) * base = p * (base * base) + hi * base
    BY <1>2, <2>1, SMTT(30)
  <2>3. p * (base * base) \in Nat /\ hi * base \in Nat
    BY <1>2, <2>1, SMTT(30)
  <2> QED
    BY <1>2, <2>1, <2>2, <2>3 DEF p
<1>a. R[Len(file)] = Q[k + 1] * base + lo
  <2>1. k + 1 + 1 = k + 2
    BY <1>3
  <2> HIDE DEF R, file
  <2> QED
    BY <1>7, <1>8, <2>1
<1> HIDE DEF R, file
<1>b. Holds(base, data, file, H, R)
  BY <1>1, <1>7, <1>8, <1>9, <1>a DEF Holds
<1> QED
  BY <1>1, <1>b DEF file, head, hi, lo

-----------------------------------------------------------------------------
(* A number with one more digit lies between two multiples exactly when it  *)
(* does without the digit.                                                  *)
LEMMA DropDigit ==
  ASSUME NEW base \in Nat \ {0}, NEW a \in Nat, NEW b \in Nat, NEW q \in Nat,
         NEW s \in 0 .. base - 1,
         a * base <= q * base + s, q * base + s < b * base
  PROVE  a <= q /\ q < b
<1>1. ASSUME q + 1 <= a PROVE FALSE
  <2>1. (q + 1) * base <= a * base /\ (q + 1) * base = q * base + base
    BY <1>1, SMTT(30)
  <2>2. a * base \in Nat /\ q * base \in Nat /\ s \in Nat /\ s < base
    BY SMTT(30)
  <2> QED
    BY <2>1, <2>2
<1>2. ASSUME b <= q PROVE FALSE
  <2>1. b * base <= q * base
    BY <1>2, SMTT(30)
  <2>2. b * base \in Nat /\ q * base \in Nat /\ s \in Nat
    BY SMTT(30)
  <2> QED
    BY <2>1, <2>2
<1> QED
  BY <1>1, <1>2

(* What the narrowing by sym adds to the interval g, with opaque products.  *)
LEMMA NarrowedInterval ==
  ASSUME NEW base, Base(base), NEW cum \in Tables, NEW sym \in Occurring(cum),
         NEW g \in Intervals(base)
  PROVE  /\ g.val \in Nat /\ g.width \in Nat /\ g.words \in Nat
         /\ NewVal(cum, g, sym) \in Nat /\ g.val <= NewVal(cum, g, sym)
         /\ NewWidth(cum, g, sym) \in Nat /\ NewWidth(cum, g, sym) >= 1
         /\ NewVal(cum, g, sym) + NewWidth(cum, g, sym) <= g.val + g.width
<1>1. /\ g.val \in Nat /\ g.width \in base .. base * base - 1 /\ g.words \in Nat
      /\ base \in Nat
  BY DEF Intervals, Base
<1> DEFINE add == PartWidth(g) * cum[sym]
           wide == NewWidth(cum, g, sym)
           width == g.width
<1>2. /\ add \in Nat /\ wide \in Nat /\ wide >= 1 /\ add + wide <= width
  BY <1>1, Subinterval DEF PartWidth, NewWidth
<1>3. NewVal(cum, g, sym) = g.val + add /\ width \in Nat
  BY <1>1 DEF NewVal
<1> HIDE DEF add, wide, width
<1>4. /\ NewVal(cum, g, sym) \in Nat /\ g.val <= NewVal(cum, g, sym)
      /\ NewVal(cum, g, sym) + wide <= g.val + width
  BY <1>1, <1>2, <1>3
<1> QED
  BY <1>1, <1>2, <1>3, <1>4 DEF wide, width

(* The number lies in the part of g that belongs to sym, and the word the   *)
(* renormalisation reads is there.                                          *)
Selects(base, cum, file, P, g, sym) ==
  /\ g.words + 2 <= Len(file)
  /\ NewVal(cum, g, sym) <= P[g.words + 2]
  /\ P[g.words + 2] < NewVal(cum, g, sym) + NewWidth(cum, g, sym)
  /\ NewWidth(cum, g, sym) < base => g.words + 3 <= Len(file)

(* One step backwards: a number inside the interval reached by coding sym   *)
(* selects sym in the interval before.                                      *)
LEMMA InsideSelects ==
  ASSUME NEW base, Base(base), NEW cum \in Tables, NEW sym \in Occurring(cum),
         NEW g \in Intervals(base), NEW h \in Intervals(base),
         Narrowed(base, cum, g, sym, h),
         NEW file \in Seq(0 .. base - 1), NEW P, Prefixes(base, file, P),
         Inside(file, P, h)
  PROVE  Selects(base, cum, file, P, g, sym)
<1> DEFINE n == Len(file)
           v == NewVal(cum, g, sym)
           w == NewWidth(cum, g, sym)
           k == g.words
<1>1. /\ n \in Nat /\ base \in Nat \ {0} /\ v \in Nat /\ w \in Nat /\ k \in Nat
      /\ h.words \in Nat
  BY NarrowedInterval DEF Base
<1>2. /\ P \in [0 .. n -> Nat]
      /\ \A j \in 1 .. n : P[j] = P[j - 1] * base + file[j]
  BY DEF Prefixes
<1>3. h.words + 2 <= n /\ h.val <= P[h.words + 2] /\ P[h.words + 2] < h.val + h.width
  BY DEF Inside
<1>4. CASE w < base
  <2>1. h.val = v * base /\ h.width = w * base /\ h.words = k + 1
    BY <1>4 DEF Narrowed
  <2>2. /\ k + 3 \in 1 .. n /\ k + 2 \in 0 .. n /\ (k + 3) - 1 = k + 2
        /\ h.words + 2 = k + 3
    <3>1. k \in Nat /\ n \in Nat /\ h.words = k + 1 /\ h.words + 2 <= n
      BY <1>1, <1>3, <2>1
    <3> HIDE DEF k, n
    <3> QED
      BY <3>1
  <2> DEFINE q == P[k + 2]
             s == file[k + 3]
  <2>3. q \in Nat /\ s \in 0 .. base - 1 /\ P[k + 3] = q * base + s
    BY <1>2, <2>2, ElementFacts
  <2>4. v * base <= q * base + s /\ q * base + s < v * base + w * base
    BY <1>3, <2>1, <2>2, <2>3
  <2> HIDE DEF n, v, w, k, q, s
  <2>5. v * base + w * base = (v + w) * base /\ v + w \in Nat
    BY <1>1, SMTT(30)
  <2>6. q * base + s < (v + w) * base
    BY <2>4, <2>5
  <2>7. v <= q /\ q < v + w
    BY <1>1, <2>3, <2>4, <2>5, <2>6, DropDigit
  <2> QED
    BY <1>1, <2>2, <2>7 DEF Selects, n, v, w, k, q
<1>5. CASE ~ (w < base)
  <2>1. h.val = v /\ h.width = w /\ h.words = k
    BY <1>5 DEF Narrowed
  <2> QED
    BY <1>3, <1>5, <2>1 DEF Selects
<1> QED
  BY <1>4, <1>5

LEMMA SelectsInside ==
  ASSUME NEW base, Base(base), NEW cum \in Tables, NEW sym \in Occurring(cum),
         NEW g \in Intervals(base),
         NEW file \in Seq(0 .. base - 1), NEW P, Prefixes(base, file, P),
         Selects(base, cum, file, P, g, sym)
  PROVE  Inside(file, P, g)
<1> DEFINE v == NewVal(cum, g, sym)
           w == NewWidth(cum, g, sym)
           k == g.words
           q == P[g.words + 2]
<1>1. /\ v \in Nat /\ w \in Nat /\ k \in Nat /\ g.val \in Nat /\ g.width \in Nat
      /\ g.val <= v /\ v + w <= g.val + g.width
  BY NarrowedInterval
<1>2. k + 2 <= Len(file) /\ v <= q /\ q < v + w
  BY DEF Selects
<1>3. q \in Nat
  <2>1. P \in [0 .. Len(file) -> Nat] /\ k + 2 \in 0 .. Len(file)
    BY <1>1, <1>2, SMTT(60) DEF Prefixes
  <2> QED
    BY <2>1
<1> HIDE DEF v, w
<1> QED
  BY <1>1, <1>2, <1>3 DEF Inside

(* The number of the file lies in every interval of the history: it does in *)
(* the last one, and there is no last one in which it does not.             *)
LEMMA EveryIntervalHoldsTheNumber ==
  ASSUME NEW base, Base(base), NEW cum \in Tables,
         NEW data \in Seq(Occurring(cum)), NEW file \in Seq(0 .. base - 1),
         NEW H, History(base, cum, data, H),
         NEW P, Holds(base, data, file, H, P)
  PROVE  \A i \in 0 .. Len(data) : Inside(file, P, H[i])
<1> DEFINE n == Len(data)
           Bad == { k \in 0 .. n : ~ Inside(file, P, H[n - k]) }
<1>1. /\ n \in Nat
      /\ H \in [0 .. n -> Intervals(base)]
      /\ \A i \in 1 .. n : Narrowed(base, cum, H[i - 1], data[i], H[i])
      /\ Prefixes(base, file, P)
      /\ H[n].val = P[Len(file)] /\ H[n].words + 2 = Len(file)
  BY DEF History, Holds
<1>d. \A i \in 1 .. n : data[i] \in Occurring(cum)
  BY ElementFacts
<1> HIDE DEF n
<1>2. Inside(file, P, H[n])
  <2>1. H[n] \in Intervals(base) /\ Len(file) \in Nat
    BY <1>1
  <2>2. H[n].width \in Nat /\ H[n].width >= 1 /\ H[n].val \in Nat
    BY <2>1 DEF Intervals, Base
  <2> QED
    BY <1>1, <2>1, <2>2 DEF Inside
<1>3. ASSUME Bad # {} PROVE FALSE
  <2>1. Bad \in SUBSET Nat
    BY <1>1
  <2>2. PICK k \in Bad : \A j \in Bad : k <= j
    BY <1>3, <2>1, LeastElement
  <2>3. k \in 0 .. n /\ ~ Inside(file, P, H[n - k])
    OBVIOUS
  <2>4. k # 0
    BY <1>1, <1>2, <2>3
  <2>5. k - 1 \notin Bad
    BY <2>2, <2>3
  <2> DEFINE i == n - k
  <2>6. /\ i + 1 \in 1 .. n /\ i \in 0 .. n /\ i + 1 \in 0 .. n /\ (i + 1) - 1 = i
        /\ k - 1 \in 0 .. n /\ n - (k - 1) = i + 1
    BY <1>1, <2>3, <2>4
  <2>7. Inside(file, P, H[i + 1])
    BY <2>5, <2>6
  <2> HIDE DEF i
  <2>8. /\ H[i] \in Intervals(base) /\ H[i + 1] \in Intervals(base)
        /\ Narrowed(base, cum, H[i], data[i + 1], H[i + 1])
        /\ data[i + 1] \in Occurring(cum)
    BY <1>1, <1>d, <2>6
  <2>9. Selects(base, cum, file, P, H[i], data[i + 1])
    BY <1>1, <2>7, <2>8, InsideSelects
  <2>a. Inside(file, P, H[i])
    BY <1>1, <2>8, <2>9, SelectsInside
  <2> QED
    BY <2>3, <2>a DEF i
<1>4. ASSUME NEW i \in 0 .. n PROVE Inside(file, P, H[i])
  <2>1. n - i \in 0 .. n /\ n - (n - i) = i
    BY <1>1
  <2>2. n - i \notin Bad
    BY <1>3
  <2> QED
    BY <2>1, <2>2
<1> QED
  BY <1>4 DEF n

-----------------------------------------------------------------------------
(* The decoder's code for interval h: how far the number of the file is     *)
(* above the lower end of h.                                                *)
CodeAt(P, h) == P[h.words + 2] - h.val

LEMMA CodeInRange ==
  ASSUME NEW base, Base(base), NEW file \in Seq(0 .. base - 1),
         NEW P, Prefixes(base, file, P), NEW h \in Intervals(base),
         Inside(file, P, h)
  PROVE  CodeAt(P, h) \in 0 .. base * base - 1 /\ CodeAt(P, h) < h.width
<1> DEFINE q == P[h.words + 2]
           width == h.width
           val == h.val
           BB == base * base
<1>1. /\ h.words + 2 \in 0 .. Len(file) /\ val <= q /\ q < val + width
      /\ val \in Nat /\ width \in base .. BB - 1 /\ base \in Nat /\ BB \in Nat
  <2>1. /\ h.words + 2 <= Len(file) /\ val <= q /\ q < val + width
        /\ val \in Nat /\ width \in base .. BB - 1 /\ h.words \in Nat
        /\ base \in Nat
    BY DEF Inside, Intervals, Base
  <2>2. BB \in Nat
    BY <2>1, MulMonotone
  <2>3. h.words + 2 \in 0 .. Len(file)
    BY <2>1, SMTT(60)
  <2> QED
    BY <2>1, <2>2, <2>3
<1>2. q \in Nat
  BY <1>1 DEF Prefixes
<1> HIDE DEF q, width, val, BB
<1>3. q - val \in 0 .. BB - 1 /\ q - val < width
  BY <1>1, <1>2
<1> QED
  BY <1>3 DEF q, width, val, BB, CodeAt

(* The decoder looks up the symbol that was coded, with a value inside the  *)
(* table.                                                                   *)
LEMMA DecodeFinds ==
  ASSUME NEW base, Base(base), NEW cum \in Tables, NEW sym \in Occurring(cum),
         NEW g \in Intervals(base),
         NEW file \in Seq(0 .. base - 1), NEW P, Prefixes(base, file, P),
         Selects(base, cum, file, P, g, sym)
  PROVE  /\ CodeAt(P, g) \div PartWidth(g) \in 0 .. TOTAL - 1
         /\ Find(cum, CodeAt(P, g) \div PartWidth(g)) = sym
<1> DEFINE t == PartWidth(g)
           code == CodeAt(P, g)
           c == cum[sym]
           d == cum[sym + 1]
           x == code \div t
<1>1. /\ c \in Nat /\ d \in Nat /\ d <= TOTAL
  BY TableFacts
<1>2. /\ t \in Nat \ {0} /\ t * c \in Nat
      /\ t * Freq(cum, sym) \in Nat
      /\ t * c + t * Freq(cum, sym) = t * d
  <2>1. g.width \in base .. base * base - 1
    BY DEF Intervals
  <2>2. /\ t \in Nat /\ t >= 1 /\ t * c \in Nat
        /\ t * Freq(cum, sym) \in Nat
        /\ t * c + t * Freq(cum, sym) = t * d
    BY <2>1, Subinterval DEF PartWidth
  <2> QED
    BY <2>2
<1>3. code \in Nat
  BY SelectsInside, CodeInRange
<1>4. t * c <= code /\ code < t * d
  <2> DEFINE q == P[g.words + 2]
             val == g.val
             add == t * c
             wide == t * Freq(cum, sym)
  <2>1. val + add <= q /\ q < (val + add) + wide
    BY DEF Selects, NewVal, NewWidth
  <2>2. code = q - val
    BY DEF CodeAt
  <2>3. val \in Nat /\ q \in Nat
    <3>1. g.words \in Nat /\ g.words + 2 <= Len(file) /\ val \in Nat
      BY DEF Selects, Intervals
    <3>2. P \in [0 .. Len(file) -> Nat] /\ g.words + 2 \in 0 .. Len(file)
      BY <3>1 DEF Prefixes
    <3> QED
      BY <3>1, <3>2
  <2>4. add \in Nat /\ wide \in Nat /\ add + wide = t * d
    BY <1>2
  <2> HIDE DEF q, val, add, wide, code
  <2>5. add <= code /\ code < add + wide
    BY <2>1, <2>2, <2>3, <2>4
  <2> QED
    BY <2>4, <2>5 DEF add
<1> HIDE DEF t, code
<1>5. t * c <= code /\ code < t * c + t * Freq(cum, sym)
  BY <1>2, <1>4
<1>6. code \div t \in 0 .. TOTAL - 1 /\ Find(cum, code \div t) = sym
  BY <1>2, <1>3, <1>5, LookupFinds, SMTT(60)
<1> QED
  BY <1>6 DEF t, code

(* Subtracting the start of the symbol and reading a word, where the encoder *)
(* wrote one, leads to the code for the next interval.                      *)
LEMMA DecodeAdvances ==
  ASSUME NEW base, Base(base), NEW cum \in Tables, NEW sym \in Occurring(cum),
         NEW g \in Intervals(base), NEW h \in Intervals(base),
         Narrowed(base, cum, g, sym, h),
         NEW file \in Seq(0 .. base - 1), NEW P, Prefixes(base, file, P),
         Selects(base, cum, file, P, g, sym)
  PROVE  LET offset == CodeAt(P, g) - PartWidth(g) * cum[sym]
         IN  IF NewWidth(cum, g, sym) < base
               THEN CodeAt(P, h) = offset * base + file[g.words + 3]
               ELSE CodeAt(P, h) = offset
<1> DEFINE k == g.words
           q == P[k + 2]
           v == NewVal(cum, g, sym)
           n == Len(file)
           add == PartWidth(g) * cum[sym]
           val == g.val
           offset == CodeAt(P, g) - add
<1>1. /\ k \in Nat /\ v \in Nat /\ n \in Nat /\ base \in Nat /\ k + 2 <= n
      /\ NewWidth(cum, g, sym) < base => k + 3 <= n
  BY NarrowedInterval DEF Selects, Base
<1>2. /\ P \in [0 .. n -> Nat]
      /\ \A j \in 1 .. n : P[j] = P[j - 1] * base + file[j]
  BY DEF Prefixes
<1>3. q \in Nat
  <2>1. k + 2 \in 0 .. n
    BY <1>1
  <2> QED
    BY <1>2, <2>1
<1>4. offset = q - v
  <2>1. add \in Nat
    <3>1. g.width \in base .. base * base - 1
      BY DEF Intervals
    <3> QED
      BY <3>1, Subinterval DEF PartWidth
  <2>2. v = val + add /\ CodeAt(P, g) = q - val /\ val \in Nat
    BY DEF NewVal, CodeAt, Intervals
  <2> HIDE DEF v, add, val, q
  <2> QED
    BY <1>3, <2>1, <2>2
<1>5. CASE NewWidth(cum, g, sym) < base
  <2>1. h.val = v * base /\ h.words = k + 1
    BY <1>5 DEF Narrowed
  <2>2. k + 3 \in 1 .. n /\ (k + 3) - 1 = k + 2 /\ (k + 1) + 2 = k + 3
    <3>1. k + 3 <= n
      BY <1>1, <1>5
    <3> HIDE DEF k, n
    <3> QED
      BY <1>1, <3>1
  <2> DEFINE s == file[k + 3]
  <2>3. P[k + 3] = q * base + s /\ s \in Nat
    <3>1. s \in 0 .. base - 1
      BY <2>2, ElementFacts
    <3>2. P[k + 3] = P[(k + 3) - 1] * base + file[k + 3]
      BY <1>2, <2>2
    <3>3. s \in Nat
      BY <1>1, <3>1
    <3> QED
      BY <2>2, <3>2, <3>3
  <2>4. CodeAt(P, h) = (q * base + s) - v * base
    BY <2>1, <2>2, <2>3 DEF CodeAt
  <2> HIDE DEF q, s, v, offset
  <2>5. /\ (q - v) * base = q * base - v * base
        /\ q * base \in Nat /\ v * base \in Nat
    BY <1>1, <1>3, SMTT(30)
  <2>6. CodeAt(P, h) = offset * base + s
    BY <1>4, <2>3, <2>4, <2>5
  <2> QED
    BY <1>5, <2>6 DEF s, offset
<1>6. CASE ~ (NewWidth(cum, g, sym) < base)
  <2>1. h.val = v /\ h.words = k
    BY <1>6 DEF Narrowed
  <2>2. CodeAt(P, h) = offset
    BY <1>4, <2>1 DEF CodeAt
  <2> QED
    BY <1>6, <2>2
<1> QED
  BY <1>5, <1>6

-----------------------------------------------------------------------------
(* The words of file hold data.                                             *)
FileHolds(base, cum, data, file) ==
  \E H, P : History(base, cum, data, H) /\ Holds(base, data, file, H, P)

(* A decoder with this code, range and number of words read has found the   *)
(* first i symbols of data.                                                 *)
DecoderAt(base, cum, data, file, i, code, range, pos) ==
  \E H, P :
    /\ History(base, cum, data, H)
    /\ Holds(base, data, file, H, P)
    /\ code = CodeAt(P, H[i])
    /\ range = H[i].width
    /\ pos = H[i].words + 2

LEMMA DecoderStarts ==
  ASSUME NEW base, Base(base), NEW cum \in Tables,
         NEW data \in Seq(Occurring(cum)), NEW file \in Seq(0 .. base - 1),
         FileHolds(base, cum, data, file)
  PROVE  /\ Len(file) >= 2
         /\ file[1] * base + file[2] \in 0 .. base * base - 1
         /\ DecoderAt(base, cum, data, file, 0,
                      file[1] * base + file[2], base * base - 1, 2)
<1>1. PICK H, P : History(base, cum, data, H) /\ Holds(base, data, file, H, P)
  BY DEF FileHolds
<1>2. /\ Prefixes(base, file, P)
      /\ H[0] \in Intervals(base) /\ H[0].val = 0 /\ H[0].words = 0
      /\ H[0].width = base * base - 1
  BY <1>1 DEF History, Holds
<1>3. Inside(file, P, H[0])
  BY <1>1, EveryIntervalHoldsTheNumber
<1>4. Len(file) \in Nat /\ Len(file) >= 2 /\ base \in Nat
  BY <1>2, <1>3 DEF Inside, Base
<1>5. file[1] \in 0 .. base - 1 /\ file[2] \in 0 .. base - 1
  BY <1>4, ElementFacts
<1>6. P[2] = file[1] * base + file[2]
  <2>1. /\ P[0] = 0
        /\ P[1] = P[1 - 1] * base + file[1] /\ P[2] = P[2 - 1] * base + file[2]
    BY <1>2, <1>4 DEF Prefixes
  <2>2. P[1] = 0 * base + file[1] /\ 0 * base = 0 /\ file[1] \in Nat
    BY <2>1, <1>4, <1>5
  <2> QED
    BY <2>1, <2>2
<1>7. CodeAt(P, H[0]) = P[2] /\ H[0].words + 2 = 2
  <2>1. file[1] * base \in Nat /\ file[2] \in Nat
    BY <1>4, <1>5, MulMonotone
  <2>2. P[2] \in Nat
    BY <1>6, <2>1
  <2> QED
    BY <1>2, <2>2 DEF CodeAt
<1>8. CodeAt(P, H[0]) \in 0 .. base * base - 1
  BY <1>2, <1>3, CodeInRange
<1> QED
  BY <1>1, <1>2, <1>4, <1>6, <1>7, <1>8 DEF DecoderAt

(* Where the decoder is in the file: never behind its end, and exactly at   *)
(* it after the last symbol.                                                *)
LEMMA DecoderPlace ==
  ASSUME NEW base, Base(base), NEW cum \in Tables,
         NEW data \in Seq(Occurring(cum)), NEW file \in Seq(0 .. base - 1),
         NEW i \in 0 .. Len(data), NEW code, NEW range, NEW pos,
         DecoderAt(base, cum, data, file, i, code, range, pos)
  PROVE  /\ code \in 0 .. base * base - 1 /\ range \in base .. base * base - 1
         /\ pos \in Nat /\ pos <= Len(file)
         /\ i = Len(data) => pos = Len(file)
<1>1. PICK H, P :
        /\ History(base, cum, data, H)
        /\ Holds(base, data, file, H, P)
        /\ code = CodeAt(P, H[i])
        /\ range = H[i].width
        /\ pos = H[i].words + 2
  BY DEF DecoderAt
<1>2. H[i] \in Intervals(base) /\ Prefixes(base, file, P)
  BY <1>1 DEF History, Holds
<1>3. Inside(file, P, H[i])
  BY <1>1, EveryIntervalHoldsTheNumber
<1>4. code \in 0 .. base * base - 1
  BY <1>1, <1>2, <1>3, CodeInRange
<1>5. range \in base .. base * base - 1 /\ pos \in Nat /\ pos <= Len(file)
  BY <1>1, <1>2, <1>3 DEF Intervals, Inside
<1>6. i = Len(data) => pos = Len(file)
  BY <1>1 DEF Holds
<1> QED
  BY <1>4, <1>5, <1>6

(* One turn of a decoder: it finds the next symbol and stands at the next   *)
(* interval, having read a word exactly where the encoder wrote one.        *)
LEMMA DecoderSteps ==
  ASSUME NEW base, Base(base), NEW cum \in Tables,
         NEW data \in Seq(Occurring(cum)), NEW file \in Seq(0 .. base - 1),
         NEW i \in 0 .. Len(data) - 1, NEW code, NEW range, NEW pos,
         DecoderAt(base, cum, data, file, i, code, range, pos)
  PROVE  LET sym    == data[i + 1]
             t      == range \div TOTAL
             width  == t * Freq(cum, sym)
             offset == code - t * cum[sym]
         IN  /\ code \div t \in 0 .. TOTAL - 1
             /\ Find(cum, code \div t) = sym
             /\ IF width < base
                  THEN /\ pos + 1 <= Len(file)
                       /\ DecoderAt(base, cum, data, file, i + 1,
                                    (offset * base + file[pos + 1]) % (base * base),
                                    width * base, pos + 1)
                  ELSE DecoderAt(base, cum, data, file, i + 1,
                                 offset % (base * base), width, pos)
<1> DEFINE sym == data[i + 1]
           BB == base * base
<1>1. PICK H, P :
        /\ History(base, cum, data, H)
        /\ Holds(base, data, file, H, P)
        /\ code = CodeAt(P, H[i])
        /\ range = H[i].width
        /\ pos = H[i].words + 2
  BY DEF DecoderAt
<1> DEFINE g == H[i]
           h == H[i + 1]
<1>2. /\ i \in 0 .. Len(data) /\ i + 1 \in 0 .. Len(data)
      /\ i + 1 \in 1 .. Len(data) /\ (i + 1) - 1 = i
  OBVIOUS
<1>3. /\ g \in Intervals(base) /\ h \in Intervals(base)
      /\ Narrowed(base, cum, g, sym, h)
      /\ Prefixes(base, file, P)
      /\ sym \in Occurring(cum)
  <2>1. /\ H \in [0 .. Len(data) -> Intervals(base)]
        /\ \A j \in 1 .. Len(data) : Narrowed(base, cum, H[j - 1], data[j], H[j])
    BY <1>1 DEF History
  <2>2. Narrowed(base, cum, H[(i + 1) - 1], data[i + 1], H[i + 1])
    BY <1>2, <2>1
  <2> QED
    BY <1>1, <1>2, <2>1, <2>2, ElementFacts DEF Holds
<1>4. Inside(file, P, h)
  BY <1>1, <1>2, EveryIntervalHoldsTheNumber
<1>5. code \in Nat /\ pos \in Nat /\ base \in Nat /\ BB \in Nat \ {0}
  <2>1. BB \in Nat /\ base \in Nat \ {0}
    BY MulMonotone DEF Base
  <2>2. BB # 0
    BY <2>1, SMTT(30)
  <2> QED
    BY <1>2, <2>1, <2>2, DecoderPlace
<1>6. PartWidth(g) = range \div TOTAL
  BY <1>1 DEF PartWidth
<1> HIDE DEF g, h, sym
<1>7. Selects(base, cum, file, P, g, sym)
  BY <1>3, <1>4, InsideSelects
<1>8. /\ code \div PartWidth(g) \in 0 .. TOTAL - 1
      /\ Find(cum, code \div PartWidth(g)) = sym
  BY <1>1, <1>3, <1>7, DecodeFinds DEF g
<1> DEFINE offset == code - PartWidth(g) * cum[sym]
<1>9. CodeAt(P, h) \in 0 .. BB - 1
  BY <1>3, <1>4, CodeInRange
<1>a. CodeAt(P, h) % BB = CodeAt(P, h)
  <2> HIDE DEF BB
  <2> QED
    BY <1>5, <1>9, ModSmall
<1>b. pos = g.words + 2 /\ code = CodeAt(P, g) /\ g.words \in Nat
  BY <1>1, <1>3 DEF g, Intervals
<1>c. CASE NewWidth(cum, g, sym) < base
  <2>1. CodeAt(P, h) = offset * base + file[g.words + 3]
    BY <1>3, <1>7, <1>b, <1>c, DecodeAdvances
  <2>2. pos + 1 = g.words + 3 /\ pos + 1 <= Len(file)
    BY <1>7, <1>b, <1>c DEF Selects
  <2>3. /\ h.width = NewWidth(cum, g, sym) * base /\ h.words + 2 = pos + 1
    BY <1>3, <1>b, <1>c DEF Narrowed
  <2>4. (offset * base + file[pos + 1]) % BB = CodeAt(P, h)
    BY <1>a, <2>1, <2>2
  <2>5. DecoderAt(base, cum, data, file, i + 1,
                  (offset * base + file[pos + 1]) % BB,
                  NewWidth(cum, g, sym) * base, pos + 1)
    <3> HIDE DEF offset, BB
    <3> QED
      BY <1>1, <2>3, <2>4 DEF DecoderAt, h
  <2> QED
    BY <1>6, <1>8, <1>c, <2>2, <2>5 DEF NewWidth, sym
<1>d. CASE ~ (NewWidth(cum, g, sym) < base)
  <2>1. CodeAt(P, h) = offset
    BY <1>3, <1>7, <1>b, <1>d, DecodeAdvances
  <2>3. h.width = NewWidth(cum, g, sym) /\ h.words + 2 = pos
    BY <1>3, <1>b, <1>d DEF Narrowed
  <2>4. offset % BB = CodeAt(P, h)
    BY <1>a, <2>1
  <2>5. DecoderAt(base, cum, data, file, i + 1, offset % BB,
                  NewWidth(cum, g, sym), pos)
    <3> HIDE DEF offset, BB
    <3> QED
      BY <1>1, <2>3, <2>4 DEF DecoderAt, h
  <2> QED
    BY <1>6, <1>8, <1>d, <2>5 DEF NewWidth, sym
<1> QED
  BY <1>c, <1>d
=============================================================================
