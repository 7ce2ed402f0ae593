---------------------------- MODULE Rans_proofs -----------------------------
(***************************************************************************)
(* Proofs about the rANS coder for every scale, word, reciprocal, number   *)
(* of states, block and file.                                              *)
(*                                                                         *)
(* A symbol is coded by a function of the states and the words of its      *)
(* block, so a block has a history: what the encoder holds after each of   *)
(* its symbols.  The decoder walks through that history backwards.         *)
(***************************************************************************)
EXTENDS Rans, CodedInterval

M == L \div TOTAL
States == L .. L * B - 1
Words == 0 .. B - 1

(* The constants as the proofs use them.                                    *)
LEMMA Constants ==
  /\ TOTAL \in Nat \ {0} /\ B \in Nat \ {0} /\ 1 < B /\ TOTAL <= B
  /\ L \in Nat \ {0} /\ L <= B /\ M \in Nat \ {0} /\ L = TOTAL * M
  /\ RECIPROCAL \in Nat \ {0} /\ L * B <= RECIPROCAL
  /\ L * B \in Nat /\ L <= L * B
  /\ WAYS \in Nat \ {0} /\ BLOCK \in Nat \ {0}
<1>0. /\ TOTAL \in Nat \ {0} /\ B \in Nat /\ 1 < B /\ TOTAL <= B
      /\ L \in Nat \ {0} /\ L <= B /\ RECIPROCAL \in Nat /\ L * B <= RECIPROCAL
      /\ L % TOTAL = 0 /\ WAYS \in Nat \ {0} /\ BLOCK \in Nat \ {0}
  BY TotalAssumption, IntervalAssumption, BlockAssumption, Zenon
<1>1. /\ TOTAL \in Nat \ {0} /\ B \in Nat \ {0} /\ 1 < B /\ TOTAL <= B
      /\ L \in Nat \ {0} /\ L <= B /\ RECIPROCAL \in Nat /\ L * B <= RECIPROCAL
      /\ L % TOTAL = 0 /\ WAYS \in Nat \ {0} /\ BLOCK \in Nat \ {0}
  BY <1>0
<1>2. M \in Nat /\ L = TOTAL * M
  <2>1. L = TOTAL * M + (L % TOTAL) /\ M \in Nat
    BY <1>1, EuclideanDivision DEF M
  <2>2. TOTAL * M \in Nat
    BY <1>1, <2>1, MulMonotone
  <2> QED
    BY <1>1, <2>1, <2>2
<1>3. M # 0
  <2>1. TOTAL * 0 = 0
    BY <1>1
  <2> QED
    BY <1>1, <1>2, <2>1
<1>4. L * B \in Nat /\ L <= L * B /\ L * B # 0
  BY <1>1, SMTT(30)
<1>5. RECIPROCAL # 0
  BY <1>1, <1>4
<1> QED
  BY <1>1, <1>2, <1>3, <1>4, <1>5

LEMMA ConstantTypes ==
  /\ TOTAL \in Nat \ {0} /\ B \in Nat \ {0} /\ 1 < B /\ TOTAL <= B
  /\ L \in Nat \ {0} /\ L <= B /\ M \in Nat \ {0}
  /\ RECIPROCAL \in Nat \ {0} /\ L <= RECIPROCAL
  /\ WAYS \in Nat \ {0} /\ BLOCK \in Nat \ {0}
<1> DEFINE lb == L * B
<1>1. /\ RECIPROCAL \in Nat \ {0} /\ lb <= RECIPROCAL /\ lb \in Nat /\ L <= lb
      /\ L \in Nat \ {0}
  BY Constants
<1> HIDE DEF lb
<1>2. L <= RECIPROCAL
  BY <1>1
<1> QED
  BY <1>2, Constants

-----------------------------------------------------------------------------
(* The product with a rounded reciprocal is the quotient or one less.       *)
LEMMA Reciprocals ==
  ASSUME NEW r \in Nat \ {0}, NEW f \in Nat \ {0}, NEW x \in 0 .. r - 1,
         NEW s \in Nat, NEW q \in Nat,
         f * s <= r - 1, r - f <= f * s,
         r * q <= x * s, x * s < r * q + r
  PROVE  f * q <= x /\ x < f * q + 2 * f
<1>0. x \in Nat /\ x < r
  OBVIOUS
<1>1. f * q <= x
  <2>1. r * (f * q) <= x * (f * s)
    <3>1. f * (r * q) <= f * (x * s)
      BY <1>0, SMTT(30)
    <3> QED
      BY <1>0, <3>1, SMTT(30)
  <2>2. x * (f * s) <= x * r
    BY <1>0, SMTT(30)
  <2>3. f * q \in Nat /\ r * (f * q) <= r * x
    BY <1>0, <2>1, <2>2, SMTT(30)
  <2> DEFINE y == f * q
  <2> HIDE DEF y
  <2>4. ~ (y > x)
    <3>1. ASSUME y > x PROVE FALSE
      <4>1. y \in Nat /\ r * y <= r * x /\ r * y >= r * x + r
        BY <1>0, <2>3, <3>1, SMTT(30) DEF y
      <4> QED
        BY <1>0, <4>1, SMTT(30)
    <3> QED
      BY <3>1
  <2> QED
    BY <1>0, <2>3, <2>4 DEF y
<1>2. x < f * q + 2 * f
  <2>1. x * (f * s) < r * (f * q) + r * f
    <3>1. f * (x * s) < f * (r * q + r)
      BY <1>0, SMTT(30)
    <3>2. f * (r * q + r) = r * (f * q) + r * f /\ f * (x * s) = x * (f * s)
      BY <1>0, SMTT(30)
    <3> QED
      BY <3>1, <3>2
  <2>2. x * (f * s) >= x * r - x * f
    BY <1>0, SMTT(30)
  <2>3. x * f <= r * f
    BY <1>0, SMTT(30)
  <2>4. r * (f * q + 2 * f) = r * (f * q) + r * f + r * f /\ f * q + 2 * f \in Nat
    BY SMTT(30)
  <2> DEFINE y == f * q + 2 * f
  <2>5. r * x < r * y
    <3> DEFINE a == x * (f * s)
               b == r * (f * q)
               c == r * f
               d == x * f
               e == r * x
    <3>1. /\ a \in Nat /\ b \in Nat /\ c \in Nat /\ d \in Nat /\ e \in Nat
          /\ a < b + c /\ a >= e - d /\ d <= c /\ r * y = b + c + c
      BY <1>0, <2>1, <2>2, <2>3, <2>4, SMTT(30)
    <3> HIDE DEF a, b, c, d, e, y
    <3>2. e < r * y
      BY <3>1
    <3> QED
      BY <3>2 DEF e
  <2>6. y \in Nat
    BY <2>4
  <2> HIDE DEF y
  <2>7. x < y
    <3>1. ASSUME y <= x PROVE FALSE
      <4>1. r * y <= r * x /\ r * y \in Nat /\ r * x \in Nat
        BY <1>0, <2>6, <3>1, MulMonotone
      <4> QED
        BY <2>5, <4>1
    <3> QED
      BY <1>0, <2>6, <3>1
  <2> QED
    BY <2>7 DEF y
<1> QED
  BY <1>1, <1>2

(* Rans64EncPut_no_div divides: one correction is enough for every state    *)
(* below the numerator of the reciprocals.                                  *)
LEMMA Divides ==
  ASSUME NEW x \in 0 .. RECIPROCAL - 1, NEW f \in Nat \ {0}
  PROVE  DivMod(x, f) = <<x \div f, x % f>>
<1> DEFINE s == (RECIPROCAL - 1) \div f
           q == (x * s) \div RECIPROCAL
           rem == x - q * f
<1>0. RECIPROCAL \in Nat \ {0} /\ RECIPROCAL - 1 \in Nat /\ x \in Nat
  BY Constants
<1>1. CASE f = 1
  <2>1. x \div 1 = x /\ x % 1 = 0
    BY <1>0, SMTT(30)
  <2> QED
    BY <1>1, <2>1 DEF DivMod
<1>2. CASE f # 1
  <2>1. s \in Nat /\ f * s <= RECIPROCAL - 1 /\ RECIPROCAL - f <= f * s
    <3>1. /\ s \in Nat /\ (RECIPROCAL - 1) % f \in 0 .. f - 1
          /\ RECIPROCAL - 1 = f * s + ((RECIPROCAL - 1) % f)
      BY <1>0, EuclideanDivision
    <3> DEFINE t == (RECIPROCAL - 1) % f
               fs == f * s
    <3>2. fs \in Nat /\ t \in 0 .. f - 1 /\ RECIPROCAL - 1 = fs + t
      BY <3>1, MulMonotone
    <3> HIDE DEF t, fs
    <3>3. fs <= RECIPROCAL - 1 /\ RECIPROCAL - f <= fs
      BY <1>0, <3>2
    <3> QED
      BY <3>1, <3>3 DEF fs
  <2> HIDE DEF s
  <2>2. x * s \in Nat
    BY <1>0, <2>1, MulMonotone
  <2>3. q \in Nat /\ RECIPROCAL * q <= x * s /\ x * s < RECIPROCAL * q + RECIPROCAL
    <3> DEFINE xs == x * s
               rq == RECIPROCAL * q
               t  == xs % RECIPROCAL
    <3>1. q \in Nat /\ t \in 0 .. RECIPROCAL - 1 /\ xs = rq + t
      BY <1>0, <2>2, EuclideanDivision
    <3>2. rq \in Nat
      BY <1>0, <3>1, MulMonotone
    <3>3. xs \in Nat
      BY <2>2
    <3> HIDE DEF xs, rq, t, q
    <3>4. rq <= xs /\ xs < rq + RECIPROCAL
      BY <1>0, <3>1, <3>2, <3>3
    <3> QED
      BY <3>1, <3>4 DEF xs, rq
  <2> HIDE DEF q
  <2>4. f * q <= x /\ x < f * q + 2 * f
    BY <1>0, <2>1, <2>3, Reciprocals
  <2>5. DivMod(x, f) = IF rem >= f THEN <<q + 1, rem - f>> ELSE <<q, rem>>
    BY <1>2 DEF DivMod, s, q, rem
  <2>6. rem = x - f * q /\ rem \in 0 .. 2 * f - 1
    <3> DEFINE fq == f * q
    <3>1. fq = q * f /\ fq \in Nat
      BY <2>3, SMTT(30)
    <3>2. fq <= x /\ x < fq + 2 * f
      BY <2>4
    <3>3. rem = x - fq
      BY <3>1
    <3> HIDE DEF fq, rem
    <3>4. rem \in 0 .. 2 * f - 1
      BY <1>0, <3>1, <3>2, <3>3
    <3> QED
      BY <3>3, <3>4 DEF fq
  <2> HIDE DEF rem
  <2>7. CASE rem >= f
    <3>1. rem - f \in 0 .. f - 1 /\ q + 1 \in Int /\ x \in Int
      BY <1>0, <2>3, <2>6, <2>7
    <3>2. x = f * (q + 1) + (rem - f)
      BY <1>0, <2>3, <2>6, SMTT(30)
    <3>3. x \div f = q + 1 /\ x % f = rem - f
      BY <3>1, <3>2, Quotients
    <3> QED
      BY <2>5, <2>7, <3>3
  <2>8. CASE ~ (rem >= f)
    <3>1. rem \in 0 .. f - 1 /\ q \in Int /\ x \in Int
      BY <1>0, <2>3, <2>6, <2>8
    <3>2. x = f * q + rem
      BY <1>0, <2>3, <2>6, SMTT(30)
    <3>3. x \div f = q /\ x % f = rem
      BY <3>1, <3>2, Quotients
    <3> QED
      BY <2>5, <2>8, <3>3
  <2> QED
    BY <2>7, <2>8
<1> QED
  BY <1>1, <1>2

-----------------------------------------------------------------------------
(* What RansEncRenorm leaves of a state, and what a symbol makes of it.     *)
Shrunk(x, f) == IF x >= x_max(f) THEN x \div B ELSE x

PutIn(table, y, sym) ==
  LET f == Freq(table, sym)
  IN (y \div f) * TOTAL + (y % f) + table[sym]

(* One word at most: what is left is never so small or so large that the    *)
(* next state leaves the interval, and it is below the interval exactly     *)
(* when a word was emitted.                                                 *)
LEMMA Shrinks ==
  ASSUME NEW x \in States, NEW f \in 1 .. TOTAL
  PROVE  /\ Shrunk(x, f) \in Nat /\ Shrunk(x, f) < RECIPROCAL
         /\ f * M <= Shrunk(x, f) /\ Shrunk(x, f) < f * (M * B)
         /\ x >= x_max(f) <=> Shrunk(x, f) < L
         /\ x >= x_max(f) => x = Shrunk(x, f) * B + (x % B)
         /\ x % B \in Words
<1> DEFINE mf == f * M
           lb == L * B
           xb == x \div B
           r  == x % B
<1>0. /\ x \in Nat /\ L <= x /\ x < lb /\ lb \in Nat /\ f \in Nat \ {0}
      /\ f <= TOTAL
  BY Constants DEF States
<1>1. /\ mf \in Nat /\ mf >= 1 /\ mf <= L
  BY <1>0, Constants, SMTT(30)
<1>2. /\ x_max(f) = mf * B /\ f * (M * B) = mf * B
  <2>1. x_max(f) = M * B * f
    BY DEF x_max, M
  <2>2. M * B * f = (f * M) * B /\ f * (M * B) = (f * M) * B
    BY <1>0, Constants, SMTT(30)
  <2> QED
    BY <2>1, <2>2
<1>3. L <= mf * B /\ mf * B \in Nat
  <2>1. TOTAL * M <= B * M
    BY Constants, SMTT(30)
  <2>2. B * M <= (f * M) * B
    BY <1>0, Constants, SMTT(30)
  <2>3. mf * B \in Nat
    BY <1>1, Constants, MulMonotone
  <2> DEFINE a == TOTAL * M
             b == B * M
  <2>4. a <= b /\ b <= mf * B /\ L = a /\ b \in Nat
    BY <2>1, <2>2, Constants, SMTT(30)
  <2> HIDE DEF a, b
  <2> QED
    BY <2>3, <2>4, Constants
<1>4. xb \in Nat /\ r \in 0 .. B - 1 /\ x = B * xb + r
  BY <1>0, Constants, EuclideanDivision
<1>5. B * xb = xb * B /\ xb * B \in Nat
  BY <1>4, Constants, SMTT(30)
<1>6. xb < L
  <2>1. x < B * L
    BY <1>0, Constants, SMTT(30)
  <2> QED
    BY <1>0, <2>1, Constants, DivSmall
<1>7. CASE x >= x_max(f)
  <2>1. mf <= xb
    <3>1. ASSUME xb < mf PROVE FALSE
      <4>1. xb + 1 <= mf /\ xb + 1 \in Nat
        BY <1>1, <1>4, <3>1
      <4>2. B * (xb + 1) <= B * mf /\ B * (xb + 1) = B * xb + B /\ B * mf = mf * B
        BY <1>1, <1>4, <4>1, Constants, SMTT(30)
      <4> DEFINE bx == B * xb
                 bm == B * mf
      <4>3. bx \in Nat /\ bx + B <= bm /\ bm = mf * B
        BY <1>5, <4>2
      <4>4. x = bx + r /\ x >= mf * B
        BY <1>2, <1>4, <1>7
      <4> HIDE DEF bx, bm, r
      <4> QED
        BY <1>0, <1>3, <1>4, <4>3, <4>4, Constants
    <3> QED
      BY <1>1, <1>4, <3>1
  <2>2. Shrunk(x, f) = xb
    BY <1>7 DEF Shrunk
  <2>3. xb < mf * B /\ xb < RECIPROCAL
    <3> DEFINE m == mf * B
    <3>1. m \in Nat /\ L <= m /\ xb < L /\ xb \in Nat
      BY <1>3, <1>4, <1>6
    <3> HIDE DEF xb, m
    <3>2. xb < m /\ xb < RECIPROCAL
      BY <3>1, ConstantTypes
    <3> QED
      BY <3>2 DEF m
  <2>4. x = xb * B + (x % B)
    BY <1>4, <1>5
  <2>5. x % B \in Words
    BY <1>4 DEF Words
  <2> HIDE DEF mf, xb
  <2> QED
    BY <1>2, <1>4, <1>6, <1>7, <2>1, <2>2, <2>3, <2>4, <2>5 DEF mf
<1>8. CASE ~ (x >= x_max(f))
  <2>1. Shrunk(x, f) = x
    BY <1>8 DEF Shrunk
  <2>2. x < RECIPROCAL /\ ~ (x < L) /\ mf <= x
    <3> HIDE DEF lb, mf
    <3>1. lb <= RECIPROCAL
      BY Constants DEF lb
    <3> QED
      BY <1>0, <1>1, <3>1, Constants
  <2>3. x < mf * B
    <3> DEFINE mb == mf * B
    <3>1. mb \in Nat /\ ~ (x >= mb)
      BY <1>2, <1>3, <1>8
    <3> HIDE DEF mb
    <3> QED
      BY <1>0, <3>1 DEF mb
  <2>4. x % B \in Words
    BY <1>4 DEF Words
  <2> HIDE DEF mf
  <2> QED
    BY <1>0, <1>2, <1>8, <2>1, <2>2, <2>3, <2>4 DEF mf
<1> QED
  BY <1>7, <1>8

(* Rans64EncPut and Rans64Dec: the next state is in the interval, and holds *)
(* the symbol and what was left of the state before.                        *)
LEMMA PutHolds ==
  ASSUME NEW table \in Tables, NEW sym \in Occurring(table), NEW y \in Nat,
         Freq(table, sym) * M <= y, y < Freq(table, sym) * (M * B)
  PROVE  LET z == PutIn(table, y, sym)
             v == z % TOTAL
         IN  /\ z \in States
             /\ v \in Nat /\ Find(table, v) = sym
             /\ Freq(table, sym) * (z \div TOTAL) + v - table[sym] = y
<1> DEFINE f == Freq(table, sym)
           c == table[sym]
           d == table[sym + 1]
           q == y \div f
           r == y % f
           z == PutIn(table, y, sym)
<1>1. /\ c \in Nat /\ d \in Nat /\ d <= TOTAL /\ f = d - c
      /\ f \in Nat \ {0}
  BY TableFacts
<1>2. q \in Nat /\ r \in 0 .. f - 1 /\ y = f * q + r
  BY <1>1, EuclideanDivision
<1>3. f * M <= y /\ y < f * (M * B) /\ M \in Nat /\ M * B \in Nat \ {0}
      /\ L * B = TOTAL * (M * B)
  BY Constants, SMTT(30)
<1> DEFINE mb == M * B
<1>4. z = q * TOTAL + r + c
  BY DEF PutIn
<1>5. q < mb
  BY <1>1, <1>3, DivSmall
<1>6. M <= q
  <2>1. ASSUME q < M PROVE FALSE
    <3>1. f * (q + 1) <= f * M /\ f * (q + 1) = f * q + f /\ f * q \in Nat
          /\ f * M \in Nat
      <4>1. f \in Nat /\ q \in Nat /\ M \in Nat /\ q + 1 <= M
        BY <1>1, <1>2, <1>3, <2>1
      <4> HIDE DEF f, q
      <4> QED
        BY <4>1, SMTT(30)
    <3> DEFINE fq == f * q
               fm == f * M
    <3>2. fq \in Nat /\ fm \in Nat /\ fq + f <= fm /\ fm <= y /\ y = fq + r
      BY <1>2, <1>3, <3>1
    <3> HIDE DEF f, fq, fm, q, r
    <3> QED
      BY <1>1, <1>2, <3>2
  <2> HIDE DEF q
  <2> QED
    BY <1>2, <1>3, <2>1
<1> HIDE DEF f, c, d, q, r, z, mb
<1>7. r + c \in 0 .. TOTAL - 1 /\ c <= r + c /\ r + c < d
  BY <1>1, <1>2, Constants
<1> DEFINE v == r + c
<1>8. z = TOTAL * q + v /\ z \in Int
  <2>1. q * TOTAL = TOTAL * q /\ q * TOTAL \in Nat
    BY <1>2, Constants, SMTT(30)
  <2> DEFINE tq == TOTAL * q
  <2>2. tq \in Nat /\ z = tq + r + c
    BY <1>4, <2>1
  <2> HIDE DEF tq
  <2>3. z = tq + (r + c) /\ z \in Int
    BY <1>1, <1>2, <2>2
  <2> QED
    BY <2>3 DEF tq
<1>9. v \in 0 .. TOTAL - 1 /\ v \in Nat /\ c <= v /\ v < d
  BY <1>7, Constants
<1> HIDE DEF v
<1>a. z \div TOTAL = q /\ z % TOTAL = v
  <2>1. q \in Int
    BY <1>2
  <2> QED
    BY <1>8, <1>9, <2>1, ConstantTypes, Quotients
<1>b. z \in States
  <2>1. TOTAL * M <= TOTAL * q /\ TOTAL * q + TOTAL <= TOTAL * mb
        /\ TOTAL * q \in Nat /\ TOTAL * mb \in Nat
    <3>1. q + 1 <= mb /\ mb \in Nat /\ q + 1 \in Nat
      BY <1>2, <1>3, <1>5 DEF mb
    <3>2. TOTAL * (q + 1) <= TOTAL * mb /\ TOTAL * (q + 1) = TOTAL * q + TOTAL
      BY <1>2, <3>1, Constants, SMTT(30)
    <3> QED
      BY <1>2, <1>3, <1>6, <3>1, <3>2, Constants, MulMonotone
  <2> DEFINE tq == TOTAL * q
             lb == L * B
  <2>2. tq \in Nat /\ L <= tq /\ tq + TOTAL <= lb /\ lb \in Nat /\ z = tq + v
    BY <1>3, <1>8, <2>1, Constants DEF mb
  <2> HIDE DEF tq, lb
  <2>3. z \in L .. lb - 1
    BY <1>9, <2>2, Constants
  <2> QED
    BY <2>3 DEF lb, States
<1>c. Find(table, v) = sym
  BY <1>9, FindSymbol DEF c, d
<1>d. f * q + v - c = y
  <2> DEFINE fq == f * q
  <2>1. fq \in Nat /\ y = fq + r /\ v = r + c
    BY <1>1, <1>2, MulMonotone DEF v
  <2> HIDE DEF fq
  <2>2. fq + v - c = y
    BY <1>1, <1>2, <2>1
  <2> QED
    BY <2>2 DEF fq
<1> QED
  BY <1>9, <1>a, <1>b, <1>c, <1>d DEF f, c, z

-----------------------------------------------------------------------------
(* What the encoder holds of a block.                                       *)
Held == [encs : [1 .. WAYS -> States], buf : Seq(Words)]
Empty == [encs |-> Fresh, buf |-> << >>]

(* EncodeSymbol as a function of what the encoder holds.                    *)
Step(table, g, sym) ==
  LET x == g.encs[WAYS]
      f == Freq(table, sym)
  IN [encs |-> TurnBack(g.encs, PutIn(table, Shrunk(x, f), sym)),
      buf  |-> IF x >= x_max(f) THEN <<x % B>> \o g.buf ELSE g.buf]

LEMMA FreshHeld == Empty \in Held
<1>1. L \in States
  <2> DEFINE lb == L * B
  <2>1. lb \in Nat /\ L <= lb /\ L \in Nat \ {0}
    BY Constants
  <2>2. L + 1 <= lb
    BY Constants, SMTT(30)
  <2> HIDE DEF lb
  <2>3. L \in L .. lb - 1
    BY <2>1, <2>2
  <2> QED
    BY <2>3 DEF States, lb
<1>2. Fresh \in [1 .. WAYS -> States]
  BY <1>1 DEF Fresh
<1>3. << >> \in Seq(Words)
  OBVIOUS
<1> QED
  BY <1>2, <1>3 DEF Held, Empty

(* The rotation of the decoder undoes the rotation of the encoder.          *)
LEMMA Turns ==
  ASSUME NEW states \in [1 .. WAYS -> States], NEW x \in States
  PROVE  /\ TurnBack(states, x) \in [1 .. WAYS -> States]
         /\ TurnBack(states, x)[1] = x
         /\ TurnForward(TurnBack(states, x), states[WAYS]) = states
<1> DEFINE rest == SubSeq(states, 1, WAYS - 1)
           back == <<x>> \o rest
<1>1. WAYS \in Nat /\ 1 <= WAYS
  BY ConstantTypes
<1>2. states \in Seq(States) /\ Len(states) = WAYS
  BY <1>1
<1>3. /\ rest \in Seq(States) /\ Len(rest) = WAYS - 1
      /\ \A p \in 1 .. WAYS - 1 : rest[p] = states[p]
  BY <1>1, <1>2
<1> HIDE DEF rest
<1>4. /\ back \in Seq(States) /\ Len(back) = WAYS /\ back[1] = x
      /\ \A p \in 1 .. WAYS - 1 : back[p + 1] = states[p]
  BY <1>1, <1>3
<1> HIDE DEF back
<1>5. back \in [1 .. WAYS -> States]
  <2>1. back \in [1 .. Len(back) -> States]
    BY <1>4
  <2> QED
    BY <1>4, <2>1
<1> DEFINE again == Tail(back) \o <<states[WAYS]>>
<1>6. states[WAYS] \in States
  BY <1>1
<1>7. /\ again \in Seq(States) /\ Len(again) = WAYS
      /\ \A p \in 1 .. WAYS - 1 : again[p] = back[p + 1]
      /\ again[WAYS] = states[WAYS]
  <2>1. /\ Tail(back) \in Seq(States) /\ Len(Tail(back)) = WAYS - 1
        /\ \A p \in 1 .. WAYS - 1 : Tail(back)[p] = back[p + 1]
    BY <1>1, <1>4
  <2> DEFINE t == Tail(back)
  <2> HIDE DEF t
  <2> QED
    BY <1>1, <1>6, <2>1 DEF t
<1> HIDE DEF again
<1>8. \A p \in 1 .. WAYS : again[p] = states[p]
  <2>1. ASSUME NEW p \in 1 .. WAYS PROVE again[p] = states[p]
    <3>1. p = WAYS \/ p \in 1 .. WAYS - 1
      BY <1>1
    <3> QED
      BY <1>4, <1>7, <3>1
  <2> QED
    BY <2>1
<1>9. again = states
  BY <1>2, <1>7, <1>8
<1> QED
  BY <1>4, <1>5, <1>9 DEF back, rest, again, TurnBack, TurnForward

(* A symbol leaves the encoder with states in their interval.               *)
LEMMA StepHeld ==
  ASSUME NEW table \in Tables, NEW sym \in Occurring(table), NEW g \in Held
  PROVE  Step(table, g, sym) \in Held
<1> DEFINE x == g.encs[WAYS]
           f == Freq(table, sym)
           z == PutIn(table, Shrunk(x, f), sym)
<1>1. g.encs \in [1 .. WAYS -> States] /\ g.buf \in Seq(Words)
  BY DEF Held
<1>2. x \in States
  BY <1>1, ConstantTypes
<1>3. f \in 1 .. TOTAL
  <2>1. f \in Nat /\ f >= 1 /\ f <= TOTAL
    BY TableFacts, ConstantTypes
  <2> HIDE DEF f
  <2> QED
    BY <2>1, ConstantTypes
<1> HIDE DEF x, f
<1>4. /\ Shrunk(x, f) \in Nat /\ f * M <= Shrunk(x, f)
      /\ Shrunk(x, f) < f * (M * B) /\ x % B \in Words
  BY <1>2, <1>3, Shrinks
<1>5. z \in States
  BY <1>4, PutHolds DEF f
<1> HIDE DEF z
<1>6. TurnBack(g.encs, z) \in [1 .. WAYS -> States]
  BY <1>1, <1>5, Turns
<1>7. <<x % B>> \o g.buf \in Seq(Words)
  <2> DEFINE w == x % B
  <2>1. w \in Words /\ g.buf \in Seq(Words)
    BY <1>1, <1>4
  <2> HIDE DEF w
  <2>2. <<w>> \o g.buf \in Seq(Words)
    BY <2>1
  <2> QED
    BY <2>2 DEF w
<1>8. (IF x >= x_max(f) THEN <<x % B>> \o g.buf ELSE g.buf) \in Seq(Words)
  BY <1>1, <1>7
<1> QED
  BY <1>6, <1>8 DEF Step, Held, x, f, z

(* What DecodeSymbol does to states and words in front of it.               *)
Value(states) == states[1] % TOTAL
Lookup(table, states) == Find(table, Value(states))
Left(table, states) ==
  LET sym == Lookup(table, states)
  IN Freq(table, sym) * (states[1] \div TOTAL) + Value(states) - table[sym]

(* The decoder undoes a step of the encoder: the symbol, the states, and    *)
(* the word if the encoder emitted one.                                     *)
LEMMA StepUndone ==
  ASSUME NEW table \in Tables, NEW sym \in Occurring(table), NEW g \in Held
  PROVE  LET h == Step(table, g, sym)
             y == Left(table, h.encs)
         IN  /\ Value(h.encs) \in Nat
             /\ Lookup(table, h.encs) = sym
             /\ IF NeedsWord(y)
                  THEN \E word \in Words :
                         /\ h.buf = <<word>> \o g.buf
                         /\ TurnForward(h.encs, y * B + word) = g.encs
                  ELSE /\ h.buf = g.buf
                       /\ TurnForward(h.encs, y) = g.encs
<1> DEFINE x == g.encs[WAYS]
           f == Freq(table, sym)
           s == Shrunk(x, f)
           z == PutIn(table, s, sym)
           h == Step(table, g, sym)
<1>1. g.encs \in [1 .. WAYS -> States] /\ g.buf \in Seq(Words)
  BY DEF Held
<1>2. x \in States
  BY <1>1, ConstantTypes
<1>3. f \in 1 .. TOTAL
  <2>1. f \in Nat /\ f >= 1 /\ f <= TOTAL
    BY TableFacts, ConstantTypes
  <2> HIDE DEF f
  <2> QED
    BY <2>1, ConstantTypes
<1> HIDE DEF x
<1>4. /\ s \in Nat /\ f * M <= s /\ s < f * (M * B) /\ x % B \in Words
      /\ x >= x_max(f) <=> s < L
      /\ x >= x_max(f) => x = s * B + (x % B)
  BY <1>2, <1>3, Shrinks
<1>5. ~ (x >= x_max(f)) => s = x
  BY DEF Shrunk
<1> HIDE DEF s
<1>6. /\ z \in States /\ z % TOTAL \in Nat /\ Find(table, z % TOTAL) = sym
      /\ f * (z \div TOTAL) + (z % TOTAL) - table[sym] = s
  BY <1>4, PutHolds
<1> HIDE DEF f, z
<1>7. /\ h.encs = TurnBack(g.encs, z)
      /\ h.buf = IF x >= x_max(f) THEN <<x % B>> \o g.buf ELSE g.buf
  <2>1. h = [encs |-> TurnBack(g.encs, z),
             buf  |-> IF x >= x_max(f) THEN <<x % B>> \o g.buf ELSE g.buf]
    BY Zenon DEF Step, x, f, s, z
  <2> HIDE DEF h
  <2> QED
    BY <2>1, Zenon
<1> HIDE DEF h
<1>8. h.encs[1] = z /\ TurnForward(h.encs, x) = g.encs
  <2>1. TurnForward(h.encs, g.encs[WAYS]) = g.encs /\ h.encs[1] = z
    BY <1>1, <1>6, <1>7, Turns
  <2> QED
    BY <2>1 DEF x
<1>9. /\ Value(h.encs) \in Nat /\ Lookup(table, h.encs) = sym
      /\ Left(table, h.encs) = s
  BY <1>6, <1>8, Zenon DEF Value, Lookup, Left, f
<1>10. NeedsWord(s) <=> x >= x_max(f)
  BY <1>4, Zenon DEF NeedsWord
<1>11. CASE x >= x_max(f)
  <2>1. h.buf = <<x % B>> \o g.buf /\ x = s * B + (x % B) /\ x % B \in Words
    BY <1>4, <1>7, <1>11, Zenon
  <2>2. TurnForward(h.encs, s * B + (x % B)) = g.encs
    BY <1>8, <2>1, Zenon
  <2> QED
    BY <1>9, <1>10, <1>11, <2>1, <2>2, Zenon DEF h
<1>12. CASE ~ (x >= x_max(f))
  <2>1. h.buf = g.buf /\ TurnForward(h.encs, s) = g.encs
    BY <1>5, <1>7, <1>8, <1>12, Zenon
  <2> QED
    BY <1>9, <1>10, <1>12, <2>1, Zenon DEF h
<1> QED
  BY <1>11, <1>12

-----------------------------------------------------------------------------
(* The symbols of the block that begins at from.                            *)
Size(src, from) == IF Len(src) - from < BLOCK THEN Len(src) - from ELSE BLOCK

(* H is the history of the block: H[m] is what the encoder holds after the  *)
(* last m of its symbols.                                                   *)
Coding(table, src, from, H) ==
  /\ H \in [0 .. Size(src, from) -> Held]
  /\ H[0] = Empty
  /\ \A m \in 1 .. Size(src, from) :
       H[m] = Step(table, H[m - 1], src[from + Size(src, from) - m + 1])

HistoryOf(table, src, from) == CHOOSE H : Coding(table, src, from, H)

(* The history of every block that begins inside the file exists.           *)
LEMMA BlocksAreCoded ==
  ASSUME NEW table \in Tables, NEW src \in Seq(Occurring(table)),
         NEW from \in Nat, from < Len(src)
  PROVE  /\ Size(src, from) \in 1 .. BLOCK /\ from + Size(src, from) <= Len(src)
         /\ \A m \in 1 .. Size(src, from) :
              src[from + Size(src, from) - m + 1] \in Occurring(table)
         /\ Coding(table, src, from, HistoryOf(table, src, from))
<1> DEFINE len == Size(src, from)
           sym(m) == src[from + len - m + 1]
           step == [ m \in 1 .. len |-> [ g \in Held |-> Step(table, g, sym(m)) ] ]
<1>1. len \in Nat /\ len \in 1 .. BLOCK /\ from + len <= Len(src)
  BY ConstantTypes DEF Size
<1> HIDE DEF len
<1>2. ASSUME NEW m \in 1 .. len PROVE sym(m) \in Occurring(table)
  <2>1. from + len - m + 1 \in 1 .. Len(src)
    BY <1>1
  <2> QED
    BY <2>1, ElementFacts
<1> HIDE DEF sym
<1>3. \A m \in 1 .. len : \A g \in Held : Step(table, g, sym(m)) \in Held
  BY <1>2, StepHeld
<1>4. step \in [1 .. len -> [Held -> Held]]
  BY <1>3, Zenon
<1>5. Empty \in Held
  BY FreshHeld
<1>6. PICK H : H \in [0 .. len -> Held] /\ Recursive(len, Empty, step, H)
  <2> HIDE DEF step
  <2> QED
    BY <1>1, <1>4, <1>5, Recursion
<1>7. ASSUME NEW m \in 1 .. len PROVE H[m] = Step(table, H[m - 1], sym(m))
  <2>1. m \in 0 .. len /\ m # 0 /\ m - 1 \in 0 .. len
    BY <1>1
  <2>2. H[m] = step[m][H[m - 1]]
    <3> HIDE DEF step
    <3>1. H[m] = IF m = 0 THEN Empty ELSE step[m][H[m - 1]]
      BY <1>6, <2>1, Zenon DEF Recursive
    <3> QED
      BY <2>1, <3>1
  <2>3. H[m - 1] \in Held
    BY <1>6, <2>1
  <2> QED
    BY <2>2, <2>3, Zenon
<1>8. H[0] = Empty
  <2>1. 0 \in 0 .. len
    BY <1>1
  <2> HIDE DEF step
  <2> QED
    BY <1>6, <2>1, Zenon DEF Recursive
<1>9. Coding(table, src, from, H)
  BY <1>6, <1>7, <1>8, Zenon DEF Coding, len, sym
<1>10. Coding(table, src, from, HistoryOf(table, src, from))
  BY <1>9, Zenon DEF HistoryOf
<1> QED
  BY <1>1, <1>2, <1>10 DEF len, sym

-----------------------------------------------------------------------------
(* The words FlushBlock writes in front of those of the block.              *)
FlushOf(states) ==
  [ p \in 1 .. 2 * WAYS |->
      LET x == states[(p + 1) \div 2] IN IF p % 2 = 1 THEN x % B ELSE x \div B ]

LEMMA Flushes ==
  ASSUME NEW states \in [1 .. WAYS -> States]
  PROVE  /\ FlushOf(states) \in Seq(Words) /\ Len(FlushOf(states)) = 2 * WAYS
         /\ \A s \in 1 .. WAYS :
              FlushOf(states)[2 * s - 1] + B * FlushOf(states)[2 * s] = states[s]
<1> DEFINE F == FlushOf(states)
<1>1. WAYS \in Nat /\ 1 <= WAYS
  BY ConstantTypes
<1>2. ASSUME NEW x \in States
      PROVE  x % B \in Words /\ x \div B \in Words /\ (x % B) + B * (x \div B) = x
  <2> DEFINE q == x \div B
             r == x % B
             bq == B * q
  <2>1. x \in Nat /\ x < L * B
    BY Constants DEF States
  <2>2. q \in Nat /\ r \in 0 .. B - 1 /\ x = bq + r
    BY <2>1, ConstantTypes, EuclideanDivision
  <2>3. q < L
    <3>1. x < B * L
      BY <2>1, Constants, SMTT(30)
    <3> QED
      BY <2>1, <3>1, ConstantTypes, DivSmall
  <2> HIDE DEF q, r
  <2>4. bq \in Nat
    BY <2>2, ConstantTypes, MulMonotone
  <2> HIDE DEF bq
  <2>5. q \in Words /\ r \in Words /\ r + bq = x
    BY <2>2, <2>3, <2>4, ConstantTypes DEF Words
  <2> QED
    BY <2>5 DEF q, r, bq
<1>3. ASSUME NEW p \in 1 .. 2 * WAYS
      PROVE  F[p] \in Words
  <2>1. (p + 1) \div 2 \in 1 .. WAYS
    BY <1>1
  <2>2. states[(p + 1) \div 2] \in States
    BY <2>1
  <2> DEFINE x == states[(p + 1) \div 2]
  <2>3. x % B \in Words /\ x \div B \in Words
    BY <1>2, <2>2
  <2>4. F[p] = IF p % 2 = 1 THEN x % B ELSE x \div B
    BY Zenon DEF FlushOf
  <2> HIDE DEF x
  <2> QED
    BY <2>3, <2>4, Zenon
<1>4. F \in Seq(Words) /\ Len(F) = 2 * WAYS
  <2>1. F = [ p \in 1 .. 2 * WAYS |-> F[p] ]
    BY Zenon DEF FlushOf
  <2> HIDE DEF F
  <2>2. F \in [1 .. 2 * WAYS -> Words] /\ 2 * WAYS \in Nat
    BY <1>1, <1>3, <2>1
  <2> QED
    BY <2>2
<1>5. ASSUME NEW s \in 1 .. WAYS
      PROVE  F[2 * s - 1] + B * F[2 * s] = states[s]
  <2>1. /\ 2 * s - 1 \in 1 .. 2 * WAYS /\ 2 * s \in 1 .. 2 * WAYS
        /\ ((2 * s - 1) + 1) \div 2 = s /\ (2 * s + 1) \div 2 = s
        /\ (2 * s - 1) % 2 = 1 /\ (2 * s) % 2 # 1
    BY <1>1
  <2>2. F[2 * s - 1] = states[s] % B /\ F[2 * s] = states[s] \div B
    BY <2>1, Zenon DEF FlushOf
  <2>3. states[s] \in States
    OBVIOUS
  <2>4. (states[s] % B) + B * (states[s] \div B) = states[s]
    BY <1>2, <2>3
  <2> QED
    BY <2>2, <2>4
<1> QED
  BY <1>4, <1>5

(* The words of a block, as they are in the file.                           *)
BlockWords(table, src, from) ==
  FlushOf(HistoryOf(table, src, from)[Size(src, from)].encs)
    \o HistoryOf(table, src, from)[Size(src, from)].buf

LEMMA BlockHasWords ==
  ASSUME NEW table \in Tables, NEW src \in Seq(Occurring(table)),
         NEW from \in Nat, from < Len(src)
  PROVE  BlockWords(table, src, from) \in Seq(Words)
<1> DEFINE g == HistoryOf(table, src, from)[Size(src, from)]
<1>1. g \in Held
  BY BlocksAreCoded DEF Coding
<1>2. g.encs \in [1 .. WAYS -> States] /\ g.buf \in Seq(Words)
  BY <1>1 DEF Held
<1>3. FlushOf(g.encs) \in Seq(Words)
  BY <1>2, Flushes
<1> DEFINE fl == FlushOf(g.encs)
           bf == g.buf
<1>4. fl \in Seq(Words) /\ bf \in Seq(Words)
  BY <1>2, <1>3
<1> HIDE DEF fl, bf
<1>5. fl \o bf \in Seq(Words)
  BY <1>4
<1> QED
  BY <1>5 DEF BlockWords, fl, bf

-----------------------------------------------------------------------------
(* The words w are in the file behind its first p words.                    *)
StandsAt(words, p, w) ==
  /\ p + Len(w) <= Len(words)
  /\ \A q \in 1 .. Len(w) : words[p + q] = w[q]

(* What stands in a file stays there when words are appended.               *)
LEMMA StandsStill ==
  ASSUME NEW words \in Seq(Words), NEW more \in Seq(Words), NEW w \in Seq(Words),
         NEW p \in Nat, StandsAt(words, p, w)
  PROVE  StandsAt(words \o more, p, w)
<1>1. Len(w) \in Nat /\ Len(words) \in Nat /\ p + Len(w) <= Len(words)
  BY DEF StandsAt
<1>2. /\ Len(words \o more) >= Len(words) /\ Len(words \o more) \in Nat
      /\ \A q \in 1 .. Len(words) : (words \o more)[q] = words[q]
  OBVIOUS
<1> DEFINE all == words \o more
<1> HIDE DEF all
<1>3. ASSUME NEW q \in 1 .. Len(w) PROVE all[p + q] = w[q]
  <2>1. p + q \in 1 .. Len(words)
    BY <1>1
  <2>2. words[p + q] = w[q]
    BY DEF StandsAt
  <2> QED
    BY <1>2, <2>1, <2>2 DEF all
<1>4. p + Len(w) <= Len(all)
  BY <1>1, <1>2 DEF all
<1> QED
  BY <1>3, <1>4 DEF StandsAt, all

(* Words that are appended stand behind those that were there.              *)
LEMMA StandsBehind ==
  ASSUME NEW words \in Seq(Words), NEW w \in Seq(Words)
  PROVE  /\ StandsAt(words \o w, Len(words), w)
         /\ words \o w \in Seq(Words) /\ Len(words \o w) = Len(words) + Len(w)
  BY DEF StandsAt

(* Two strings of words, one behind the other.                              *)
LEMMA StandsApart ==
  ASSUME NEW words \in Seq(Words), NEW v \in Seq(Words), NEW w \in Seq(Words),
         NEW p \in Nat, StandsAt(words, p, v \o w)
  PROVE  StandsAt(words, p, v) /\ StandsAt(words, p + Len(v), w)
<1> DEFINE a == v \o w
<1>1. /\ Len(a) = Len(v) + Len(w) /\ Len(v) \in Nat /\ Len(w) \in Nat
      /\ \A q \in 1 .. Len(v) : a[q] = v[q]
      /\ \A q \in 1 .. Len(w) : a[Len(v) + q] = w[q]
  OBVIOUS
<1> HIDE DEF a
<1>2. p + Len(a) <= Len(words) /\ \A q \in 1 .. Len(a) : words[p + q] = a[q]
  BY DEF StandsAt, a
<1>3. ASSUME NEW q \in 1 .. Len(v) PROVE words[p + q] = v[q]
  <2>1. q \in 1 .. Len(a)
    BY <1>1
  <2> QED
    BY <1>1, <1>2, <2>1
<1>4. ASSUME NEW q \in 1 .. Len(w) PROVE words[(p + Len(v)) + q] = w[q]
  <2>1. Len(v) + q \in 1 .. Len(a) /\ p + (Len(v) + q) = (p + Len(v)) + q
    BY <1>1
  <2>2. words[p + (Len(v) + q)] = a[Len(v) + q]
    BY <1>2, <2>1
  <2> QED
    BY <1>1, <2>1, <2>2
<1>5. p + Len(v) <= Len(words) /\ (p + Len(v)) + Len(w) <= Len(words)
  BY <1>1, <1>2
<1> QED
  BY <1>3, <1>4, <1>5 DEF StandsAt

-----------------------------------------------------------------------------
(* The symbols in the first j blocks.                                       *)
Boundary(src, j) == IF j * BLOCK < Len(src) THEN j * BLOCK ELSE Len(src)

(* Block j stands behind S[j] words and ends at S[j + 1].                   *)
BlockAt(table, src, words, S, j) ==
  /\ j * BLOCK < Len(src)
  /\ StandsAt(words, S[j], BlockWords(table, src, j * BLOCK))
  /\ S[j + 1] = S[j] + Len(BlockWords(table, src, j * BLOCK))

(* The file holds J blocks and nothing else.                                *)
Written(table, src, words, done, J, S) ==
  /\ J \in Nat /\ S \in [0 .. J -> Nat]
  /\ S[0] = 0 /\ S[J] = Len(words)
  /\ done = Boundary(src, J)
  /\ \A j \in 0 .. J - 1 : BlockAt(table, src, words, S, j)

LEMMA NothingWritten ==
  ASSUME NEW table, NEW src \in Seq(Symbols)
  PROVE  Written(table, src, << >>, 0, 0, [ j \in 0 .. 0 |-> 0 ])
<1>1. 0 * BLOCK = 0 /\ Len(src) \in Nat /\ Len(<< >>) = 0
  BY ConstantTypes
<1>2. Boundary(src, 0) = 0
  BY <1>1 DEF Boundary
<1>3. 0 .. 0 - 1 = {}
  OBVIOUS
<1> QED
  BY <1>1, <1>2, <1>3 DEF Written

(* One block is complete and another one begins behind it.                  *)
LEMMA NextBoundary ==
  ASSUME NEW src \in Seq(Symbols), NEW j \in Nat, j * BLOCK < Len(src)
  PROVE  /\ j * BLOCK \in Nat
         /\ Boundary(src, j) = j * BLOCK
         /\ Boundary(src, j + 1) = j * BLOCK + Size(src, j * BLOCK)
<1> DEFINE b == j * BLOCK
<1>1. b \in Nat /\ (j + 1) * BLOCK = b + BLOCK
  BY ConstantTypes, SMTT(30)
<1>2. b < Len(src) /\ Len(src) \in Nat
  OBVIOUS
<1>3. Boundary(src, j) = b
  BY DEF Boundary
<1>4. Boundary(src, j + 1) = IF b + BLOCK < Len(src) THEN b + BLOCK ELSE Len(src)
  BY <1>1 DEF Boundary
<1> HIDE DEF b
<1>5. Boundary(src, j + 1) = b + Size(src, b)
  BY <1>1, <1>2, <1>4, ConstantTypes DEF Size
<1> QED
  BY <1>1, <1>3, <1>5 DEF b

LEMMA BlockWritten ==
  ASSUME NEW table \in Tables, NEW src \in Seq(Occurring(table)),
         NEW words \in Seq(Words), NEW done, done < Len(src),
         NEW J, NEW S, Written(table, src, words, done, J, S)
  PROVE  LET w == BlockWords(table, src, done)
         IN  \E R : Written(table, src, words \o w, done + Size(src, done), J + 1, R)
<1>0. /\ J \in Nat /\ S \in [0 .. J -> Nat] /\ S[0] = 0 /\ S[J] = Len(words)
      /\ done = Boundary(src, J)
      /\ \A j \in 0 .. J - 1 : BlockAt(table, src, words, S, j)
  BY DEF Written
<1>1. src \in Seq(Symbols)
  BY DEF Occurring
<1>2. done = J * BLOCK /\ J * BLOCK < Len(src)
  <2>1. ~ (Len(src) < Len(src))
    BY <1>1
  <2> QED
    BY <1>0, <2>1 DEF Boundary
<1>3. done \in Nat /\ done + Size(src, done) = Boundary(src, J + 1)
  BY <1>0, <1>1, <1>2, NextBoundary
<1> DEFINE w == BlockWords(table, src, done)
           all == words \o w
           R == [ j \in 0 .. J + 1 |-> IF j = J + 1 THEN Len(all) ELSE S[j] ]
<1>4. w \in Seq(Words)
  BY <1>3, BlockHasWords
<1> HIDE DEF w
<1>5. /\ all \in Seq(Words) /\ Len(all) = Len(words) + Len(w)
      /\ StandsAt(all, Len(words), w) /\ Len(all) \in Nat
  <2>1. all \in Seq(Words) /\ Len(all) = Len(words) + Len(w)
        /\ StandsAt(all, Len(words), w)
    BY <1>4, StandsBehind
  <2> HIDE DEF all
  <2> QED
    BY <2>1
<1> HIDE DEF all
<1>6. /\ R \in [0 .. J + 1 -> Nat] /\ R[J + 1] = Len(all)
      /\ \A j \in 0 .. J : R[j] = S[j]
  BY <1>0, <1>5
<1> HIDE DEF R
<1>7. R[0] = 0
  BY <1>0, <1>6
<1>8. ASSUME NEW j \in 0 .. J - 1 PROVE BlockAt(table, src, all, R, j)
  <2> DEFINE v == BlockWords(table, src, j * BLOCK)
  <2>1. /\ j * BLOCK < Len(src) /\ StandsAt(words, S[j], v)
        /\ S[j + 1] = S[j] + Len(v)
    BY <1>0 DEF BlockAt
  <2>2. j \in Nat /\ j \in 0 .. J /\ j + 1 \in 0 .. J
    BY <1>0
  <2>3. j * BLOCK \in Nat
    BY <1>1, <2>1, <2>2, NextBoundary
  <2>4. v \in Seq(Words)
    BY <2>1, <2>3, BlockHasWords
  <2> HIDE DEF v
  <2>5. S[j] \in Nat
    BY <1>0, <2>2
  <2>6. StandsAt(all, S[j], v)
    BY <1>4, <2>1, <2>4, <2>5, StandsStill DEF all
  <2>7. R[j] = S[j] /\ R[j + 1] = S[j + 1]
    BY <1>6, <2>2
  <2> QED
    BY <2>1, <2>6, <2>7 DEF BlockAt, v
<1>9. BlockAt(table, src, all, R, J)
  <2>1. R[J] = Len(words) /\ R[J + 1] = R[J] + Len(w)
    BY <1>0, <1>5, <1>6
  <2> QED
    BY <1>2, <1>5, <2>1 DEF BlockAt, w
<1>10. \A j \in 0 .. (J + 1) - 1 : BlockAt(table, src, all, R, j)
  <2>1. ASSUME NEW j \in 0 .. (J + 1) - 1 PROVE j = J \/ j \in 0 .. J - 1
    BY <1>0
  <2> QED
    BY <1>8, <1>9, <2>1
<1>11. J + 1 \in Nat
  BY <1>0
<1>12. Written(table, src, all, done + Size(src, done), J + 1, R)
  BY <1>3, <1>6, <1>7, <1>10, <1>11 DEF Written
<1> QED
  BY <1>12 DEF w, all

-----------------------------------------------------------------------------
(* What the encoder holds when left symbols of the block at from are still  *)
(* to be coded, and when the decoder stands before the last left of them.   *)
At(table, src, from, left) == HistoryOf(table, src, from)[left]

EncoderInside(table, src, from, left, states, emitted) ==
  /\ from \in Nat /\ from < Len(src) /\ left \in 0 .. Size(src, from)
  /\ states = At(table, src, from, Size(src, from) - left).encs
  /\ emitted = At(table, src, from, Size(src, from) - left).buf

DecoderInside(table, src, words, from, end, states, p, count, left) ==
  /\ from \in Nat /\ from < Len(src) /\ left \in 0 .. Size(src, from)
  /\ count = from + Size(src, from) - left
  /\ states = At(table, src, from, left).encs
  /\ p \in Nat \ {0} /\ StandsAt(words, p - 1, At(table, src, from, left).buf)
  /\ p + Len(At(table, src, from, left).buf) = end + 1

LEMMA HistoryFacts ==
  ASSUME NEW table \in Tables, NEW src \in Seq(Occurring(table)),
         NEW from \in Nat, from < Len(src), NEW m \in 0 .. Size(src, from)
  PROVE  /\ At(table, src, from, m) \in Held
         /\ At(table, src, from, m).encs \in [1 .. WAYS -> States]
         /\ At(table, src, from, m).buf \in Seq(Words)
         /\ m = 0 => At(table, src, from, m) = Empty
         /\ m > 0 =>
              LET sym == src[from + Size(src, from) - m + 1]
              IN  /\ sym \in Occurring(table)
                  /\ At(table, src, from, m)
                       = Step(table, At(table, src, from, m - 1), sym)
<1>1. /\ Size(src, from) \in 1 .. BLOCK
      /\ \A q \in 1 .. Size(src, from) :
           src[from + Size(src, from) - q + 1] \in Occurring(table)
      /\ Coding(table, src, from, HistoryOf(table, src, from))
  BY BlocksAreCoded
<1>2. At(table, src, from, m) \in Held
  BY <1>1 DEF Coding, At
<1>3. m = 0 => At(table, src, from, m) = Empty
  BY <1>1 DEF Coding, At
<1>4. ASSUME m > 0 PROVE m \in 1 .. Size(src, from)
  BY <1>1, <1>4, ConstantTypes
<1> QED
  BY <1>1, <1>2, <1>3, <1>4 DEF Coding, At, Held

LEMMA EncoderBegins ==
  ASSUME NEW table \in Tables, NEW src \in Seq(Occurring(table)),
         NEW from \in Nat, from < Len(src)
  PROVE  EncoderInside(table, src, from, Size(src, from), Fresh, << >>)
<1>1. /\ Size(src, from) \in Nat
  BY BlocksAreCoded, ConstantTypes
<1>2. At(table, src, from, 0) = Empty
  BY <1>1, HistoryFacts
<1>3. Size(src, from) - Size(src, from) = 0 /\ Size(src, from) \in 0 .. Size(src, from)
  BY <1>1
<1>4. Empty.encs = Fresh /\ Empty.buf = << >>
  BY DEF Empty
<1> QED
  BY <1>2, <1>3, <1>4 DEF EncoderInside

(* EncodeSymbol takes the encoder to the next entry of the history.         *)
LEMMA EncoderAdvances ==
  ASSUME NEW table \in Tables, NEW src \in Seq(Occurring(table)),
         NEW from, NEW left, left > 0, NEW states, NEW emitted,
         EncoderInside(table, src, from, left, states, emitted)
  PROVE  LET sym == src[from + left]
             g   == Step(table, [encs |-> states, buf |-> emitted], sym)
         IN  /\ sym \in Occurring(table)
             /\ states \in [1 .. WAYS -> States] /\ emitted \in Seq(Words)
             /\ EncoderInside(table, src, from, left - 1, g.encs, g.buf)
<1> DEFINE len == Size(src, from)
           m == len - left
           g == At(table, src, from, m)
           sym == src[from + left]
<1>1. /\ from \in Nat /\ from < Len(src) /\ left \in 0 .. len
      /\ states = g.encs /\ emitted = g.buf
  BY DEF EncoderInside
<1>2. len \in Nat
  BY <1>1, BlocksAreCoded, ConstantTypes
<1> HIDE DEF len
<1>3. /\ m \in 0 .. len /\ m + 1 \in 0 .. len /\ m + 1 > 0 /\ (m + 1) - 1 = m
      /\ from + len - (m + 1) + 1 = from + left
      /\ len - (left - 1) = m + 1 /\ left - 1 \in 0 .. len
  BY <1>1, <1>2
<1> HIDE DEF m
<1>4. g \in Held /\ g.encs \in [1 .. WAYS -> States] /\ g.buf \in Seq(Words)
  BY <1>1, <1>3, HistoryFacts DEF len
<1>5. g = [encs |-> states, buf |-> emitted]
  BY <1>1, <1>4 DEF Held
<1>6. /\ sym \in Occurring(table)
      /\ At(table, src, from, m + 1) = Step(table, g, sym)
  <2>1. /\ src[from + len - (m + 1) + 1] \in Occurring(table)
        /\ At(table, src, from, m + 1)
             = Step(table, At(table, src, from, (m + 1) - 1),
                    src[from + len - (m + 1) + 1])
    BY <1>1, <1>3, HistoryFacts DEF len
  <2> QED
    BY <1>3, <2>1
<1> HIDE DEF g, sym
<1>7. EncoderInside(table, src, from, left - 1, Step(table, g, sym).encs,
                    Step(table, g, sym).buf)
  BY <1>1, <1>3, <1>6 DEF EncoderInside, len
<1> QED
  BY <1>1, <1>4, <1>5, <1>6, <1>7 DEF sym

(* DecStartBlock reads the final states of the encoder.                     *)
LEMMA DecoderBegins ==
  ASSUME NEW table \in Tables, NEW src \in Seq(Occurring(table)),
         NEW words \in Seq(Words), NEW from \in Nat, from < Len(src),
         NEW start \in Nat,
         StandsAt(words, start, BlockWords(table, src, from))
  PROVE  LET p == start + 1
             states == [ s \in 1 .. WAYS |->
                           words[p + 2 * s - 2] + B * words[p + 2 * s - 1] ]
         IN  DecoderInside(table, src, words, from,
                           start + Len(BlockWords(table, src, from)), states,
                           p + 2 * WAYS, from, Size(src, from))
<1> DEFINE len == Size(src, from)
           g   == At(table, src, from, len)
           fl  == FlushOf(g.encs)
           bf  == g.buf
           p == start + 1
           states == [ s \in 1 .. WAYS |->
                         words[p + 2 * s - 2] + B * words[p + 2 * s - 1] ]
<1>1. len \in Nat /\ len \in 0 .. len
  BY BlocksAreCoded, ConstantTypes
<1>2. g.encs \in [1 .. WAYS -> States] /\ bf \in Seq(Words)
  BY <1>1, HistoryFacts
<1>3. BlockWords(table, src, from) = fl \o bf
  BY DEF BlockWords, At
<1> HIDE DEF len, g
<1>4. /\ fl \in Seq(Words) /\ Len(fl) = 2 * WAYS
      /\ \A s \in 1 .. WAYS : fl[2 * s - 1] + B * fl[2 * s] = g.encs[s]
  BY <1>2, Flushes
<1> HIDE DEF fl, bf
<1>5. StandsAt(words, start, fl) /\ StandsAt(words, start + Len(fl), bf)
  BY <1>2, <1>3, <1>4, StandsApart, ZenonT(60)
<1>6. /\ Len(fl \o bf) = 2 * WAYS + Len(bf) /\ Len(bf) \in Nat /\ WAYS \in Nat
      /\ 1 <= WAYS
  <2>1. fl \in Seq(Words) /\ bf \in Seq(Words) /\ Len(fl) = 2 * WAYS
    BY <1>2, <1>4
  <2>2. Len(fl \o bf) = Len(fl) + Len(bf) /\ Len(bf) \in Nat
    BY <2>1
  <2> QED
    BY <2>1, <2>2, ConstantTypes
<1>7. ASSUME NEW s \in 1 .. WAYS
      PROVE  words[p + 2 * s - 2] + B * words[p + 2 * s - 1] = g.encs[s]
  <2>1. /\ p + 2 * s - 2 = start + (2 * s - 1) /\ p + 2 * s - 1 = start + 2 * s
        /\ 2 * s - 1 \in 1 .. Len(fl) /\ 2 * s \in 1 .. Len(fl)
    BY <1>4, <1>6
  <2>2. words[start + (2 * s - 1)] = fl[2 * s - 1] /\ words[start + 2 * s] = fl[2 * s]
    BY <1>5, <2>1 DEF StandsAt
  <2>3. fl[2 * s - 1] + B * fl[2 * s] = g.encs[s]
    BY <1>4
  <2> QED
    BY <2>1, <2>2, <2>3, Zenon
<1>8. states = g.encs
  <2> DEFINE e == g.encs
  <2>1. e \in [1 .. WAYS -> States] /\ \A s \in 1 .. WAYS : states[s] = e[s]
    BY <1>2, <1>7
  <2> HIDE DEF e
  <2>2. states = [ s \in 1 .. WAYS |-> states[s] ]
    OBVIOUS
  <2> HIDE DEF states
  <2> QED
    BY <2>1, <2>2 DEF e
<1>9. /\ (p + 2 * WAYS) - 1 = start + Len(fl) /\ p + 2 * WAYS \in Nat \ {0}
      /\ (p + 2 * WAYS) + Len(bf) = (start + (2 * WAYS + Len(bf))) + 1
      /\ from = from + len - len
  BY <1>1, <1>4, <1>6
<1> HIDE DEF states, p
<1>10. DecoderInside(table, src, words, from, start + Len(fl \o bf), states,
                     p + 2 * WAYS, from, len)
  BY <1>1, <1>5, <1>6, <1>8, <1>9 DEF DecoderInside, g, len, bf
<1> QED
  BY <1>3, <1>10 DEF states, p, len

(* DecodeSymbol takes the decoder to the entry before.                      *)
LEMMA DecoderAdvances ==
  ASSUME NEW table \in Tables, NEW src \in Seq(Occurring(table)),
         NEW words \in Seq(Words), NEW from, NEW end \in Nat, NEW states, NEW p,
         NEW count, NEW left, left > 0,
         DecoderInside(table, src, words, from, end, states, p, count, left)
  PROVE  LET y == Left(table, states)
         IN  /\ count + 1 \in 1 .. Len(src)
             /\ Lookup(table, states) = src[count + 1]
             /\ IF NeedsWord(y)
                  THEN /\ p \in 1 .. Len(words)
                       /\ DecoderInside(table, src, words, from, end,
                            TurnForward(states, y * B + words[p]),
                            p + 1, count + 1, left - 1)
                  ELSE DecoderInside(table, src, words, from, end,
                            TurnForward(states, y), p, count + 1, left - 1)
<1> DEFINE len == Size(src, from)
           g == At(table, src, from, left - 1)
           h == At(table, src, from, left)
           sym == src[count + 1]
           y == Left(table, states)
<1>1. /\ from \in Nat /\ from < Len(src) /\ left \in 0 .. len
      /\ count = from + len - left
      /\ states = h.encs
      /\ p \in Nat \ {0} /\ StandsAt(words, p - 1, h.buf)
      /\ p + Len(h.buf) = end + 1
  BY DEF DecoderInside
<1>2. len \in Nat /\ from + len <= Len(src)
  BY <1>1, BlocksAreCoded, ConstantTypes
<1> HIDE DEF len
<1>3. /\ left - 1 \in 0 .. len /\ count + 1 \in 1 .. Len(src)
      /\ from + len - left + 1 = count + 1
      /\ count + 1 = from + len - (left - 1)
  BY <1>1, <1>2
<1>4. sym \in Occurring(table) /\ h = Step(table, g, sym)
  <2>1. /\ src[from + len - left + 1] \in Occurring(table)
        /\ h = Step(table, g, src[from + len - left + 1])
    BY <1>1, HistoryFacts DEF len
  <2> QED
    BY <1>3, <2>1
<1>5. g \in Held /\ g.buf \in Seq(Words)
  BY <1>1, <1>3, HistoryFacts DEF len
<1>6. DecoderInside(table, src, words, from, end, g.encs, p, count + 1, left - 1)
        <=> StandsAt(words, p - 1, g.buf) /\ p + Len(g.buf) = end + 1
  BY <1>1, <1>3 DEF DecoderInside, len
<1>7. p + 1 \in Nat \ {0} =>
        (DecoderInside(table, src, words, from, end, g.encs, p + 1, count + 1,
                       left - 1)
           <=> /\ StandsAt(words, (p + 1) - 1, g.buf)
               /\ (p + 1) + Len(g.buf) = end + 1)
  BY <1>1, <1>3 DEF DecoderInside, len
<1> HIDE DEF g, h, sym
<1>8. /\ Lookup(table, states) = sym
      /\ IF NeedsWord(y)
           THEN \E word \in Words :
                  /\ h.buf = <<word>> \o g.buf
                  /\ TurnForward(states, y * B + word) = g.encs
           ELSE h.buf = g.buf /\ TurnForward(states, y) = g.encs
  BY <1>1, <1>4, <1>5, StepUndone
<1> HIDE DEF y
<1>9. CASE NeedsWord(y)
  <2>1. PICK word \in Words : /\ h.buf = <<word>> \o g.buf
                              /\ TurnForward(states, y * B + word) = g.encs
    BY <1>8, <1>9
  <2> DEFINE gb == g.buf
             hb == h.buf
  <2>2. gb \in Seq(Words) /\ hb = <<word>> \o gb
    BY <1>5, <2>1
  <2> HIDE DEF gb, hb
  <2>3. /\ Len(hb) = Len(gb) + 1 /\ hb[1] = word /\ Len(gb) \in Nat
        /\ <<word>> \in Seq(Words) /\ Len(<<word>>) = 1
    BY <2>2
  <2>4. /\ p - 1 \in Nat /\ (p + 1) - 1 = (p - 1) + 1 /\ (p - 1) + 1 = p
        /\ p + 1 \in Nat \ {0}
    BY <1>1
  <2>5. StandsAt(words, p - 1, hb)
    BY <1>1 DEF hb
  <2>6. p \in 1 .. Len(words) /\ words[p] = word
    <3>1. (p - 1) + Len(hb) <= Len(words) /\ 1 \in 1 .. Len(hb)
      BY <2>3, <2>5 DEF StandsAt
    <3>2. words[(p - 1) + 1] = hb[1]
      BY <2>5, <3>1 DEF StandsAt
    <3>3. p \in 1 .. Len(words)
      BY <1>1, <2>3, <3>1
    <3> QED
      BY <2>3, <2>4, <3>2, <3>3
  <2>7. StandsAt(words, (p + 1) - 1, gb)
    <3>1. StandsAt(words, p - 1, <<word>> \o gb)
      BY <2>2, <2>5
    <3>2. StandsAt(words, (p - 1) + Len(<<word>>), gb)
      BY <2>2, <2>3, <2>4, <3>1, StandsApart
    <3> QED
      BY <2>3, <2>4, <3>2
  <2>8. (p + 1) + Len(gb) = end + 1
    <3>1. p + Len(hb) = end + 1
      BY <1>1 DEF hb
    <3> QED
      BY <1>1, <2>3, <3>1
  <2>9. DecoderInside(table, src, words, from, end, g.encs, p + 1, count + 1,
                      left - 1)
    BY <1>7, <2>4, <2>7, <2>8 DEF gb
  <2> QED
    BY <1>3, <1>8, <1>9, <2>1, <2>6, <2>9 DEF y, sym
<1>10. CASE ~ NeedsWord(y)
  <2>1. h.buf = g.buf /\ TurnForward(states, y) = g.encs
    BY <1>8, <1>10
  <2>2. DecoderInside(table, src, words, from, end, g.encs, p, count + 1, left - 1)
    BY <1>1, <1>6, <2>1
  <2> QED
    BY <1>3, <1>8, <1>10, <2>1, <2>2 DEF y, sym
<1> QED
  BY <1>9, <1>10

(* A decoder in a block has states in their interval, and a position in     *)
(* the file; at the end of the block it stands where the encoder started.   *)
LEMMA DecoderInsideFacts ==
  ASSUME NEW table \in Tables, NEW src \in Seq(Occurring(table)),
         NEW words \in Seq(Words), NEW from, NEW end \in Nat, NEW states, NEW p,
         NEW count, NEW left,
         DecoderInside(table, src, words, from, end, states, p, count, left)
  PROVE  /\ states \in [1 .. WAYS -> States]
         /\ p \in 1 .. Len(words) + 1 /\ left \in 0 .. BLOCK
         /\ count \in from .. Len(src)
         /\ left = 0 => states = Fresh /\ p = end + 1
                        /\ count = from + Size(src, from)
<1> DEFINE len == Size(src, from)
           h == At(table, src, from, left)
<1>1. /\ from \in Nat /\ from < Len(src) /\ left \in 0 .. len
      /\ count = from + len - left /\ states = h.encs
      /\ p \in Nat \ {0} /\ StandsAt(words, p - 1, h.buf)
      /\ p + Len(h.buf) = end + 1
  BY DEF DecoderInside
<1>2. len \in 1 .. BLOCK /\ from + len <= Len(src)
  BY <1>1, BlocksAreCoded
<1>3. /\ h.encs \in [1 .. WAYS -> States] /\ h.buf \in Seq(Words)
      /\ left = 0 => h = Empty
  BY <1>1, HistoryFacts
<1> HIDE DEF len, h
<1>4. p \in 1 .. Len(words) + 1
  <2>1. (p - 1) + Len(h.buf) <= Len(words) /\ Len(h.buf) \in Nat
    BY <1>1, <1>3 DEF StandsAt
  <2> QED
    BY <1>1, <2>1
<1>5. left \in 0 .. BLOCK /\ count \in from .. Len(src)
  BY <1>1, <1>2, ConstantTypes
<1>6. ASSUME left = 0
      PROVE  states = Fresh /\ p = end + 1 /\ count = from + len
  <2>1. h.encs = Fresh /\ h.buf = << >>
    BY <1>3, <1>6 DEF Empty
  <2>2. Len(h.buf) = 0
    BY <2>1
  <2> QED
    BY <1>1, <1>2, <1>6, <2>1, <2>2
<1> QED
  BY <1>1, <1>3, <1>4, <1>5, <1>6 DEF len

-----------------------------------------------------------------------------
(* The inductive invariant.                                                 *)
Plain ==
  /\ cum \in Tables /\ data \in Seq(Occurring(cum))
  /\ i \in 0 .. n /\ k \in 0 .. BLOCK
  /\ encs \in [1 .. WAYS -> States] /\ buf \in Seq(Words) /\ file \in Seq(Words)
  /\ phase \in {"block", "symbols", "written"}

EncoderHolds ==
  /\ \E J, S : Written(cum, data, file, i, J, S)
  /\ phase = "symbols" => EncoderInside(cum, data, i, k, encs, buf)
  /\ phase = "written" => i = n

DecoderWaits ==
  /\ words_p = 1 /\ decs = Fresh /\ out_buf = << >>
  /\ dec_left = 0 /\ dec_phase = "block"

DecodedSoFar ==
  /\ out_buf \in Seq(Symbols) /\ Len(out_buf) <= n
  /\ \A q \in 1 .. Len(out_buf) : out_buf[q] = data[q]

(* The decoder has finished j of the J blocks: it is about to start the     *)
(* next one, inside it, or at the end.                                      *)
Finished(J, S, j) ==
  \/ /\ dec_phase = "block" /\ dec_left = 0 /\ decs = Fresh
     /\ Len(out_buf) = Boundary(data, j) /\ words_p = S[j] + 1
  \/ /\ dec_phase = "symbols" /\ j \in 0 .. J - 1
     /\ DecoderInside(cum, data, file, j * BLOCK, S[j + 1], decs, words_p,
                      Len(out_buf), dec_left)
  \/ /\ dec_phase = "done" /\ dec_left = 0 /\ decs = Fresh
     /\ Len(out_buf) = n /\ words_p = Len(file) + 1

DecoderRuns ==
  /\ DecodedSoFar
  /\ \E J, S : /\ Written(cum, data, file, n, J, S)
               /\ \E j \in 0 .. J : Finished(J, S, j)

IInv ==
  /\ Plain /\ EncoderHolds
  /\ IF phase = "written" THEN DecoderRuns ELSE DecoderWaits

LEMMA DataIsSymbols ==
  ASSUME Plain
  PROVE  /\ data \in Seq(Symbols) /\ n \in Nat /\ n = Len(data)
         /\ cum \in Tables /\ data \in Seq(Occurring(cum)) /\ file \in Seq(Words)
         /\ Len(file) \in Nat
<1>1. data \in Seq(Occurring(cum)) /\ cum \in Tables /\ file \in Seq(Words)
  BY DEF Plain
<1>2. Occurring(cum) \subseteq Symbols
  BY DEF Occurring
<1>3. data \in Seq(Symbols)
  BY <1>1, <1>2
<1> QED
  BY <1>1, <1>3 DEF n

-----------------------------------------------------------------------------
LEMMA InitHolds == Init => IInv
<1> SUFFICES ASSUME Init PROVE IInv
  OBVIOUS
<1>1. /\ cum \in Tables
      /\ data \in UNION { [1 .. len -> Occurring(cum)] : len \in 1 .. MAX_SYMBOLS }
      /\ i = 0 /\ k = 0 /\ encs = Fresh /\ buf = << >> /\ file = << >>
      /\ phase = "block"
  BY DEF Init
<1>2. data \in Seq(Occurring(cum))
  <2>1. PICK len \in 1 .. MAX_SYMBOLS : data \in [1 .. len -> Occurring(cum)]
    BY <1>1, Zenon
  <2>2. len \in Nat
    BY BlockAssumption
  <2> QED
    BY <2>1, <2>2
<1>3. Fresh \in [1 .. WAYS -> States]
  BY FreshHeld DEF Held, Empty
<1>4. Plain
  <2>1. n \in Nat /\ << >> \in Seq(Words)
    BY <1>2 DEF n
  <2> QED
    BY <1>1, <1>2, <1>3, <2>1, ConstantTypes DEF Plain
<1>5. data \in Seq(Symbols)
  BY <1>4, DataIsSymbols
<1>6. EncoderHolds
  <2>1. Written(cum, data, << >>, 0, 0, [ j \in 0 .. 0 |-> 0 ])
    BY <1>5, NothingWritten
  <2>2. \E J, S : Written(cum, data, file, i, J, S)
    BY <1>1, <2>1, Zenon
  <2> QED
    BY <1>1, <2>2 DEF EncoderHolds
<1>7. DecoderWaits /\ phase # "written"
  BY DEF Init, DecoderWaits
<1> QED
  BY <1>4, <1>6, <1>7 DEF IInv

LEMMA StartBlockKeeps == IInv /\ StartBlock => IInv'
<1> SUFFICES ASSUME IInv, StartBlock PROVE IInv'
  OBVIOUS
<1>1. /\ phase = "block" /\ i < n /\ encs' = Fresh /\ buf' = << >>
      /\ k' = block_syms(i) /\ phase' = "symbols"
      /\ cum' = cum /\ data' = data /\ i' = i /\ file' = file
      /\ decVars' = decVars
  BY DEF StartBlock
<1>2. Plain /\ EncoderHolds /\ DecoderWaits
  BY <1>1 DEF IInv
<1>3. /\ cum \in Tables /\ data \in Seq(Occurring(cum)) /\ n \in Nat
      /\ n = Len(data) /\ i \in 0 .. n /\ i \in Nat /\ i < Len(data)
  BY <1>1, <1>2, DataIsSymbols DEF Plain
<1>4. k' = Size(data, i)
  BY <1>1, <1>3 DEF block_syms, Size
<1>5. Size(data, i) \in 1 .. BLOCK
  BY <1>3, BlocksAreCoded
<1>6. Plain'
  <2>1. Fresh \in [1 .. WAYS -> States] /\ << >> \in Seq(Words)
    BY FreshHeld DEF Held, Empty
  <2>2. k' \in 0 .. BLOCK
    BY <1>4, <1>5
  <2> QED
    BY <1>1, <1>2, <2>1, <2>2 DEF Plain, n
<1>7. EncoderHolds'
  <2>1. EncoderInside(cum, data, i, Size(data, i), Fresh, << >>)
    BY <1>3, EncoderBegins
  <2>2. EncoderInside(cum', data', i', k', encs', buf')
    BY <1>1, <1>4, <2>1
  <2>3. \E J, S : Written(cum', data', file', i', J, S)
    BY <1>1, <1>2 DEF EncoderHolds
  <2> QED
    BY <1>1, <2>2, <2>3, Zenon DEF EncoderHolds
<1>8. DecoderWaits'
  BY <1>1, <1>2 DEF DecoderWaits, decVars
<1> QED
  BY <1>1, <1>6, <1>7, <1>8 DEF IInv

(* The state a symbol is put into, and what is put.                         *)
LEMMA Puts ==
  ASSUME Plain, NEW sym \in Occurring(cum), NEW x \in States
  PROVE  LET f == Freq(cum, sym)
             y == IF x >= x_max(f) THEN x \div B ELSE x
         IN  /\ DivMod(y, f) = <<y \div f, y % f>>
             /\ y = Shrunk(x, f)
             /\ Put(y, sym) = PutIn(cum, Shrunk(x, f), sym)
<1> DEFINE f == Freq(cum, sym)
           y == Shrunk(x, f)
<1>1. cum \in Tables
  BY DEF Plain
<1>2. f \in 1 .. TOTAL /\ f \in Nat \ {0}
  <2>1. f \in Nat /\ f >= 1 /\ f <= TOTAL
    BY <1>1, TableFacts, ConstantTypes
  <2> HIDE DEF f
  <2> QED
    BY <2>1, ConstantTypes
<1> HIDE DEF f
<1>3. y \in Nat /\ y < RECIPROCAL
  BY <1>2, Shrinks
<1>4. y = IF x >= x_max(f) THEN x \div B ELSE x
  BY DEF Shrunk
<1> HIDE DEF y
<1>5. DivMod(y, f) = <<y \div f, y % f>>
  <2>1. y \in 0 .. RECIPROCAL - 1
    BY <1>3, ConstantTypes
  <2> QED
    BY <1>2, <2>1, Divides
<1>6. Put(y, sym) = PutIn(cum, y, sym)
  <2> DEFINE qr == DivMod(y, f)
  <2>1. qr[1] = y \div f /\ qr[2] = y % f
    <3> DEFINE a == y \div f
               b == y % f
    <3>1. qr = <<a, b>>
      BY <1>5
    <3> HIDE DEF qr, a, b
    <3>2. qr[1] = a /\ qr[2] = b
      BY <3>1
    <3> QED
      BY <3>2 DEF a, b
  <2>2. Put(y, sym) = qr[1] * TOTAL + qr[2] + cum[sym]
    BY Zenon DEF Put, f
  <2>3. PutIn(cum, y, sym) = (y \div f) * TOTAL + (y % f) + cum[sym]
    BY Zenon DEF PutIn, f
  <2> HIDE DEF qr
  <2> QED
    BY <2>1, <2>2, <2>3, Zenon
<1> QED
  BY <1>4, <1>5, <1>6, Zenon DEF y, f

LEMMA EncodeSymbolKeeps == IInv /\ EncodeSymbol => IInv'
<1> SUFFICES ASSUME IInv, EncodeSymbol PROVE IInv'
  OBVIOUS
<1> DEFINE sym == data[i + k]
           x   == encs[WAYS]
           f   == Freq(cum, sym)
           g   == Step(cum, [encs |-> encs, buf |-> buf], sym)
<1>1. /\ phase = "symbols" /\ k > 0 /\ k' = k - 1
      /\ phase' = phase /\ cum' = cum /\ data' = data /\ i' = i /\ file' = file
      /\ decVars' = decVars
  BY DEF EncodeSymbol
<1>2. IF x >= x_max(f)
        THEN /\ buf' = <<x % B>> \o buf
             /\ encs' = TurnBack(encs, Put(x \div B, sym))
        ELSE /\ encs' = TurnBack(encs, Put(x, sym))
             /\ buf' = buf
  BY DEF EncodeSymbol
<1>3. Plain /\ EncoderHolds /\ DecoderWaits
  BY <1>1 DEF IInv
<1>4. /\ cum \in Tables /\ data \in Seq(Occurring(cum)) /\ k \in 0 .. BLOCK
      /\ encs \in [1 .. WAYS -> States]
  BY <1>3 DEF Plain
<1>5. EncoderInside(cum, data, i, k, encs, buf)
  BY <1>1, <1>3 DEF EncoderHolds
<1>6. /\ sym \in Occurring(cum) /\ buf \in Seq(Words)
      /\ EncoderInside(cum, data, i, k - 1, g.encs, g.buf)
  BY <1>1, <1>4, <1>5, EncoderAdvances
<1>7. x \in States
  BY <1>4, ConstantTypes
<1>8. g \in Held
  <2>1. [encs |-> encs, buf |-> buf] \in Held
    BY <1>4, <1>6 DEF Held
  <2> HIDE DEF sym
  <2> QED
    BY <1>4, <1>6, <2>1, StepHeld
<1>9. encs' = g.encs /\ buf' = g.buf
  <2> HIDE DEF sym, x
  <2>1. LET y == IF x >= x_max(f) THEN x \div B ELSE x
        IN  Put(y, sym) = PutIn(cum, Shrunk(x, f), sym)
    BY <1>3, <1>6, <1>7, Puts
  <2> DEFINE z == PutIn(cum, Shrunk(x, f), sym)
  <2>2. g = [encs |-> TurnBack(encs, z),
             buf  |-> IF x >= x_max(f) THEN <<x % B>> \o buf ELSE buf]
    BY Zenon DEF Step, x
  <2>3. /\ g.encs = TurnBack(encs, z)
        /\ g.buf = IF x >= x_max(f) THEN <<x % B>> \o buf ELSE buf
    <3> HIDE DEF g, z
    <3> QED
      BY <2>2, Zenon
  <2> HIDE DEF g, z
  <2>4. CASE x >= x_max(f)
    <3>1. Put(x \div B, sym) = z
      BY <2>1, <2>4, Zenon DEF z
    <3> QED
      BY <1>2, <2>3, <2>4, <3>1, Zenon
  <2>5. CASE ~ (x >= x_max(f))
    <3>1. Put(x, sym) = z
      BY <2>1, <2>5, Zenon DEF z
    <3> QED
      BY <1>2, <2>3, <2>5, <3>1, Zenon
  <2> QED
    BY <2>4, <2>5
<1>10. Plain'
  <2>1. encs' \in [1 .. WAYS -> States] /\ buf' \in Seq(Words)
    BY <1>8, <1>9 DEF Held
  <2>2. k' \in 0 .. BLOCK
    BY <1>1, <1>4, ConstantTypes
  <2> QED
    BY <1>1, <1>3, <2>1, <2>2 DEF Plain, n
<1>11. EncoderHolds'
  <2>1. EncoderInside(cum', data', i', k', encs', buf')
    BY <1>1, <1>6, <1>9
  <2>2. \E J, S : Written(cum', data', file', i', J, S)
    BY <1>1, <1>3 DEF EncoderHolds
  <2> QED
    BY <1>1, <2>1, <2>2, Zenon DEF EncoderHolds
<1>12. DecoderWaits'
  BY <1>1, <1>3 DEF DecoderWaits, decVars
<1> QED
  BY <1>1, <1>10, <1>11, <1>12 DEF IInv

LEMMA FlushBlockKeeps == IInv /\ FlushBlock => IInv'
<1> SUFFICES ASSUME IInv, FlushBlock PROVE IInv'
  OBVIOUS
<1>1. /\ phase = "symbols" /\ k = 0 /\ phase' = "block"
      /\ file' = file \o FlushWords \o buf /\ i' = i + block_syms(i)
      /\ cum' = cum /\ data' = data /\ k' = k /\ encs' = encs /\ buf' = buf
      /\ decVars' = decVars
  BY DEF FlushBlock
<1>2. Plain /\ EncoderHolds /\ DecoderWaits
  BY <1>1 DEF IInv
<1>3. /\ cum \in Tables /\ data \in Seq(Occurring(cum)) /\ n \in Nat
      /\ n = Len(data) /\ file \in Seq(Words)
      /\ encs \in [1 .. WAYS -> States] /\ buf \in Seq(Words)
  BY <1>2, DataIsSymbols DEF Plain
<1>4. EncoderInside(cum, data, i, 0, encs, buf)
  BY <1>1, <1>2 DEF EncoderHolds
<1>5. i \in Nat /\ i < Len(data)
  BY <1>4 DEF EncoderInside
<1>6. /\ Size(data, i) \in 1 .. BLOCK /\ i + Size(data, i) <= Len(data)
      /\ block_syms(i) = Size(data, i)
  BY <1>3, <1>5, BlocksAreCoded DEF block_syms, Size
<1>7. file' = file \o BlockWords(cum, data, i)
  <2> DEFINE g == HistoryOf(cum, data, i)[Size(data, i)]
             fl == FlushOf(encs)
  <2>1. Size(data, i) - 0 = Size(data, i)
    BY <1>6, ConstantTypes
  <2>2. encs = g.encs /\ buf = g.buf
    BY <1>4, <2>1 DEF EncoderInside, At
  <2>3. FlushWords = fl
    BY Zenon DEF FlushWords, FlushOf
  <2>4. BlockWords(cum, data, i) = fl \o buf
    BY <2>2, Zenon DEF BlockWords
  <2>5. fl \in Seq(Words)
    BY <1>3, Flushes
  <2> HIDE DEF fl
  <2>6. (file \o fl) \o buf = file \o (fl \o buf)
    BY <1>3, <2>5
  <2> QED
    BY <1>1, <2>3, <2>4, <2>6, Zenon
<1>8. \E J, S : Written(cum', data', file', i', J, S)
  <2>1. PICK J, S : Written(cum, data, file, i, J, S)
    BY <1>2 DEF EncoderHolds
  <2>2. \E R : Written(cum, data, file \o BlockWords(cum, data, i),
                       i + Size(data, i), J + 1, R)
    BY <1>3, <1>5, <2>1, BlockWritten
  <2> QED
    BY <1>1, <1>6, <1>7, <2>2, Zenon
<1>9. EncoderHolds'
  BY <1>1, <1>8, Zenon DEF EncoderHolds
<1>10. Plain'
  <2>1. file' \in Seq(Words)
    <3> DEFINE w == BlockWords(cum, data, i)
    <3>1. w \in Seq(Words)
      BY <1>3, <1>5, BlockHasWords
    <3> HIDE DEF w
    <3>2. file \o w \in Seq(Words)
      BY <1>3, <3>1
    <3> QED
      BY <1>7, <3>2 DEF w
  <2>2. i' \in 0 .. n
    BY <1>1, <1>3, <1>5, <1>6, ConstantTypes
  <2> QED
    BY <1>1, <1>2, <2>1, <2>2 DEF Plain, n
<1>11. DecoderWaits'
  BY <1>1, <1>2 DEF DecoderWaits, decVars
<1> QED
  BY <1>1, <1>9, <1>10, <1>11 DEF IInv

LEMMA CloseFileKeeps == IInv /\ CloseFile => IInv'
<1> SUFFICES ASSUME IInv, CloseFile PROVE IInv'
  OBVIOUS
<1>1. /\ phase = "block" /\ i = n /\ phase' = "written"
      /\ cum' = cum /\ data' = data /\ i' = i /\ k' = k /\ encs' = encs
      /\ buf' = buf /\ file' = file /\ decVars' = decVars
  BY DEF CloseFile
<1>2. Plain /\ EncoderHolds /\ DecoderWaits
  BY <1>1 DEF IInv
<1>3. Plain' /\ n' = n
  BY <1>1, <1>2 DEF Plain, n
<1>4. PICK J, S : Written(cum, data, file, n, J, S)
  BY <1>1, <1>2 DEF EncoderHolds
<1>5. EncoderHolds'
  <2>1. \E R, S2 : Written(cum', data', file', i', R, S2)
    BY <1>1, <1>4, Zenon
  <2>2. phase' # "symbols" /\ i' = n'
    BY <1>1, <1>3
  <2> QED
    BY <2>1, <2>2, Zenon DEF EncoderHolds
<1>6. DecoderRuns'
  <2>1. /\ words_p' = 1 /\ decs' = Fresh /\ out_buf' = << >> /\ dec_left' = 0
        /\ dec_phase' = "block" /\ Len(<< >>) = 0
    BY <1>1, <1>2 DEF DecoderWaits, decVars
  <2>2. n \in Nat /\ n = Len(data) /\ 0 * BLOCK = 0
    BY <1>2, DataIsSymbols, ConstantTypes
  <2>3. DecodedSoFar'
    BY <1>3, <2>1, <2>2 DEF DecodedSoFar
  <2>4. J \in Nat /\ S[0] = 0 /\ 0 \in 0 .. J
    BY <1>4 DEF Written
  <2>5. Boundary(data, 0) = 0
    BY <2>2 DEF Boundary
  <2>6. Finished(J, S, 0)'
    BY <1>1, <2>1, <2>4, <2>5 DEF Finished
  <2>7. Written(cum', data', file', n', J, S)
    BY <1>1, <1>3, <1>4
  <2> QED
    BY <2>3, <2>4, <2>6, <2>7, Zenon DEF DecoderRuns
<1> QED
  BY <1>1, <1>3, <1>5, <1>6 DEF IInv

-----------------------------------------------------------------------------
(* The decoder leaves the encoder alone.                                    *)
LEMMA EncoderRests ==
  ASSUME IInv, UNCHANGED encVars
  PROVE  Plain' /\ EncoderHolds' /\ n' = n
<1>1. /\ cum' = cum /\ data' = data /\ i' = i /\ k' = k /\ encs' = encs
      /\ buf' = buf /\ file' = file /\ phase' = phase
  BY DEF encVars
<1>2. n' = n
  BY <1>1 DEF n
<1>3. Plain'
  BY <1>1, <1>2, Zenon DEF IInv, Plain
<1>4. EncoderHolds'
  BY <1>1, <1>2, Zenon DEF IInv, EncoderHolds
<1> QED
  BY <1>2, <1>3, <1>4

LEMMA DecStartBlockKeeps == IInv /\ DecStartBlock => IInv'
<1> SUFFICES ASSUME IInv, DecStartBlock PROVE IInv'
  OBVIOUS
<1> DEFINE states == [ s \in 1 .. WAYS |->
             file[words_p + 2 * s - 2] + B * file[words_p + 2 * s - 1] ]
<1>1. /\ phase = "written" /\ dec_phase = "block" /\ Len(out_buf) < n
      /\ decs' = states /\ words_p' = words_p + 2 * WAYS
      /\ dec_left' = block_syms(Len(out_buf)) /\ dec_phase' = "symbols"
      /\ encVars' = encVars /\ out_buf' = out_buf
  BY DEF DecStartBlock
<1>2. Plain' /\ EncoderHolds' /\ n' = n
  BY <1>1, EncoderRests
<1>3. Plain /\ DecoderRuns
  BY <1>1 DEF IInv
<1>4. PICK J, S : /\ Written(cum, data, file, n, J, S)
                  /\ \E j \in 0 .. J : Finished(J, S, j)
  BY <1>3 DEF DecoderRuns
<1>5. PICK j \in 0 .. J : Finished(J, S, j)
  BY <1>4
<1>6. Len(out_buf) = Boundary(data, j) /\ words_p = S[j] + 1
  BY <1>1, <1>5 DEF Finished
<1>7. /\ cum \in Tables /\ data \in Seq(Occurring(cum)) /\ n \in Nat
      /\ n = Len(data) /\ file \in Seq(Words) /\ data \in Seq(Symbols)
  BY <1>3, DataIsSymbols
<1>8. /\ J \in Nat /\ S \in [0 .. J -> Nat] /\ n = Boundary(data, J)
      /\ \A m \in 0 .. J - 1 : BlockAt(cum, data, file, S, m)
  BY <1>4 DEF Written
<1>9. j \in 0 .. J - 1 /\ j \in Nat
  <2>1. j # J
    BY <1>1, <1>6, <1>7, <1>8
  <2> QED
    BY <1>8, <2>1
<1> DEFINE from == j * BLOCK
<1>10. /\ from < Len(data) /\ StandsAt(file, S[j], BlockWords(cum, data, from))
       /\ S[j + 1] = S[j] + Len(BlockWords(cum, data, from))
  BY <1>8, <1>9 DEF BlockAt
<1>11. from \in Nat /\ Len(out_buf) = from
  BY <1>6, <1>7, <1>9, <1>10, NextBoundary
<1>12. S[j] \in Nat
  BY <1>8
<1>13. dec_left' = Size(data, from)
  BY <1>1, <1>7, <1>11 DEF block_syms, Size
<1> HIDE DEF from
<1>14. DecoderInside(cum, data, file, from, S[j + 1], states,
                     words_p + 2 * WAYS, from, Size(data, from))
  <2> DEFINE p == S[j] + 1
  <2>1. DecoderInside(cum, data, file, from,
          S[j] + Len(BlockWords(cum, data, from)),
          [ s \in 1 .. WAYS |-> file[p + 2 * s - 2] + B * file[p + 2 * s - 1] ],
          p + 2 * WAYS, from, Size(data, from))
    BY <1>7, <1>10, <1>11, <1>12, DecoderBegins
  <2> HIDE DEF p
  <2> QED
    BY <1>6, <1>10, <2>1, Zenon DEF p
<1> HIDE DEF states
<1>15. DecoderInside(cum', data', file', j * BLOCK, S[j + 1], decs', words_p',
                     Len(out_buf'), dec_left')
  BY <1>1, <1>11, <1>13, <1>14, Zenon DEF from, encVars
<1>16. Finished(J, S, j)'
  BY <1>1, <1>9, <1>15 DEF Finished
<1>17. DecodedSoFar'
  BY <1>1, <1>2, <1>3 DEF DecoderRuns, DecodedSoFar, encVars
<1>18. Written(cum', data', file', n', J, S)
  BY <1>1, <1>2, <1>4 DEF encVars
<1>19. DecoderRuns'
  BY <1>16, <1>17, <1>18, Zenon DEF DecoderRuns
<1> QED
  BY <1>1, <1>2, <1>19 DEF IInv, encVars

(* The word the decoder uses is in the file whenever it uses one.           *)
LEMMA DecodeSymbolKeeps == IInv /\ DecodeSymbol => IInv'
<1> SUFFICES ASSUME IInv, DecodeSymbol PROVE IInv'
  OBVIOUS
<1> DEFINE y == Left(cum, decs)
           sym == Lookup(cum, decs)
<1>1. /\ dec_phase = "symbols" /\ dec_left > 0 /\ dec_left' = dec_left - 1
      /\ encVars' = encVars /\ dec_phase' = dec_phase
  BY DEF DecodeSymbol
<1>2. /\ out_buf' = Append(out_buf, sym)
      /\ IF NeedsWord(y)
           THEN /\ \E word \in WordsAt(words_p) :
                     decs' = TurnForward(decs, y * B + word)
                /\ words_p' = words_p + 1
           ELSE /\ decs' = TurnForward(decs, y)
                /\ words_p' = words_p
  BY Zenon DEF DecodeSymbol, Left, Lookup, Value
<1> HIDE DEF y, sym
<1>3. phase = "written"
  BY <1>1 DEF IInv, DecoderWaits
<1>4. Plain' /\ EncoderHolds' /\ n' = n
  BY <1>1, EncoderRests
<1>5. Plain /\ DecoderRuns
  BY <1>3 DEF IInv
<1>6. PICK J, S : /\ Written(cum, data, file, n, J, S)
                  /\ \E j \in 0 .. J : Finished(J, S, j)
  BY <1>5 DEF DecoderRuns
<1>7. PICK j \in 0 .. J : Finished(J, S, j)
  BY <1>6
<1>8. /\ j \in 0 .. J - 1
      /\ DecoderInside(cum, data, file, j * BLOCK, S[j + 1], decs, words_p,
                       Len(out_buf), dec_left)
  BY <1>1, <1>7 DEF Finished
<1>9. /\ cum \in Tables /\ data \in Seq(Occurring(cum)) /\ n \in Nat
      /\ n = Len(data) /\ file \in Seq(Words) /\ data \in Seq(Symbols)
  BY <1>5, DataIsSymbols
<1>10. S[j + 1] \in Nat
  <2>1. J \in Nat /\ S \in [0 .. J -> Nat]
    BY <1>6 DEF Written
  <2>2. j + 1 \in 0 .. J
    BY <1>8, <2>1
  <2> QED
    BY <2>1, <2>2
<1> DEFINE from == j * BLOCK
           end == S[j + 1]
           count == Len(out_buf)
           Inside2(states, p) ==
             DecoderInside(cum, data, file, from, end, states, p, count + 1,
                           dec_left - 1)
<1>11. /\ count + 1 \in 1 .. Len(data)
       /\ sym = data[count + 1]
       /\ IF NeedsWord(y)
            THEN /\ words_p \in 1 .. Len(file)
                 /\ Inside2(TurnForward(decs, y * B + file[words_p]), words_p + 1)
            ELSE Inside2(TurnForward(decs, y), words_p)
  BY <1>1, <1>8, <1>9, <1>10, DecoderAdvances, ZenonT(60) DEF y, sym
<1>12. Inside2(decs', words_p')
  <2>1. CASE NeedsWord(y)
    <3>1. WordsAt(words_p) = {file[words_p]}
      BY <1>11, <2>1 DEF WordsAt
    <3>2. decs' = TurnForward(decs, y * B + file[words_p])
      BY <1>2, <2>1, <3>1, Zenon
    <3> HIDE DEF Inside2
    <3> QED
      BY <1>2, <1>11, <2>1, <3>2, Zenon
  <2>2. CASE ~ NeedsWord(y)
    <3> HIDE DEF Inside2
    <3> QED
      BY <1>2, <1>11, <2>2, Zenon
  <2> QED
    BY <2>1, <2>2
<1>13. /\ out_buf' \in Seq(Symbols) /\ Len(out_buf') = count + 1
       /\ \A q \in 1 .. Len(out_buf') : out_buf'[q] = data[q]
       /\ Len(out_buf') <= n
  <2>1. /\ out_buf \in Seq(Symbols) /\ count \in Nat
        /\ \A q \in 1 .. count : out_buf[q] = data[q]
    BY <1>5 DEF DecoderRuns, DecodedSoFar
  <2>2. sym \in Symbols
    BY <1>9, <1>11, ElementFacts
  <2>3. /\ out_buf' \in Seq(Symbols) /\ Len(out_buf') = Len(out_buf) + 1
        /\ out_buf'[Len(out_buf) + 1] = sym
        /\ \A q \in 1 .. Len(out_buf) : out_buf'[q] = out_buf[q]
    BY <1>2, <2>1, <2>2, AppendFacts
  <2>4. ASSUME NEW q \in 1 .. Len(out_buf') PROVE out_buf'[q] = data[q]
    <3>1. q = count + 1 \/ q \in 1 .. count
      BY <2>1, <2>3
    <3> QED
      BY <1>11, <2>1, <2>3, <3>1
  <2> QED
    BY <1>9, <1>11, <2>3, <2>4
<1>14. DecodedSoFar'
  BY <1>1, <1>4, <1>13, Zenon DEF DecodedSoFar, encVars
<1>15. DecoderInside(cum', data', file', j * BLOCK, S[j + 1], decs', words_p',
                     Len(out_buf'), dec_left')
  BY <1>1, <1>12, <1>13, Zenon DEF encVars
<1>16. Finished(J, S, j)'
  BY <1>1, <1>8, <1>15, Zenon DEF Finished
<1>17. Written(cum', data', file', n', J, S)
  BY <1>1, <1>4, <1>6, Zenon DEF encVars
<1>18. DecoderRuns'
  BY <1>14, <1>16, <1>17, Zenon DEF DecoderRuns
<1> QED
  BY <1>1, <1>3, <1>4, <1>18 DEF IInv, encVars

(* At the end of a block the decoder is at the start of the next one, or at *)
(* the end of the file.                                                     *)
LEMMA DecEndBlockKeeps == IInv /\ DecEndBlock => IInv'
<1> SUFFICES ASSUME IInv, DecEndBlock PROVE IInv'
  OBVIOUS
<1>1. /\ dec_phase = "symbols" /\ dec_left = 0
      /\ dec_phase' = IF Len(out_buf) = n THEN "done" ELSE "block"
      /\ encVars' = encVars /\ words_p' = words_p /\ decs' = decs
      /\ out_buf' = out_buf /\ dec_left' = dec_left
  BY DEF DecEndBlock
<1>2. phase = "written"
  BY <1>1 DEF IInv, DecoderWaits
<1>3. Plain' /\ EncoderHolds' /\ n' = n
  BY <1>1, EncoderRests
<1>4. Plain /\ DecoderRuns
  BY <1>2 DEF IInv
<1>5. PICK J, S : /\ Written(cum, data, file, n, J, S)
                  /\ \E j \in 0 .. J : Finished(J, S, j)
  BY <1>4 DEF DecoderRuns
<1>6. PICK j \in 0 .. J : Finished(J, S, j)
  BY <1>5
<1>7. /\ j \in 0 .. J - 1
      /\ DecoderInside(cum, data, file, j * BLOCK, S[j + 1], decs, words_p,
                       Len(out_buf), dec_left)
  BY <1>1, <1>6 DEF Finished
<1>8. /\ cum \in Tables /\ data \in Seq(Occurring(cum)) /\ n \in Nat
      /\ n = Len(data) /\ file \in Seq(Words) /\ data \in Seq(Symbols)
  BY <1>4, DataIsSymbols
<1>9. /\ J \in Nat /\ S \in [0 .. J -> Nat] /\ S[J] = Len(file)
      /\ n = Boundary(data, J)
      /\ \A m \in 0 .. J - 1 : BlockAt(cum, data, file, S, m)
  BY <1>5 DEF Written
<1>10. S[j + 1] \in Nat /\ j \in Nat /\ j + 1 \in 0 .. J
  <2>1. j + 1 \in 0 .. J
    BY <1>7, <1>9
  <2> QED
    BY <1>7, <1>9, <2>1
<1>11. /\ decs = Fresh /\ words_p = S[j + 1] + 1
       /\ Len(out_buf) = j * BLOCK + Size(data, j * BLOCK)
  BY <1>1, <1>7, <1>8, <1>10, DecoderInsideFacts
<1>12. Len(out_buf) = Boundary(data, j + 1)
  <2>1. j * BLOCK < Len(data)
    BY <1>7, <1>9 DEF BlockAt
  <2> QED
    BY <1>8, <1>10, <1>11, <2>1, NextBoundary
<1>13. CASE Len(out_buf) = n
  <2>1. j + 1 = J
    <3>1. ASSUME j + 1 \in 0 .. J - 1 PROVE FALSE
      <4>1. (j + 1) * BLOCK < Len(data)
        BY <1>9, <3>1 DEF BlockAt
      <4>2. Boundary(data, j + 1) < Len(data)
        BY <4>1 DEF Boundary
      <4> QED
        BY <1>8, <1>12, <1>13, <4>2
    <3> QED
      BY <1>7, <1>9, <3>1
  <2>2. Finished(J, S, J)'
    BY <1>1, <1>3, <1>9, <1>11, <1>13, <2>1 DEF Finished, encVars
  <2>3. J \in 0 .. J
    BY <1>9
  <2> QED
    <3>1. DecodedSoFar'
      BY <1>1, <1>3, <1>4 DEF DecoderRuns, DecodedSoFar, encVars
    <3>2. Written(cum', data', file', n', J, S)
      BY <1>1, <1>3, <1>5, Zenon DEF encVars
    <3>3. DecoderRuns'
      BY <2>2, <2>3, <3>1, <3>2, Zenon DEF DecoderRuns
    <3> QED
      BY <1>1, <1>2, <1>3, <3>3 DEF IInv, encVars
<1>14. CASE Len(out_buf) # n
  <2>1. Finished(J, S, j + 1)'
    BY <1>1, <1>11, <1>12, <1>14 DEF Finished, encVars
  <2>2. DecodedSoFar'
    BY <1>1, <1>3, <1>4 DEF DecoderRuns, DecodedSoFar, encVars
  <2>3. Written(cum', data', file', n', J, S)
    BY <1>1, <1>3, <1>5, Zenon DEF encVars
  <2>4. DecoderRuns'
    BY <1>10, <2>1, <2>2, <2>3, Zenon DEF DecoderRuns
  <2> QED
    BY <1>1, <1>2, <1>3, <2>4 DEF IInv, encVars
<1> QED
  BY <1>13, <1>14

LEMMA StutterKeeps == IInv /\ UNCHANGED vars => IInv'
<1> SUFFICES ASSUME IInv, UNCHANGED vars PROVE IInv'
  OBVIOUS
<1>1. UNCHANGED encVars /\ UNCHANGED decVars
  BY DEF vars
<1>2. Plain' /\ EncoderHolds' /\ n' = n
  BY <1>1, EncoderRests
<1>3. /\ cum' = cum /\ data' = data /\ file' = file /\ phase' = phase
      /\ words_p' = words_p /\ decs' = decs /\ out_buf' = out_buf
      /\ dec_left' = dec_left /\ dec_phase' = dec_phase
  BY <1>1 DEF encVars, decVars
<1>4. DecoderWaits => DecoderWaits'
  BY <1>3 DEF DecoderWaits
<1>5. ASSUME DecoderRuns PROVE DecoderRuns'
  <2>1. PICK J, S : /\ Written(cum, data, file, n, J, S)
                    /\ \E j \in 0 .. J : Finished(J, S, j)
    BY <1>5 DEF DecoderRuns
  <2>2. PICK j \in 0 .. J : Finished(J, S, j)
    BY <2>1
  <2>3. Finished(J, S, j)'
    BY <1>2, <1>3, <2>2, Zenon DEF Finished
  <2>4. DecodedSoFar'
    BY <1>2, <1>3, <1>5, Zenon DEF DecoderRuns, DecodedSoFar
  <2>5. Written(cum', data', file', n', J, S)
    BY <1>2, <1>3, <2>1, Zenon
  <2> QED
    BY <2>3, <2>4, <2>5, Zenon DEF DecoderRuns
<1> QED
  BY <1>2, <1>3, <1>4, <1>5, Zenon DEF IInv

-----------------------------------------------------------------------------
(* The histories describe every state of the coder and of the decoder.      *)
THEOREM Invariance == Spec => []IInv
<1>1. Init => IInv
  BY InitHolds
<1>2. IInv /\ [Next]_vars => IInv'
  BY StartBlockKeeps, EncodeSymbolKeeps, FlushBlockKeeps, CloseFileKeeps,
     DecStartBlockKeeps, DecodeSymbolKeeps, DecEndBlockKeeps, StutterKeeps
     DEF Next
<1> QED
  BY <1>1, <1>2, PTL DEF Spec

(* A decoder has states in their interval and a position in the file.       *)
LEMMA FinishedTyped ==
  ASSUME Plain, DecoderRuns
  PROVE  /\ words_p \in 1 .. Len(file) + 1
         /\ decs \in [1 .. WAYS -> States] /\ dec_left \in 0 .. BLOCK
         /\ dec_phase \in {"block", "symbols", "done"}
         /\ dec_phase \in {"symbols", "done"} /\ dec_left = 0 => decs = Fresh
         /\ dec_phase = "done" => Len(out_buf) = n /\ words_p = Len(file) + 1
<1>1. PICK J, S : /\ Written(cum, data, file, n, J, S)
                  /\ \E j \in 0 .. J : Finished(J, S, j)
  BY DEF DecoderRuns
<1>2. PICK j \in 0 .. J : Finished(J, S, j)
  BY <1>1
<1>3. /\ cum \in Tables /\ data \in Seq(Occurring(cum)) /\ n \in Nat
      /\ n = Len(data) /\ file \in Seq(Words) /\ Len(file) \in Nat
  BY DataIsSymbols
<1>4. /\ J \in Nat /\ S \in [0 .. J -> Nat] /\ S[J] = Len(file)
      /\ \A m \in 0 .. J - 1 : BlockAt(cum, data, file, S, m)
  BY <1>1 DEF Written
<1>5. Fresh \in [1 .. WAYS -> States]
  BY FreshHeld DEF Held, Empty
<1>6. S[j] + 1 \in 1 .. Len(file) + 1
  <2>1. CASE j = J
    BY <1>3, <1>4, <2>1
  <2>2. CASE j # J
    <3>1. j \in 0 .. J - 1 /\ S[j] \in Nat /\ j \in Nat
      BY <1>4, <2>2
    <3> DEFINE w == BlockWords(cum, data, j * BLOCK)
    <3>2. j * BLOCK < Len(data) /\ StandsAt(file, S[j], w)
      BY <1>4, <3>1 DEF BlockAt
    <3>3. j * BLOCK \in Nat
      BY <3>1, ConstantTypes, MulMonotone
    <3>4. w \in Seq(Words)
      BY <1>3, <3>2, <3>3, BlockHasWords
    <3> HIDE DEF w
    <3>5. S[j] + Len(w) <= Len(file) /\ Len(w) \in Nat
      BY <3>2, <3>4 DEF StandsAt
    <3> QED
      BY <1>3, <3>1, <3>5
  <2> QED
    BY <2>1, <2>2
<1>7. BLOCK \in Nat /\ 0 \in 0 .. BLOCK
  BY ConstantTypes
<1>8. CASE dec_phase = "block"
  <2>1. words_p = S[j] + 1 /\ decs = Fresh /\ dec_left = 0
    BY <1>2, <1>8 DEF Finished
  <2> QED
    BY <1>5, <1>6, <1>7, <1>8, <2>1
<1>9. CASE dec_phase = "symbols"
  <2>1. /\ j \in 0 .. J - 1
        /\ DecoderInside(cum, data, file, j * BLOCK, S[j + 1], decs, words_p,
                         Len(out_buf), dec_left)
    BY <1>2, <1>9 DEF Finished
  <2>2. S[j + 1] \in Nat
    <3>1. j + 1 \in 0 .. J
      BY <1>4, <2>1
    <3> QED
      BY <1>4, <3>1
  <2> DEFINE from  == j * BLOCK
             end   == S[j + 1]
             count == Len(out_buf)
  <2>2a. DecoderInside(cum, data, file, from, end, decs, words_p, count, dec_left)
         /\ end \in Nat
    BY <2>1, <2>2
  <2> HIDE DEF from, end, count
  <2>2b. cum \in Tables /\ data \in Seq(Occurring(cum)) /\ file \in Seq(Words)
    BY <1>3
  <2>3. /\ decs \in [1 .. WAYS -> States] /\ words_p \in 1 .. Len(file) + 1
        /\ dec_left \in 0 .. BLOCK /\ (dec_left = 0 => decs = Fresh)
    <3>1. /\ decs \in [1 .. WAYS -> States] /\ words_p \in 1 .. Len(file) + 1
          /\ dec_left \in 0 .. BLOCK
      BY <2>2a, <2>2b, DecoderInsideFacts
    <3>2. ASSUME dec_left = 0
          PROVE  /\ decs = Fresh /\ words_p = end + 1
                 /\ count = from + Size(data, from)
      BY <2>2a, <2>2b, <3>2, DecoderInsideFacts
    <3> QED
      BY <3>1, <3>2
  <2> QED
    BY <1>9, <2>3
<1>10. CASE dec_phase = "done"
  <2>1. /\ words_p = Len(file) + 1 /\ decs = Fresh /\ dec_left = 0
        /\ Len(out_buf) = n
    BY <1>2, <1>10 DEF Finished
  <2>2. words_p \in 1 .. Len(file) + 1
    BY <1>3, <2>1
  <2> QED
    BY <1>5, <1>7, <1>10, <2>1, <2>2
<1>11. dec_phase \in {"block", "symbols", "done"}
  BY <1>2 DEF Finished
<1> QED
  BY <1>8, <1>9, <1>10, <1>11

(* Both coders keep every state in L .. L * B - 1, the words they exchange  *)
(* fit a word, and the decoder never reads behind the file.                 *)
THEOREM TypeCorrect == Spec => []TypeOK
<1>1. ASSUME IInv PROVE TypeOK
  <2>1. Plain
    BY <1>1 DEF IInv
  <2>2. CASE phase = "written"
    <3>1. DecoderRuns
      BY <1>1, <2>2 DEF IInv
    <3>2. out_buf \in Seq(Symbols)
      BY <3>1 DEF DecoderRuns, DecodedSoFar
    <3>3. /\ words_p \in 1 .. Len(file) + 1
          /\ decs \in [1 .. WAYS -> States] /\ dec_left \in 0 .. BLOCK
          /\ dec_phase \in {"block", "symbols", "done"}
      BY <2>1, <3>1, FinishedTyped
    <3> QED
      BY <2>1, <3>2, <3>3, Zenon DEF TypeOK, Plain, States, Words
  <2>3. CASE phase # "written"
    <3>1. DecoderWaits
      BY <1>1, <2>3 DEF IInv
    <3>2. Fresh \in [1 .. WAYS -> States] /\ << >> \in Seq(Symbols)
      BY FreshHeld DEF Held, Empty
    <3>3. Len(file) \in Nat /\ 1 \in 1 .. Len(file) + 1 /\ 0 \in 0 .. BLOCK
      BY <2>1, DataIsSymbols, ConstantTypes
    <3>4. /\ words_p \in 1 .. Len(file) + 1
          /\ decs \in [1 .. WAYS -> States] /\ dec_left \in 0 .. BLOCK
          /\ dec_phase \in {"block", "symbols", "done"} /\ out_buf \in Seq(Symbols)
      BY <3>1, <3>2, <3>3, Zenon DEF DecoderWaits
    <3> QED
      BY <2>1, <3>4, Zenon DEF TypeOK, Plain, States, Words
  <2> QED
    BY <2>2, <2>3
<1> QED
  BY <1>1, Invariance, PTL

(* Rans64EncPut_no_div: the reciprocal and one correction divide every      *)
(* state a symbol is put into, for every frequency.                         *)
THEOREM OneCorrectionDivides == Spec => []DivisionFree
<1>1. ASSUME IInv PROVE DivisionFree
  <2> SUFFICES ASSUME phase = "symbols", k > 0
               PROVE  LET freq == Freq(cum, data[i + k])
                          x    == IF encs[WAYS] >= x_max(freq)
                                    THEN encs[WAYS] \div B ELSE encs[WAYS]
                      IN DivMod(x, freq) = <<x \div freq, x % freq>>
    BY DEF DivisionFree
  <2>1. Plain /\ EncoderInside(cum, data, i, k, encs, buf)
    BY <1>1 DEF IInv, EncoderHolds
  <2>2. /\ cum \in Tables /\ data \in Seq(Occurring(cum))
        /\ encs \in [1 .. WAYS -> States]
    BY <2>1 DEF Plain
  <2>3. data[i + k] \in Occurring(cum)
    BY <2>1, <2>2, EncoderAdvances
  <2>4. encs[WAYS] \in States
    BY <2>2, ConstantTypes
  <2> DEFINE sym == data[i + k]
             x   == encs[WAYS]
  <2> HIDE DEF sym, x
  <2>5. sym \in Occurring(cum) /\ x \in States
    BY <2>3, <2>4 DEF sym, x
  <2>6. LET f == Freq(cum, sym)
            y == IF x >= x_max(f) THEN x \div B ELSE x
        IN  DivMod(y, f) = <<y \div f, y % f>>
    BY <2>1, <2>5, Puts
  <2> QED
    BY <2>6, Zenon DEF sym, x
<1> QED
  BY <1>1, Invariance, PTL

(* Every block is decoded to what was encoded, and every block ends where   *)
(* the next one starts, although neither its length nor its end is in the   *)
(* file.                                                                    *)
THEOREM Lossless == Spec => []BlocksMeet
<1>1. ASSUME IInv PROVE BlocksMeet
  <2>1. Plain
    BY <1>1 DEF IInv
  <2>2. CASE phase = "written"
    <3>1. DecoderRuns
      BY <1>1, <2>2 DEF IInv
    <3>2. /\ out_buf \in Seq(Symbols)
          /\ \A q \in 1 .. Len(out_buf) : out_buf[q] = data[q]
      BY <3>1 DEF DecoderRuns, DecodedSoFar
    <3>3. /\ dec_phase \in {"symbols", "done"} /\ dec_left = 0 => decs = Fresh
          /\ dec_phase = "done" => Len(out_buf) = n /\ words_p = Len(file) + 1
      BY <2>1, <3>1, FinishedTyped, Zenon
    <3>4. Len(out_buf) = n => out_buf = data
      <4>1. data \in Seq(Symbols) /\ n = Len(data)
        BY <2>1, DataIsSymbols
      <4> QED
        BY <3>2, <4>1
    <3> QED
      BY <3>2, <3>3, <3>4 DEF BlocksMeet
  <2>3. CASE phase # "written"
    <3>1. DecoderWaits
      BY <1>1, <2>3 DEF IInv
    <3>2. 1 .. Len(<< >>) = {}
      OBVIOUS
    <3> QED
      BY <3>1, <3>2 DEF DecoderWaits, BlocksMeet
  <2> QED
    BY <2>2, <2>3
<1> QED
  BY <1>1, Invariance, PTL
=============================================================================
