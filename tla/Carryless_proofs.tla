-------------------------- MODULE Carryless_proofs --------------------------
(***************************************************************************)
(* Proofs about the carryless coders for every digit base, width of low,   *)
(* register width, table and file.                                         *)
(*                                                                         *)
(* The history of the encoder is kept turn by turn: every symbol, every    *)
(* turn of the renormalisation loop and every exit from it.  A decoder is   *)
(* always at a turn of that history, because the digits of the stream that *)
(* follow the turn spell a number inside the interval of the turn.         *)
(***************************************************************************)
EXTENDS Carryless, CodedInterval

(* The constants as the proofs use them.                                    *)
LEMMA Constants ==
  /\ D \in Nat \ {0} /\ 2 <= D /\ TOP \in Nat \ {0} /\ DIGITS \in Nat \ {0}
  /\ WORD \in Nat \ {0} /\ WORD = D * TOP /\ TOP <= WORD
  /\ BOT \in Nat \ {0} /\ BOT <= TOP
  /\ REGISTER \in Nat \ {0} /\ WORD <= REGISTER
  /\ REGISTER = WORD => D * BOT <= TOP
  /\ TOTAL \in Nat \ {0} /\ TOTAL <= BOT
<1>1. /\ D \in Nat \ {0} /\ 2 <= D /\ TOP \in Nat \ {0} /\ DIGITS \in Nat \ {0}
      /\ WORD = D * TOP
      /\ TOTAL \in Nat \ {0} /\ TOTAL <= BOT
  BY DigitAssumption, WordAssumption, TotalAssumption, TotalBelowBot,
     DigitsAssumption
<1>2. WORD \in Nat \ {0} /\ TOP <= WORD
  BY <1>1, SMTT(30)
<1>3. BOT \in Nat \ {0} /\ BOT <= TOP
  <2>1. BOT \in Nat \ {0}
    BY BotAssumption
  <2>2. PICK k \in 1 .. TOP : TOP = k * BOT
    BY BotAssumption
  <2>3. k \in Nat /\ 1 <= k
    BY <1>1
  <2> QED
    BY <1>1, <2>1, <2>2, <2>3, SMTT(30)
<1>4. REGISTER \in Nat \ {0} /\ WORD <= REGISTER
  <2>1. PICK k \in 1 .. D : REGISTER = k * (D * TOP)
    BY RegisterAssumption
  <2>2. REGISTER = k * WORD /\ k \in Nat /\ 1 <= k
    BY <1>1, <2>1
  <2> QED
    BY <1>2, <2>2, SMTT(30)
<1>5. REGISTER = WORD => D * BOT <= TOP
  BY <1>1, RegisterAssumption
<1> QED
  BY <1>1, <1>2, <1>3, <1>4, <1>5

LEMMA ConstantTypes ==
  /\ D \in Nat \ {0} /\ 2 <= D /\ TOP \in Nat \ {0} /\ DIGITS \in Nat \ {0}
  /\ WORD \in Nat \ {0} /\ TOP <= WORD /\ BOT \in Nat \ {0} /\ BOT <= TOP
  /\ REGISTER \in Nat \ {0} /\ WORD <= REGISTER
  /\ TOTAL \in Nat \ {0} /\ TOTAL <= BOT
  BY Constants

-----------------------------------------------------------------------------
(* The interval of a coder that runs: below the word, and where the word is *)
(* as wide as the register, so that low + range can wrap to 0, below the    *)
(* weight of the top digit when it does.                                    *)
Interval(lo, rg) ==
  /\ lo \in 0 .. WORD - 1
  /\ rg \in 1 .. WORD - 1
  /\ lo + rg <= WORD
  /\ REGISTER = WORD /\ lo + rg = WORD => rg <= TOP

(* What low ^ (low + range) < TOP decides: whether the interval ends before *)
(* the top digit changes.                                                   *)
LEMMA TopDigit ==
  ASSUME NEW lo, NEW rg, Interval(lo, rg)
  PROVE  /\ lo \div TOP \in 0 .. D - 1 /\ lo % TOP \in 0 .. TOP - 1
         /\ lo = TOP * (lo \div TOP) + (lo % TOP)
         /\ TopAgrees(lo, rg) <=> (lo % TOP) + rg < TOP
<1> DEFINE h == lo \div TOP
           l == lo % TOP
           s == lo + rg
<1>1. /\ lo \in Nat /\ rg \in Nat /\ lo < WORD /\ 1 <= rg /\ s \in Nat
      /\ s <= WORD /\ (REGISTER = WORD /\ s = WORD => rg <= TOP)
  BY Constants DEF Interval
<1>2. h \in Nat /\ l \in 0 .. TOP - 1 /\ lo = TOP * h + l
  BY <1>1, Constants, EuclideanDivision
<1>3. h < D
  <2>1. lo < TOP * D
    BY <1>1, Constants
  <2> QED
    BY <1>1, <2>1, Constants, DivSmall
<1> HIDE DEF h, l
<1>2a. h \in Nat /\ l \in Nat /\ l < TOP /\ TOP \in Nat
  BY <1>2, Constants
<1>4. ASSUME s < REGISTER PROVE TopAgrees(lo, rg) <=> l + rg < TOP
  <2>1. s % REGISTER = s
    <3>1. s \in 0 .. REGISTER - 1
      BY <1>1, <1>4, Constants
    <3> HIDE DEF s
    <3> QED
      BY <3>1, ModSmall, Constants
  <2>2. TopAgrees(lo, rg) <=> h = s \div TOP
    BY <2>1 DEF TopAgrees, h
  <2>3. CASE l + rg < TOP
    <3>1. l + rg \in 0 .. TOP - 1 /\ s = TOP * h + (l + rg)
      <4> DEFINE th == TOP * h
      <4>1. th \in Nat
        BY <1>2, Constants, MulMonotone
      <4>2. lo = th + l
        BY <1>2
      <4> HIDE DEF th
      <4>3. l + rg \in 0 .. TOP - 1 /\ s = th + (l + rg)
        BY <1>1, <1>2a, <2>3, <4>1, <4>2
      <4> QED
        BY <4>3 DEF th
    <3>2. s \in Int /\ h \in Int
      BY <1>1, <1>2
    <3> HIDE DEF s
    <3>3. s \div TOP = h
      BY <3>1, <3>2, Quotients, Constants
    <3> QED
      BY <2>2, <2>3, <3>3
  <2>4. CASE ~ (l + rg < TOP)
    <3>1. s >= TOP * (h + 1)
      <4> DEFINE th == TOP * h
      <4>1. th \in Nat /\ TOP * (h + 1) = th + TOP
        BY <1>2, Constants, SMTT(30)
      <4>2. lo = th + l
        BY <1>2
      <4> HIDE DEF th
      <4>3. s >= th + TOP
        BY <1>1, <1>2a, <2>4, <4>1, <4>2
      <4> QED
        BY <4>1, <4>3
    <3>2. s \div TOP # h
      <4> HIDE DEF s
      <4>1. /\ s \div TOP \in Nat /\ s % TOP \in 0 .. TOP - 1
            /\ s = TOP * (s \div TOP) + (s % TOP)
        BY <1>1, Constants, EuclideanDivision
      <4>2. ASSUME s \div TOP = h PROVE FALSE
        <5> DEFINE th == TOP * h
                   m  == s % TOP
        <5>1. th \in Nat /\ TOP * (h + 1) = th + TOP
          BY <1>2, Constants, SMTT(30)
        <5>2. s = th + m /\ m \in 0 .. TOP - 1
          BY <4>1, <4>2
        <5> HIDE DEF th, m
        <5> QED
          BY <3>1, <5>1, <5>2, Constants
      <4> QED
        BY <4>2
    <3> QED
      BY <2>2, <2>4, <3>2
  <2> QED
    BY <2>3, <2>4
<1>5. ASSUME ~ (s < REGISTER) PROVE TopAgrees(lo, rg) <=> l + rg < TOP
  <2>1. s = REGISTER /\ s = WORD /\ rg <= TOP
    BY <1>1, <1>5, Constants
  <2>2. TopAgrees(lo, rg) <=> h = 0
    <3>1. s % REGISTER = 0
      <4>1. REGISTER % REGISTER = 0
        BY Constants, SMTT(30)
      <4> QED
        BY <2>1, <4>1
    <3>2. 0 \div TOP = 0
      BY Constants, SMTT(30)
    <3> QED
      BY <3>1, <3>2 DEF TopAgrees, h
  <2>3. h = D - 1 /\ l + rg >= TOP
    <3>1. lo >= (D - 1) * TOP
      <4>1. (D - 1) * TOP = D * TOP - TOP /\ D * TOP \in Nat
        BY Constants, SMTT(30)
      <4> QED
        BY <1>1, <2>1, <4>1, Constants
    <3>2. h >= D - 1
      <4>1. ASSUME h < D - 1 PROVE FALSE
        <5>1. TOP * (h + 1) <= TOP * (D - 1) /\ TOP * (h + 1) = TOP * h + TOP
              /\ TOP * h \in Nat /\ TOP * (D - 1) = (D - 1) * TOP
          BY <1>2, <4>1, Constants, SMTT(30)
        <5> DEFINE th == TOP * h
        <5> HIDE DEF th
        <5> QED
          BY <1>2, <3>1, <5>1, Constants DEF th
      <4> QED
        BY <1>2, <4>1, Constants
    <3>3. h = D - 1
      BY <1>2, <1>3, <3>2, Constants
    <3>4. l + rg >= TOP
      <4>1. TOP * h = D * TOP - TOP /\ D * TOP \in Nat
        BY <3>3, Constants, SMTT(30)
      <4> QED
        BY <1>1, <1>2, <2>1, <4>1, Constants
    <3> QED
      BY <3>3, <3>4
  <2> QED
    BY <1>1, <1>2, <2>2, <2>3, Constants
<1>6. TopAgrees(lo, rg) <=> l + rg < TOP
  BY <1>4, <1>5
<1>7. h \in 0 .. D - 1
  BY <1>2a, <1>3, Constants
<1>8. l \in 0 .. TOP - 1 /\ lo = TOP * h + l
  BY <1>2
<1> QED
  BY <1>6, <1>7, <1>8 DEF h, l

(* The trim ("range too small: Subbotin trim"): the range that is left ends *)
(* at the next change of the top digit, and is not empty.                   *)
LEMMA Trim ==
  ASSUME NEW lo, NEW rg, Interval(lo, rg), ~ TopAgrees(lo, rg), rg < BOT
  PROVE  /\ Trimmed(lo) \in 1 .. rg
         /\ (lo % TOP) + Trimmed(lo) = TOP
<1> DEFINE h == lo \div TOP
           l == lo % TOP
           g == TOP - l
<1>1. /\ h \in Nat /\ l \in 0 .. TOP - 1 /\ lo = TOP * h + l
      /\ l + rg >= TOP /\ rg \in Nat /\ lo \in Nat
  BY TopDigit, Constants DEF Interval
<1>2. PICK k \in 1 .. TOP : TOP = k * BOT
  BY BotAssumption
<1> HIDE DEF h, l
<1>3. g \in 1 .. rg /\ g \in 0 .. BOT - 1 /\ l + g = TOP
  BY <1>1, Constants
<1> DEFINE q == - (k * (h + 1))
<1>4. -lo = BOT * q + g /\ q \in Int
  <2>1. TOP * (h + 1) = TOP * h + TOP /\ TOP * h \in Nat
    BY <1>1, Constants, SMTT(30)
  <2>2. -lo = -(TOP * (h + 1)) + g
    <3> DEFINE th == TOP * h
    <3>1. th \in Nat /\ TOP * (h + 1) = th + TOP /\ lo = th + l
      BY <1>1, <2>1
    <3>2. l \in Nat /\ TOP \in Nat
      BY <1>1, Constants
    <3> HIDE DEF th
    <3> QED
      BY <3>1, <3>2
  <2>3. k \in Nat /\ h + 1 \in Nat
    BY <1>1, Constants
  <2> DEFINE n1 == h + 1
  <2> HIDE DEF n1
  <2>4. (k * BOT) * n1 = BOT * (k * n1) /\ k * n1 \in Nat
    BY <2>3, Constants, SMTT(30) DEF n1
  <2>5. BOT * (-(k * n1)) = -(BOT * (k * n1))
    BY <2>4, Constants, SMTT(30)
  <2> QED
    BY <1>2, <2>2, <2>4, <2>5 DEF n1
<1>5. (-lo) % BOT = g
  <2> HIDE DEF q, g
  <2>1. -lo \in Int
    BY <1>1
  <2> QED
    BY <1>3, <1>4, <2>1, Quotients, Constants
<1> QED
  BY <1>3, <1>5 DEF Trimmed, l

(* One turn of the loop: the digit written is the top digit of everything   *)
(* left in the interval, and what is left, shifted, is an interval again.   *)
LEMMA ShiftedInterval ==
  ASSUME NEW lo, NEW rg, Interval(lo, rg), MustShift(lo, rg)
  PROVE  LET kept == Kept(lo, rg)
         IN  /\ kept \in 1 .. rg /\ (lo % TOP) + kept <= TOP
             /\ (lo + kept - 1) \div TOP = lo \div TOP
             /\ ShiftedLow(lo) = (lo % TOP) * D
             /\ ShiftedRange(kept) = kept * D
             /\ Interval(ShiftedLow(lo), ShiftedRange(kept))
<1> DEFINE h == lo \div TOP
           l == lo % TOP
           kept == Kept(lo, rg)
           low1 == l * D
           rg1  == kept * D
<1>1. /\ h \in Nat /\ l \in 0 .. TOP - 1 /\ lo = TOP * h + l
      /\ lo \in Nat /\ rg \in Nat /\ 1 <= rg
  BY TopDigit, Constants DEF Interval
<1>2. /\ kept \in 1 .. rg /\ l + kept <= TOP /\ kept < TOP
      /\ l + kept = TOP => kept < BOT
  <2>1. CASE TopAgrees(lo, rg)
    <3>1. kept = rg /\ l + rg < TOP
      BY <2>1, TopDigit DEF Kept
    <3> HIDE DEF h, kept, l
    <3> QED
      BY <1>1, <3>1, Constants
  <2>2. CASE ~ TopAgrees(lo, rg)
    <3>1. kept = Trimmed(lo) /\ rg < BOT
      BY <2>2 DEF MustShift, MustTrim, Kept
    <3>2. Trimmed(lo) \in 1 .. rg /\ l + Trimmed(lo) = TOP
      BY <2>2, <3>1, Trim
    <3> HIDE DEF h, kept, l
    <3> QED
      BY <1>1, <3>1, <3>2, Constants
  <2> QED
    BY <2>1, <2>2
<1> HIDE DEF h, l, kept
<1>3. (lo + kept - 1) \div TOP = h
  <2> DEFINE r == l + kept - 1
             a == lo + kept - 1
             th == TOP * h
  <2>1. th \in Nat /\ lo = th + l
    BY <1>1, Constants, MulMonotone
  <2>2. l \in Nat /\ kept \in Nat /\ 1 <= kept /\ l + kept <= TOP /\ TOP \in Nat
    BY <1>1, <1>2, Constants
  <2>3. r \in 0 .. TOP - 1 /\ a = th + r /\ a \in Int
    <3> HIDE DEF th
    <3> QED
      BY <2>1, <2>2
  <2>4. a = TOP * h + r /\ h \in Int
    BY <1>1, <2>3
  <2> HIDE DEF a, r, th
  <2>5. a \div TOP = h
    BY <2>3, <2>4, Quotients, Constants
  <2> QED
    BY <2>5 DEF a
<1>4. /\ low1 \in Nat /\ rg1 \in Nat /\ D <= rg1 /\ rg1 < WORD
      /\ low1 < WORD /\ low1 + rg1 <= WORD
  <2>1. l \in Nat /\ kept \in Nat /\ 1 <= kept /\ l + kept <= TOP /\ l < TOP
    BY <1>1, <1>2, Constants
  <2>2. low1 \in Nat /\ rg1 \in Nat /\ low1 + rg1 = (l + kept) * D
    BY <2>1, Constants, SMTT(30)
  <2>3. (l + kept) * D <= TOP * D /\ TOP * D = WORD
    BY <2>1, Constants, SMTT(30)
  <2>4. D <= rg1
    BY <2>1, Constants, SMTT(30)
  <2>5. low1 < WORD
    BY <2>1, Constants, SMTT(30)
  <2>6. rg1 < WORD
    BY <1>2, <2>1, Constants, SMTT(30)
  <2> HIDE DEF low1, rg1
  <2> QED
    BY <2>2, <2>3, <2>4, <2>5, <2>6, Constants
<1>5. ShiftedLow(lo) = low1
  <2> DEFINE a == lo * D
  <2>1. a = WORD * h + low1
    <3>1. (TOP * h + l) * D = (D * TOP) * h + l * D
      BY <1>1, Constants, SMTT(30)
    <3> QED
      BY <1>1, <3>1, Constants
  <2>2. a \in Int /\ h \in Int /\ low1 \in 0 .. WORD - 1
    <3>1. a \in Int
      BY <1>1, Constants, SMTT(30)
    <3> HIDE DEF a, low1
    <3> QED
      BY <1>1, <1>4, <3>1, Constants
  <2> HIDE DEF a, low1
  <2>3. a % WORD = low1
    BY <2>1, <2>2, Quotients, Constants
  <2> QED
    BY <2>3 DEF ShiftedLow, a
<1>6. ShiftedRange(kept) = rg1
  <2> HIDE DEF rg1
  <2>1. rg1 \in 0 .. REGISTER - 1
    BY <1>4, Constants
  <2>2. rg1 % REGISTER = rg1
    BY <2>1, ModSmall, Constants
  <2> QED
    BY <2>2 DEF ShiftedRange, rg1
<1>7. REGISTER = WORD /\ low1 + rg1 = WORD => rg1 <= TOP
  <2> SUFFICES ASSUME REGISTER = WORD, low1 + rg1 = WORD PROVE rg1 <= TOP
    OBVIOUS
  <2>1. l \in Nat /\ kept \in Nat /\ l + kept <= TOP
    BY <1>1, <1>2, Constants
  <2>2. l + kept = TOP
    <3>1. ASSUME l + kept < TOP PROVE FALSE
      <4>1. l * D + kept * D = (l + kept) * D /\ (l + kept + 1) * D <= TOP * D
            /\ (l + kept + 1) * D = (l + kept) * D + D /\ (l + kept) * D \in Nat
            /\ TOP * D = WORD
        BY <2>1, <3>1, Constants, SMTT(30)
      <4> DEFINE m == (l + kept) * D
      <4>2. low1 + rg1 = m /\ m + D <= WORD /\ m \in Nat
        BY <4>1
      <4> HIDE DEF m, low1, rg1
      <4> QED
        BY <4>2, Constants
    <3> QED
      BY <2>1, <3>1, Constants
  <2>3. kept < BOT /\ D * BOT <= TOP
    BY <1>2, <2>2, Constants
  <2>4. kept * D <= D * BOT /\ kept * D \in Nat /\ D * BOT \in Nat
    BY <2>1, <2>3, Constants, SMTT(30)
  <2> HIDE DEF low1
  <2> QED
    BY <2>3, <2>4, Constants
<1>8. Interval(low1, rg1)
  <2> HIDE DEF low1, rg1
  <2> QED
    BY <1>4, <1>7, Constants DEF Interval
<1> QED
  BY <1>2, <1>3, <1>5, <1>6, <1>8 DEF h, l, kept

(* Coding a symbol: range / TOTAL is positive because the loop left range   *)
(* at BOT or above, and the part of the symbol is an interval again.        *)
LEMMA NarrowedRange ==
  ASSUME NEW table \in Tables, NEW sym \in Occurring(table),
         NEW lo, NEW rg, Interval(lo, rg), BOT <= rg
  PROVE  LET t == rg \div TOTAL
         IN  /\ t \in Nat \ {0} /\ t * table[sym] \in Nat
             /\ t * Freq(table, sym) \in 1 .. rg
             /\ t * table[sym] + t * Freq(table, sym) <= rg
             /\ (lo + t * table[sym]) % REGISTER = lo + t * table[sym]
             /\ Interval(lo + t * table[sym], t * Freq(table, sym))
<1> DEFINE t == rg \div TOTAL
           skip == t * table[sym]
           part == t * Freq(table, sym)
           sum  == lo + skip
<1>1. /\ lo \in Nat /\ rg \in Nat /\ lo < WORD /\ rg < WORD
      /\ lo + rg <= WORD /\ (REGISTER = WORD /\ lo + rg = WORD => rg <= TOP)
      /\ TOTAL <= rg
  BY Constants DEF Interval
<1>2. /\ t \in Nat /\ t >= 1 /\ skip \in Nat /\ part \in Nat /\ part >= 1
      /\ skip + part <= rg
  BY <1>1, Subdivision
<1> HIDE DEF t, skip, part
<1>3. Interval(sum, part)
  BY <1>1, <1>2, Constants DEF Interval
<1>4. sum % REGISTER = sum
  <2>1. sum \in 0 .. REGISTER - 1
    BY <1>1, <1>2, Constants
  <2> HIDE DEF sum
  <2> QED
    BY <2>1, ModSmall, Constants
<1>5. part \in 1 .. rg
  BY <1>1, <1>2
<1> QED
  BY <1>2, <1>3, <1>4, <1>5 DEF t, skip, part

-----------------------------------------------------------------------------
(* A coder at some turn, and the turn from g to h.                          *)
CoderStates ==
  { g \in [low : Nat, range : Nat, pos : Nat, count : Nat,
           turn : {"step", "renorm"}] :
      Interval(g.low, g.range) /\ (g.turn = "step" => BOT <= g.range) }

Codes(table, file, g, h) ==
  /\ g.turn = "step" /\ h.turn = "renorm"
  /\ g.count < Len(file) /\ h.count = g.count + 1
  /\ h.low = g.low + (g.range \div TOTAL) * table[file[g.count + 1]]
  /\ h.range = (g.range \div TOTAL) * Freq(table, file[g.count + 1])
  /\ h.pos = g.pos

Shifts(stream, g, h) ==
  /\ g.turn = "renorm" /\ h.turn = "renorm" /\ h.count = g.count
  /\ MustShift(g.low, g.range)
  /\ g.pos < Len(stream) /\ h.pos = g.pos + 1
  /\ stream[g.pos + 1] = g.low \div TOP
  /\ h.low = ShiftedLow(g.low)
  /\ h.range = ShiftedRange(Kept(g.low, g.range))

Leaves(g, h) ==
  /\ g.turn = "renorm" /\ h.turn = "step" /\ h.count = g.count
  /\ ~ MustShift(g.low, g.range)
  /\ h.low = g.low /\ h.range = g.range /\ h.pos = g.pos

Turn(table, file, stream, g, h) ==
  Codes(table, file, g, h) \/ Shifts(stream, g, h) \/ Leaves(g, h)

(* H holds the K turns of a coder that has coded file into stream.          *)
Recorded(table, file, stream, K, H) ==
  /\ K \in Nat
  /\ H \in [0 .. K -> CoderStates]
  /\ H[0].low = 0 /\ H[0].range = WORD - 1 /\ H[0].pos = 0
  /\ H[0].count = 0 /\ H[0].turn = "step"
  /\ \A k \in 1 .. K : Turn(table, file, stream, H[k - 1], H[k])

WithTurn(K, H, h) == [ k \in 0 .. K + 1 |-> IF k = K + 1 THEN h ELSE H[k] ]

Extends(a, b) == Len(a) <= Len(b) /\ \A i \in 1 .. Len(a) : b[i] = a[i]

LEMMA StateFacts ==
  ASSUME NEW g \in CoderStates
  PROVE  /\ g.low \in Nat /\ g.range \in Nat /\ g.pos \in Nat /\ g.count \in Nat
         /\ g.turn \in {"step", "renorm"}
         /\ Interval(g.low, g.range)
         /\ g.turn = "step" => BOT <= g.range
  BY DEF CoderStates

LEMMA MakeState ==
  ASSUME NEW lo, NEW rg, Interval(lo, rg), NEW p \in Nat, NEW c \in Nat,
         NEW t \in {"step", "renorm"}, t = "step" => BOT <= rg
  PROVE  [low |-> lo, range |-> rg, pos |-> p, count |-> c, turn |-> t]
           \in CoderStates
<1>1. lo \in Nat /\ rg \in Nat
  BY Constants DEF Interval
<1> QED
  BY <1>1 DEF CoderStates

LEMMA ExtendsAt ==
  ASSUME NEW S, NEW a \in Seq(S), NEW b \in Seq(S), Extends(a, b),
         NEW i \in Nat, i < Len(a)
  PROVE  i < Len(b) /\ b[i + 1] = a[i + 1]
<1>1. Len(a) \in Nat /\ Len(b) \in Nat /\ i + 1 \in 1 .. Len(a)
  OBVIOUS
<1> QED
  BY <1>1 DEF Extends

(* What was recorded stays true when the file and the stream grow.          *)
LEMMA TurnExtends ==
  ASSUME NEW table, NEW S, NEW file \in Seq(S), NEW file2 \in Seq(S),
         NEW T, NEW stream \in Seq(T), NEW stream2 \in Seq(T),
         Extends(file, file2), Extends(stream, stream2),
         NEW g \in CoderStates, NEW h, Turn(table, file, stream, g, h)
  PROVE  Turn(table, file2, stream2, g, h)
<1>1. CASE Codes(table, file, g, h)
  <2>1. g.count < Len(file) /\ g.count \in Nat
    BY <1>1, StateFacts DEF Codes
  <2>2. g.count < Len(file2) /\ file2[g.count + 1] = file[g.count + 1]
    BY <2>1, ExtendsAt
  <2>3. Codes(table, file2, g, h)
    BY <1>1, <2>2, Zenon DEF Codes
  <2> QED
    BY <2>3 DEF Turn
<1>2. CASE Shifts(stream, g, h)
  <2>1. g.pos < Len(stream) /\ g.pos \in Nat
    BY <1>2, StateFacts DEF Shifts
  <2>2. g.pos < Len(stream2) /\ stream2[g.pos + 1] = stream[g.pos + 1]
    BY <2>1, ExtendsAt
  <2>3. Shifts(stream2, g, h)
    BY <1>2, <2>2, Zenon DEF Shifts
  <2> QED
    BY <2>3 DEF Turn
<1>3. CASE Leaves(g, h)
  BY <1>3 DEF Turn
<1> QED
  BY <1>1, <1>2, <1>3 DEF Turn

LEMMA RecordExtends ==
  ASSUME NEW table, NEW S, NEW file \in Seq(S), NEW file2 \in Seq(S),
         NEW T, NEW stream \in Seq(T), NEW stream2 \in Seq(T),
         Extends(file, file2), Extends(stream, stream2),
         NEW K, NEW H, Recorded(table, file, stream, K, H)
  PROVE  Recorded(table, file2, stream2, K, H)
<1>1. ASSUME NEW k \in 1 .. K
      PROVE  Turn(table, file2, stream2, H[k - 1], H[k])
  <2>1. H[k - 1] \in CoderStates /\ Turn(table, file, stream, H[k - 1], H[k])
    BY DEF Recorded
  <2> QED
    BY <2>1, TurnExtends
<1> QED
  BY <1>1 DEF Recorded

LEMMA RecordTurn ==
  ASSUME NEW table, NEW file, NEW stream,
         NEW K, NEW H, Recorded(table, file, stream, K, H),
         NEW h \in CoderStates, Turn(table, file, stream, H[K], h)
  PROVE  /\ Recorded(table, file, stream, K + 1, WithTurn(K, H, h))
         /\ WithTurn(K, H, h)[K + 1] = h
<1> DEFINE G == WithTurn(K, H, h)
<1>1. K \in Nat /\ H \in [0 .. K -> CoderStates]
  BY DEF Recorded
<1>2. /\ G[K + 1] = h /\ \A k \in 0 .. K : G[k] = H[k]
      /\ G \in [0 .. K + 1 -> CoderStates]
  <2>1. /\ K + 1 \in 0 .. K + 1
        /\ \A k \in 0 .. K : k \in 0 .. K + 1 /\ k # K + 1
        /\ \A k \in 0 .. K + 1 : k # K + 1 => k \in 0 .. K
    BY <1>1
  <2> QED
    BY <1>1, <2>1 DEF WithTurn
<1>3. ASSUME NEW k \in 1 .. K + 1
      PROVE  Turn(table, file, stream, G[k - 1], G[k])
  <2>1. CASE k = K + 1
    <3>1. k - 1 = K /\ K \in 0 .. K
      BY <1>1, <2>1
    <3> QED
      BY <1>2, <2>1, <3>1
  <2>2. CASE k # K + 1
    <3>1. k \in 1 .. K /\ k - 1 \in 0 .. K /\ k \in 0 .. K
      BY <1>1, <2>2
    <3> QED
      BY <1>2, <3>1 DEF Recorded
  <2> QED
    BY <2>1, <2>2
<1>4. G[0] = H[0] /\ K + 1 \in Nat
  BY <1>1, <1>2
<1> QED
  BY <1>2, <1>3, <1>4 DEF Recorded

-----------------------------------------------------------------------------
(* V spells the prefixes of the stream.  The DIGITS digits that follow turn *)
(* g spell a number inside its interval.                                    *)
Spelled(V, g) == V[g.pos + DIGITS] - V[g.pos] * WORD

Within(V, stream, g) ==
  /\ g.pos + DIGITS <= Len(stream)
  /\ g.low <= Spelled(V, g) /\ Spelled(V, g) < g.low + g.range

LEMMA SpelledFacts ==
  ASSUME NEW stream \in Seq(0 .. D - 1), NEW V, Prefixes(D, stream, V),
         NEW g \in CoderStates, g.pos + DIGITS <= Len(stream)
  PROVE  /\ g.pos \in 0 .. Len(stream) /\ g.pos + DIGITS \in 0 .. Len(stream)
         /\ V[g.pos] \in Nat /\ V[g.pos + DIGITS] \in Nat
         /\ V[g.pos] * WORD \in Nat /\ Spelled(V, g) \in Int
<1>1. g.pos \in 0 .. Len(stream) /\ g.pos + DIGITS \in 0 .. Len(stream)
  BY StateFacts, Constants
<1>2. V[g.pos] \in Nat /\ V[g.pos + DIGITS] \in Nat
  BY <1>1 DEF Prefixes
<1>3. V[g.pos] * WORD \in Nat
  BY <1>2, Constants, SMTT(30)
<1> DEFINE a == V[g.pos + DIGITS]
           b == V[g.pos] * WORD
<1>4. a - b \in Int
  <2> HIDE DEF a, b
  <2>1. a \in Nat /\ b \in Nat
    BY <1>2, <1>3 DEF a, b
  <2> QED
    BY <2>1
<1> QED
  BY <1>1, <1>2, <1>3, <1>4 DEF Spelled

(* One turn of the loop, backwards: what the digits after the shift spell   *)
(* and the digit shifted out spell what was in the interval before.         *)
LEMMA WithinBeforeShift ==
  ASSUME NEW stream \in Seq(0 .. D - 1), NEW V, Prefixes(D, stream, V),
         NEW g \in CoderStates, NEW h \in CoderStates,
         Shifts(stream, g, h), Within(V, stream, h)
  PROVE  Within(V, stream, g)
<1> DEFINE p    == g.pos
           q    == p + DIGITS
           top  == g.low \div TOP
           l    == g.low % TOP
           kept == Kept(g.low, g.range)
           digit == stream[q + 1]
           w    == Spelled(V, g)
           v    == Spelled(V, h)
<1>1. /\ h.pos = p + 1 /\ p < Len(stream) /\ stream[p + 1] = top
      /\ h.low = ShiftedLow(g.low) /\ h.range = ShiftedRange(kept)
      /\ MustShift(g.low, g.range)
  BY DEF Shifts
<1>2. p \in Nat /\ q \in Nat /\ h.pos + DIGITS = q + 1 /\ q + 1 <= Len(stream)
      /\ p + 1 \in 1 .. Len(stream) /\ q + 1 \in 1 .. Len(stream)
  <2>1. h.pos + DIGITS <= Len(stream)
    BY DEF Within
  <2>2. p \in Nat /\ h.pos = p + 1 /\ p < Len(stream) /\ Len(stream) \in Nat
    BY <1>1, StateFacts
  <2> HIDE DEF p
  <2> QED
    BY <2>1, <2>2, ConstantTypes
<1>2a. digit \in Nat /\ digit < D
  <2>1. digit \in 0 .. D - 1
    BY <1>2, ElementFacts
  <2> HIDE DEF digit
  <2> QED
    BY <2>1, ConstantTypes
<1>3. V[p + 1] = V[p] * D + top /\ V[q + 1] = V[q] * D + digit
  <2>1. (p + 1) - 1 = p /\ (q + 1) - 1 = q
    BY <1>2
  <2>2. \A j \in 1 .. Len(stream) : V[j] = V[j - 1] * D + stream[j]
    BY DEF Prefixes
  <2>3. V[p + 1] = V[p] * D + stream[p + 1] /\ V[q + 1] = V[q] * D + stream[q + 1]
    BY <1>2, <2>1, <2>2
  <2> QED
    BY <1>1, <2>3
<1>4. g.pos + DIGITS <= Len(stream)
  BY <1>2
<1>5. V[p] \in Nat /\ V[q] \in Nat /\ w \in Int /\ v \in Int
      /\ V[p] * WORD \in Nat
  BY <1>4, SpelledFacts DEF Within
<1>6. /\ top \in Nat /\ l \in 0 .. TOP - 1 /\ g.low = TOP * top + l
      /\ kept \in 1 .. g.range
      /\ h.low = l * D /\ h.range = kept * D
      /\ g.low \in Nat /\ g.range \in Nat
  <2>1. Interval(g.low, g.range) /\ g.low \in Nat /\ g.range \in Nat
    BY StateFacts
  <2> QED
    BY <1>1, <2>1, TopDigit, ShiftedInterval
<1>6a. /\ w \in Int /\ v \in Int /\ TOP * top \in Nat
       /\ l \in Nat /\ kept \in Nat /\ kept <= g.range /\ g.range \in Nat
  <2>1. TOP * top \in Nat
    <3>1. top \in Nat
      BY <1>6
    <3> HIDE DEF top
    <3> QED
      BY <3>1, Constants, SMTT(30)
  <2> QED
    BY <1>5, <1>6, <2>1, Constants
<1>7. v = (w - TOP * top) * D + digit
  <2> DEFINE Vp == V[p]
             Vq == V[q]
  <2>1. v = (Vq * D + digit) - (Vp * D + top) * WORD
    BY <1>1, <1>2, <1>3 DEF Spelled
  <2>2. w = Vq - Vp * WORD
    BY DEF Spelled
  <2>3. Vp \in Nat /\ Vq \in Nat /\ digit \in Nat
    BY <1>2a, <1>5
  <2> HIDE DEF w, v, Vp, Vq, digit, top
  <2>4. (Vp * D + top) * WORD = (Vp * WORD) * D + (TOP * top) * D
    BY <1>6, <2>3, Constants, SMTT(30)
  <2>5. ((Vq - Vp * WORD) - TOP * top) * D
          = Vq * D - (Vp * WORD) * D - (TOP * top) * D
    BY <1>6, <2>3, Constants, SMTT(30)
  <2> DEFINE a == Vq * D
             b == (Vp * WORD) * D
             c == (TOP * top) * D
  <2>6. a \in Int /\ b \in Int /\ c \in Int
    BY <1>6, <2>3, Constants, SMTT(30)
  <2>7. v = (a + digit) - (b + c)
    BY <2>1, <2>4
  <2>8. (w - TOP * top) * D = a - b - c
    BY <2>2, <2>5
  <2> HIDE DEF a, b, c
  <2>9. v = (a - b - c) + digit
    BY <2>3, <2>6, <2>7
  <2> QED
    BY <2>8, <2>9
<1>8. l * D <= v /\ v < l * D + kept * D
  BY <1>6 DEF Within
<1> DEFINE x == w - TOP * top
<1>9. x \in Int /\ l <= x /\ x < l + kept
  <2>1. x \in Int
    <3> DEFINE c == TOP * top
    <3>1. c \in Nat /\ w \in Int
      BY <1>6a
    <3> HIDE DEF c, w
    <3>2. w - c \in Int
      BY <3>1
    <3> QED
      BY <3>2 DEF c
  <2>2. l \in Nat /\ kept \in Nat /\ digit \in Nat /\ digit < D
    BY <1>2a, <1>6a
  <2>3. v = x * D + digit
    BY <1>7
  <2> HIDE DEF x, l, kept, digit, v
  <2>4. ASSUME x < l PROVE FALSE
    <3>1. (x + 1) * D <= l * D /\ (x + 1) * D = x * D + D /\ x * D \in Int
          /\ l * D \in Int
      BY <2>1, <2>2, <2>4, Constants, SMTT(30)
    <3> DEFINE xD == x * D
               lD == l * D
    <3>2. xD + D <= lD /\ xD \in Int /\ lD \in Int /\ lD <= xD + digit
      BY <1>8, <2>3, <3>1
    <3> HIDE DEF xD, lD
    <3> QED
      BY <2>2, <3>2, Constants
  <2>5. ASSUME x >= l + kept PROVE FALSE
    <3>1. (l + kept) * D <= x * D /\ (l + kept) * D = l * D + kept * D
          /\ x * D \in Int /\ l * D \in Int /\ kept * D \in Int
      BY <2>1, <2>2, <2>5, Constants, SMTT(30)
    <3> DEFINE xD == x * D
               lD == l * D
               kD == kept * D
    <3>2. lD + kD <= xD /\ xD + digit < lD + kD /\ xD \in Int /\ lD \in Int
          /\ kD \in Int
      BY <1>8, <2>3, <3>1
    <3> HIDE DEF xD, lD, kD
    <3> QED
      BY <2>2, <3>2
  <2> QED
    BY <2>1, <2>2, <2>4, <2>5
<1>a. g.low <= w /\ w < g.low + g.range
  <2> DEFINE c == TOP * top
  <2>1. g.low = c + l /\ x = w - c
    BY <1>6
  <2>2. c \in Nat /\ l \in Nat /\ kept \in Nat /\ kept <= g.range
        /\ g.range \in Nat /\ w \in Int
    BY <1>6a
  <2> HIDE DEF c, l, kept, w, x
  <2> QED
    BY <1>9, <2>1, <2>2
<1> QED
  BY <1>4, <1>a DEF Within

(* One symbol, backwards: the number is in the part of the symbol.          *)
LEMMA WithinBeforeCode ==
  ASSUME NEW table \in Tables, NEW file \in Seq(Occurring(table)),
         NEW stream \in Seq(0 .. D - 1), NEW V, Prefixes(D, stream, V),
         NEW g \in CoderStates, NEW h \in CoderStates,
         Codes(table, file, g, h), Within(V, stream, h)
  PROVE  LET sym == file[g.count + 1]
             t   == g.range \div TOTAL
         IN  /\ Within(V, stream, g)
             /\ sym \in Occurring(table) /\ t \in Nat \ {0}
             /\ Spelled(V, g) - g.low \in Nat
             /\ t * table[sym] <= Spelled(V, g) - g.low
             /\ Spelled(V, g) - g.low < t * table[sym] + t * Freq(table, sym)
<1> DEFINE sym  == file[g.count + 1]
           t    == g.range \div TOTAL
           skip == t * table[sym]
           part == t * Freq(table, sym)
           w    == Spelled(V, g)
<1>1. /\ h.pos = g.pos /\ h.low = g.low + skip /\ h.range = part
      /\ g.turn = "step" /\ g.count < Len(file)
  BY DEF Codes
<1>2. /\ g.count \in Nat /\ g.low \in Nat /\ g.range \in Nat
      /\ Interval(g.low, g.range) /\ BOT <= g.range
  BY <1>1, StateFacts
<1>3. sym \in Occurring(table)
  <2>1. g.count + 1 \in 1 .. Len(file)
    BY <1>1, <1>2
  <2> QED
    BY <2>1, ElementFacts
<1>4. /\ t \in Nat \ {0} /\ skip \in Nat /\ part \in 1 .. g.range
      /\ skip + part <= g.range
  BY <1>2, <1>3, NarrowedRange
<1>5. Spelled(V, h) = w
  BY <1>1 DEF Spelled
<1>6. /\ g.pos + DIGITS <= Len(stream)
      /\ g.low + skip <= w /\ w < (g.low + skip) + part
  <2> HIDE DEF w, skip, part
  <2> QED
    BY <1>1, <1>5 DEF Within
<1>7. w \in Int
  BY <1>6, SpelledFacts
<1> HIDE DEF sym, t, skip, part, w
<1>8. /\ g.low <= w /\ w < g.low + g.range /\ w - g.low \in Nat
      /\ skip <= w - g.low /\ w - g.low < skip + part
  BY <1>2, <1>4, <1>6, <1>7, SMTT(60)
<1>9. Within(V, stream, g)
  BY <1>6, <1>8 DEF Within, w
<1> QED
  BY <1>3, <1>4, <1>8, <1>9 DEF sym, t, skip, part, w

LEMMA WithinBefore ==
  ASSUME NEW table \in Tables, NEW file \in Seq(Occurring(table)),
         NEW stream \in Seq(0 .. D - 1), NEW V, Prefixes(D, stream, V),
         NEW g \in CoderStates, NEW h \in CoderStates,
         Turn(table, file, stream, g, h), Within(V, stream, h)
  PROVE  Within(V, stream, g)
<1>1. CASE Leaves(g, h)
  <2>1. h.pos = g.pos /\ h.low = g.low /\ h.range = g.range
    BY <1>1 DEF Leaves
  <2>2. Spelled(V, h) = Spelled(V, g)
    BY <2>1 DEF Spelled
  <2> QED
    BY <2>1, <2>2 DEF Within
<1> QED
  BY <1>1, WithinBeforeShift, WithinBeforeCode DEF Turn

-----------------------------------------------------------------------------
(* A complete stream: the last digits are those of low.                     *)
Complete(table, file, stream, K, H, V) ==
  /\ Recorded(table, file, stream, K, H)
  /\ H[K].turn = "step" /\ H[K].count = Len(file)
  /\ Len(stream) = H[K].pos + DIGITS
  /\ Prefixes(D, stream, V)
  /\ Spelled(V, H[K]) = H[K].low

(* So the digits that follow any turn spell a number inside its interval.   *)
LEMMA EveryTurnWithin ==
  ASSUME NEW table \in Tables, NEW file \in Seq(Occurring(table)),
         NEW stream \in Seq(0 .. D - 1),
         NEW K, NEW H, NEW V, Complete(table, file, stream, K, H, V),
         NEW k \in 0 .. K
  PROVE  H[k] \in CoderStates /\ Within(V, stream, H[k])
<1>1. /\ K \in Nat /\ \A j \in 0 .. K : H[j] \in CoderStates
      /\ Prefixes(D, stream, V)
  BY DEF Complete, Recorded
<1>2. \A j \in 1 .. K : Turn(table, file, stream, H[j - 1], H[j])
  BY DEF Complete, Recorded
<1>3. Within(V, stream, H[K])
  <2>1. /\ H[K].pos + DIGITS <= Len(stream)
        /\ Spelled(V, H[K]) = H[K].low
    <3>1. Len(stream) = H[K].pos + DIGITS
      BY DEF Complete
    <3>2. Len(stream) \in Nat
      OBVIOUS
    <3> QED
      BY <3>1, <3>2 DEF Complete
  <2>2. H[K].low \in Nat /\ H[K].range \in Nat /\ 1 <= H[K].range
    <3>1. K \in 0 .. K
      BY <1>1
    <3>2. H[K] \in CoderStates
      BY <1>1, <3>1
    <3> QED
      BY <3>2, StateFacts, ConstantTypes DEF Interval
  <2> QED
    BY <2>1, <2>2 DEF Within
<1> DEFINE Out == { j \in 0 .. K : ~ Within(V, stream, H[j]) }
<1>4. Out = {}
  <2>1. ASSUME Out # {} PROVE FALSE
    <3>1. Out \in SUBSET (0 .. K)
      OBVIOUS
    <3>2. PICK m \in Out : \A j \in Out : j <= m
      <4> HIDE DEF Out
      <4> QED
        BY <1>1, <2>1, <3>1, GreatestElement
    <3>3. m \in 0 .. K /\ ~ Within(V, stream, H[m])
      OBVIOUS
    <3>4. m # K
      BY <1>3, <3>3
    <3>5. m + 1 \in 1 .. K /\ m + 1 \in 0 .. K /\ (m + 1) - 1 = m /\ ~ (m + 1 <= m)
      BY <1>1, <3>3, <3>4
    <3>6. Within(V, stream, H[m + 1])
      BY <3>2, <3>5
    <3>7. Turn(table, file, stream, H[m], H[m + 1])
      BY <1>2, <3>5
    <3>8. H[m] \in CoderStates /\ H[m + 1] \in CoderStates
      BY <1>1, <3>3, <3>5
    <3> QED
      BY <1>1, <3>3, <3>6, <3>7, <3>8, WithinBefore
  <2> QED
    BY <2>1
<1> QED
  BY <1>1, <1>4

-----------------------------------------------------------------------------
(* Remainders.                                                              *)
LEMMA ModPlus ==
  ASSUME NEW b \in Nat \ {0}, NEW k \in Int, NEW a \in Nat
  PROVE  (b * k + a) % b = a % b
<1> DEFINE q == a \div b
           m == a % b
           x == b * k + a
<1>1. q \in Nat /\ m \in 0 .. b - 1 /\ a = b * q + m
  BY EuclideanDivision
<1> HIDE DEF q, m
<1>2. b * k + (b * q + m) = b * (k + q) + m /\ b * k \in Int
  BY <1>1, SMTT(30)
<1>3. x = b * (k + q) + m
  BY <1>1, <1>2
<1>4. x \in Int /\ k + q \in Int
  BY <1>1, <1>2
<1> HIDE DEF x
<1>5. x % b = m
  BY <1>1, <1>3, <1>4, Quotients
<1> QED
  BY <1>5 DEF x, m

(* A digit read behind a number of which the word is kept.                  *)
LEMMA ReadDigit ==
  ASSUME NEW v \in Nat, NEW x \in Nat
  PROVE  ((v % WORD) * D + x) % WORD = (v * D + x) % WORD
<1> DEFINE q == v \div WORD
           m == v % WORD
           a == m * D + x
<1>1. q \in Nat /\ m \in Nat /\ v = WORD * q + m
  BY EuclideanDivision, ConstantTypes
<1> HIDE DEF q, m
<1>2. a \in Nat /\ q * D \in Int
  BY <1>1, ConstantTypes, SMTT(30)
<1>3. (WORD * q + m) * D + x = WORD * (q * D) + (m * D + x)
  BY <1>1, ConstantTypes, SMTT(30)
<1> DEFINE k == q * D
           y == v * D + x
<1>4. y = WORD * k + a /\ k \in Int
  BY <1>1, <1>2, <1>3
<1> HIDE DEF a, k, y
<1>5. y % WORD = a % WORD
  BY <1>2, <1>4, ModPlus, ConstantTypes
<1> QED
  BY <1>5 DEF a, m, y

(* One digit of low leaves the register in enc_flush.                       *)
LEMMA FlushDigit ==
  ASSUME NEW f \in Nat
  PROVE  LET m == f % WORD
             h == (f \div TOP) % D
         IN  /\ m \in 0 .. WORD - 1 /\ h \in 0 .. D - 1
             /\ ((f * D) % REGISTER) % WORD \in Nat
             /\ h * WORD + (((f * D) % REGISTER) % WORD) = m * D
             /\ (f * D) % REGISTER \in 0 .. REGISTER - 1
<1> DEFINE a == f \div TOP
           l == f % TOP
           b == a \div D
           h == a % D
           m == TOP * h + l
           x == f * D
           q == x \div REGISTER
           r == x % REGISTER
<1>1. a \in Nat /\ l \in 0 .. TOP - 1 /\ f = TOP * a + l
  BY EuclideanDivision, ConstantTypes
<1>2. b \in Nat /\ h \in 0 .. D - 1 /\ a = D * b + h
  <2> HIDE DEF a
  <2> QED
    BY <1>1, EuclideanDivision, ConstantTypes
<1>3. x \in Nat
  BY ConstantTypes, SMTT(30)
<1>4. q \in Nat /\ r \in 0 .. REGISTER - 1 /\ x = REGISTER * q + r
  <2> HIDE DEF x
  <2> QED
    BY <1>3, EuclideanDivision, ConstantTypes
<1> HIDE DEF a, l, b, h, q, r
<1>5. m \in 0 .. WORD - 1
  <2>1. TOP * h <= TOP * (D - 1) /\ TOP * (D - 1) = D * TOP - TOP
        /\ TOP * h \in Nat
    BY <1>2, Constants, SMTT(30)
  <2> DEFINE th == TOP * h
  <2>2. th \in Nat /\ th <= WORD - TOP
    BY <2>1, Constants
  <2>3. l \in 0 .. TOP - 1
    BY <1>1
  <2> HIDE DEF th
  <2>4. th + l \in 0 .. WORD - 1
    BY <2>2, <2>3, ConstantTypes
  <2> QED
    BY <2>4 DEF th
<1>6. f % WORD = m
  <2>1. TOP * (D * b + h) + l = (D * TOP) * b + (TOP * h + l)
    BY <1>1, <1>2, Constants, SMTT(30)
  <2>2. f = WORD * b + m
    BY <1>1, <1>2, <2>1, Constants
  <2>3. f \in Int /\ b \in Int
    BY <1>2
  <2> HIDE DEF m
  <2> QED
    BY <1>5, <2>2, <2>3, Quotients, ConstantTypes
<1>7. r % WORD = l * D /\ l * D \in Nat
  <2> DEFINE y == l * D
  <2>1. y \in 0 .. WORD - 1
    <3>1. y \in Nat /\ y <= (TOP - 1) * D /\ (TOP - 1) * D = D * TOP - D
      BY <1>1, Constants, SMTT(30)
    <3> HIDE DEF y
    <3>2. y <= WORD - D
      BY <3>1, Constants
    <3> QED
      BY <3>1, <3>2, ConstantTypes
  <2>2. (TOP * a + l) * D = (D * TOP) * a + l * D
    BY <1>1, Constants, SMTT(30)
  <2>3. x = WORD * a + y
    BY <1>1, <2>2, Constants
  <2> HIDE DEF y, x
  <2>4. x % WORD = y
    BY <1>1, <1>3, <2>1, <2>3, Quotients, ConstantTypes
  <2>5. x % WORD = r % WORD
    <3>1. PICK k \in 1 .. D : REGISTER = k * (D * TOP)
      BY RegisterAssumption
    <3>2. k \in Nat /\ REGISTER = k * WORD
      BY <3>1, Constants
    <3>3. (k * WORD) * q = WORD * (k * q) /\ k * q \in Int
      BY <1>4, <3>2, ConstantTypes, SMTT(30)
    <3>4. x = WORD * (k * q) + r
      BY <1>4, <3>2, <3>3
    <3> DEFINE j == k * q
    <3>5. x = WORD * j + r /\ j \in Int
      BY <3>3, <3>4
    <3> HIDE DEF j, m
    <3>6. r \in Nat
      BY <1>4, ConstantTypes
    <3> QED
      BY <3>5, <3>6, ModPlus, ConstantTypes
  <2>6. y \in Nat
    BY <2>1
  <2> QED
    BY <2>4, <2>5, <2>6 DEF y
<1>8. h * WORD + l * D = m * D
  <2>1. h * (D * TOP) + l * D = (TOP * h + l) * D
    BY <1>1, <1>2, Constants, SMTT(30)
  <2> QED
    BY <2>1, Constants
<1> HIDE DEF m, x
<1>9. (f * D) % REGISTER = r
  BY DEF r, x
<1> QED
  BY <1>2, <1>4, <1>5, <1>6, <1>7, <1>8, <1>9 DEF a, h

-----------------------------------------------------------------------------
(* The recursive definitions, unfolded.                                     *)
LEMMA Weights ==
  /\ Weight \in [0 .. DIGITS -> Nat]
  /\ Weight[0] = 1
  /\ \A i \in 1 .. DIGITS : Weight[i] = D * Weight[i - 1]
  /\ Weight[DIGITS] = WORD
<1>1. D \in Nat /\ DIGITS \in Nat
  BY ConstantTypes
<1>2. /\ Weight \in [0 .. DIGITS -> Nat] /\ Weight[0] = 1
      /\ \A i \in 1 .. DIGITS : Weight[i] = D * Weight[i - 1]
  <2>1. PowersUpTo(D, DIGITS, Weight)
    BY Zenon DEF Weight, PowersUpTo
  <2> QED
    BY <1>1, <2>1, Powers
<1>3. DIGITS \in 1 .. DIGITS /\ TOP = Weight[DIGITS - 1]
  BY ConstantTypes, DigitsAssumption
<1> QED
  BY <1>2, <1>3, Constants

LEMMA FlushLows ==
  ASSUME low \in Nat
  PROVE  /\ FlushLow \in [0 .. DIGITS -> Nat]
         /\ FlushLow[0] = low
         /\ \A i \in 1 .. DIGITS : FlushLow[i] = (FlushLow[i - 1] * D) % REGISTER
         /\ FlushLow[DIGITS] \in 0 .. REGISTER - 1
<1> DEFINE step == [ i \in 1 .. DIGITS |-> [ x \in Nat |-> (x * D) % REGISTER ] ]
<1>0. \A x \in Nat : (x * D) % REGISTER \in 0 .. REGISTER - 1
                     /\ (x * D) % REGISTER \in Nat
  <2> TAKE x \in Nat
  <2> DEFINE y == x * D
  <2>1. y \in Nat
    BY ConstantTypes, SMTT(30)
  <2> HIDE DEF y
  <2>2. y % REGISTER \in 0 .. REGISTER - 1
    BY <2>1, EuclideanDivision, ConstantTypes
  <2>3. y % REGISTER \in Nat
    BY <2>2, ConstantTypes
  <2> QED
    BY <2>2, <2>3 DEF y
<1>1. step \in [1 .. DIGITS -> [Nat -> Nat]]
  BY <1>0
<1>2. low \in Nat /\ DIGITS \in Nat
  BY ConstantTypes
<1>3. PICK f : f \in [0 .. DIGITS -> Nat] /\ Recursive(DIGITS, low, step, f)
  <2> HIDE DEF step
  <2> QED
    BY <1>1, <1>2, Recursion
<1>4. ASSUME NEW i \in 0 .. DIGITS, i # 0
      PROVE  step[i][f[i - 1]] = (f[i - 1] * D) % REGISTER
  <2>1. i \in 1 .. DIGITS /\ i - 1 \in 0 .. DIGITS
    BY <1>4, ConstantTypes
  <2>2. f[i - 1] \in Nat
    BY <1>3, <2>1
  <2> QED
    BY <2>1, <2>2
<1> HIDE DEF step
<1>5. f = [ i \in 0 .. DIGITS |->
              IF i = 0 THEN low ELSE (f[i - 1] * D) % REGISTER ]
  <2>1. [ i \in 0 .. DIGITS |-> IF i = 0 THEN low ELSE step[i][f[i - 1]] ]
          = [ i \in 0 .. DIGITS |->
                IF i = 0 THEN low ELSE (f[i - 1] * D) % REGISTER ]
    BY <1>4, Zenon
  <2> QED
    BY <1>3, <2>1, Zenon DEF Recursive
<1>6. FlushLow = [ i \in 0 .. DIGITS |->
                     IF i = 0 THEN low ELSE (FlushLow[i - 1] * D) % REGISTER ]
  BY <1>5, Zenon DEF FlushLow
<1>7. /\ FlushLow[0] = low
      /\ \A i \in 1 .. DIGITS : FlushLow[i] = (FlushLow[i - 1] * D) % REGISTER
  <2>1. \A i \in 0 .. DIGITS :
          FlushLow[i] = IF i = 0 THEN low ELSE (FlushLow[i - 1] * D) % REGISTER
    BY <1>6, Zenon
  <2> QED
    BY <1>2, <2>1
<1>8. FlushLow \in [0 .. DIGITS -> Nat]
  <2>1. ASSUME NEW i \in 1 .. DIGITS, FlushLow[i - 1] \in Nat
        PROVE  FlushLow[i] \in Nat
    BY <1>0, <1>7, <2>1
  <2>2. FlushLow = [ i \in 0 .. DIGITS |-> FlushLow[i] ]
    BY <1>6, Zenon
  <2>3. FlushLow[0] \in Nat
    BY <1>2, <1>7
  <2>4. \A i \in 1 .. DIGITS : FlushLow[i - 1] \in Nat => FlushLow[i] \in Nat
    BY <2>1, Zenon
  <2> QED
    BY <1>2, <2>2, <2>3, <2>4, StaysIn, Zenon
<1>9. FlushLow[DIGITS] \in 0 .. REGISTER - 1
  <2>1. DIGITS \in 1 .. DIGITS /\ DIGITS - 1 \in 0 .. DIGITS
    BY ConstantTypes
  <2>2. FlushLow[DIGITS - 1] \in Nat
    BY <1>8, <2>1
  <2>3. FlushLow[DIGITS] = (FlushLow[DIGITS - 1] * D) % REGISTER
    BY <1>7, <2>1
  <2> QED
    BY <1>0, <2>2, <2>3
<1> QED
  BY <1>7, <1>8, <1>9

LEMMA LowDigitsTyped ==
  ASSUME low \in Nat
  PROVE  LowDigits \in Seq(0 .. D - 1) /\ Len(LowDigits) = DIGITS
<1>1. ASSUME NEW i \in 1 .. DIGITS
      PROVE  (FlushLow[i - 1] \div TOP) % D \in 0 .. D - 1
  <2>1. i - 1 \in 0 .. DIGITS
    BY ConstantTypes
  <2>2. FlushLow[i - 1] \in Nat
    BY <2>1, FlushLows
  <2> QED
    BY <2>2, FlushDigit
<1> DEFINE S == 0 .. D - 1
<1>2. LowDigits \in [1 .. DIGITS -> S] /\ DIGITS \in Nat
  BY <1>1, ConstantTypes DEF LowDigits
<1> HIDE DEF S
<1>3. LowDigits \in Seq(S) /\ Len(LowDigits) = DIGITS
  BY <1>2
<1> QED
  BY <1>3 DEF S

(* enc_flush writes low: the digits it stores spell it.                     *)
LEMMA FlushSpellsLow ==
  ASSUME low \in 0 .. WORD - 1, NEW file \in Seq(0 .. D - 1),
         NEW V, Prefixes(D, file \o LowDigits, V)
  PROVE  V[Len(file) + DIGITS] = V[Len(file)] * WORD + low
<1> DEFINE p == Len(file)
           stream == file \o LowDigits
           base == V[p] * WORD + low
           Right(i) == V[p + i] * WORD + (FlushLow[i] % WORD) = base * Weight[i]
           Bad == { i \in 0 .. DIGITS : ~ Right(i) }
<1>1. /\ low \in Nat /\ p \in Nat /\ DIGITS \in Nat
      /\ LowDigits \in Seq(0 .. D - 1) /\ Len(LowDigits) = DIGITS
      /\ stream \in Seq(0 .. D - 1) /\ Len(stream) = p + DIGITS
  <2>1. low \in Nat
    BY ConstantTypes
  <2> QED
    BY <2>1, LowDigitsTyped, ConstantTypes, SMTT(60)
<1>2. /\ V \in [0 .. p + DIGITS -> Nat]
      /\ \A j \in 1 .. p + DIGITS : V[j] = V[j - 1] * D + stream[j]
  <2> HIDE DEF stream
  <2> QED
    BY <1>1 DEF Prefixes, stream
<1>3. ASSUME NEW i \in 1 .. DIGITS
      PROVE  V[p + i] = V[p + (i - 1)] * D + ((FlushLow[i - 1] \div TOP) % D)
  <2>1. /\ p + i \in 1 .. p + DIGITS /\ (p + i) - 1 = p + (i - 1)
        /\ p + i \in 1 .. Len(stream) /\ ~ (p + i <= p) /\ (p + i) - p = i
    BY <1>1
  <2>2. stream[p + i] = LowDigits[i]
    BY <1>1, <2>1
  <2>3. LowDigits[i] = (FlushLow[i - 1] \div TOP) % D
    BY DEF LowDigits
  <2> HIDE DEF stream, p
  <2>4. V[p + i] = V[(p + i) - 1] * D + stream[p + i]
    BY <1>2, <2>1
  <2> QED
    BY <2>1, <2>2, <2>3, <2>4, Zenon
<1>4. \A i \in 0 .. DIGITS :
        V[p + i] \in Nat /\ FlushLow[i] \in Nat /\ Weight[i] \in Nat
  <2> TAKE i \in 0 .. DIGITS
  <2>1. p + i \in 0 .. p + DIGITS
    BY <1>1
  <2> HIDE DEF p
  <2> QED
    BY <1>1, <1>2, <2>1, FlushLows, Weights
<1> HIDE DEF stream, p
<1>4a. base \in Nat
  <2>1. p + 0 = p /\ 0 \in 0 .. DIGITS
    BY <1>1
  <2>2. V[p] \in Nat
    BY <1>4, <2>1
  <2>3. V[p] * WORD \in Nat
    BY <2>2, ConstantTypes, SMTT(30)
  <2> QED
    BY <1>1, <2>3
<1>5. Right(0)
  <2>1. p + 0 = p /\ FlushLow[0] = low /\ Weight[0] = 1
    BY <1>1, FlushLows, Weights
  <2>2. low % WORD = low
    BY ModSmall, ConstantTypes
  <2>3. base * 1 = base
    BY <1>4a
  <2> QED
    BY <2>1, <2>2, <2>3
<1>6. ASSUME NEW i \in 1 .. DIGITS, Right(i - 1) PROVE Right(i)
  <2> DEFINE v == V[p + (i - 1)]
             f == FlushLow[i - 1]
             m == f % WORD
             h == (f \div TOP) % D
             g == ((f * D) % REGISTER) % WORD
             w == Weight[i - 1]
  <2>1. i \in 0 .. DIGITS /\ i - 1 \in 0 .. DIGITS
    BY ConstantTypes
  <2>2. v \in Nat /\ f \in Nat /\ w \in Nat
    BY <1>4, <2>1
  <2>3. /\ V[p + i] = v * D + h /\ FlushLow[i] % WORD = g
        /\ Weight[i] = D * w
    BY <1>1, <1>3, FlushLows, Weights
  <2>4. /\ m \in 0 .. WORD - 1 /\ h \in 0 .. D - 1 /\ g \in Nat
        /\ h * WORD + g = m * D
    <3> HIDE DEF f
    <3> QED
      BY <2>2, FlushDigit
  <2>5. v * WORD + m = base * w
    BY <1>6
  <2> HIDE DEF v, f, m, h, g, w, base
  <2>6. (v * D + h) * WORD + g = (v * WORD + m) * D
    <3>1. (v * D + h) * WORD = (v * WORD) * D + h * WORD
          /\ (v * WORD + m) * D = (v * WORD) * D + m * D
          /\ (v * WORD) * D \in Nat /\ h * WORD \in Nat /\ m * D \in Nat
      BY <2>2, <2>4, ConstantTypes, SMTT(30)
    <3> DEFINE a == (v * WORD) * D
               b == h * WORD
               c == m * D
    <3>2. a \in Nat /\ b \in Nat /\ c \in Nat /\ g \in Nat /\ b + g = c
          /\ (v * D + h) * WORD = a + b /\ (v * WORD + m) * D = a + c
      BY <2>4, <3>1
    <3> HIDE DEF a, b, c
    <3>3. (a + b) + g = a + c
      BY <3>2
    <3> QED
      BY <3>2, <3>3
  <2>7. (base * w) * D = base * (D * w)
    BY <1>4a, <2>2, ConstantTypes, SMTT(30)
  <2>8. V[p + i] * WORD + (FlushLow[i] % WORD) = base * Weight[i]
    BY <2>3, <2>5, <2>6, <2>7
  <2> QED
    BY <2>8 DEF base
<1>7. Bad = {}
  <2>1. ASSUME Bad # {} PROVE FALSE
    <3>1. Bad \in SUBSET Nat
      OBVIOUS
    <3>2. PICK k \in Bad : \A j \in Bad : k <= j
      <4> HIDE DEF Bad
      <4> QED
        BY <2>1, <3>1, LeastElement
    <3> HIDE DEF Right
    <3>3. k \in 0 .. DIGITS /\ ~ Right(k)
      OBVIOUS
    <3>4. k # 0
      BY <1>5, <3>3
    <3>5. k - 1 \in 0 .. DIGITS /\ ~ (k <= k - 1) /\ k \in 1 .. DIGITS
      BY <3>3, <3>4, ConstantTypes
    <3>6. Right(k - 1)
      BY <3>2, <3>5
    <3> QED
      BY <1>6, <3>3, <3>5, <3>6
  <2> QED
    BY <2>1
<1>8. V[p + DIGITS] * WORD + (FlushLow[DIGITS] % WORD) = base * WORD
  <2>1. DIGITS \in 0 .. DIGITS
    BY ConstantTypes
  <2>2. Right(DIGITS)
    <3> HIDE DEF Right
    <3> QED
      BY <1>7, <2>1
  <2> QED
    BY <2>2, Weights
<1>9. V[p + DIGITS] = base
  <2> DEFINE v == V[p + DIGITS]
             m == FlushLow[DIGITS] % WORD
             x == base * WORD
  <2>1. v \in Nat /\ m \in 0 .. WORD - 1
    <3>1. DIGITS \in 0 .. DIGITS
      BY ConstantTypes
    <3>2. v \in Nat /\ FlushLow[DIGITS] \in Nat
      BY <1>4, <3>1
    <3> QED
      BY <3>2, EuclideanDivision, ConstantTypes
  <2> HIDE DEF v, m, base
  <2>2. x = WORD * v + m /\ x = WORD * base + 0 /\ x \in Int
    <3>1. base * WORD = WORD * base /\ v * WORD = WORD * v /\ base * WORD \in Int
      BY <1>4a, <2>1, ConstantTypes, SMTT(30)
    <3>2. v * WORD + m = base * WORD
      BY <1>8 DEF v, m
    <3> QED
      BY <3>1, <3>2
  <2> HIDE DEF x
  <2>3. x \div WORD = v
    <3>1. v \in Int /\ x \in Int /\ x = WORD * v + m
      BY <2>1, <2>2
    <3> QED
      BY <2>1, <3>1, Quotients, ConstantTypes
  <2>4. x \div WORD = base
    <3>1. 0 \in 0 .. WORD - 1
      BY ConstantTypes
    <3>2. base \in Int /\ x \in Int /\ x = WORD * base + 0
      BY <1>4a, <2>2
    <3> QED
      BY <3>1, <3>2, Quotients, ConstantTypes
  <2> QED
    BY <2>3, <2>4 DEF v
<1> QED
  BY <1>9 DEF p

LEMMA FirstDigitsSpell ==
  ASSUME out \in Seq(0 .. D - 1), DIGITS <= Len(out),
         NEW V, Prefixes(D, out, V)
  PROVE  FirstDigits[DIGITS] = V[DIGITS] % WORD
<1> DEFINE f == [ i \in 0 .. DIGITS |-> V[i] % WORD ]
<1>1. /\ V \in [0 .. Len(out) -> Nat] /\ V[0] = 0
      /\ \A j \in 1 .. Len(out) : V[j] = V[j - 1] * D + out[j]
  BY DEF Prefixes
<1>2. ASSUME NEW i \in 1 .. DIGITS
      PROVE  /\ V[i - 1] \in Nat /\ out[i] \in Nat
             /\ V[i] = V[i - 1] * D + out[i]
  <2>1. i - 1 \in 0 .. Len(out) /\ i \in 1 .. Len(out)
    BY ConstantTypes
  <2>2. out[i] \in Nat
    <3>1. out[i] \in 0 .. D - 1
      BY <2>1, ElementFacts
    <3> QED
      BY <3>1, ConstantTypes
  <2>3. V[i - 1] \in Nat
    BY <1>1, <2>1, Zenon
  <2>4. V[i] = V[i - 1] * D + out[i]
    BY <1>1, <2>1, Zenon
  <2> QED
    BY <2>2, <2>3, <2>4, Zenon
<1>3. ASSUME NEW g, g = [ i \in 0 .. DIGITS |->
                            IF i = 0 THEN 0 ELSE (g[i - 1] * D + out[i]) % WORD ]
      PROVE  g[DIGITS] = V[DIGITS] % WORD
  <2> DEFINE Bad == { i \in 0 .. DIGITS : g[i] # V[i] % WORD }
  <2>0. \A i \in 0 .. DIGITS :
          g[i] = IF i = 0 THEN 0 ELSE (g[i - 1] * D + out[i]) % WORD
    BY <1>3, Zenon
  <2>1. g[0] = V[0] % WORD
    <3>1. 0 % WORD = 0 /\ 0 \in 0 .. DIGITS
      BY ConstantTypes, ModSmall
    <3> QED
      BY <1>1, <2>0, <3>1
  <2>2. ASSUME NEW i \in 1 .. DIGITS, g[i - 1] = V[i - 1] % WORD
        PROVE  g[i] = V[i] % WORD
    <3>1. i \in 0 .. DIGITS /\ i # 0
      BY ConstantTypes
    <3>2. g[i] = (g[i - 1] * D + out[i]) % WORD
      BY <2>0, <3>1
    <3>3. ((V[i - 1] % WORD) * D + out[i]) % WORD = (V[i - 1] * D + out[i]) % WORD
      BY <1>2, ReadDigit
    <3> QED
      BY <1>2, <2>2, <3>2, <3>3
  <2>3. Bad = {}
    <3>1. ASSUME Bad # {} PROVE FALSE
      <4>1. Bad \in SUBSET Nat
        OBVIOUS
      <4>2. PICK k \in Bad : \A j \in Bad : k <= j
        <5> HIDE DEF Bad
        <5> QED
          BY <3>1, <4>1, LeastElement
      <4>3. k \in 0 .. DIGITS /\ g[k] # V[k] % WORD
        OBVIOUS
      <4>4. k # 0
        BY <2>1, <4>3
      <4>5. k - 1 \in 0 .. DIGITS /\ ~ (k <= k - 1) /\ k \in 1 .. DIGITS
        BY <4>3, <4>4, ConstantTypes
      <4>6. g[k - 1] = V[k - 1] % WORD
        BY <4>2, <4>5
      <4> QED
        BY <2>2, <4>3, <4>5, <4>6
    <3> QED
      BY <3>1
  <2> QED
    BY <2>3, ConstantTypes
<1>4. f = [ i \in 0 .. DIGITS |->
              IF i = 0 THEN 0 ELSE (f[i - 1] * D + out[i]) % WORD ]
  <2>1. ASSUME NEW i \in 0 .. DIGITS
        PROVE  V[i] % WORD = IF i = 0 THEN 0
                             ELSE (f[i - 1] * D + out[i]) % WORD
    <3>1. CASE i = 0
      <4>1. 0 % WORD = 0
        BY ConstantTypes, ModSmall
      <4> QED
        BY <1>1, <3>1, <4>1
    <3>2. CASE i # 0
      <4>1. i \in 1 .. DIGITS /\ i - 1 \in 0 .. DIGITS
        BY <3>2, ConstantTypes
      <4>2. f[i - 1] = V[i - 1] % WORD
        BY <4>1
      <4> HIDE DEF f
      <4>3. ((V[i - 1] % WORD) * D + out[i]) % WORD
              = (V[i - 1] * D + out[i]) % WORD
        BY <1>2, <4>1, ReadDigit
      <4> QED
        BY <1>2, <3>2, <4>1, <4>2, <4>3
    <3> QED
      BY <3>1, <3>2
  <2>2. f = [ i \in 0 .. DIGITS |-> V[i] % WORD ]
    OBVIOUS
  <2> HIDE DEF f
  <2> QED
    BY <2>1, <2>2, Zenon
<1> HIDE DEF f
<1>5. FirstDigits = [ i \in 0 .. DIGITS |->
          IF i = 0 THEN 0 ELSE (FirstDigits[i - 1] * D + out[i]) % WORD ]
  BY <1>4, Zenon DEF FirstDigits
<1> QED
  BY <1>3, <1>5, Zenon

-----------------------------------------------------------------------------
(* A decoder at a turn of a complete stream: low, range and what it has     *)
(* decoded are those of the turn, and it has read the DIGITS digits behind  *)
(* it.                                                                      *)
DecodingAt(table, file, stream, lo, rg, cd, p, c, t) ==
  \E K, H, V : \E k \in 0 .. K :
    /\ Complete(table, file, stream, K, H, V)
    /\ H[k].low = lo /\ H[k].range = rg
    /\ H[k].pos + DIGITS = p /\ H[k].count = c /\ H[k].turn = t
    /\ cd = V[p] % WORD

(* What the decoder holds in code lies inside the interval.                 *)
LEMMA CodeIsSpelled ==
  ASSUME NEW stream \in Seq(0 .. D - 1), NEW V, Prefixes(D, stream, V),
         NEW g \in CoderStates, Within(V, stream, g)
  PROVE  LET cd == V[g.pos + DIGITS] % WORD
         IN  /\ cd = Spelled(V, g) /\ cd \in 0 .. WORD - 1
             /\ cd - g.low \in 0 .. g.range - 1
             /\ (cd - g.low) % REGISTER = cd - g.low
<1> DEFINE w == Spelled(V, g)
           v == V[g.pos + DIGITS]
           u == V[g.pos]
<1>1. w \in Int /\ u \in Nat /\ v \in Nat /\ u * WORD \in Nat
  BY SpelledFacts DEF Within
<1>2. g.low <= w /\ w < g.low + g.range
  BY DEF Within
<1>3. /\ g.low \in Nat /\ g.range \in Nat /\ g.low + g.range <= WORD
      /\ g.range <= WORD
  BY StateFacts, ConstantTypes DEF Interval
<1>4. w = v - u * WORD
  BY DEF Spelled
<1> HIDE DEF w, v, u
<1>5. w \in 0 .. WORD - 1
  BY <1>1, <1>2, <1>3, ConstantTypes
<1>6. v = WORD * u + w
  <2>1. u * WORD = WORD * u
    BY <1>1, ConstantTypes, SMTT(30)
  <2> DEFINE x == u * WORD
  <2>2. x \in Nat /\ w = v - x /\ x = WORD * u
    BY <1>1, <1>4, <2>1
  <2> HIDE DEF x
  <2>3. v = x + w
    BY <1>1, <2>2
  <2> QED
    BY <2>2, <2>3
<1>7. v % WORD = w
  <2>1. v \in Int /\ u \in Int
    BY <1>1
  <2> QED
    BY <1>5, <1>6, <2>1, Quotients, ConstantTypes
<1>8. w - g.low \in 0 .. g.range - 1 /\ w - g.low \in 0 .. REGISTER - 1
  BY <1>1, <1>2, <1>3, ConstantTypes
<1>9. (w - g.low) % REGISTER = w - g.low
  BY <1>8, ModSmall, ConstantTypes
<1> QED
  BY <1>5, <1>7, <1>8, <1>9 DEF w, v

LEMMA DecodingTypes ==
  ASSUME NEW table \in Tables, NEW file \in Seq(Occurring(table)),
         NEW stream \in Seq(0 .. D - 1),
         NEW lo, NEW rg, NEW cd, NEW p, NEW c, NEW t,
         DecodingAt(table, file, stream, lo, rg, cd, p, c, t)
  PROVE  /\ Interval(lo, rg) /\ (t = "step" => BOT <= rg)
         /\ cd \in 0 .. WORD - 1 /\ cd - lo \in 0 .. rg - 1
         /\ (cd - lo) % REGISTER = cd - lo
         /\ p \in Nat /\ p <= Len(stream) /\ c \in Nat
         /\ t \in {"step", "renorm"}
         /\ t = "step" /\ c = Len(file) => p = Len(stream)
<1>1. PICK K, H, V : \E k \in 0 .. K :
        /\ Complete(table, file, stream, K, H, V)
        /\ H[k].low = lo /\ H[k].range = rg
        /\ H[k].pos + DIGITS = p /\ H[k].count = c /\ H[k].turn = t
        /\ cd = V[p] % WORD
  BY DEF DecodingAt
<1>2. PICK k \in 0 .. K :
        /\ Complete(table, file, stream, K, H, V)
        /\ H[k].low = lo /\ H[k].range = rg
        /\ H[k].pos + DIGITS = p /\ H[k].count = c /\ H[k].turn = t
        /\ cd = V[p] % WORD
  BY <1>1
<1>3. /\ H[k] \in CoderStates /\ Within(V, stream, H[k])
      /\ Prefixes(D, stream, V) /\ K \in Nat
  BY <1>2, EveryTurnWithin DEF Complete, Recorded
<1>4. /\ Interval(lo, rg) /\ (t = "step" => BOT <= rg)
      /\ c \in Nat /\ t \in {"step", "renorm"} /\ H[k].pos \in Nat
  BY <1>2, <1>3, StateFacts
<1>5. /\ cd \in 0 .. WORD - 1 /\ cd - lo \in 0 .. rg - 1
      /\ (cd - lo) % REGISTER = cd - lo
  BY <1>2, <1>3, CodeIsSpelled
<1>6. p \in Nat /\ p <= Len(stream)
  <2>1. p <= Len(stream)
    BY <1>2, <1>3 DEF Within
  <2>2. H[k].pos + DIGITS = p /\ H[k].pos \in Nat /\ DIGITS \in Nat
    BY <1>2, <1>4, ConstantTypes
  <2>3. p \in Nat
    BY <2>2
  <2> QED
    BY <2>1, <2>3
<1>7. ASSUME t = "step", c = Len(file) PROVE p = Len(stream)
  <2>1. k = K
    <3>1. ASSUME k # K PROVE FALSE
      <4>1. k + 1 \in 1 .. K /\ (k + 1) - 1 = k
        BY <1>3, <3>1
      <4>2. Turn(table, file, stream, H[(k + 1) - 1], H[k + 1])
        BY <1>2, <4>1 DEF Complete, Recorded
      <4>3. Codes(table, file, H[k], H[k + 1])
        BY <1>2, <1>7, <4>1, <4>2 DEF Turn, Shifts, Leaves
      <4>4. H[k].count < Len(file)
        BY <4>3 DEF Codes
      <4> QED
        BY <1>2, <1>4, <1>7, <4>4
    <3> QED
      BY <3>1
  <2> QED
    BY <1>2, <2>1 DEF Complete
<1> QED
  BY <1>4, <1>5, <1>6, <1>7

LEMMA DecodingStarts ==
  ASSUME NEW table, NEW file, NEW stream, NEW K, NEW H, NEW V,
         Complete(table, file, stream, K, H, V)
  PROVE  DecodingAt(table, file, stream, 0, WORD - 1, V[DIGITS] % WORD,
                    DIGITS, 0, "step")
<1>1. /\ K \in Nat /\ 0 \in 0 .. K
      /\ H[0].low = 0 /\ H[0].range = WORD - 1 /\ H[0].pos = 0
      /\ H[0].count = 0 /\ H[0].turn = "step"
  BY DEF Complete, Recorded
<1>2. H[0].pos + DIGITS = DIGITS
  BY <1>1, ConstantTypes
<1> QED
  BY <1>1, <1>2, Zenon DEF DecodingAt

(* A turn of the decoder is the turn of the encoder.                        *)
LEMMA DecodingNext ==
  ASSUME NEW table \in Tables, NEW file \in Seq(Occurring(table)),
         NEW stream \in Seq(0 .. D - 1),
         NEW K, NEW H, NEW V, Complete(table, file, stream, K, H, V),
         NEW k \in 0 .. K, H[k].turn = "renorm" \/ H[k].count < Len(file)
  PROVE  /\ k + 1 \in 0 .. K
         /\ H[k] \in CoderStates /\ H[k + 1] \in CoderStates
         /\ Turn(table, file, stream, H[k], H[k + 1])
         /\ Within(V, stream, H[k]) /\ Within(V, stream, H[k + 1])
         /\ Prefixes(D, stream, V)
<1>1. K \in Nat /\ H[K].turn = "step" /\ H[K].count = Len(file)
      /\ Prefixes(D, stream, V)
      /\ \A j \in 1 .. K : Turn(table, file, stream, H[j - 1], H[j])
  BY DEF Complete, Recorded
<1>2. k # K
  BY <1>1
<1>3. k + 1 \in 0 .. K /\ k + 1 \in 1 .. K /\ (k + 1) - 1 = k
  BY <1>1, <1>2
<1>4. Turn(table, file, stream, H[k], H[k + 1])
  BY <1>1, <1>3
<1> QED
  BY <1>1, <1>3, <1>4, EveryTurnWithin

LEMMA DecodingShifts ==
  ASSUME NEW table \in Tables, NEW file \in Seq(Occurring(table)),
         NEW stream \in Seq(0 .. D - 1),
         NEW lo, NEW rg, NEW cd, NEW p, NEW c,
         DecodingAt(table, file, stream, lo, rg, cd, p, c, "renorm"),
         MustShift(lo, rg)
  PROVE  /\ p < Len(stream)
         /\ DecodingAt(table, file, stream, ShiftedLow(lo),
                       ShiftedRange(Kept(lo, rg)),
                       (cd * D + stream[p + 1]) % WORD, p + 1, c, "renorm")
<1>1. PICK K, H, V : \E k \in 0 .. K :
        /\ Complete(table, file, stream, K, H, V)
        /\ H[k].low = lo /\ H[k].range = rg
        /\ H[k].pos + DIGITS = p /\ H[k].count = c /\ H[k].turn = "renorm"
        /\ cd = V[p] % WORD
  BY DEF DecodingAt
<1>2. PICK k \in 0 .. K :
        /\ Complete(table, file, stream, K, H, V)
        /\ H[k].low = lo /\ H[k].range = rg
        /\ H[k].pos + DIGITS = p /\ H[k].count = c /\ H[k].turn = "renorm"
        /\ cd = V[p] % WORD
  BY <1>1
<1> DEFINE g == H[k]
           h == H[k + 1]
<1>3. /\ k + 1 \in 0 .. K /\ g \in CoderStates /\ h \in CoderStates
      /\ Turn(table, file, stream, g, h)
      /\ Within(V, stream, h) /\ Prefixes(D, stream, V)
  BY <1>2, DecodingNext
<1>4. Shifts(stream, g, h)
  BY <1>2, <1>3 DEF Turn, Codes, Leaves
<1>5. /\ h.low = ShiftedLow(lo) /\ h.range = ShiftedRange(Kept(lo, rg))
      /\ h.pos = g.pos + 1 /\ h.count = c /\ h.turn = "renorm"
  BY <1>2, <1>4 DEF Shifts
<1>6. /\ g.pos \in Nat /\ h.pos + DIGITS <= Len(stream) /\ g.pos + DIGITS = p
  BY <1>2, <1>3, StateFacts DEF Within
<1> HIDE DEF g, h
<1>7. /\ p \in Nat /\ h.pos + DIGITS = p + 1 /\ p < Len(stream)
      /\ p + 1 \in 1 .. Len(stream) /\ p \in 0 .. Len(stream) /\ (p + 1) - 1 = p
  BY <1>5, <1>6, ConstantTypes, SMTT(60)
<1>8. (cd * D + stream[p + 1]) % WORD = V[p + 1] % WORD
  <2>1. V[p] \in Nat /\ V[p + 1] = V[(p + 1) - 1] * D + stream[p + 1]
    BY <1>3, <1>7, Zenon DEF Prefixes
  <2>2. stream[p + 1] \in Nat
    <3>1. stream[p + 1] \in 0 .. D - 1
      BY <1>7, ElementFacts
    <3> QED
      BY <3>1, ConstantTypes
  <2>3. ((V[p] % WORD) * D + stream[p + 1]) % WORD
          = (V[p] * D + stream[p + 1]) % WORD
    BY <2>1, <2>2, ReadDigit
  <2>4. V[p + 1] = V[p] * D + stream[p + 1] /\ cd = V[p] % WORD
    BY <1>2, <1>7, <2>1
  <2> QED
    BY <2>3, <2>4
<1>9. DecodingAt(table, file, stream, ShiftedLow(lo),
                 ShiftedRange(Kept(lo, rg)),
                 (cd * D + stream[p + 1]) % WORD, p + 1, c, "renorm")
  BY <1>2, <1>3, <1>5, <1>7, <1>8, Zenon DEF DecodingAt, h
<1> QED
  BY <1>7, <1>9

LEMMA DecodingLeaves ==
  ASSUME NEW table \in Tables, NEW file \in Seq(Occurring(table)),
         NEW stream \in Seq(0 .. D - 1),
         NEW lo, NEW rg, NEW cd, NEW p, NEW c,
         DecodingAt(table, file, stream, lo, rg, cd, p, c, "renorm"),
         ~ MustShift(lo, rg)
  PROVE  DecodingAt(table, file, stream, lo, rg, cd, p, c, "step")
<1>1. PICK K, H, V : \E k \in 0 .. K :
        /\ Complete(table, file, stream, K, H, V)
        /\ H[k].low = lo /\ H[k].range = rg
        /\ H[k].pos + DIGITS = p /\ H[k].count = c /\ H[k].turn = "renorm"
        /\ cd = V[p] % WORD
  BY DEF DecodingAt
<1>2. PICK k \in 0 .. K :
        /\ Complete(table, file, stream, K, H, V)
        /\ H[k].low = lo /\ H[k].range = rg
        /\ H[k].pos + DIGITS = p /\ H[k].count = c /\ H[k].turn = "renorm"
        /\ cd = V[p] % WORD
  BY <1>1
<1>3. k + 1 \in 0 .. K /\ Turn(table, file, stream, H[k], H[k + 1])
  BY <1>2, DecodingNext
<1>4. Leaves(H[k], H[k + 1])
  BY <1>2, <1>3 DEF Turn, Codes, Shifts
<1>5. /\ H[k + 1].low = lo /\ H[k + 1].range = rg /\ H[k + 1].turn = "step"
      /\ H[k + 1].pos + DIGITS = p /\ H[k + 1].count = c
  BY <1>2, <1>4 DEF Leaves
<1> QED
  BY <1>2, <1>3, <1>5, Zenon DEF DecodingAt

LEMMA DecodingCodes ==
  ASSUME NEW table \in Tables, NEW file \in Seq(Occurring(table)),
         NEW stream \in Seq(0 .. D - 1),
         NEW lo, NEW rg, NEW cd, NEW p, NEW c,
         DecodingAt(table, file, stream, lo, rg, cd, p, c, "step"),
         c < Len(file)
  PROVE  LET sym == file[c + 1]
             t   == rg \div TOTAL
         IN  /\ (cd - lo) \div t \in 0 .. TOTAL - 1
             /\ Find(table, (cd - lo) \div t) = sym
             /\ sym \in Occurring(table)
             /\ DecodingAt(table, file, stream,
                           (lo + t * table[sym]) % REGISTER,
                           t * Freq(table, sym), cd, p, c + 1, "renorm")
<1> DEFINE sym == file[c + 1]
           t   == rg \div TOTAL
<1>1. PICK K, H, V : \E k \in 0 .. K :
        /\ Complete(table, file, stream, K, H, V)
        /\ H[k].low = lo /\ H[k].range = rg
        /\ H[k].pos + DIGITS = p /\ H[k].count = c /\ H[k].turn = "step"
        /\ cd = V[p] % WORD
  BY DEF DecodingAt
<1>2. PICK k \in 0 .. K :
        /\ Complete(table, file, stream, K, H, V)
        /\ H[k].low = lo /\ H[k].range = rg
        /\ H[k].pos + DIGITS = p /\ H[k].count = c /\ H[k].turn = "step"
        /\ cd = V[p] % WORD
  BY <1>1
<1> DEFINE g == H[k]
           h == H[k + 1]
<1>3. /\ k + 1 \in 0 .. K /\ g \in CoderStates /\ h \in CoderStates
      /\ Turn(table, file, stream, g, h)
      /\ Within(V, stream, g) /\ Within(V, stream, h)
      /\ Prefixes(D, stream, V)
  BY <1>2, DecodingNext
<1>4. Codes(table, file, g, h)
  BY <1>2, <1>3 DEF Turn, Shifts, Leaves
<1>4a. g.low = lo /\ g.range = rg /\ g.count = c /\ g.pos + DIGITS = p
       /\ g.turn = "step" /\ cd = V[g.pos + DIGITS] % WORD
  BY <1>2
<1>5. /\ h.low = lo + t * table[sym] /\ h.range = t * Freq(table, sym)
      /\ h.pos = g.pos /\ h.count = c + 1 /\ h.turn = "renorm"
  BY <1>4, <1>4a DEF Codes
<1>6. /\ Interval(lo, rg) /\ BOT <= rg
  BY <1>3, <1>4a, StateFacts
<1>7. /\ cd = Spelled(V, g)
  BY <1>3, <1>4a, CodeIsSpelled
<1>8. /\ sym \in Occurring(table) /\ t \in Nat \ {0} /\ cd - lo \in Nat
      /\ t * table[sym] <= cd - lo
      /\ cd - lo < t * table[sym] + t * Freq(table, sym)
  <2> HIDE DEF g, h
  <2> QED
    BY <1>3, <1>4, <1>4a, <1>7, WithinBeforeCode
<1> HIDE DEF g, h, sym, t
<1>9. (cd - lo) \div t \in 0 .. TOTAL - 1 /\ Find(table, (cd - lo) \div t) = sym
  BY <1>8, LookupFinds
<1>a. (lo + t * table[sym]) % REGISTER = lo + t * table[sym]
  BY <1>6, <1>8, NarrowedRange DEF t
<1>b. h.pos + DIGITS = p
  BY <1>4a, <1>5
<1>c. DecodingAt(table, file, stream, (lo + t * table[sym]) % REGISTER,
                 t * Freq(table, sym), cd, p, c + 1, "renorm")
  BY <1>2, <1>3, <1>5, <1>a, <1>b, Zenon DEF DecodingAt, h
<1> QED
  BY <1>8, <1>9, <1>c DEF sym, t

-----------------------------------------------------------------------------
(* An encoder that has coded file into stream and is at this turn.          *)
RunningAt(table, file, stream, lo, rg, p, t) ==
  \E K, H :
    /\ Recorded(table, file, stream, K, H)
    /\ H[K].low = lo /\ H[K].range = rg /\ H[K].pos = p
    /\ H[K].count = Len(file) /\ H[K].turn = t

LEMMA FirstInterval == Interval(0, WORD - 1) /\ BOT <= WORD - 1
<1>1. TOP + 1 <= WORD
  <2>1. D * TOP >= 2 * TOP
    BY Constants, SMTT(30)
  <2> DEFINE x == D * TOP
  <2>2. x = WORD /\ x >= 2 * TOP
    BY <2>1, Constants
  <2> HIDE DEF x
  <2> QED
    BY <2>2, ConstantTypes
<1> QED
  BY <1>1, ConstantTypes DEF Interval

LEMMA ExtendsItself ==
  ASSUME NEW S, NEW a \in Seq(S)
  PROVE  Extends(a, a)
  BY DEF Extends

LEMMA RecordStarts ==
  ASSUME NEW table
  PROVE  RunningAt(table, << >>, << >>, 0, WORD - 1, 0, "step")
<1> DEFINE g == [low |-> 0, range |-> WORD - 1, pos |-> 0, count |-> 0,
                 turn |-> "step"]
           H == [ k \in 0 .. 0 |-> g ]
<1>1. g \in CoderStates
  BY FirstInterval, MakeState
<1>2. H \in [0 .. 0 -> CoderStates] /\ H[0] = g /\ 1 .. 0 = {}
  <2> HIDE DEF g
  <2> QED
    BY <1>1
<1>3. g.low = 0 /\ g.range = WORD - 1 /\ g.pos = 0 /\ g.count = 0
      /\ g.turn = "step" /\ Len(<< >>) = 0
  OBVIOUS
<1> HIDE DEF g, H
<1>4. Recorded(table, << >>, << >>, 0, H)
  BY <1>2, <1>3 DEF Recorded
<1> QED
  BY <1>2, <1>3, <1>4 DEF RunningAt

LEMMA RecordCodes ==
  ASSUME NEW table \in Tables, NEW file \in Seq(Occurring(table)),
         NEW stream \in Seq(0 .. D - 1), NEW sym \in Occurring(table),
         NEW lo, NEW rg, NEW p,
         RunningAt(table, file, stream, lo, rg, p, "step")
  PROVE  LET t == rg \div TOTAL
         IN  RunningAt(table, Append(file, sym), stream, lo + t * table[sym],
                       t * Freq(table, sym), p, "renorm")
<1> DEFINE t == rg \div TOTAL
           file2 == Append(file, sym)
           lo2 == lo + t * table[sym]
           rg2 == t * Freq(table, sym)
           h == [low |-> lo2, range |-> rg2, pos |-> p,
                 count |-> Len(file) + 1, turn |-> "renorm"]
<1>1. PICK K, H :
        /\ Recorded(table, file, stream, K, H)
        /\ H[K].low = lo /\ H[K].range = rg /\ H[K].pos = p
        /\ H[K].count = Len(file) /\ H[K].turn = "step"
  BY DEF RunningAt
<1>2. H[K] \in CoderStates
  <2>1. K \in 0 .. K
    BY <1>1 DEF Recorded
  <2> QED
    BY <1>1, <2>1 DEF Recorded
<1>3. Interval(lo, rg) /\ BOT <= rg /\ p \in Nat /\ Len(file) \in Nat
  BY <1>1, <1>2, StateFacts
<1>4. /\ file2 \in Seq(Occurring(table)) /\ Len(file2) = Len(file) + 1
      /\ file2[Len(file) + 1] = sym
      /\ Extends(file, file2) /\ Extends(stream, stream)
  <2>1. /\ file2 \in Seq(Occurring(table)) /\ Len(file2) = Len(file) + 1
        /\ file2[Len(file) + 1] = sym
        /\ \A i \in 1 .. Len(file) : file2[i] = file[i]
    BY AppendFacts
  <2> HIDE DEF file2
  <2>2. Extends(file, file2)
    BY <1>3, <2>1 DEF Extends
  <2> QED
    BY <2>1, <2>2, ExtendsItself
<1> HIDE DEF file2
<1>5. Recorded(table, file2, stream, K, H)
  BY <1>1, <1>4, RecordExtends
<1>6. Interval(lo2, rg2)
  BY <1>3, NarrowedRange
<1>7. h \in CoderStates
  <2> HIDE DEF lo2, rg2
  <2>1. Len(file) + 1 \in Nat
    BY <1>3
  <2> QED
    BY <1>3, <1>6, <2>1, MakeState
<1>8. /\ h.low = lo2 /\ h.range = rg2 /\ h.pos = p
      /\ h.count = Len(file) + 1 /\ h.turn = "renorm"
  OBVIOUS
<1> HIDE DEF h
<1>9. Codes(table, file2, H[K], h)
  <2>1. Len(file) < Len(file2)
    BY <1>3, <1>4
  <2> QED
    BY <1>1, <1>4, <1>8, <2>1 DEF Codes
<1>a. /\ Recorded(table, file2, stream, K + 1, WithTurn(K, H, h))
      /\ WithTurn(K, H, h)[K + 1] = h
  BY <1>5, <1>7, <1>9, RecordTurn DEF Turn
<1>b. RunningAt(table, file2, stream, lo2, rg2, p, "renorm")
  BY <1>4, <1>8, <1>a, Zenon DEF RunningAt
<1> QED
  BY <1>b DEF file2

LEMMA RecordShifts ==
  ASSUME NEW table \in Tables, NEW file \in Seq(Occurring(table)),
         NEW stream \in Seq(0 .. D - 1),
         NEW lo, NEW rg,
         RunningAt(table, file, stream, lo, rg, Len(stream), "renorm"),
         MustShift(lo, rg)
  PROVE  RunningAt(table, file, Append(stream, lo \div TOP), ShiftedLow(lo),
                   ShiftedRange(Kept(lo, rg)), Len(stream) + 1, "renorm")
<1> DEFINE p == Len(stream)
           digit == lo \div TOP
           stream2 == Append(stream, digit)
           lo2 == ShiftedLow(lo)
           rg2 == ShiftedRange(Kept(lo, rg))
           h == [low |-> lo2, range |-> rg2, pos |-> p + 1,
                 count |-> Len(file), turn |-> "renorm"]
<1>1. PICK K, H :
        /\ Recorded(table, file, stream, K, H)
        /\ H[K].low = lo /\ H[K].range = rg /\ H[K].pos = p
        /\ H[K].count = Len(file) /\ H[K].turn = "renorm"
  BY DEF RunningAt
<1>2. H[K] \in CoderStates
  <2>1. K \in 0 .. K
    BY <1>1 DEF Recorded
  <2> QED
    BY <1>1, <2>1 DEF Recorded
<1>3. Interval(lo, rg) /\ p \in Nat /\ Len(file) \in Nat
  BY <1>1, <1>2, StateFacts
<1>4. digit \in 0 .. D - 1
  BY <1>3, TopDigit
<1> HIDE DEF digit
<1>5. /\ stream2 \in Seq(0 .. D - 1) /\ Len(stream2) = p + 1
      /\ stream2[p + 1] = digit
      /\ Extends(stream, stream2) /\ Extends(file, file)
  <2>1. /\ stream2 \in Seq(0 .. D - 1) /\ Len(stream2) = p + 1
        /\ stream2[p + 1] = digit
        /\ \A i \in 1 .. p : stream2[i] = stream[i]
    BY <1>4, AppendFacts
  <2> HIDE DEF stream2
  <2>2. Extends(stream, stream2)
    BY <1>3, <2>1 DEF Extends
  <2> QED
    BY <2>1, <2>2, ExtendsItself
<1> HIDE DEF stream2
<1>6. Recorded(table, file, stream2, K, H)
  BY <1>1, <1>5, RecordExtends
<1>7. Interval(lo2, rg2)
  BY <1>3, ShiftedInterval
<1> HIDE DEF lo2, rg2
<1>8. h \in CoderStates
  <2>1. p + 1 \in Nat
    BY <1>3
  <2> QED
    BY <1>3, <1>7, <2>1, MakeState
<1>9. /\ h.low = lo2 /\ h.range = rg2 /\ h.pos = p + 1
      /\ h.count = Len(file) /\ h.turn = "renorm"
  OBVIOUS
<1> HIDE DEF h, p
<1>a. Shifts(stream2, H[K], h)
  <2>1. p < Len(stream2)
    BY <1>3, <1>5
  <2> QED
    BY <1>1, <1>5, <1>9, <2>1 DEF Shifts, lo2, rg2, digit
<1>b. /\ Recorded(table, file, stream2, K + 1, WithTurn(K, H, h))
      /\ WithTurn(K, H, h)[K + 1] = h
  BY <1>6, <1>8, <1>a, RecordTurn DEF Turn
<1>c. RunningAt(table, file, stream2, lo2, rg2, p + 1, "renorm")
  BY <1>9, <1>b, Zenon DEF RunningAt
<1> QED
  BY <1>c DEF stream2, lo2, rg2, digit, p

LEMMA RecordLeaves ==
  ASSUME NEW table, NEW file, NEW stream,
         NEW lo, NEW rg, NEW p,
         RunningAt(table, file, stream, lo, rg, p, "renorm"),
         ~ MustShift(lo, rg)
  PROVE  /\ BOT <= rg
         /\ RunningAt(table, file, stream, lo, rg, p, "step")
<1> DEFINE h == [low |-> lo, range |-> rg, pos |-> p,
                 count |-> Len(file), turn |-> "step"]
<1>1. PICK K, H :
        /\ Recorded(table, file, stream, K, H)
        /\ H[K].low = lo /\ H[K].range = rg /\ H[K].pos = p
        /\ H[K].count = Len(file) /\ H[K].turn = "renorm"
  BY DEF RunningAt
<1>2. H[K] \in CoderStates
  <2>1. K \in 0 .. K
    BY <1>1 DEF Recorded
  <2> QED
    BY <1>1, <2>1 DEF Recorded
<1>3. Interval(lo, rg) /\ p \in Nat /\ Len(file) \in Nat /\ rg \in Nat
  BY <1>1, <1>2, StateFacts
<1>4. BOT <= rg
  <2>1. ~ (rg < BOT)
    BY DEF MustShift, MustTrim
  <2> QED
    BY <1>3, <2>1, ConstantTypes
<1>5. h \in CoderStates
  BY <1>3, <1>4, MakeState
<1>6. /\ h.low = lo /\ h.range = rg /\ h.pos = p
      /\ h.count = Len(file) /\ h.turn = "step"
  OBVIOUS
<1> HIDE DEF h
<1>7. Leaves(H[K], h)
  BY <1>1, <1>6 DEF Leaves
<1>8. /\ Recorded(table, file, stream, K + 1, WithTurn(K, H, h))
      /\ WithTurn(K, H, h)[K + 1] = h
  BY <1>1, <1>5, <1>7, RecordTurn DEF Turn
<1>9. RunningAt(table, file, stream, lo, rg, p, "step")
  BY <1>6, <1>8, Zenon DEF RunningAt
<1> QED
  BY <1>4, <1>9

LEMMA RecordCompletes ==
  ASSUME NEW table \in Tables, NEW file \in Seq(Occurring(table)),
         NEW stream \in Seq(0 .. D - 1), NEW rg,
         low \in 0 .. WORD - 1,
         RunningAt(table, file, stream, low, rg, Len(stream), "step")
  PROVE  \E K, H, V : Complete(table, file, stream \o LowDigits, K, H, V)
<1> DEFINE p == Len(stream)
           stream2 == stream \o LowDigits
<1>1. PICK K, H :
        /\ Recorded(table, file, stream, K, H)
        /\ H[K].low = low /\ H[K].range = rg /\ H[K].pos = p
        /\ H[K].count = Len(file) /\ H[K].turn = "step"
  BY DEF RunningAt
<1>2. /\ p \in Nat /\ LowDigits \in Seq(0 .. D - 1) /\ Len(LowDigits) = DIGITS
      /\ DIGITS \in Nat
  <2>1. low \in Nat
    BY ConstantTypes
  <2> QED
    BY <2>1, LowDigitsTyped, ConstantTypes
<1>3. /\ stream2 \in Seq(0 .. D - 1) /\ Len(stream2) = p + DIGITS
      /\ \A i \in 1 .. p : stream2[i] = stream[i]
  BY <1>2
<1>4. PICK V : Prefixes(D, stream2, V)
  BY <1>3, PrefixesExist, ConstantTypes
<1>5. V[p + DIGITS] = V[p] * WORD + low
  BY <1>4, FlushSpellsLow
<1> HIDE DEF stream2, p
<1>6. Extends(stream, stream2) /\ Extends(file, file)
  <2>1. Len(stream) <= Len(stream2)
    BY <1>2, <1>3 DEF p
  <2>2. \A i \in 1 .. Len(stream) : stream2[i] = stream[i]
    BY <1>3 DEF p
  <2> QED
    BY <2>1, <2>2, ExtendsItself DEF Extends
<1>7. Recorded(table, file, stream2, K, H)
  BY <1>1, <1>3, <1>6, RecordExtends
<1>8. Spelled(V, H[K]) = H[K].low
  <2> DEFINE x == V[p] * WORD
             v == V[p + DIGITS]
  <2>1. x \in Nat
    <3>1. p \in 0 .. p + DIGITS
      BY <1>2
    <3>2. V[p] \in Nat
      BY <1>3, <1>4, <3>1 DEF Prefixes
    <3> QED
      BY <3>2, ConstantTypes, SMTT(30)
  <2>2. Spelled(V, H[K]) = v - x /\ v = x + low
    BY <1>1, <1>5 DEF Spelled
  <2> HIDE DEF x, v
  <2>3. v - x = low
    BY <2>1, <2>2, ConstantTypes
  <2> QED
    BY <1>1, <2>2, <2>3
<1>9. Complete(table, file, stream2, K, H, V)
  BY <1>1, <1>3, <1>4, <1>7, <1>8 DEF Complete
<1> QED
  BY <1>9 DEF stream2

-----------------------------------------------------------------------------
(* The inductive invariant.  The interval is right whether or not the       *)
(* buffer was too small; the history exists only as long as it was not, for *)
(* a digit that was dropped is not in the stream.                           *)
EncoderRight ==
  /\ cum \in Tables /\ n \in 1 .. MAX_SYMBOLS
  /\ data \in Seq(Occurring(cum)) /\ Len(data) <= n
  /\ low \in 0 .. REGISTER - 1 /\ range \in 1 .. WORD - 1
  /\ out \in Seq(0 .. D - 1) /\ pos \in Nat
  /\ phase \in {"step", "renorm", "written", "overflow"}
  /\ phase \in {"step", "renorm"} => Interval(low, range)
  /\ phase = "step" => BOT <= range

StreamRight ==
  /\ pos <= cap => Len(out) = pos
  /\ pos <= cap /\ phase \in {"step", "renorm"} =>
       RunningAt(cum, data, out, low, range, pos, phase)
  /\ phase = "written" =>
       /\ pos <= cap /\ Len(data) = n
       /\ \E K, H, V : Complete(cum, data, out, K, H, V)

DecoderWaits ==
  /\ dec_phase = "start" /\ dec_low = 0 /\ code = 0 /\ dec_pos = 0
  /\ out_buf = << >>

DecoderRuns ==
  /\ phase = "written" /\ dec_phase \in {"step", "renorm"}
  /\ DecodingAt(cum, data, out, dec_low, dec_range, code, dec_pos,
                Len(out_buf), dec_phase)
  /\ out_buf \in Seq(Occurring(cum)) /\ Len(out_buf) <= Len(data)
  /\ \A i \in 1 .. Len(out_buf) : out_buf[i] = data[i]

IInv == EncoderRight /\ StreamRight /\ (DecoderWaits \/ DecoderRuns)

LEMMA CapIsNat ==
  ASSUME n \in Nat
  PROVE  cap \in Nat
  BY BoundAssumption, SMTT(30) DEF cap

LEMMA CutFacts ==
  ASSUME cap \in Nat, NEW digits \in Seq(0 .. D - 1)
  PROVE  /\ Cut(digits) \in Seq(0 .. D - 1)
         /\ Len(digits) <= cap => Cut(digits) = digits
<1> DEFINE S == 0 .. D - 1
           c == cap
<1>1. c \in Nat /\ digits \in Seq(S) /\ Len(digits) \in Nat
  OBVIOUS
<1> HIDE DEF S, c
<1>2. Cut(digits) = SubSeq(digits, 1, IF Len(digits) < c THEN Len(digits) ELSE c)
  BY DEF Cut, c
<1> DEFINE m == IF Len(digits) < c THEN Len(digits) ELSE c
<1>3. m \in Nat /\ m <= Len(digits) /\ (Len(digits) <= c => m = Len(digits))
  BY <1>1
<1> HIDE DEF m
<1>4. SubSeq(digits, 1, m) \in Seq(S)
  <2>1. \A i \in 1 .. m : digits[i] \in S
    BY <1>1, <1>3
  <2>2. SubSeq(digits, 1, m) = [ i \in 1 .. m |-> digits[i] ]
    BY <1>1, <1>3
  <2> QED
    BY <1>3, <2>1, <2>2
<1>5. SubSeq(digits, 1, Len(digits)) = digits
  BY <1>1
<1> QED
  BY <1>2, <1>3, <1>4, <1>5 DEF m, S, c

LEMMA Initial == Init => IInv
<1> SUFFICES ASSUME Init PROVE IInv
  OBVIOUS
<1>1. /\ cum \in Tables /\ n \in 1 .. MAX_SYMBOLS /\ data = << >>
      /\ low = 0 /\ range = WORD - 1 /\ out = << >> /\ pos = 0 /\ phase = "step"
  BY DEF Init
<1>2. Interval(low, range) /\ BOT <= range
  BY <1>1, FirstInterval
<1>3. low \in 0 .. REGISTER - 1 /\ range \in 1 .. WORD - 1
  <2>1. range \in 1 .. WORD - 1
    BY <1>2 DEF Interval
  <2>2. low \in 0 .. REGISTER - 1
    BY <1>1, ConstantTypes
  <2> QED
    BY <2>1, <2>2
<1>4. data \in Seq(Occurring(cum)) /\ Len(data) <= n /\ out \in Seq(0 .. D - 1)
      /\ pos \in Nat /\ Len(out) = pos
  <2>1. n \in Nat /\ 0 <= n
    BY <1>1, BoundAssumption
  <2> QED
    BY <1>1, <2>1
<1>5. EncoderRight
  BY <1>1, <1>2, <1>3, <1>4 DEF EncoderRight
<1>6. RunningAt(cum, data, out, low, range, pos, phase)
  BY <1>1, RecordStarts
<1>7. StreamRight
  BY <1>1, <1>4, <1>6 DEF StreamRight
<1>8. DecoderWaits
  BY DEF Init, DecoderWaits
<1> QED
  BY <1>5, <1>7, <1>8 DEF IInv

(* While the encoder runs, the decoder waits.                               *)
LEMMA EncoderFirst ==
  ASSUME IInv, phase \in {"step", "renorm"}, UNCHANGED decVars
  PROVE  DecoderWaits'
<1>1. DecoderWaits
  BY DEF IInv, DecoderRuns
<1> QED
  BY <1>1 DEF DecoderWaits, decVars

LEMMA EncodeKeeps ==
  ASSUME IInv, Encode
  PROVE  IInv'
<1>1. PICK sym \in Occurring(cum) : EncodeSymbol(sym)
  BY DEF Encode
<1> DEFINE t == range \div TOTAL
<1>2. /\ phase = "step" /\ Len(data) < n
      /\ low' = (low + t * cum[sym]) % REGISTER
      /\ range' = t * Freq(cum, sym)
      /\ data' = Append(data, sym) /\ phase' = "renorm"
      /\ cum' = cum /\ n' = n /\ out' = out /\ pos' = pos
      /\ UNCHANGED decVars
  BY <1>1 DEF EncodeSymbol
<1>3. /\ cum \in Tables /\ n \in 1 .. MAX_SYMBOLS
      /\ data \in Seq(Occurring(cum)) /\ out \in Seq(0 .. D - 1) /\ pos \in Nat
      /\ Interval(low, range) /\ BOT <= range /\ range \in 1 .. WORD - 1
  BY <1>2 DEF IInv, EncoderRight
<1>4. /\ low' = low + t * cum[sym]
      /\ Interval(low', range')
  <2>1. /\ (low + t * cum[sym]) % REGISTER = low + t * cum[sym]
        /\ Interval(low + t * cum[sym], t * Freq(cum, sym))
    BY <1>3, NarrowedRange
  <2> QED
    BY <1>2, <2>1
<1>5. low' \in 0 .. REGISTER - 1 /\ range' \in 1 .. WORD - 1
  BY <1>4, ConstantTypes DEF Interval
<1>6. data' \in Seq(Occurring(cum)) /\ Len(data') <= n
  <2>1. data' \in Seq(Occurring(cum)) /\ Len(data') = Len(data) + 1
    BY <1>2, <1>3, AppendFacts
  <2>2. Len(data) \in Nat /\ n \in Nat
    BY <1>3, BoundAssumption
  <2> QED
    BY <1>2, <2>1, <2>2
<1>7. EncoderRight'
  BY <1>2, <1>3, <1>4, <1>5, <1>6 DEF EncoderRight
<1>8. StreamRight'
  <2>1. cap' = cap
    BY <1>2 DEF cap
  <2>2. ASSUME pos <= cap
        PROVE  RunningAt(cum', data', out', low', range', pos', phase')
    <3>1. RunningAt(cum, data, out, low, range, pos, "step")
      BY <1>2, <2>2 DEF IInv, StreamRight
    <3>2. RunningAt(cum, Append(data, sym), out, low + t * cum[sym],
                    t * Freq(cum, sym), pos, "renorm")
      BY <1>3, <3>1, RecordCodes
    <3> QED
      BY <1>2, <1>4, <3>2
  <2>3. pos <= cap => Len(out) = pos
    BY DEF IInv, StreamRight
  <2> QED
    BY <1>2, <2>1, <2>2, <2>3 DEF StreamRight
<1>9. DecoderWaits'
  BY <1>2, EncoderFirst
<1> QED
  BY <1>7, <1>8, <1>9 DEF IInv

LEMMA EncodeShiftKeeps ==
  ASSUME IInv, EncodeShift
  PROVE  IInv'
<1> DEFINE digit == low \div TOP
           longer == Append(out, digit)
<1>1. /\ phase = "renorm" /\ MustShift(low, range)
      /\ out' = Cut(Append(out, digit % D))
      /\ pos' = pos + 1
      /\ low' = ShiftedLow(low) /\ range' = ShiftedRange(Kept(low, range))
      /\ cum' = cum /\ n' = n /\ data' = data /\ phase' = "renorm"
      /\ UNCHANGED decVars
  BY DEF EncodeShift
<1>2. /\ cum \in Tables /\ n \in 1 .. MAX_SYMBOLS
      /\ data \in Seq(Occurring(cum)) /\ Len(data) <= n
      /\ out \in Seq(0 .. D - 1) /\ pos \in Nat
      /\ Interval(low, range)
  BY <1>1 DEF IInv, EncoderRight
<1>3. digit \in 0 .. D - 1
  BY <1>2, TopDigit
<1>4. digit % D = digit
  <2> HIDE DEF digit
  <2> QED
    BY <1>3, ModSmall, ConstantTypes
<1>5. Interval(low', range')
  BY <1>1, <1>2, ShiftedInterval
<1>6. low' \in 0 .. REGISTER - 1 /\ range' \in 1 .. WORD - 1
  BY <1>5, ConstantTypes DEF Interval
<1> HIDE DEF digit
<1>7. longer \in Seq(0 .. D - 1) /\ Len(longer) = Len(out) + 1
  BY <1>2, <1>3, AppendFacts
<1>8. cap \in Nat /\ cap' = cap
  <2>1. n \in Nat
    BY <1>2, BoundAssumption
  <2> QED
    BY <1>1, <2>1, CapIsNat DEF cap
<1> HIDE DEF longer
<1>9. out' = Cut(longer)
  BY <1>1, <1>4 DEF longer
<1>a. out' \in Seq(0 .. D - 1) /\ (Len(longer) <= cap => out' = longer)
  BY <1>7, <1>8, <1>9, CutFacts
<1>b. EncoderRight'
  <2>1. pos' \in Nat
    BY <1>1, <1>2
  <2> QED
    BY <1>1, <1>2, <1>5, <1>6, <1>a, <2>1 DEF EncoderRight
<1>c. ASSUME pos' <= cap'
      PROVE  /\ Len(out') = pos'
             /\ RunningAt(cum', data', out', low', range', pos', "renorm")
  <2>1. pos <= cap
    BY <1>1, <1>2, <1>8, <1>c
  <2>2. Len(out) = pos /\ RunningAt(cum, data, out, low, range, pos, "renorm")
    BY <1>1, <2>1 DEF IInv, StreamRight
  <2>3. Len(longer) = pos' /\ out' = longer
    BY <1>1, <1>7, <1>8, <1>a, <1>c, <2>2
  <2>4. RunningAt(cum, data, longer, low', range', Len(out) + 1, "renorm")
    BY <1>1, <1>2, <2>2, RecordShifts DEF longer, digit
  <2> QED
    BY <1>1, <2>2, <2>3, <2>4
<1>d. StreamRight'
  BY <1>1, <1>c DEF StreamRight
<1>e. DecoderWaits'
  BY <1>1, EncoderFirst
<1> QED
  BY <1>b, <1>d, <1>e DEF IInv

LEMMA EncodeReadyKeeps ==
  ASSUME IInv, EncodeReady
  PROVE  IInv'
<1>1. /\ phase = "renorm" /\ ~ MustShift(low, range) /\ phase' = "step"
      /\ UNCHANGED <<cum, n, data, low, range, out, pos>> /\ UNCHANGED decVars
  BY DEF EncodeReady
<1>2. EncoderRight /\ StreamRight
  BY DEF IInv
<1>3. Interval(low, range)
  BY <1>1, <1>2 DEF EncoderRight
<1>4. BOT <= range
  <2>1. ~ (range < BOT)
    BY <1>1 DEF MustShift, MustTrim
  <2> QED
    BY <1>3, <2>1, ConstantTypes DEF Interval
<1>5. EncoderRight'
  BY <1>1, <1>2, <1>3, <1>4 DEF EncoderRight
<1>6. StreamRight'
  <2>1. cap' = cap
    BY <1>1 DEF cap
  <2>2. ASSUME pos <= cap
        PROVE  RunningAt(cum, data, out, low, range, pos, "step")
    <3>1. RunningAt(cum, data, out, low, range, pos, "renorm")
      BY <1>1, <1>2, <2>2 DEF StreamRight
    <3> QED
      BY <1>1, <3>1, RecordLeaves
  <2> QED
    BY <1>1, <1>2, <2>1, <2>2 DEF StreamRight
<1>7. DecoderWaits'
  BY <1>1, EncoderFirst
<1> QED
  BY <1>5, <1>6, <1>7 DEF IInv

LEMMA FlushKeeps ==
  ASSUME IInv, Flush
  PROVE  IInv'
<1> DEFINE longer == out \o LowDigits
<1>1. /\ phase = "step" /\ Len(data) = n
      /\ out' = Cut(longer) /\ pos' = pos + DIGITS
      /\ low' = FlushLow[DIGITS]
      /\ phase' = IF pos + DIGITS > cap THEN "overflow" ELSE "written"
      /\ cum' = cum /\ n' = n /\ data' = data /\ range' = range
      /\ UNCHANGED decVars
  BY DEF Flush
<1>2. /\ cum \in Tables /\ n \in 1 .. MAX_SYMBOLS
      /\ data \in Seq(Occurring(cum)) /\ Len(data) <= n
      /\ out \in Seq(0 .. D - 1) /\ pos \in Nat /\ range \in 1 .. WORD - 1
      /\ Interval(low, range)
  BY <1>1 DEF IInv, EncoderRight
<1>3. low \in 0 .. WORD - 1 /\ low \in Nat
  BY <1>2, ConstantTypes DEF Interval
<1>4. low' \in 0 .. REGISTER - 1
  BY <1>1, <1>3, FlushLows
<1>5. /\ LowDigits \in Seq(0 .. D - 1) /\ Len(LowDigits) = DIGITS
      /\ DIGITS \in Nat
  BY <1>3, LowDigitsTyped, ConstantTypes
<1>6. longer \in Seq(0 .. D - 1) /\ Len(longer) = Len(out) + DIGITS
  BY <1>2, <1>5, SMTT(60)
<1>7. cap \in Nat /\ cap' = cap
  <2>1. n \in Nat
    BY <1>2, BoundAssumption
  <2> QED
    BY <1>1, <2>1, CapIsNat DEF cap
<1> HIDE DEF longer
<1>8. out' \in Seq(0 .. D - 1) /\ (Len(longer) <= cap => out' = longer)
  BY <1>1, <1>6, <1>7, CutFacts
<1>9. EncoderRight'
  <2>1. pos' \in Nat /\ phase' \in {"overflow", "written"}
    BY <1>1, <1>2, <1>5
  <2> QED
    BY <1>1, <1>2, <1>4, <1>8, <2>1 DEF EncoderRight
<1>a. ASSUME pos' <= cap'
      PROVE  /\ Len(out') = pos'
             /\ \E K, H, V : Complete(cum', data', out', K, H, V)
  <2>1. pos <= cap
    BY <1>1, <1>2, <1>5, <1>7, <1>a
  <2>2. Len(out) = pos /\ RunningAt(cum, data, out, low, range, pos, "step")
    BY <1>1, <2>1 DEF IInv, StreamRight
  <2>3. Len(longer) = pos' /\ out' = longer
    BY <1>1, <1>6, <1>7, <1>8, <1>a, <2>2
  <2>4. \E K, H, V : Complete(cum, data, longer, K, H, V)
    BY <1>2, <1>3, <2>2, RecordCompletes DEF longer
  <2> QED
    BY <1>1, <2>3, <2>4
<1>b. StreamRight'
  <2>1. phase' = "written" => pos' <= cap'
    BY <1>1, <1>2, <1>5, <1>7
  <2>2. phase' \notin {"step", "renorm"}
    BY <1>1
  <2> QED
    BY <1>1, <1>a, <2>1, <2>2 DEF StreamRight
<1>c. DecoderWaits'
  BY <1>1, EncoderFirst
<1> QED
  BY <1>9, <1>b, <1>c DEF IInv

-----------------------------------------------------------------------------
(* The decoder.                                                             *)
LEMMA EncoderRests ==
  ASSUME EncoderRight, StreamRight, UNCHANGED encVars
  PROVE  EncoderRight' /\ StreamRight'
<1>1. /\ cum' = cum /\ n' = n /\ data' = data /\ low' = low /\ range' = range
      /\ out' = out /\ pos' = pos /\ phase' = phase /\ cap' = cap
  BY DEF encVars, cap
<1>2. EncoderRight'
  BY <1>1 DEF EncoderRight
<1>3. StreamRight'
  BY <1>1 DEF StreamRight
<1> QED
  BY <1>2, <1>3

(* The value looked up, and the symbol found.                               *)
LEMMA LookedUp ==
  ASSUME EncoderRight, StreamRight, DecoderRuns,
         dec_phase = "step", Len(out_buf) < n
  PROVE  LET sym == data[Len(out_buf) + 1]
         IN  /\ Quotient \in 0 .. TOTAL - 1 /\ GetCum = Quotient
             /\ Find(cum, GetCum) = sym /\ sym \in Occurring(cum)
             /\ Len(out_buf) < Len(data)
             /\ DecodingAt(cum, data, out,
                           (dec_low + dec_r * cum[sym]) % REGISTER,
                           dec_r * Freq(cum, sym), code, dec_pos,
                           Len(out_buf) + 1, "renorm")
<1>1. /\ cum \in Tables /\ data \in Seq(Occurring(cum))
      /\ out \in Seq(0 .. D - 1)
      /\ DecodingAt(cum, data, out, dec_low, dec_range, code, dec_pos,
                    Len(out_buf), "step")
      /\ Len(data) = n
  BY DEF EncoderRight, StreamRight, DecoderRuns
<1>2. (code - dec_low) % REGISTER = code - dec_low
  BY <1>1, DecodingTypes
<1>3. LET sym == data[Len(out_buf) + 1]
      IN  /\ (code - dec_low) \div dec_r \in 0 .. TOTAL - 1
          /\ Find(cum, (code - dec_low) \div dec_r) = sym
          /\ sym \in Occurring(cum)
          /\ DecodingAt(cum, data, out,
                        (dec_low + dec_r * cum[sym]) % REGISTER,
                        dec_r * Freq(cum, sym), code, dec_pos,
                        Len(out_buf) + 1, "renorm")
  BY <1>1, DecodingCodes DEF dec_r
<1>4. Quotient = (code - dec_low) \div dec_r
  BY <1>2 DEF Quotient
<1>5. Quotient \in 0 .. TOTAL - 1
  BY <1>3, <1>4
<1>6. GetCum = Quotient
  <2>1. ~ (Quotient >= TOTAL)
    BY <1>5, ConstantTypes
  <2> QED
    BY <2>1 DEF GetCum
<1> QED
  BY <1>1, <1>3, <1>4, <1>5, <1>6

LEMMA DecInitKeeps ==
  ASSUME IInv, DecInit
  PROVE  IInv'
<1>1. /\ phase = "written" /\ dec_phase = "start"
      /\ dec_range' = WORD - 1 /\ code' = FirstDigits[DIGITS]
      /\ dec_pos' = DIGITS /\ dec_phase' = "step"
      /\ dec_low' = dec_low /\ out_buf' = out_buf
      /\ UNCHANGED encVars
  BY DEF DecInit
<1>2. EncoderRight /\ StreamRight /\ DecoderWaits
  BY <1>1 DEF IInv, DecoderRuns
<1>3. dec_low = 0 /\ out_buf = << >>
  BY <1>2 DEF DecoderWaits
<1>4. PICK K, H, V : Complete(cum, data, out, K, H, V)
  BY <1>1, <1>2 DEF StreamRight
<1>5. out \in Seq(0 .. D - 1) /\ data \in Seq(Occurring(cum)) /\ cum \in Tables
  BY <1>2 DEF EncoderRight
<1>6. DecodingAt(cum, data, out, 0, WORD - 1, V[DIGITS] % WORD, DIGITS, 0, "step")
  BY <1>4, DecodingStarts
<1>7. DIGITS <= Len(out)
  BY <1>5, <1>6, DecodingTypes
<1>8. code' = V[DIGITS] % WORD
  <2>1. Prefixes(D, out, V)
    BY <1>4 DEF Complete
  <2> QED
    BY <1>1, <1>5, <1>7, <2>1, FirstDigitsSpell
<1>9. EncoderRight' /\ StreamRight'
  BY <1>1, <1>2, EncoderRests
<1>a. DecoderRuns'
  <2>1. /\ phase' = "written" /\ cum' = cum /\ data' = data /\ out' = out
        /\ dec_low' = 0 /\ out_buf' = << >> /\ Len(<< >>) = 0
    BY <1>1, <1>3 DEF encVars
  <2>2. Len(data) \in Nat /\ 0 <= Len(data) /\ 1 .. 0 = {}
    BY <1>5
  <2>3. DecodingAt(cum', data', out', dec_low', dec_range', code', dec_pos',
                   Len(out_buf'), dec_phase')
    BY <1>1, <1>6, <1>8, <2>1
  <2>4. /\ out_buf' \in Seq(Occurring(cum')) /\ Len(out_buf') <= Len(data')
        /\ \A i \in 1 .. Len(out_buf') : out_buf'[i] = data'[i]
    BY <2>1, <2>2
  <2> QED
    BY <1>1, <2>1, <2>3, <2>4 DEF DecoderRuns
<1> QED
  BY <1>9, <1>a DEF IInv

LEMMA DecodeSymbolKeeps ==
  ASSUME IInv, DecodeSymbol
  PROVE  IInv'
<1> DEFINE sym == Find(cum, GetCum)
           k == Len(out_buf)
<1>1. /\ dec_phase = "step" /\ Len(out_buf) < n
      /\ dec_low' = (dec_low + dec_r * cum[sym]) % REGISTER
      /\ dec_range' = dec_r * Freq(cum, sym)
      /\ out_buf' = Append(out_buf, sym)
      /\ dec_phase' = "renorm" /\ code' = code /\ dec_pos' = dec_pos
      /\ UNCHANGED encVars
  BY DEF DecodeSymbol
<1>2. EncoderRight /\ StreamRight /\ DecoderRuns
  BY <1>1 DEF IInv, DecoderWaits
<1>3. /\ sym = data[k + 1] /\ sym \in Occurring(cum) /\ k < Len(data)
      /\ DecodingAt(cum, data, out, (dec_low + dec_r * cum[sym]) % REGISTER,
                    dec_r * Freq(cum, sym), code, dec_pos, k + 1, "renorm")
  BY <1>1, <1>2, LookedUp
<1>4. EncoderRight' /\ StreamRight'
  BY <1>1, <1>2, EncoderRests
<1>5. /\ out_buf \in Seq(Occurring(cum)) /\ data \in Seq(Occurring(cum))
      /\ \A i \in 1 .. k : out_buf[i] = data[i]
      /\ phase = "written"
  BY <1>2 DEF EncoderRight, DecoderRuns
<1> HIDE DEF sym
<1>6. /\ out_buf' \in Seq(Occurring(cum)) /\ Len(out_buf') = k + 1
      /\ out_buf'[k + 1] = sym /\ \A i \in 1 .. k : out_buf'[i] = out_buf[i]
  BY <1>1, <1>3, <1>5, AppendFacts
<1>7. \A i \in 1 .. Len(out_buf') : out_buf'[i] = data[i]
  <2> TAKE i \in 1 .. Len(out_buf')
  <2>1. k \in Nat
    BY <1>5
  <2>2. i = k + 1 \/ i \in 1 .. k
    BY <1>6, <2>1
  <2> QED
    BY <1>3, <1>5, <1>6, <2>2
<1>8. Len(out_buf') <= Len(data)
  <2>1. k \in Nat /\ Len(data) \in Nat
    BY <1>5
  <2> QED
    BY <1>3, <1>6, <2>1
<1>9. cum' = cum /\ data' = data /\ out' = out /\ phase' = phase
  BY <1>1 DEF encVars
<1>a. DecodingAt(cum', data', out', dec_low', dec_range', code', dec_pos',
                 Len(out_buf'), dec_phase')
  BY <1>1, <1>3, <1>6, <1>9
<1>b. DecoderRuns'
  BY <1>1, <1>5, <1>6, <1>7, <1>8, <1>9, <1>a DEF DecoderRuns
<1> QED
  BY <1>4, <1>b DEF IInv

LEMMA DecodeShiftKeeps ==
  ASSUME IInv, DecodeShift
  PROVE  IInv'
<1>1. /\ dec_phase = "renorm" /\ MustShift(dec_low, dec_range)
      /\ code' = (code * D + NextDigit) % WORD /\ dec_pos' = NextPos
      /\ dec_low' = ShiftedLow(dec_low)
      /\ dec_range' = ShiftedRange(Kept(dec_low, dec_range))
      /\ out_buf' = out_buf /\ dec_phase' = dec_phase
      /\ UNCHANGED encVars
  BY DEF DecodeShift
<1>2. EncoderRight /\ StreamRight /\ DecoderRuns
  BY <1>1 DEF IInv, DecoderWaits
<1>3. /\ cum \in Tables /\ data \in Seq(Occurring(cum))
      /\ out \in Seq(0 .. D - 1)
      /\ DecodingAt(cum, data, out, dec_low, dec_range, code, dec_pos,
                    Len(out_buf), "renorm")
  BY <1>1, <1>2 DEF EncoderRight, DecoderRuns
<1>4. /\ dec_pos < Len(out)
      /\ DecodingAt(cum, data, out, ShiftedLow(dec_low),
                    ShiftedRange(Kept(dec_low, dec_range)),
                    (code * D + out[dec_pos + 1]) % WORD, dec_pos + 1,
                    Len(out_buf), "renorm")
  BY <1>1, <1>3, DecodingShifts
<1>5. NextDigit = out[dec_pos + 1]
  BY <1>4 DEF NextDigit
<1>6. NextPos = dec_pos + 1
  <2>1. dec_pos \in Nat /\ Len(out) \in Nat
    BY <1>3, DecodingTypes
  <2>2. ~ (dec_pos >= Len(out))
    BY <1>4, <2>1
  <2> QED
    BY <2>2 DEF NextPos
<1>7. EncoderRight' /\ StreamRight'
  BY <1>1, <1>2, EncoderRests
<1>8. cum' = cum /\ data' = data /\ out' = out /\ phase' = phase
  BY <1>1 DEF encVars
<1>9. DecodingAt(cum', data', out', dec_low', dec_range', code', dec_pos',
                 Len(out_buf'), dec_phase')
  BY <1>1, <1>4, <1>5, <1>6, <1>8
<1>a. DecoderRuns'
  BY <1>1, <1>2, <1>8, <1>9 DEF DecoderRuns
<1> QED
  BY <1>7, <1>a DEF IInv

LEMMA DecodeReadyKeeps ==
  ASSUME IInv, DecodeReady
  PROVE  IInv'
<1>1. /\ dec_phase = "renorm" /\ ~ MustShift(dec_low, dec_range)
      /\ dec_phase' = "step"
      /\ UNCHANGED <<dec_low, dec_range, code, dec_pos, out_buf>>
      /\ UNCHANGED encVars
  BY DEF DecodeReady
<1>2. EncoderRight /\ StreamRight /\ DecoderRuns
  BY <1>1 DEF IInv, DecoderWaits
<1>3. /\ cum \in Tables /\ data \in Seq(Occurring(cum))
      /\ out \in Seq(0 .. D - 1)
      /\ DecodingAt(cum, data, out, dec_low, dec_range, code, dec_pos,
                    Len(out_buf), "renorm")
  BY <1>1, <1>2 DEF EncoderRight, DecoderRuns
<1>4. DecodingAt(cum, data, out, dec_low, dec_range, code, dec_pos,
                 Len(out_buf), "step")
  BY <1>1, <1>3, DecodingLeaves
<1>5. EncoderRight' /\ StreamRight'
  BY <1>1, <1>2, EncoderRests
<1>6. cum' = cum /\ data' = data /\ out' = out /\ phase' = phase
  BY <1>1 DEF encVars
<1>7. DecoderRuns'
  BY <1>1, <1>2, <1>4, <1>6 DEF DecoderRuns
<1> QED
  BY <1>5, <1>7 DEF IInv

LEMMA StutterKeeps ==
  ASSUME IInv, UNCHANGED vars
  PROVE  IInv'
<1>1. EncoderRight' /\ StreamRight'
  BY EncoderRests DEF IInv, vars
<1>2. UNCHANGED decVars /\ cum' = cum /\ data' = data /\ out' = out
      /\ phase' = phase
  BY DEF vars, encVars
<1>3. DecoderWaits => DecoderWaits'
  BY <1>2 DEF DecoderWaits, decVars
<1>4. DecoderRuns => DecoderRuns'
  BY <1>2 DEF DecoderRuns, decVars
<1> QED
  BY <1>1, <1>3, <1>4 DEF IInv

LEMMA Step ==
  ASSUME IInv, [Next]_vars
  PROVE  IInv'
  BY EncodeKeeps, EncodeShiftKeeps, EncodeReadyKeeps, FlushKeeps,
     DecInitKeeps, DecodeSymbolKeeps, DecodeShiftKeeps, DecodeReadyKeeps,
     StutterKeeps
     DEF Next

-----------------------------------------------------------------------------
(* The invariant holds in every state the two tools reach.                  *)
THEOREM Invariance == SafeSpec => []IInv
<1>1. IInv /\ [Next]_vars => IInv'
  BY Step
<1> QED
  BY Initial, <1>1, PTL DEF SafeSpec

LEMMA DecoderTyped ==
  ASSUME IInv
  PROVE  /\ dec_low \in 0 .. WORD - 1
         /\ dec_phase = "start" \/ dec_range \in 1 .. WORD - 1
         /\ dec_phase = "step" => BOT <= dec_range
         /\ code \in 0 .. WORD - 1 /\ dec_pos \in Nat /\ dec_pos <= Len(out)
         /\ out_buf \in Seq(Occurring(cum))
         /\ dec_phase \in {"start", "step", "renorm"}
<1>1. out \in Seq(0 .. D - 1)
  BY DEF IInv, EncoderRight
<1>2. CASE DecoderWaits
  <2>1. 0 \in 0 .. WORD - 1 /\ 0 <= Len(out)
    BY <1>1, ConstantTypes
  <2>2. << >> \in Seq(Occurring(cum))
    OBVIOUS
  <2> QED
    BY <1>2, <2>1, <2>2 DEF DecoderWaits
<1>3. CASE DecoderRuns
  <2>1. /\ cum \in Tables /\ data \in Seq(Occurring(cum))
        /\ out \in Seq(0 .. D - 1)
        /\ DecodingAt(cum, data, out, dec_low, dec_range, code, dec_pos,
                      Len(out_buf), dec_phase)
    BY <1>3 DEF IInv, EncoderRight, DecoderRuns
  <2>2. /\ Interval(dec_low, dec_range)
        /\ dec_phase = "step" => BOT <= dec_range
        /\ code \in 0 .. WORD - 1 /\ dec_pos \in Nat /\ dec_pos <= Len(out)
    BY <2>1, DecodingTypes
  <2>3. dec_low \in 0 .. WORD - 1 /\ dec_range \in 1 .. WORD - 1
    BY <2>2 DEF Interval
  <2> QED
    BY <1>3, <2>2, <2>3 DEF DecoderRuns
<1> QED
  BY <1>2, <1>3 DEF IInv

(* In a state of the invariant the types are right.                         *)
LEMMA TypesHold ==
  ASSUME IInv
  PROVE  TypeOK
<1>1. EncoderRight
  BY DEF IInv
<1>2. range >= BOT <=> BOT <= range
  BY <1>1, ConstantTypes DEF EncoderRight
<1>3. dec_phase = "step" => dec_range >= BOT
  <2>1. ASSUME dec_phase = "step" PROVE dec_range >= BOT
    <3>1. BOT <= dec_range /\ dec_range \in 1 .. WORD - 1
      BY <2>1, DecoderTyped
    <3> QED
      BY <3>1, ConstantTypes
  <2> QED
    BY <2>1
<1>4. out_buf \in Seq(Symbols)
  <2>1. out_buf \in Seq(Occurring(cum))
    BY DecoderTyped
  <2>2. \A s \in Occurring(cum) : s \in Symbols
    BY DEF Occurring
  <2> QED
    BY <2>1, <2>2
<1>5. /\ cum \in Tables /\ n \in 1 .. MAX_SYMBOLS
      /\ data \in Seq(Occurring(cum))
      /\ low \in 0 .. REGISTER - 1 /\ range \in 1 .. WORD - 1
      /\ phase = "step" => range >= BOT
      /\ out \in Seq(0 .. D - 1) /\ pos \in Nat
      /\ phase \in {"step", "renorm", "written", "overflow"}
  BY <1>1, <1>2 DEF EncoderRight
<1> QED
  BY <1>3, <1>4, <1>5, DecoderTyped DEF TypeOK

(* Types, and range back at BOT or above after every renormalisation, in    *)
(* the encoder and in the decoder (rc32sub_enc_step, rc32sub_dec_step).     *)
THEOREM TypeCorrect == SafeSpec => []TypeOK
  BY Invariance, TypesHold, PTL

(* ... no digit that was written can change.                                *)
LEMMA DigitsHold ==
  ASSUME IInv
  PROVE  NoCarry
<1> SUFFICES ASSUME phase \in {"step", "renorm"}
             PROVE  /\ low + range <= WORD
                    /\ MustShift(low, range) =>
                         /\ Kept(low, range) > 0
                         /\ (low + Kept(low, range) - 1) \div TOP = low \div TOP
  BY DEF NoCarry
<1>1. Interval(low, range)
  BY DEF IInv, EncoderRight
<1>2. low + range <= WORD
  BY <1>1 DEF Interval
<1>3. ASSUME MustShift(low, range)
      PROVE  /\ Kept(low, range) > 0
             /\ (low + Kept(low, range) - 1) \div TOP = low \div TOP
  <2>1. /\ Kept(low, range) \in 1 .. range
        /\ (low + Kept(low, range) - 1) \div TOP = low \div TOP
    BY <1>1, <1>3, ShiftedInterval
  <2>2. range \in Nat
    BY <1>1, ConstantTypes DEF Interval
  <2>3. Kept(low, range) > 0
    BY <2>1, <2>2
  <2> QED
    BY <2>1, <2>3
<1> QED
  BY <1>2, <1>3

(* The interval never extends past the top digit, and the digit a turn of   *)
(* the loop writes is the top digit of everything left in the interval,     *)
(* after a trim too (rc24_codec.h:40-46, rc32sub_codec.h:65-83).            *)
THEOREM DigitsAreSettled == SafeSpec => []NoCarry
  BY Invariance, DigitsHold, PTL

(* ... every symbol decoded is the symbol coded.                            *)
LEMMA SymbolsComeBack ==
  ASSUME IInv
  PROVE  DecodesWhatWasCoded
<1>1. CASE DecoderWaits
  <2>1. Len(out_buf) = 0 /\ 1 .. 0 = {} /\ dec_phase # "step"
    BY <1>1 DEF DecoderWaits
  <2>2. data \in Seq(Occurring(cum))
    BY DEF IInv, EncoderRight
  <2>3. 0 <= Len(data)
    BY <2>2
  <2> QED
    BY <2>1, <2>3 DEF DecodesWhatWasCoded
<1>2. CASE DecoderRuns
  <2>1. ASSUME dec_phase = "step", Len(out_buf) < n
        PROVE  Quotient < TOTAL
    <3>1. Quotient \in 0 .. TOTAL - 1
      BY <1>2, <2>1, LookedUp DEF IInv
    <3> QED
      BY <3>1, ConstantTypes
  <2> QED
    BY <1>2, <2>1 DEF DecoderRuns, DecodesWhatWasCoded
<1> QED
  BY <1>1, <1>2 DEF IInv

(* What is decoded is what was coded, for every table and every file; the   *)
(* value looked up is in the table, so that the clamp of rc32sub_decode.c   *)
(* never acts and RC24 does not need one.                                   *)
THEOREM Lossless == SafeSpec => []DecodesWhatWasCoded
  BY Invariance, SymbolsComeBack, PTL

(* ... the decoder is inside the stream, and in the end at its end.         *)
LEMMA StreamEnds ==
  ASSUME IInv
  PROVE  ReadsExactlyTheStream
<1>1. dec_pos <= Len(out)
  BY DecoderTyped
<1>2. phase = "written" => Len(out) = pos
  BY DEF IInv, StreamRight
<1>3. ASSUME dec_phase = "step", Len(out_buf) = n PROVE dec_pos = Len(out)
  <2>1. EncoderRight /\ StreamRight /\ DecoderRuns
    BY <1>3 DEF IInv, DecoderWaits
  <2>2. /\ cum \in Tables /\ data \in Seq(Occurring(cum))
        /\ out \in Seq(0 .. D - 1) /\ Len(data) = n
        /\ DecodingAt(cum, data, out, dec_low, dec_range, code, dec_pos,
                      Len(out_buf), "step")
    BY <1>3, <2>1 DEF EncoderRight, StreamRight, DecoderRuns
  <2> QED
    BY <1>3, <2>2, DecodingTypes
<1> QED
  BY <1>1, <1>2, <1>3 DEF ReadsExactlyTheStream

(* The decoder reads every digit of the stream and none behind it; a stream *)
(* the encoder kept is one no digit of which was dropped.                   *)
THEOREM StreamIsUsedUp == SafeSpec => []ReadsExactlyTheStream
  BY Invariance, StreamEnds, PTL
=============================================================================
