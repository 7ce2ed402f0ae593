---------------------------- MODULE TwoWay_proofs ----------------------------
(***************************************************************************)
(* The two streams of the shared buffer are two streams of the scalar      *)
(* coder.  Every step of the 2-way tools is, for each of the streams, one  *)
(* step of the scalar coder or none; so what is proved of the scalar coder *)
(* holds of both streams, and the file comes back from its two halves.     *)
(*                                                                         *)
(* Two things that the tools do not look after are hypotheses here: that   *)
(* the streams stay in the buffer (StreamsFit), whose size no line of      *)
(* rc24_2way_encode.c compares with spos, and that the decoder does not    *)
(* take a file of several symbols for one of a single symbol (FlagIsRead), *)
(* which it does when sig[3] is odd.                                       *)
(***************************************************************************)
EXTENDS TwoWay, CodedInterval

E0 == INSTANCE Carryless_proofs WITH
  CHECKED <- FALSE, MAX_SYMBOLS <- Max(LENGTHS), HEADROOM <- AMPLE,
  n <- n \div 2, data <- Half(data, 0), low <- elow[0], range <- erange[0],
  out <- StreamOut(0), pos <- spos[0], phase <- StreamPhase(0),
  dec_low <- dlow[0], dec_range <- drange[0], code <- dcode[0],
  dec_pos <- dpos[0], out_buf <- Half(out_buf, 0), dec_phase <- StreamDecPhase(0)

E1 == INSTANCE Carryless_proofs WITH
  CHECKED <- FALSE, MAX_SYMBOLS <- Max(LENGTHS), HEADROOM <- AMPLE,
  n <- n \div 2, data <- Half(data, 1), low <- elow[1], range <- erange[1],
  out <- StreamOut(1), pos <- spos[1], phase <- StreamPhase(1),
  dec_low <- dlow[1], dec_range <- drange[1], code <- dcode[1],
  dec_pos <- dpos[1], out_buf <- Half(out_buf, 1), dec_phase <- StreamDecPhase(1)

-----------------------------------------------------------------------------
(* The constants of the two tools are constants of the scalar coder.        *)
LEMMA LongestLength ==
  /\ Max(LENGTHS) \in LENGTHS /\ Max(LENGTHS) \in Nat
  /\ \A len \in LENGTHS : len <= Max(LENGTHS)
<1>1. PICK longest \in LENGTHS : \A len \in LENGTHS : len <= longest
  BY InputAssumption
<1>2. \E x \in LENGTHS : \A y \in LENGTHS : x >= y
  BY <1>1, InputAssumption
<1>3. Max(LENGTHS) = CHOOSE x \in LENGTHS : \A y \in LENGTHS : x >= y
  BY Zenon DEF Max
<1>4. Max(LENGTHS) \in LENGTHS /\ \A y \in LENGTHS : Max(LENGTHS) >= y
  BY <1>2, <1>3, Zenon
<1> QED
  BY <1>4, InputAssumption

LEMMA ScalarBounds ==
  FALSE \in BOOLEAN /\ AMPLE \in Nat /\ Max(LENGTHS) \in Nat
  BY LongestLength, InputAssumption DEF AMPLE

LEMMA ScalarWeights ==
  TOP = E0!Weight[DIGITS - 1] /\ TOP = E1!Weight[DIGITS - 1]
  BY DigitsAssumption, Zenon DEF Weight, E0!Weight, E1!Weight

-----------------------------------------------------------------------------
(* Functions and sequences whatever their values are.                       *)
IsFun(f, S) == f = [ x \in S |-> f[x] ]
IsSeq(q) == Len(q) \in Nat /\ q = [ j \in 1 .. Len(q) |-> q[j] ]

LEMMA MakeSeq ==
  ASSUME NEW len \in Nat, NEW q, q = [ j \in 1 .. len |-> q[j] ]
  PROVE  /\ Len(q) = len /\ IsSeq(q)
         /\ q \in Seq({ q[j] : j \in 1 .. len })
<1> DEFINE S == { q[j] : j \in 1 .. len }
<1>1. \A j \in 1 .. len : q[j] \in S
  OBVIOUS
<1> HIDE DEF S
<1>2. q \in [1 .. len -> S]
  BY <1>1
<1>3. q \in Seq(S) /\ Len(q) = len
  BY <1>2
<1> QED
  BY <1>3 DEF IsSeq, S

LEMMA SeqIsSeq ==
  ASSUME NEW S, NEW q \in Seq(S)
  PROVE  IsSeq(q)
<1>1. q \in [1 .. Len(q) -> S] /\ Len(q) \in Nat
  OBVIOUS
<1> QED
  BY <1>1, Zenon DEF IsSeq

LEMMA SeqOfAnything ==
  ASSUME NEW q, IsSeq(q), NEW x
  PROVE  \E S : q \in Seq(S) /\ x \in S
<1> DEFINE S == { q[j] : j \in 1 .. Len(q) } \cup {x}
<1>1. x \in S /\ \A j \in 1 .. Len(q) : q[j] \in S
  OBVIOUS
<1> HIDE DEF S
<1>2. q \in [1 .. Len(q) -> S] /\ Len(q) \in Nat
  BY <1>1 DEF IsSeq
<1> QED
  BY <1>1, <1>2

LEMMA Appended ==
  ASSUME NEW q, IsSeq(q), NEW x
  PROVE  /\ IsSeq(Append(q, x)) /\ Len(Append(q, x)) = Len(q) + 1
         /\ Append(q, x)[Len(q) + 1] = x
         /\ \A j \in 1 .. Len(q) : Append(q, x)[j] = q[j]
<1>1. PICK S : q \in Seq(S) /\ x \in S
  BY SeqOfAnything
<1>2. /\ Append(q, x) \in Seq(S) /\ Len(Append(q, x)) = Len(q) + 1
      /\ Append(q, x)[Len(q) + 1] = x
      /\ \A j \in 1 .. Len(q) : Append(q, x)[j] = q[j]
  BY <1>1, AppendFacts
<1>3. IsSeq(Append(q, x))
  BY <1>2, SeqIsSeq
<1> QED
  BY <1>2, <1>3

LEMMA SameSeq ==
  ASSUME NEW a, IsSeq(a), NEW b, IsSeq(b), Len(a) = Len(b),
         \A j \in 1 .. Len(a) : a[j] = b[j]
  PROVE  a = b
  BY Zenon DEF IsSeq

LEMMA Joined ==
  ASSUME NEW a, IsSeq(a), NEW b, IsSeq(b)
  PROVE  /\ IsSeq(a \o b) /\ Len(a \o b) = Len(a) + Len(b)
         /\ \A j \in 1 .. Len(a) : (a \o b)[j] = a[j]
         /\ \A j \in 1 .. Len(b) : (a \o b)[Len(a) + j] = b[j]
<1> DEFINE S == { a[j] : j \in 1 .. Len(a) } \cup { b[j] : j \in 1 .. Len(b) }
<1>1. /\ \A j \in 1 .. Len(a) : a[j] \in S
      /\ \A j \in 1 .. Len(b) : b[j] \in S
  OBVIOUS
<1> HIDE DEF S
<1>2. a \in Seq(S) /\ b \in Seq(S)
  <2>1. a \in [1 .. Len(a) -> S] /\ b \in [1 .. Len(b) -> S]
    BY <1>1 DEF IsSeq
  <2> QED
    BY <2>1 DEF IsSeq
<1>3. /\ a \o b \in Seq(S) /\ Len(a \o b) = Len(a) + Len(b)
      /\ \A j \in 1 .. Len(a) : (a \o b)[j] = a[j]
      /\ \A j \in 1 .. Len(b) : (a \o b)[Len(a) + j] = b[j]
  BY <1>2
<1>4. IsSeq(a \o b)
  BY <1>3, SeqIsSeq
<1> QED
  BY <1>3, <1>4

LEMMA WholeSeq ==
  ASSUME NEW q, IsSeq(q)
  PROVE  SubSeq(q, 1, Len(q)) = q
<1>1. PICK S : q \in Seq(S)
  BY SeqOfAnything
<1> QED
  BY <1>1

-----------------------------------------------------------------------------
(* The symbols of one stream.                                               *)
LEMMA HalfOf ==
  ASSUME NEW q, IsSeq(q), NEW s \in Streams
  PROVE  LET h == EverySecond(q, s)
         IN  /\ IsSeq(h) /\ Len(h) = (Len(q) + 1 - s) \div 2
             /\ \A j \in 1 .. Len(h) : h[j] = q[2 * j - 1 + s]
<1> DEFINE h == EverySecond(q, s)
           len == (Len(q) + 1 - s) \div 2
<1>1. len \in Nat
  BY DEF IsSeq, Streams
<1>2. h = [ j \in 1 .. len |-> q[2 * j - 1 + s] ]
  BY Zenon DEF EverySecond
<1> HIDE DEF h, len
<1>3. h = [ j \in 1 .. len |-> h[j] ] /\ \A j \in 1 .. len : h[j] = q[2 * j - 1 + s]
  BY <1>2
<1>4. Len(h) = len /\ IsSeq(h)
  BY <1>1, <1>3, MakeSeq
<1> QED
  BY <1>3, <1>4 DEF h, len

(* A symbol more goes to the stream whose turn it is.                       *)
LEMMA HalfGrows ==
  ASSUME NEW q, IsSeq(q), NEW x, NEW s \in Streams, Len(q) % 2 = s
  PROVE  /\ EverySecond(Append(q, x), s) = Append(EverySecond(q, s), x)
         /\ EverySecond(Append(q, x), 1 - s) = EverySecond(q, 1 - s)
         /\ Len(EverySecond(q, s)) = Len(q) \div 2
<1> DEFINE g == Append(q, x)
           a == EverySecond(q, s)
           b == EverySecond(q, 1 - s)
           c == EverySecond(g, s)
           d == EverySecond(g, 1 - s)
           len == Len(q)
<1>1. /\ IsSeq(g) /\ Len(g) = len + 1 /\ g[len + 1] = x
      /\ \A j \in 1 .. len : g[j] = q[j]
  BY Appended
<1>2. /\ s \in {0, 1} /\ 1 - s \in Streams /\ len \in Nat /\ len % 2 = s
  BY DEF Streams, IsSeq
<1>3. /\ IsSeq(a) /\ Len(a) = (len + 1 - s) \div 2
      /\ \A j \in 1 .. Len(a) : a[j] = q[2 * j - 1 + s]
  BY HalfOf
<1>4. /\ IsSeq(b) /\ Len(b) = (len + 1 - (1 - s)) \div 2
      /\ \A j \in 1 .. Len(b) : b[j] = q[2 * j - 1 + (1 - s)]
  BY <1>2, HalfOf
<1>5. /\ IsSeq(c) /\ Len(c) = (Len(g) + 1 - s) \div 2
      /\ \A j \in 1 .. Len(c) : c[j] = g[2 * j - 1 + s]
  BY <1>1, HalfOf
<1>6. /\ IsSeq(d) /\ Len(d) = (Len(g) + 1 - (1 - s)) \div 2
      /\ \A j \in 1 .. Len(d) : d[j] = g[2 * j - 1 + (1 - s)]
  BY <1>1, <1>2, HalfOf
<1> HIDE DEF a, b, c, d, g, len
<1> DEFINE m == len \div 2
<1>7. /\ m \in Nat /\ Len(a) = m /\ len = 2 * m + s
      /\ Len(c) = m + 1 /\ Len(d) = m + s /\ Len(b) = m + s
  <2>1. m \in Nat /\ len = 2 * m + s
    BY <1>2
  <2>2. Len(a) = (len + 1 - s) \div 2 /\ Len(c) = (len + 2 - s) \div 2
    BY <1>1, <1>2, <1>3, <1>5
  <2>3. Len(b) = (len + s) \div 2 /\ Len(d) = (len + 1 + s) \div 2
    BY <1>1, <1>2, <1>4, <1>6
  <2> HIDE DEF m
  <2>4. CASE s = 0
    BY <2>1, <2>2, <2>3, <2>4
  <2>5. CASE s = 1
    BY <2>1, <2>2, <2>3, <2>5
  <2> QED
    BY <1>2, <2>1, <2>4, <2>5
<1> HIDE DEF m
<1>8. c = Append(a, x)
  <2>1. /\ IsSeq(Append(a, x)) /\ Len(Append(a, x)) = m + 1
        /\ Append(a, x)[m + 1] = x /\ \A j \in 1 .. m : Append(a, x)[j] = a[j]
    <3>1. /\ IsSeq(Append(a, x)) /\ Len(Append(a, x)) = Len(a) + 1
          /\ Append(a, x)[Len(a) + 1] = x
          /\ \A j \in 1 .. Len(a) : Append(a, x)[j] = a[j]
      BY <1>3, Appended
    <3> QED
      BY <1>7, <3>1, Zenon
  <2>2. c[m + 1] = x
    <3>1. m + 1 \in 1 .. Len(c) /\ 2 * (m + 1) - 1 + s = len + 1
      BY <1>2, <1>7
    <3>2. c[m + 1] = g[2 * (m + 1) - 1 + s]
      BY <1>5, <3>1, Zenon
    <3> QED
      BY <1>1, <3>1, <3>2, Zenon
  <2>3. ASSUME NEW j \in 1 .. m PROVE c[j] = a[j]
    <3>1. 2 * j - 1 + s \in 1 .. len
      BY <1>2, <1>7
    <3>2. j \in 1 .. Len(c) /\ j \in 1 .. Len(a)
      BY <1>7
    <3>3. c[j] = g[2 * j - 1 + s] /\ a[j] = q[2 * j - 1 + s]
      BY <1>3, <1>5, <3>2, Zenon
    <3> QED
      BY <1>1, <3>1, <3>3, Zenon
  <2>4. ASSUME NEW j \in 1 .. m + 1 PROVE c[j] = Append(a, x)[j]
    <3>1. j = m + 1 \/ j \in 1 .. m
      BY <1>7
    <3> QED
      BY <2>1, <2>2, <2>3, <3>1, Zenon
  <2> QED
    BY <1>5, <1>7, <2>1, <2>4, SameSeq
<1>9. d = b
  <2>1. ASSUME NEW j \in 1 .. Len(d) PROVE d[j] = b[j]
    <3>1. 2 * j - 1 + (1 - s) \in 1 .. len
      BY <1>2, <1>7
    <3>2. j \in 1 .. Len(b)
      BY <1>7, Zenon
    <3>3. /\ d[j] = g[2 * j - 1 + (1 - s)]
          /\ b[j] = q[2 * j - 1 + (1 - s)]
      BY <1>4, <1>6, <3>2, Zenon
    <3> QED
      BY <1>1, <3>1, <3>3, Zenon
  <2> QED
    BY <1>4, <1>6, <1>7, <2>1, SameSeq
<1> QED
  BY <1>7, <1>8, <1>9 DEF a, b, c, d, g, len, m

-----------------------------------------------------------------------------
(* The bytes of one stream.                                                 *)
LEMMA CellsOfStreams ==
  ASSUME NEW s \in Streams, NEW t \in Streams, NEW p \in Nat, NEW q \in Nat
  PROVE  /\ Cell(p, s) = Cell(q, t) <=> p = q /\ s = t
         /\ Cell(p, s) % 2 = s /\ Cell(p, s) \div 2 = p
         /\ n \in Nat /\ p < cap + 8 => Cell(p, s) \in Cells
<1>1. s \in {0, 1} /\ t \in {0, 1}
  BY DEF Streams
<1>2. Cell(p, s) = p * 2 + s /\ Cell(q, t) = q * 2 + t
  BY Zenon DEF Cell
<1>3. Cell(p, s) = Cell(q, t) <=> p = q /\ s = t
  BY <1>1, <1>2
<1>4. Cell(p, s) % 2 = s /\ Cell(p, s) \div 2 = p
  BY <1>1, <1>2
<1>5. ASSUME n \in Nat, p < cap + 8 PROVE Cell(p, s) \in Cells
  <2>1. cap \in Nat
    BY <1>5, InputAssumption DEF cap
  <2>2. p * 2 + s \in 0 .. 2 * cap + 15
    BY <1>1, <1>5, <2>1
  <2> QED
    BY <1>2, <2>2 DEF Cells
<1> QED
  BY <1>3, <1>4, <1>5

LEMMA BytesFacts ==
  ASSUME NEW b, NEW len \in Nat, NEW s
  PROVE  /\ IsSeq(BytesOf(b, len, s)) /\ Len(BytesOf(b, len, s)) = len
         /\ \A p \in 1 .. len : BytesOf(b, len, s)[p] = b[Cell(p - 1, s)]
<1> DEFINE q == BytesOf(b, len, s)
<1>1. q = [ p \in 1 .. len |-> b[Cell(p - 1, s)] ]
  BY Zenon DEF BytesOf
<1> HIDE DEF q
<1>2. q = [ p \in 1 .. len |-> q[p] ] /\ \A p \in 1 .. len : q[p] = b[Cell(p - 1, s)]
  BY <1>1, Zenon
<1>3. Len(q) = len /\ IsSeq(q)
  BY <1>2, MakeSeq
<1> QED
  BY <1>2, <1>3 DEF q

LEMMA OutFacts ==
  ASSUME NEW s, spos[s] \in Nat
  PROVE  /\ IsSeq(StreamOut(s)) /\ Len(StreamOut(s)) = spos[s]
         /\ \A p \in 1 .. spos[s] : StreamOut(s)[p] = shared[Cell(p - 1, s)]
<1>1. StreamOut(s) = BytesOf(shared, spos[s], s)
  BY Zenon DEF StreamOut
<1> DEFINE b == shared
           len == spos[s]
<1>2. len \in Nat
  OBVIOUS
<1> HIDE DEF b, len
<1>3. /\ IsSeq(BytesOf(b, len, s)) /\ Len(BytesOf(b, len, s)) = len
      /\ \A p \in 1 .. len : BytesOf(b, len, s)[p] = b[Cell(p - 1, s)]
  BY <1>2, BytesFacts
<1> QED
  BY <1>1, <1>3, Zenon DEF b, len

Agree(b, c, len, s) ==
  \A p \in 0 .. len - 1 : c[Cell(p, s)] = b[Cell(p, s)]

LEMMA SameBytes ==
  ASSUME NEW b, NEW c, NEW len \in Nat, NEW s, Agree(b, c, len, s)
  PROVE  BytesOf(c, len, s) = BytesOf(b, len, s)
<1>1. ASSUME NEW p \in 1 .. len PROVE b[Cell(p - 1, s)] = c[Cell(p - 1, s)]
  <2>1. p - 1 \in 0 .. len - 1
    OBVIOUS
  <2> QED
    BY <2>1, Zenon DEF Agree
<1> QED
  BY <1>1, Zenon DEF BytesOf

(* A byte stored behind one stream is a byte more of that stream and leaves *)
(* the other as it is.                                                      *)
Stored(b, x, v) ==
  IsFun(b, Cells) /\ b[x] = v /\ \A c \in Cells : c # x => b[c] = shared[c]

LEMMA ByteStored ==
  ASSUME n \in Nat, IsFun(shared, Cells), StreamsFit,
         NEW s \in Streams, spos \in [Streams -> Nat], spos[s] + 1 <= cap + 8,
         NEW v, NEW b, Stored(b, Cell(spos[s], s), v)
  PROVE  /\ BytesOf(b, spos[s] + 1, s) = Append(StreamOut(s), v)
         /\ \A t \in Streams : t # s => BytesOf(b, spos[t], t) = StreamOut(t)
<1> DEFINE x == Cell(spos[s], s)
<1>1. spos[s] \in Nat /\ x \in Cells
  <2>1. spos[s] \in Nat /\ cap \in Nat
    BY InputAssumption DEF cap
  <2>2. spos[s] < cap + 8
    BY <2>1
  <2> QED
    BY <2>1, <2>2, CellsOfStreams
<1>2. IsFun(b, Cells) /\ b[x] = v /\ \A c \in Cells : c # x => b[c] = shared[c]
  BY Zenon DEF Stored
<1>3. ASSUME NEW t \in Streams, NEW p \in 0 .. spos[t] - 1
      PROVE  Cell(p, t) \in Cells /\ Cell(p, t) # x
  <2>1. /\ spos[t] \in Nat /\ p \in Nat /\ cap \in Nat /\ spos[t] <= cap + 8
        /\ p < cap + 8 /\ (t = s => p # spos[s])
    <3>1. spos[t] \in Nat /\ cap \in Nat /\ spos[t] <= cap + 8
      BY InputAssumption DEF cap, StreamsFit
    <3> QED
      BY <3>1
  <2> QED
    BY <1>1, <2>1, CellsOfStreams
<1>4. ASSUME NEW t \in Streams
      PROVE  BytesOf(b, spos[t], t) = StreamOut(t)
  <2>1. Agree(shared, b, spos[t], t)
    BY <1>2, <1>3, Zenon DEF Agree
  <2>2. spos[t] \in Nat
    OBVIOUS
  <2>3. BytesOf(b, spos[t], t) = BytesOf(shared, spos[t], t)
    BY <2>1, <2>2, SameBytes
  <2> QED
    BY <2>3, Zenon DEF StreamOut
<1>5. BytesOf(b, spos[s] + 1, s) = Append(StreamOut(s), v)
  <2> DEFINE len == spos[s]
             q == BytesOf(b, len + 1, s)
             o == BytesOf(b, len, s)
  <2>1. /\ len \in Nat /\ len + 1 \in Nat
    BY <1>1
  <2>2. /\ IsSeq(q) /\ Len(q) = len + 1
        /\ \A p \in 1 .. len + 1 : q[p] = b[Cell(p - 1, s)]
    BY <2>1, BytesFacts
  <2>3. /\ IsSeq(o) /\ Len(o) = len
        /\ \A p \in 1 .. len : o[p] = b[Cell(p - 1, s)]
    BY <2>1, BytesFacts
  <2> HIDE DEF q, o, len
  <2>4. /\ IsSeq(Append(o, v)) /\ Len(Append(o, v)) = Len(o) + 1
        /\ Append(o, v)[Len(o) + 1] = v
        /\ \A j \in 1 .. Len(o) : Append(o, v)[j] = o[j]
    BY <2>3, Appended
  <2>5. ASSUME NEW j \in 1 .. len + 1 PROVE q[j] = Append(o, v)[j]
    <3>1. CASE j \in 1 .. len
      <4>1. q[j] = b[Cell(j - 1, s)] /\ o[j] = b[Cell(j - 1, s)]
        BY <2>2, <2>3, <3>1, Zenon
      <4> QED
        BY <2>3, <2>4, <3>1, <4>1, Zenon
    <3>2. CASE j = len + 1
      <4>1. j - 1 = len
        BY <2>1, <3>2
      <4>2. q[j] = b[Cell(len, s)]
        BY <2>2, <4>1, Zenon
      <4>3. b[Cell(len, s)] = v
        BY <1>2 DEF len
      <4> QED
        BY <2>3, <2>4, <3>2, <4>2, <4>3, Zenon
    <3>3. j \in 1 .. len \/ j = len + 1
      BY <2>1
    <3> QED
      BY <3>1, <3>2, <3>3, Zenon
  <2>6. q = Append(o, v)
    <3>1. Len(q) = Len(Append(o, v))
      BY <2>2, <2>3, <2>4, Zenon
    <3>2. \A j \in 1 .. Len(q) : q[j] = Append(o, v)[j]
      BY <2>2, <2>5, Zenon
    <3> QED
      BY <2>2, <2>4, <3>1, <3>2, SameSeq
  <2>7. o = StreamOut(s)
    BY <1>4 DEF o, len
  <2> QED
    BY <2>6, <2>7 DEF q, len
<1> QED
  BY <1>2, <1>4, <1>5

-----------------------------------------------------------------------------
(* The actions of the scalar coder on stream s: the definitions of          *)
(* Carryless under the substitution of Even and Odd, with the stream as a   *)
(* parameter.                                                               *)
StreamDec(s) ==
  <<dlow[s], drange[s], dcode[s], dpos[s], Half(out_buf, s), StreamDecPhase(s)>>
StreamEnc(s) ==
  <<cum, n \div 2, Half(data, s), elow[s], erange[s], StreamOut(s), spos[s],
    StreamPhase(s)>>
StreamVars(s) == <<StreamEnc(s), StreamDec(s)>>

StreamCap == n \div 2 + (n \div 2) \div 50 + AMPLE
StreamCut(digits) ==
  SubSeq(digits, 1, IF Len(digits) < StreamCap THEN Len(digits) ELSE StreamCap)

StreamInit(s) ==
  /\ cum \in Tables
  /\ n \div 2 \in 1 .. Max(LENGTHS)
  /\ Half(data, s) = << >>
  /\ elow[s] = 0
  /\ erange[s] = WORD - 1
  /\ StreamOut(s) = << >>
  /\ spos[s] = 0
  /\ StreamPhase(s) = "step"
  /\ dlow[s] = 0
  /\ drange[s] = 0
  /\ dcode[s] = 0
  /\ dpos[s] = 0
  /\ Half(out_buf, s) = << >>
  /\ StreamDecPhase(s) = "start"

StreamEncode(s, sym) ==
  /\ StreamPhase(s) = "step"
  /\ Len(Half(data, s)) < n \div 2
  /\ elow[s]' = (elow[s] + (erange[s] \div TOTAL) * cum[sym]) % REGISTER
  /\ erange[s]' = (erange[s] \div TOTAL) * Freq(cum, sym)
  /\ Half(data, s)' = Append(Half(data, s), sym)
  /\ StreamPhase(s)' = "renorm"
  /\ UNCHANGED <<cum, n \div 2, StreamOut(s), spos[s], StreamDec(s)>>

StreamShift(s) ==
  /\ StreamPhase(s) = "renorm"
  /\ MustShift(elow[s], erange[s])
  /\ StreamOut(s)' = StreamCut(Append(StreamOut(s), (elow[s] \div TOP) % D))
  /\ spos[s]' = spos[s] + 1
  /\ elow[s]' = ShiftedLow(elow[s])
  /\ erange[s]' = ShiftedRange(Kept(elow[s], erange[s]))
  /\ UNCHANGED <<cum, n \div 2, Half(data, s), StreamPhase(s), StreamDec(s)>>

StreamReady(s) ==
  /\ StreamPhase(s) = "renorm"
  /\ ~ MustShift(elow[s], erange[s])
  /\ StreamPhase(s)' = "step"
  /\ UNCHANGED <<cum, n \div 2, Half(data, s), elow[s], erange[s], StreamOut(s),
                 spos[s], StreamDec(s)>>

StreamLowDigits(s) == [ j \in 1 .. DIGITS |-> LowDigit(s, j - 1) ]

StreamFlush(s) ==
  /\ StreamPhase(s) = "step"
  /\ Len(Half(data, s)) = n \div 2
  /\ StreamOut(s)' = StreamCut(StreamOut(s) \o StreamLowDigits(s))
  /\ spos[s]' = spos[s] + DIGITS
  /\ elow[s]' = FlushLow(s)[DIGITS]
  /\ StreamPhase(s)' =
       IF spos[s] + DIGITS > StreamCap THEN "overflow" ELSE "written"
  /\ UNCHANGED <<cum, n \div 2, Half(data, s), erange[s], StreamDec(s)>>

StreamFirstDigits(s) ==
  LET f[j \in 0 .. DIGITS] ==
        IF j = 0 THEN 0 ELSE (f[j - 1] * D + StreamOut(s)[j]) % WORD
  IN  f

StreamDecInit(s) ==
  /\ StreamPhase(s) = "written"
  /\ StreamDecPhase(s) = "start"
  /\ drange[s]' = WORD - 1
  /\ dcode[s]' = StreamFirstDigits(s)[DIGITS]
  /\ dpos[s]' = DIGITS
  /\ StreamDecPhase(s)' = "step"
  /\ UNCHANGED <<StreamEnc(s), dlow[s], Half(out_buf, s)>>

StreamDecode(s) ==
  /\ StreamDecPhase(s) = "step"
  /\ Len(Half(out_buf, s)) < n \div 2
  /\ LET sym == Find(cum, Quotient(s))
     IN /\ dlow[s]' = (dlow[s] + (drange[s] \div TOTAL) * cum[sym]) % REGISTER
        /\ drange[s]' = (drange[s] \div TOTAL) * Freq(cum, sym)
        /\ Half(out_buf, s)' = Append(Half(out_buf, s), sym)
  /\ StreamDecPhase(s)' = "renorm"
  /\ UNCHANGED <<StreamEnc(s), dcode[s], dpos[s]>>

StreamNextDigit(s) ==
  IF dpos[s] < Len(StreamOut(s)) THEN StreamOut(s)[dpos[s] + 1] ELSE 0

StreamDecShift(s) ==
  /\ StreamDecPhase(s) = "renorm"
  /\ MustShift(dlow[s], drange[s])
  /\ dcode[s]' = (dcode[s] * D + StreamNextDigit(s)) % WORD
  /\ dpos[s]' = dpos[s] + 1
  /\ dlow[s]' = ShiftedLow(dlow[s])
  /\ drange[s]' = ShiftedRange(Kept(dlow[s], drange[s]))
  /\ UNCHANGED <<StreamEnc(s), Half(out_buf, s), StreamDecPhase(s)>>

StreamDecReady(s) ==
  /\ StreamDecPhase(s) = "renorm"
  /\ ~ MustShift(dlow[s], drange[s])
  /\ StreamDecPhase(s)' = "step"
  /\ UNCHANGED <<StreamEnc(s), dlow[s], drange[s], dcode[s], dpos[s],
                 Half(out_buf, s)>>

StreamNext(s) ==
  \/ \E sym \in Occurring(cum) : StreamEncode(s, sym)
  \/ StreamShift(s) \/ StreamReady(s) \/ StreamFlush(s)
  \/ StreamDecInit(s) \/ StreamDecode(s) \/ StreamDecShift(s)
  \/ StreamDecReady(s)

StreamSteps(s) == StreamNext(s) \/ UNCHANGED StreamVars(s)

(* They are the actions of the two instances.                               *)
LEMMA EvenStream ==
  /\ StreamInit(0) => Even!Init
  /\ StreamNext(0) => Even!Next
  /\ UNCHANGED StreamVars(0) => UNCHANGED Even!vars
  BY Zenon DEF StreamDec, StreamEnc, StreamVars, StreamCap, StreamCut,
     StreamInit, StreamEncode, StreamShift, StreamReady, StreamLowDigits,
     StreamFlush, StreamFirstDigits, StreamDecInit, StreamDecode,
     StreamNextDigit, StreamDecShift, StreamDecReady, StreamNext, LowDigit,
     FlushLow, Quotient, Tables, Symbols, Freq, Occurring, Find, MustShift,
     MustTrim, TopAgrees, Kept, Trimmed, ShiftedLow, ShiftedRange,
     Even!Tables, Even!Symbols, Even!Freq, Even!Occurring, Even!Find,
     Even!MustShift, Even!MustTrim, Even!TopAgrees, Even!Kept, Even!Trimmed,
     Even!ShiftedLow, Even!ShiftedRange, Even!vars, Even!encVars,
     Even!decVars, Even!cap, Even!Cut, Even!Init, Even!Encode,
     Even!EncodeSymbol, Even!EncodeShift, Even!EncodeReady, Even!FlushLow,
     Even!LowDigits, Even!Flush, Even!NextDigit, Even!NextPos,
     Even!FirstDigits, Even!DecInit, Even!dec_r, Even!Quotient, Even!GetCum,
     Even!DecodeSymbol, Even!DecodeShift, Even!DecodeReady, Even!Next

LEMMA OddStream ==
  /\ StreamInit(1) => Odd!Init
  /\ StreamNext(1) => Odd!Next
  /\ UNCHANGED StreamVars(1) => UNCHANGED Odd!vars
  BY Zenon DEF StreamDec, StreamEnc, StreamVars, StreamCap, StreamCut,
     StreamInit, StreamEncode, StreamShift, StreamReady, StreamLowDigits,
     StreamFlush, StreamFirstDigits, StreamDecInit, StreamDecode,
     StreamNextDigit, StreamDecShift, StreamDecReady, StreamNext, LowDigit,
     FlushLow, Quotient, Tables, Symbols, Freq, Occurring, Find, MustShift,
     MustTrim, TopAgrees, Kept, Trimmed, ShiftedLow, ShiftedRange,
     Odd!Tables, Odd!Symbols, Odd!Freq, Odd!Occurring, Odd!Find,
     Odd!MustShift, Odd!MustTrim, Odd!TopAgrees, Odd!Kept, Odd!Trimmed,
     Odd!ShiftedLow, Odd!ShiftedRange, Odd!vars, Odd!encVars, Odd!decVars,
     Odd!cap, Odd!Cut, Odd!Init, Odd!Encode, Odd!EncodeSymbol,
     Odd!EncodeShift, Odd!EncodeReady, Odd!FlushLow, Odd!LowDigits,
     Odd!Flush, Odd!NextDigit, Odd!NextPos, Odd!FirstDigits, Odd!DecInit,
     Odd!dec_r, Odd!Quotient, Odd!GetCum, Odd!DecodeSymbol, Odd!DecodeShift,
     Odd!DecodeReady, Odd!Next

(* So are those the theorems of Carryless_proofs are about.                 *)
LEMMA EvenInstance ==
  /\ Even!Init => E0!Init
  /\ Even!Next => E0!Next
  /\ UNCHANGED Even!vars => UNCHANGED E0!vars
  BY Zenon DEF Even!Tables, E0!Tables, Even!Symbols, E0!Symbols, Even!Freq,
     E0!Freq, Even!Occurring, E0!Occurring, Even!Find, E0!Find,
     Even!MustShift, E0!MustShift, Even!MustTrim, E0!MustTrim,
     Even!TopAgrees, E0!TopAgrees, Even!Kept, E0!Kept, Even!Trimmed,
     E0!Trimmed, Even!ShiftedLow, E0!ShiftedLow, Even!ShiftedRange,
     E0!ShiftedRange, Even!vars, E0!vars, Even!encVars, E0!encVars,
     Even!decVars, E0!decVars, Even!cap, E0!cap, Even!Cut, E0!Cut,
     Even!Init, E0!Init, Even!Encode, E0!Encode, Even!EncodeSymbol,
     E0!EncodeSymbol, Even!EncodeShift, E0!EncodeShift, Even!EncodeReady,
     E0!EncodeReady, Even!FlushLow, E0!FlushLow, Even!LowDigits,
     E0!LowDigits, Even!Flush, E0!Flush, Even!NextDigit, E0!NextDigit,
     Even!NextPos, E0!NextPos, Even!FirstDigits, E0!FirstDigits,
     Even!DecInit, E0!DecInit, Even!dec_r, E0!dec_r, Even!Quotient,
     E0!Quotient, Even!GetCum, E0!GetCum, Even!DecodeSymbol,
     E0!DecodeSymbol, Even!DecodeShift, E0!DecodeShift, Even!DecodeReady,
     E0!DecodeReady, Even!Next, E0!Next

LEMMA OddInstance ==
  /\ Odd!Init => E1!Init
  /\ Odd!Next => E1!Next
  /\ UNCHANGED Odd!vars => UNCHANGED E1!vars
  BY Zenon DEF Odd!Tables, E1!Tables, Odd!Symbols, E1!Symbols, Odd!Freq,
     E1!Freq, Odd!Occurring, E1!Occurring, Odd!Find, E1!Find, Odd!MustShift,
     E1!MustShift, Odd!MustTrim, E1!MustTrim, Odd!TopAgrees, E1!TopAgrees,
     Odd!Kept, E1!Kept, Odd!Trimmed, E1!Trimmed, Odd!ShiftedLow,
     E1!ShiftedLow, Odd!ShiftedRange, E1!ShiftedRange, Odd!vars, E1!vars,
     Odd!encVars, E1!encVars, Odd!decVars, E1!decVars, Odd!cap, E1!cap,
     Odd!Cut, E1!Cut, Odd!Init, E1!Init, Odd!Encode, E1!Encode,
     Odd!EncodeSymbol, E1!EncodeSymbol, Odd!EncodeShift, E1!EncodeShift,
     Odd!EncodeReady, E1!EncodeReady, Odd!FlushLow, E1!FlushLow,
     Odd!LowDigits, E1!LowDigits, Odd!Flush, E1!Flush, Odd!NextDigit,
     E1!NextDigit, Odd!NextPos, E1!NextPos, Odd!FirstDigits, E1!FirstDigits,
     Odd!DecInit, E1!DecInit, Odd!dec_r, E1!dec_r, Odd!Quotient,
     E1!Quotient, Odd!GetCum, E1!GetCum, Odd!DecodeSymbol, E1!DecodeSymbol,
     Odd!DecodeShift, E1!DecodeShift, Odd!DecodeReady, E1!DecodeReady,
     Odd!Next, E1!Next

LEMMA EvenScalar == Even!SafeSpec => E0!SafeSpec
  BY EvenInstance, PTL DEF Even!SafeSpec, E0!SafeSpec

LEMMA OddScalar == Odd!SafeSpec => E1!SafeSpec
  BY OddInstance, PTL DEF Odd!SafeSpec, E1!SafeSpec

-----------------------------------------------------------------------------
(* The first digits that either decoder reads.                              *)
LEMMA SameFirstDigits ==
  ASSUME NEW s \in Streams, spos[s] \in Nat, DIGITS <= spos[s],
         max_len \in Nat, spos[s] <= max_len
  PROVE  StreamFirstDigits(s) = FirstDigits(s)
<1>1. DIGITS \in Nat
  BY DigitsAssumption
<1>2. ASSUME NEW j \in 1 .. DIGITS PROVE StreamOut(s)[j] = Read(j - 1, s)
  <2>1. StreamOut(s)[j] = shared[Cell(j - 1, s)]
    <3>1. j \in 1 .. spos[s]
      BY <1>1
    <3> QED
      BY <3>1, BytesFacts DEF StreamOut
  <2>2. j - 1 < max_len
    BY <1>1
  <2> QED
    BY <2>1, <2>2 DEF Read
<1> DEFINE Mine(f) == f = [ j \in 0 .. DIGITS |->
             IF j = 0 THEN 0 ELSE (f[j - 1] * D + StreamOut(s)[j]) % WORD ]
           Theirs(f) == f = [ j \in 0 .. DIGITS |->
             IF j = 0 THEN 0 ELSE (f[j - 1] * D + Read(j - 1, s)) % WORD ]
<1>3. ASSUME NEW f PROVE Mine(f) <=> Theirs(f)
  <2>1. \A j \in 0 .. DIGITS : j = 0 \/ j \in 1 .. DIGITS
    BY <1>1
  <2>2. ASSUME NEW j \in 0 .. DIGITS
        PROVE  (IF j = 0 THEN 0 ELSE (f[j - 1] * D + StreamOut(s)[j]) % WORD)
             = (IF j = 0 THEN 0 ELSE (f[j - 1] * D + Read(j - 1, s)) % WORD)
    BY <1>2, <2>1, Zenon
  <2> QED
    BY <2>2, Zenon
<1>4. StreamFirstDigits(s) = CHOOSE f : Mine(f)
  BY Zenon DEF StreamFirstDigits
<1>5. FirstDigits(s) = CHOOSE f : Theirs(f)
  BY Zenon DEF FirstDigits
<1> HIDE DEF Mine, Theirs
<1>6. (CHOOSE f : Mine(f)) = (CHOOSE f : Theirs(f))
  BY <1>3, Zenon
<1> QED
  BY <1>4, <1>5, <1>6

-----------------------------------------------------------------------------
(* Where the loops of the encoder are.  A block has an even number of       *)
(* symbols and inside a pair the stream whose turn it is follows from how   *)
(* many symbols were coded.                                                 *)
EncLoops ==
  /\ i \in Nat /\ k \in Nat /\ blk \in Nat
  /\ i % 2 = 0 /\ k % 2 = 0 /\ blk % 2 = 0
  /\ i <= n
  /\ turn \in Streams
  /\ IsSeq(data)
  /\ phase \in {"block", "pair", "second", "renorm", "written"}
  /\ phase = "block" => Len(data) = i
  /\ phase \in {"pair", "second", "renorm"} => k <= blk /\ i + blk <= n
  /\ phase \in {"second", "renorm"} => k < blk
  /\ phase = "pair" => Len(data) = i + k
  /\ phase = "second" => Len(data) = i + k + 1
  /\ phase = "renorm" => Len(data) = i + k + 1 + turn
  /\ phase = "written" => Len(data) = n /\ n % 2 = 0

(* An RLE file has no streams.                                              *)
EncRle ==
  /\ phase \in {"block", "written"}
  /\ spos = PerStream(0)
  /\ phase = "written" => data = [ p \in 1 .. n |-> sig3 ]

(* The buffer is blank behind both streams.                                 *)
Blank == \A c \in Cells : c \div 2 >= spos[c % 2] => shared[c] = 0

Finished ==
  /\ max_len \in Nat /\ max_len <= cap + 8
  /\ \A s \in Streams : DIGITS <= spos[s] /\ spos[s] <= max_len

EncControl ==
  /\ FlagIsRead
  /\ n \in LENGTHS /\ n \in Nat
  /\ is_rle \in BOOLEAN
  /\ IsFun(elow, Streams) /\ IsFun(erange, Streams)
  /\ spos \in [Streams -> Nat]
  /\ IsFun(shared, Cells)
  /\ Blank
  /\ is_rle => EncRle
  /\ ~ is_rle => EncLoops
  /\ ~ is_rle /\ phase = "written" => Finished

(* Where those of the decoder are; it starts when the file is written.      *)
DecLoops ==
  /\ dec_i \in Nat /\ dec_k \in Nat /\ dec_blk \in Nat
  /\ dec_i % 2 = 0 /\ dec_k % 2 = 0 /\ dec_blk % 2 = 0
  /\ dec_i <= n
  /\ dec_turn \in Streams
  /\ IsSeq(out_buf)
  /\ dec_phase \in {"start", "block", "pair", "renorm", "done"}
  /\ dec_phase = "start" => dec_i = 0
  /\ dec_phase \in {"start", "block"} => Len(out_buf) = dec_i
  /\ dec_phase \in {"pair", "renorm"} => dec_k <= dec_blk /\ dec_i + dec_blk <= n
  /\ dec_phase = "renorm" => dec_k < dec_blk
  /\ dec_phase = "pair" => Len(out_buf) = dec_i + dec_k
  /\ dec_phase = "renorm" => Len(out_buf) = dec_i + dec_k + 2
  /\ dec_phase = "done" => Len(out_buf) = n /\ n % 2 = 0

DecRle ==
  /\ dec_phase \in {"start", "failed", "done"}
  /\ dpos = PerStream(0)
  /\ dec_phase = "done" => out_buf = data

DecControl ==
  /\ dec_phase # "start" => phase = "written"
  /\ IsFun(dlow, Streams) /\ IsFun(drange, Streams)
  /\ IsFun(dcode, Streams) /\ dpos \in [Streams -> Nat]
  /\ is_rle => DecRle
  /\ ~ is_rle => DecLoops

Control == EncControl /\ DecControl

LEMMA EncRests ==
  ASSUME EncControl, UNCHANGED encVars
  PROVE  EncControl'
  BY Zenon DEF EncControl, encVars, FlagIsRead, TakenForRle, EncRle, EncLoops,
     Blank, Finished, Cells, cap

LEMMA DecRests ==
  ASSUME EncControl, DecControl, phase # "written", UNCHANGED decVars,
         is_rle' = is_rle, n' = n
  PROVE  DecControl'
<1>1. dec_phase = "start"
  BY DEF DecControl
<1> QED
  BY <1>1, Zenon DEF DecControl, decVars, DecRle, DecLoops

LEMMA FlagRests ==
  ASSUME FlagIsRead, is_rle' = is_rle, sig3' = sig3
  PROVE  FlagIsRead'
  BY Zenon DEF FlagIsRead, TakenForRle

LEMMA BlankRests ==
  ASSUME Blank, shared' = shared, spos' = spos, n' = n
  PROVE  Blank' /\ Cells' = Cells
  BY Zenon DEF Blank, Cells, cap

(* The steps that store no byte.                                            *)
LEMMA NothingStored ==
  ASSUME EncControl, UNCHANGED <<is_rle, sig3, n, spos, shared>>,
         IsFun(elow', Streams), IsFun(erange', Streams),
         is_rle => EncRle', ~ is_rle => EncLoops' /\ phase' # "written"
  PROVE  EncControl'
<1>1. FlagIsRead' /\ Blank' /\ Cells' = Cells
  BY FlagRests, BlankRests, Zenon DEF EncControl
<1>2. IsFun(shared', Cells')
  BY <1>1, Zenon DEF EncControl
<1>3. /\ n' \in LENGTHS /\ n' \in Nat /\ is_rle' \in BOOLEAN
      /\ spos' \in [Streams -> Nat]
  BY Zenon DEF EncControl
<1>4. (is_rle' => EncRle') /\ (~ is_rle' => EncLoops')
      /\ (~ is_rle' /\ phase' = "written" => Finished')
  BY Zenon
<1> QED
  BY <1>1, <1>2, <1>3, <1>4, Zenon DEF EncControl

LEMMA EncFrame ==
  ASSUME UNCHANGED encVars
  PROVE  \A s : StreamEnc(s)' = StreamEnc(s)
  BY Zenon DEF encVars, StreamEnc, Half, StreamOut, StreamPhase

LEMMA DecFrame ==
  ASSUME UNCHANGED decVars, is_rle' = is_rle
  PROVE  \A s : StreamDec(s)' = StreamDec(s)
  BY Zenon DEF decVars, StreamDec, Half, StreamDecPhase

LEMMA Stutters ==
  ASSUME UNCHANGED vars
  PROVE  \A s : StreamSteps(s)
  BY EncFrame, DecFrame, Zenon DEF vars, encVars, StreamSteps, StreamVars

-----------------------------------------------------------------------------
(* The encoder's steps.                                                     *)
LEMMA EncodeRleSteps ==
  ASSUME Control, EncodeRle
  PROVE  Control' /\ \A s \in Streams : StreamSteps(s)
<1>1. /\ is_rle /\ is_rle' = is_rle /\ phase = "block" /\ phase' = "written"
      /\ data' = [ p \in 1 .. n |-> sig3 ] /\ UNCHANGED decVars
      /\ UNCHANGED <<cum, is_rle, sig3, n, i, k, blk, turn, elow, erange, spos,
                     shared, max_len>>
  BY DEF EncodeRle
<1>2. DecControl'
  BY <1>1, DecRests DEF Control
<1>3. EncControl'
  <2>1. EncControl /\ EncRle
    BY <1>1 DEF Control, EncControl
  <2>2. EncRle'
    BY <1>1, <2>1, Zenon DEF EncRle
  <2>3. IsFun(elow', Streams) /\ IsFun(erange', Streams)
    BY <1>1, <2>1, Zenon DEF EncControl
  <2> QED
    BY <1>1, <2>1, <2>2, <2>3, NothingStored
<1>4. ASSUME NEW s \in Streams PROVE StreamEnc(s)' = StreamEnc(s)
  <2>1. StreamPhase(s)' = StreamPhase(s)
    BY <1>1 DEF StreamPhase
  <2>2. Half(data, s)' = Half(data, s)
    <3>1. is_rle /\ is_rle'
      BY <1>1
    <3> QED
      BY <3>1, Zenon DEF Half
  <2> QED
    BY <1>1, <2>1, <2>2, Zenon DEF StreamEnc, StreamOut
<1> QED
  BY <1>1, <1>2, <1>3, <1>4, DecFrame, Zenon DEF Control, StreamSteps, StreamVars

LEMMA EvenBlocks ==
  ASSUME n \in Nat, NEW start \in Nat, start <= n
  PROVE  /\ EvenBlock(start) \in Nat /\ EvenBlock(start) % 2 = 0
         /\ start + EvenBlock(start) <= n
<1> DEFINE rest == IF n - start < BLOCK THEN n - start ELSE BLOCK
<1>1. rest \in Nat /\ rest <= n - start
  BY BlockAssumption
<1>2. EvenBlock(start) = rest - (rest % 2)
  BY Zenon DEF EvenBlock
<1> HIDE DEF rest
<1>3. (rest - (rest % 2)) \in Nat /\ (rest - (rest % 2)) % 2 = 0
  BY <1>1
<1> QED
  BY <1>1, <1>2, <1>3

(* Opening and closing a block does nothing to the streams.                 *)
LEMMA BlockSteps ==
  ASSUME Control, NextBlock \/ EndBlock
  PROVE  Control' /\ \A s \in Streams : StreamSteps(s)
<1>1. /\ UNCHANGED decVars
      /\ UNCHANGED <<cum, is_rle, sig3, n, data, turn, elow, erange, spos, shared,
                     max_len>>
      /\ phase \in {"block", "pair"} /\ phase' \in {"block", "pair"}
  BY DEF NextBlock, EndBlock
<1>2. ~ is_rle /\ EncLoops /\ EncControl
  BY DEF Control, EncControl, EncRle, NextBlock, EndBlock
<1>3. EncLoops'
  <2>1. CASE NextBlock
    <3>1. EvenBlock(i) \in Nat /\ EvenBlock(i) % 2 = 0 /\ i + EvenBlock(i) <= n
      BY <1>2, EvenBlocks DEF EncLoops, EncControl
    <3>2. /\ blk' = EvenBlock(i) /\ k' = 0 /\ phase' = "pair" /\ phase = "block"
          /\ i' = i /\ n' = n /\ data' = data /\ turn' = turn
      BY <2>1 DEF NextBlock
    <3> QED
      BY <1>2, <3>1, <3>2 DEF EncLoops, IsSeq
  <2>2. CASE EndBlock
    <3>1. /\ k >= blk /\ i' = i + blk /\ phase' = "block" /\ phase = "pair"
          /\ k' = k /\ blk' = blk /\ n' = n /\ data' = data /\ turn' = turn
      BY <2>2 DEF EndBlock
    <3> QED
      BY <1>2, <3>1 DEF EncLoops, IsSeq
  <2> QED
    BY <2>1, <2>2
<1>4. EncControl'
  <2>1. phase # "written" /\ phase' # "written" /\ is_rle' = is_rle
    BY <1>1
  <2>2. IsFun(elow', Streams) /\ IsFun(erange', Streams)
    BY <1>1, <1>2, Zenon DEF EncControl
  <2> QED
    BY <1>1, <1>2, <1>3, <2>1, <2>2, NothingStored
<1>5. DecControl'
  BY <1>1, DecRests DEF Control
<1>6. ASSUME NEW s \in Streams PROVE StreamEnc(s)' = StreamEnc(s)
  <2>1. StreamPhase(s)' = StreamPhase(s)
    BY <1>1 DEF StreamPhase
  <2> QED
    BY <1>1, <2>1, Zenon DEF StreamEnc, Half, StreamOut
<1> QED
  BY <1>1, <1>4, <1>5, <1>6, DecFrame, Zenon DEF Control, StreamSteps, StreamVars

LEMMA OtherStream ==
  ASSUME NEW s \in Streams, NEW t \in Streams, t # s
  PROVE  t = 1 - s
  BY DEF Streams

(* A symbol is a step of the stream it goes to and of no other.             *)
LEMMA NarrowSteps ==
  ASSUME Control, NEW s \in Streams, NEW sym \in Occurring(cum), Narrow(s, sym),
         (s = 0 /\ phase = "pair" /\ k < blk) \/ (s = 1 /\ phase = "second"),
         UNCHANGED <<cum, is_rle, sig3, n, i, k, blk, spos, shared, max_len,
                     decVars>>
  PROVE  /\ Control'
         /\ StreamEncode(s, sym)
         /\ \A t \in Streams : t # s => StreamVars(t)' = StreamVars(t)
<1> DEFINE lo == (elow[s] + (erange[s] \div TOTAL) * cum[sym]) % REGISTER
           rg == (erange[s] \div TOTAL) * Freq(cum, sym)
<1>1. /\ elow' = [ elow EXCEPT ![s] = lo ] /\ erange' = [ erange EXCEPT ![s] = rg ]
      /\ turn' = s /\ data' = Append(data, sym) /\ phase' = "renorm"
  BY Zenon DEF Narrow
<1> HIDE DEF lo, rg
<1>2. EncControl /\ DecControl /\ ~ is_rle /\ EncLoops
  BY DEF Control, EncControl, EncRle
<1>3. /\ IsFun(elow', Streams) /\ elow'[s] = lo
      /\ \A t \in Streams : t # s => elow'[t] = elow[t]
  BY <1>1, <1>2, Zenon DEF EncControl, IsFun
<1>4. /\ IsFun(erange', Streams) /\ erange'[s] = rg
      /\ \A t \in Streams : t # s => erange'[t] = erange[t]
  BY <1>1, <1>2, Zenon DEF EncControl, IsFun
<1>5. /\ IsSeq(data) /\ Len(data) \in Nat /\ Len(data) % 2 = s
      /\ Len(data) \div 2 < n \div 2 /\ n \in Nat
  <2>1. IsSeq(data) /\ Len(data) \in Nat /\ n \in Nat
    BY <1>2 DEF EncLoops, IsSeq, EncControl
  <2>2. /\ i \in Nat /\ k \in Nat /\ blk \in Nat /\ i % 2 = 0 /\ k % 2 = 0
        /\ blk % 2 = 0 /\ i + blk <= n /\ Len(data) = i + k + s /\ k < blk
    BY <1>2 DEF EncLoops
  <2> QED
    BY <2>1, <2>2 DEF Streams
<1>6. /\ IsSeq(data') /\ Len(data') = Len(data) + 1
  BY <1>1, <1>5, Appended
<1>7. EncLoops'
  <2>1. k < blk /\ k <= blk /\ i + blk <= n /\ Len(data) = i + k + s
    BY <1>2 DEF EncLoops
  <2>2. /\ i' = i /\ k' = k /\ blk' = blk /\ n' = n /\ turn' = s /\ phase' = "renorm"
    BY <1>1
  <2>3. Len(data') = i + k + 1 + s
    BY <1>2, <1>6, <2>1 DEF EncLoops, Streams
  <2> QED
    BY <1>2, <1>6, <2>1, <2>2, <2>3 DEF EncLoops
<1>8. EncControl'
  <2>1. phase' # "written"
    BY <1>1
  <2> QED
    BY <1>2, <1>3, <1>4, <1>7, <2>1, NothingStored
<1>9. DecControl'
  BY <1>2, DecRests
<1>10. /\ Half(data, s)' = Append(Half(data, s), sym)
       /\ Len(Half(data, s)) = Len(data) \div 2
       /\ \A t \in Streams : t # s => Half(data, t)' = Half(data, t)
  <2>1. /\ EverySecond(data', s) = Append(EverySecond(data, s), sym)
        /\ EverySecond(data', 1 - s) = EverySecond(data, 1 - s)
        /\ Len(EverySecond(data, s)) = Len(data) \div 2
    BY <1>1, <1>5, HalfGrows
  <2>2. ~ is_rle /\ ~ is_rle'
    BY <1>2
  <2>3. /\ \A t : Half(data, t) = EverySecond(data, t)
        /\ \A t : Half(data, t)' = EverySecond(data', t)
    BY <2>2, Zenon DEF Half
  <2> QED
    BY <2>1, <2>3, OtherStream
<1>11. /\ StreamPhase(s) = "step" /\ StreamPhase(s)' = "renorm"
       /\ \A t \in Streams : t # s => StreamPhase(t) = "step" /\ StreamPhase(t)' = "step"
  BY <1>1 DEF StreamPhase
<1>12. StreamDec(s)' = StreamDec(s) /\ \A t \in Streams : StreamDec(t)' = StreamDec(t)
  BY DecFrame
<1>13. \A t : StreamOut(t)' = StreamOut(t)
  BY Zenon DEF StreamOut
<1>14. StreamEncode(s, sym)
  <2>1. Len(Half(data, s)) < n \div 2
    BY <1>5, <1>10
  <2> QED
    BY <1>3, <1>4, <1>10, <1>11, <1>12, <1>13, <2>1, Zenon DEF StreamEncode, lo, rg
<1>15. ASSUME NEW t \in Streams, t # s PROVE StreamVars(t)' = StreamVars(t)
  BY <1>3, <1>4, <1>10, <1>11, <1>12, <1>13, <1>15, Zenon DEF StreamVars, StreamEnc
<1> QED
  BY <1>8, <1>9, <1>14, <1>15, Zenon DEF Control

LEMMA EncodeSteps ==
  ASSUME Control, EncodeEven \/ EncodeOdd
  PROVE  Control' /\ \A s \in Streams : StreamSteps(s)
<1>1. PICK s \in Streams, sym \in Occurring(cum) :
        /\ Narrow(s, sym)
        /\ (s = 0 /\ phase = "pair" /\ k < blk) \/ (s = 1 /\ phase = "second")
  BY DEF EncodeEven, EncodeOdd, Streams
<1>2. UNCHANGED <<cum, is_rle, sig3, n, i, k, blk, spos, shared, max_len, decVars>>
  BY DEF EncodeEven, EncodeOdd
<1>3. /\ Control' /\ StreamEncode(s, sym)
      /\ \A t \in Streams : t # s => StreamVars(t)' = StreamVars(t)
  BY <1>1, <1>2, NarrowSteps
<1> QED
  BY <1>3, Zenon DEF StreamSteps, StreamNext

(* The bounds of the buffer of the scalar coder are wider.                  *)
LEMMA RoomForStream ==
  ASSUME n \in LENGTHS, n \in Nat
  PROVE  cap \in Nat /\ StreamCap \in Nat /\ cap + 8 <= StreamCap
<1>1. n <= Max(LENGTHS) /\ Max(LENGTHS) \in Nat /\ HEADROOM \in Nat
  BY LongestLength, InputAssumption
<1> DEFINE m == Max(LENGTHS)
<1>2. /\ cap = n \div 2 + n \div 50 + HEADROOM
      /\ StreamCap = n \div 2 + (n \div 2) \div 50 + (m + HEADROOM + 8)
  BY Zenon DEF cap, StreamCap, AMPLE
<1> HIDE DEF m
<1>3. m \in Nat /\ n <= m
  BY <1>1 DEF m
<1> QED
  BY <1>1, <1>2, <1>3

LEMMA NothingCut ==
  ASSUME n \in LENGTHS, n \in Nat, NEW q, IsSeq(q), Len(q) <= cap + 8
  PROVE  StreamCut(q) = q
<1>1. StreamCap \in Nat /\ Len(q) \in Nat /\ Len(q) <= StreamCap
  BY RoomForStream DEF IsSeq
<1>2. (IF Len(q) < StreamCap THEN Len(q) ELSE StreamCap) = Len(q)
  BY <1>1
<1> QED
  BY <1>2, WholeSeq DEF StreamCut

(* A byte is a step of the stream whose turn it is.                         *)
LEMMA ShiftSteps ==
  ASSUME Control, StreamsFit, StreamsFit', EncodeShift
  PROVE  Control' /\ \A s \in Streams : StreamSteps(s)
<1>0. EncControl /\ DecControl /\ ~ is_rle /\ EncLoops /\ n \in Nat /\ n \in LENGTHS
  BY DEF EncodeShift, Control, EncControl, EncRle
<1>20. PICK s \in Streams : s = turn
  BY <1>0 DEF EncLoops
<1> DEFINE x == Cell(spos[s], s)
           v == (elow[s] \div TOP) % D
           lo == ShiftedLow(elow[s])
           rg == ShiftedRange(Kept(elow[s], erange[s]))
<1>1. /\ phase = "renorm" /\ MustShift(elow[s], erange[s])
      /\ shared' = [ shared EXCEPT ![x] = v ]
      /\ spos' = [ spos EXCEPT ![s] = spos[s] + 1 ]
      /\ elow' = [ elow EXCEPT ![s] = lo ]
      /\ erange' = [ erange EXCEPT ![s] = rg ]
      /\ UNCHANGED <<cum, is_rle, sig3, n, data, i, k, blk, turn, phase, max_len>>
      /\ UNCHANGED decVars
  BY <1>20, Zenon DEF EncodeShift
<1>2. EncControl /\ DecControl /\ ~ is_rle /\ EncLoops /\ n \in Nat /\ n \in LENGTHS
  BY <1>0
<1>3. s \in Streams /\ spos \in [Streams -> Nat] /\ spos[s] \in Nat
  BY <1>2 DEF EncLoops, EncControl
<1>4. /\ spos' \in [Streams -> Nat] /\ spos'[s] = spos[s] + 1
      /\ \A t \in Streams : t # s => spos'[t] = spos[t]
  <2> HIDE DEF x, v, lo, rg
  <2> QED
    BY <1>1, <1>3
<1>5. cap' = cap /\ Cells' = Cells /\ spos[s] + 1 <= cap + 8
  <2>1. cap' = cap /\ Cells' = Cells
    BY <1>1, Zenon DEF cap, Cells
  <2>2. spos'[s] <= cap' + 8
    BY <1>3, Zenon DEF StreamsFit
  <2> QED
    BY <1>4, <2>1, <2>2
<1>6. /\ IsFun(shared', Cells)
      /\ BytesOf(shared', spos[s] + 1, s) = Append(StreamOut(s), v)
      /\ \A t \in Streams : t # s => BytesOf(shared', spos[t], t) = StreamOut(t)
      /\ \A c \in Cells : c # x => shared'[c] = shared[c]
  <2>1. IsFun(shared, Cells)
    BY <1>2 DEF EncControl
  <2> DEFINE b == shared'
  <2>2. x \in Cells
    <3>1. spos[s] < cap + 8 /\ spos[s] \in Nat
      BY <1>2, <1>3, <1>5, RoomForStream
    <3> QED
      BY <1>2, <3>1, CellsOfStreams
  <2>3. Stored(b, x, v)
    <3> HIDE DEF x, v
    <3> QED
      BY <1>1, <2>1, <2>2, Zenon DEF Stored, IsFun
  <2> HIDE DEF v, b
  <2>4. /\ BytesOf(b, spos[s] + 1, s) = Append(StreamOut(s), v)
        /\ \A t \in Streams : t # s => BytesOf(b, spos[t], t) = StreamOut(t)
    BY <1>2, <1>3, <1>5, <2>1, <2>3, ByteStored
  <2> QED
    BY <2>3, <2>4, Zenon DEF b, Stored
<1> HIDE DEF x, v, lo, rg
<1>7. /\ IsFun(elow', Streams) /\ elow'[s] = lo
      /\ \A t \in Streams : t # s => elow'[t] = elow[t]
  BY <1>1, <1>2, <1>3, Zenon DEF EncControl, IsFun
<1>8. /\ IsFun(erange', Streams) /\ erange'[s] = rg
      /\ \A t \in Streams : t # s => erange'[t] = erange[t]
  BY <1>1, <1>2, <1>3, Zenon DEF EncControl, IsFun
<1>9. Blank'
  <2>1. ASSUME NEW c \in Cells, c \div 2 >= spos'[c % 2] PROVE shared'[c] = 0
    <3>1. c \in Nat /\ c % 2 \in Streams /\ c \div 2 \in Nat
      <4>1. c \in Nat
        BY DEF Cells
      <4> QED
        BY <4>1 DEF Streams
    <3>2. c \div 2 >= spos[c % 2]
      BY <1>3, <1>4, <2>1, <3>1
    <3>3. c # x
      <4>1. ASSUME c = x PROVE FALSE
        <5>1. c % 2 = s /\ c \div 2 = spos[s]
          BY <1>3, <4>1, CellsOfStreams DEF x
        <5> QED
          BY <1>3, <1>4, <2>1, <5>1
      <4> QED
        BY <4>1
    <3>4. shared[c] = 0
      BY <1>2, <3>2, Zenon DEF EncControl, Blank
    <3> QED
      BY <1>6, <3>3, <3>4, Zenon
  <2> QED
    BY <1>5, <2>1, Zenon DEF Blank
<1>10. EncControl'
  <2>1. FlagIsRead'
    BY <1>1, <1>2, FlagRests DEF EncControl
  <2>2. EncLoops'
    BY <1>1, <1>2, Zenon DEF EncLoops
  <2>3. phase' # "written" /\ ~ is_rle'
    BY <1>1, <1>2
  <2>4. n' \in LENGTHS /\ n' \in Nat /\ is_rle' \in BOOLEAN /\ IsFun(shared', Cells')
    BY <1>1, <1>2, <1>5, <1>6, Zenon DEF EncControl
  <2> QED
    BY <1>4, <1>7, <1>8, <1>9, <2>1, <2>2, <2>3, <2>4, Zenon DEF EncControl
<1>11. DecControl'
  <2>1. phase # "written" /\ is_rle' = is_rle /\ n' = n
    BY <1>1
  <2> QED
    BY <1>1, <1>2, <2>1, DecRests
<1>12. \A t \in Streams : StreamDec(t)' = StreamDec(t) /\ Half(data, t)' = Half(data, t)
  BY <1>1, DecFrame, Zenon DEF Half
<1>13. /\ StreamPhase(s) = "renorm" /\ \A t : StreamPhase(t)' = StreamPhase(t)
  BY <1>1, <1>20 DEF StreamPhase
<1>14. /\ StreamOut(s)' = Append(StreamOut(s), v)
       /\ \A t \in Streams : t # s => StreamOut(t)' = StreamOut(t)
  <2>1. StreamOut(s)' = BytesOf(shared', spos'[s], s)
    BY <1>1, Zenon DEF StreamOut
  <2>2. \A t \in Streams : StreamOut(t)' = BytesOf(shared', spos'[t], t)
    BY Zenon DEF StreamOut
  <2> QED
    BY <1>4, <1>6, <2>1, <2>2, Zenon
<1>15. StreamCut(Append(StreamOut(s), v)) = Append(StreamOut(s), v)
  <2>1. IsSeq(StreamOut(s)) /\ Len(StreamOut(s)) = spos[s]
    BY <1>3, OutFacts, Zenon
  <2>2. IsSeq(Append(StreamOut(s), v)) /\ Len(Append(StreamOut(s), v)) = spos[s] + 1
    BY <2>1, Appended
  <2> QED
    BY <1>2, <1>5, <2>2, NothingCut
<1>17. StreamShift(s)
  BY <1>1, <1>4, <1>7, <1>8, <1>12, <1>13, <1>14, <1>15, Zenon
     DEF StreamShift, v, lo, rg
<1>18. ASSUME NEW t \in Streams, t # s PROVE StreamVars(t)' = StreamVars(t)
  BY <1>1, <1>4, <1>7, <1>8, <1>12, <1>13, <1>14, <1>18, Zenon DEF StreamVars, StreamEnc
<1>19. ASSUME NEW t \in Streams PROVE StreamSteps(t)
  <2>1. CASE t = s
    BY <1>17, <2>1, Zenon DEF StreamSteps, StreamNext
  <2>2. CASE t # s
    BY <1>18, <2>2, Zenon DEF StreamSteps
  <2> QED
    BY <2>1, <2>2
<1> QED
  BY <1>10, <1>11, <1>19, Zenon DEF Control

(* So is leaving its loop.                                                  *)
LEMMA ReadySteps ==
  ASSUME Control, EncodeReady
  PROVE  Control' /\ \A s \in Streams : StreamSteps(s)
<1>1. EncControl /\ DecControl /\ ~ is_rle /\ EncLoops /\ n \in Nat
  BY DEF EncodeReady, Control, EncControl, EncRle
<1>2. PICK s \in Streams : s = turn
  BY <1>1 DEF EncLoops
<1>3. /\ phase = "renorm" /\ ~ MustShift(elow[s], erange[s])
      /\ IF s = 0 THEN phase' = "second" /\ k' = k ELSE phase' = "pair" /\ k' = k + 2
      /\ UNCHANGED <<cum, is_rle, sig3, n, data, i, blk, turn, elow, erange, spos,
                     shared, max_len>>
      /\ UNCHANGED decVars
  BY <1>2, Zenon DEF EncodeReady
<1>4. EncLoops'
  <2>1. /\ k < blk /\ i + blk <= n /\ Len(data) = i + k + 1 + s /\ s \in {0, 1}
        /\ i \in Nat /\ k \in Nat /\ blk \in Nat /\ k % 2 = 0 /\ blk % 2 = 0
    BY <1>1, <1>2, <1>3 DEF EncLoops, Streams
  <2>2. CASE s = 0
    BY <1>1, <1>3, <2>1, <2>2 DEF EncLoops
  <2>3. CASE s = 1
    <3>1. /\ k' = k + 2 /\ k + 2 <= blk /\ (k + 2) % 2 = 0 /\ phase' = "pair"
          /\ Len(data) = i + (k + 2)
      BY <1>3, <2>1, <2>3
    <3> QED
      BY <1>1, <1>3, <2>1, <3>1 DEF EncLoops
  <2> QED
    BY <2>1, <2>2, <2>3
<1>5. EncControl'
  <2>1. IsFun(elow', Streams) /\ IsFun(erange', Streams)
    BY <1>1, <1>3, Zenon DEF EncControl
  <2>2. phase' # "written"
    BY <1>3
  <2> QED
    BY <1>1, <1>3, <1>4, <2>1, <2>2, NothingStored
<1>6. DecControl'
  <2>1. phase # "written" /\ is_rle' = is_rle /\ n' = n
    BY <1>3
  <2> QED
    BY <1>1, <1>3, <2>1, DecRests
<1>7. /\ StreamPhase(s) = "renorm" /\ StreamPhase(s)' = "step"
      /\ \A t \in Streams : t # s => StreamPhase(t)' = StreamPhase(t)
  BY <1>2, <1>3 DEF StreamPhase
<1>8. \A t \in Streams : /\ StreamDec(t)' = StreamDec(t)
                         /\ Half(data, t)' = Half(data, t)
                         /\ StreamOut(t)' = StreamOut(t)
  BY <1>3, DecFrame, Zenon DEF Half, StreamOut
<1>9. StreamReady(s)
  BY <1>3, <1>7, <1>8, Zenon DEF StreamReady
<1>10. ASSUME NEW t \in Streams PROVE StreamSteps(t)
  <2>1. CASE t = s
    BY <1>9, <2>1, Zenon DEF StreamSteps, StreamNext
  <2>2. CASE t # s
    <3>1. StreamVars(t)' = StreamVars(t)
      BY <1>3, <1>7, <1>8, <2>2, Zenon DEF StreamVars, StreamEnc
    <3> QED
      BY <3>1, Zenon DEF StreamSteps
  <2> QED
    BY <2>1, <2>2
<1> QED
  BY <1>5, <1>6, <1>10, Zenon DEF Control

-----------------------------------------------------------------------------
(* The bytes that end the streams.                                          *)
Flushed(b) ==
  b = [ c \in Cells |->
          LET s == c % 2
              j == c \div 2 - spos[s]
          IN IF j \in 0 .. DIGITS - 1 THEN LowDigit(s, j) ELSE shared[c] ]

LEMMA FlushedBytes ==
  ASSUME n \in Nat, spos \in [Streams -> Nat], NEW s \in Streams,
         spos[s] + DIGITS <= cap + 8, NEW b, Flushed(b)
  PROVE  BytesOf(b, spos[s] + DIGITS, s) = StreamOut(s) \o StreamLowDigits(s)
<1> DEFINE len == spos[s]
           q == BytesOf(b, len + DIGITS, s)
           o == StreamOut(s)
           l == StreamLowDigits(s)
<1>1. len \in Nat /\ DIGITS \in Nat /\ len + DIGITS \in Nat /\ cap \in Nat
  BY DigitsAssumption, InputAssumption DEF cap
<1>2. /\ IsSeq(q) /\ Len(q) = len + DIGITS
      /\ \A p \in 1 .. len + DIGITS : q[p] = b[Cell(p - 1, s)]
  BY <1>1, BytesFacts
<1>3. /\ IsSeq(o) /\ Len(o) = len
      /\ \A p \in 1 .. len : o[p] = shared[Cell(p - 1, s)]
  BY <1>1, BytesFacts DEF StreamOut
<1>4. /\ IsSeq(l) /\ Len(l) = DIGITS
      /\ \A j \in 1 .. DIGITS : l[j] = LowDigit(s, j - 1)
  <2>1. l = [ j \in 1 .. DIGITS |-> LowDigit(s, j - 1) ]
    BY Zenon DEF StreamLowDigits
  <2> HIDE DEF l
  <2>2. l = [ j \in 1 .. DIGITS |-> l[j] ]
        /\ \A j \in 1 .. DIGITS : l[j] = LowDigit(s, j - 1)
    BY <2>1, Zenon
  <2> QED
    BY <1>1, <2>2, MakeSeq
<1>5. ASSUME NEW p \in 0 .. len + DIGITS - 1
      PROVE  b[Cell(p, s)] = IF p < len THEN shared[Cell(p, s)]
                                        ELSE LowDigit(s, p - len)
  <2> DEFINE c == Cell(p, s)
  <2>1. p \in Nat /\ c \in Cells /\ c % 2 = s /\ c \div 2 = p
    <3>1. p \in Nat /\ p < cap + 8
      BY <1>1
    <3> QED
      BY <3>1, CellsOfStreams
  <2> HIDE DEF c
  <2>2. b[c] = IF (c \div 2 - spos[c % 2]) \in 0 .. DIGITS - 1
                 THEN LowDigit(c % 2, c \div 2 - spos[c % 2]) ELSE shared[c]
    BY <2>1, Zenon DEF Flushed
  <2>3. b[c] = IF p - len \in 0 .. DIGITS - 1 THEN LowDigit(s, p - len) ELSE shared[c]
    BY <2>1, <2>2, Zenon
  <2>4. (p - len \in 0 .. DIGITS - 1) <=> ~ (p < len)
    BY <1>1
  <2> QED
    BY <2>3, <2>4, Zenon DEF c
<1> HIDE DEF len, q, o, l
<1>6. /\ IsSeq(o \o l) /\ Len(o \o l) = len + DIGITS
      /\ \A j \in 1 .. len : (o \o l)[j] = o[j]
      /\ \A j \in 1 .. DIGITS : (o \o l)[len + j] = l[j]
  <2>1. /\ IsSeq(o \o l) /\ Len(o \o l) = Len(o) + Len(l)
        /\ \A j \in 1 .. Len(o) : (o \o l)[j] = o[j]
        /\ \A j \in 1 .. Len(l) : (o \o l)[Len(o) + j] = l[j]
    <3>1. IsSeq(o \o l)
      BY <1>3, <1>4, Joined
    <3>2. Len(o \o l) = Len(o) + Len(l)
      BY <1>3, <1>4, Joined
    <3>3. \A j \in 1 .. Len(o) : (o \o l)[j] = o[j]
      BY <1>3, <1>4, Joined
    <3>4. \A j \in 1 .. Len(l) : (o \o l)[Len(o) + j] = l[j]
      BY <1>3, <1>4, Joined
    <3> QED
      BY <3>1, <3>2, <3>3, <3>4
  <2> QED
    BY <1>3, <1>4, <2>1, Zenon
<1>7. ASSUME NEW p \in 1 .. len + DIGITS PROVE q[p] = (o \o l)[p]
  <2>1. p - 1 \in 0 .. len + DIGITS - 1
    BY <1>1
  <2>2. q[p] = IF p - 1 < len THEN shared[Cell(p - 1, s)] ELSE LowDigit(s, p - 1 - len)
    BY <1>2, <1>5, <2>1, Zenon
  <2>3. CASE p - 1 < len
    <3>1. p \in 1 .. len
      BY <1>1, <2>3
    <3> QED
      BY <1>3, <1>6, <2>2, <2>3, <3>1, Zenon
  <2>4. CASE ~ (p - 1 < len)
    <3> DEFINE j == p - len
    <3>1. j \in 1 .. DIGITS /\ p = len + j /\ p - 1 - len = j - 1
      BY <1>1, <2>4
    <3> HIDE DEF j
    <3>2. q[p] = LowDigit(s, j - 1)
      BY <2>2, <2>4, <3>1, Zenon
    <3>3. (o \o l)[len + j] = LowDigit(s, j - 1)
      BY <1>4, <1>6, <3>1, Zenon
    <3> QED
      BY <3>1, <3>2, <3>3, Zenon
  <2> QED
    BY <2>3, <2>4
<1>8. q = o \o l
  <2>1. Len(q) = Len(o \o l) /\ \A p \in 1 .. Len(q) : q[p] = (o \o l)[p]
    BY <1>2, <1>6, <1>7, Zenon
  <2> QED
    BY <1>2, <1>6, <2>1, SameSeq
<1> QED
  BY <1>8 DEF q, o, l, len

(* max_len is the longer of the two.                                        *)
LEMMA LongestStream ==
  ASSUME NEW len \in [Streams -> Nat]
  PROVE  /\ Longest(len) \in Nat /\ \A s \in Streams : len[s] <= Longest(len)
         /\ \E s \in Streams : Longest(len) = len[s]
<1> DEFINE L == { len[s] : s \in Streams }
<1>1. \E x \in L : \A y \in L : x >= y
  <2>1. len[0] \in Nat /\ len[1] \in Nat /\ L = {len[0], len[1]}
    BY DEF Streams
  <2>2. CASE len[0] >= len[1]
    BY <2>1, <2>2
  <2>3. CASE ~ (len[0] >= len[1])
    BY <2>1, <2>3
  <2> QED
    BY <2>2, <2>3
<1>2. Longest(len) = CHOOSE x \in L : \A y \in L : x >= y
  BY Zenon DEF Longest, Max
<1>3. Longest(len) \in L /\ \A y \in L : Longest(len) >= y
  BY <1>1, <1>2, Zenon
<1>4. ASSUME NEW s \in Streams PROVE len[s] \in Nat /\ Longest(len) >= len[s]
  BY <1>3
<1>5. PICK s \in Streams : Longest(len) = len[s]
  BY <1>3
<1> QED
  BY <1>4, <1>5

(* Writing the last bytes is a step of both streams.                        *)
LEMMA FlushSteps ==
  ASSUME Control, StreamsFit', Flush
  PROVE  Control' /\ \A s \in Streams : StreamSteps(s)
<1>1. EncControl /\ DecControl /\ ~ is_rle /\ EncLoops /\ n \in Nat /\ n \in LENGTHS
  BY DEF Flush, Control, EncControl
<1>2. /\ phase = "block" /\ i >= n /\ Flushed(shared')
      /\ spos' = [ s \in Streams |-> spos[s] + DIGITS ]
      /\ elow' = [ s \in Streams |-> FlushLow(s)[DIGITS] ]
      /\ max_len' = Longest(spos') /\ phase' = "written"
      /\ UNCHANGED <<cum, is_rle, sig3, n, data, i, k, blk, turn, erange>>
      /\ UNCHANGED decVars
  BY Zenon DEF Flush, Flushed
<1>3. DIGITS \in Nat /\ spos \in [Streams -> Nat] /\ cap' = cap /\ Cells' = Cells
  <2>1. cap' = cap /\ Cells' = Cells
    BY <1>2, Zenon DEF cap, Cells
  <2> QED
    BY <1>1, <2>1, DigitsAssumption DEF EncControl
<1>4. /\ spos' \in [Streams -> Nat] /\ \A s \in Streams : spos'[s] = spos[s] + DIGITS
      /\ \A s \in Streams : spos[s] + DIGITS <= cap + 8
  <2>1. /\ spos' \in [Streams -> Nat]
        /\ \A s \in Streams : spos'[s] = spos[s] + DIGITS
    BY <1>2, <1>3
  <2>2. \A s \in Streams : spos'[s] <= cap' + 8
    BY Zenon DEF StreamsFit
  <2> QED
    BY <1>3, <2>1, <2>2
<1>5. IsFun(elow', Streams) /\ \A s \in Streams : elow'[s] = FlushLow(s)[DIGITS]
  BY <1>2, Zenon DEF IsFun
<1>6. Len(data) = n /\ n % 2 = 0 /\ IsSeq(data)
  BY <1>1, <1>2 DEF EncLoops
<1>7. Finished'
  <2>1. /\ max_len' \in Nat /\ \A s \in Streams : spos'[s] <= max_len'
        /\ \E s \in Streams : max_len' = spos'[s]
    <3> DEFINE len == spos'
    <3>1. len \in [Streams -> Nat] /\ max_len' = Longest(len)
      BY <1>2, <1>4
    <3> HIDE DEF len
    <3>2. /\ Longest(len) \in Nat /\ \A s \in Streams : len[s] <= Longest(len)
          /\ \E s \in Streams : Longest(len) = len[s]
      BY <3>1, LongestStream
    <3> QED
      BY <3>1, <3>2, Zenon DEF len
  <2>2. max_len' <= cap' + 8
    BY <2>1, Zenon DEF StreamsFit
  <2>3. ASSUME NEW s \in Streams PROVE DIGITS <= spos'[s]
    <3>1. spos[s] \in Nat
      BY <1>3
    <3> QED
      BY <1>3, <1>4, <3>1
  <2> QED
    BY <2>1, <2>2, <2>3, Zenon DEF Finished
<1>8. IsFun(shared', Cells') /\ Blank'
  <2>1. IsFun(shared', Cells')
    <3>1. IsFun(shared', Cells)
      BY <1>2, Zenon DEF Flushed, IsFun
    <3> QED
      BY <1>3, <3>1, Zenon
  <2>2. ASSUME NEW c \in Cells, c \div 2 >= spos'[c % 2] PROVE shared'[c] = 0
    <3>1. c % 2 \in Streams /\ c \div 2 \in Nat
      <4>1. c \in Nat
        BY DEF Cells
      <4> QED
        BY <4>1 DEF Streams
    <3>2. spos[c % 2] \in Nat /\ c \div 2 >= spos[c % 2] + DIGITS
      BY <1>3, <1>4, <2>2, <3>1
    <3>3. c \div 2 >= spos[c % 2] /\ c \div 2 - spos[c % 2] \notin 0 .. DIGITS - 1
      BY <1>3, <3>1, <3>2
    <3>4. shared[c] = 0
      BY <1>1, <3>3, Zenon DEF EncControl, Blank
    <3> QED
      BY <1>2, <3>3, <3>4, Zenon DEF Flushed
  <2> QED
    BY <1>3, <2>1, <2>2, Zenon DEF Blank
<1>9. EncControl'
  <2>1. FlagIsRead'
    BY <1>1, <1>2, FlagRests DEF EncControl
  <2>2. EncLoops'
    BY <1>1, <1>2, <1>6 DEF EncLoops
  <2>3. n' \in LENGTHS /\ n' \in Nat /\ is_rle' \in BOOLEAN /\ ~ is_rle'
        /\ IsFun(erange', Streams)
    BY <1>1, <1>2, Zenon DEF EncControl
  <2> QED
    BY <1>4, <1>5, <1>7, <1>8, <2>1, <2>2, <2>3, Zenon DEF EncControl
<1>10. DecControl'
  <2>1. phase # "written" /\ is_rle' = is_rle /\ n' = n
    BY <1>2
  <2> QED
    BY <1>1, <1>2, <2>1, DecRests
<1>11. ASSUME NEW s \in Streams PROVE StreamFlush(s)
  <2>1. StreamPhase(s) = "step" /\ StreamPhase(s)' = "written"
    BY <1>1, <1>2 DEF StreamPhase
  <2>2. Len(Half(data, s)) = n \div 2
    <3>1. Half(data, s) = EverySecond(data, s)
      BY <1>1, Zenon DEF Half
    <3>2. Len(Half(data, s)) = (n + 1 - s) \div 2
      BY <1>6, <3>1, HalfOf
    <3> QED
      BY <1>1, <1>6, <3>2 DEF Streams
  <2>3. StreamOut(s)' = StreamOut(s) \o StreamLowDigits(s)
    <3> DEFINE b == shared'
    <3>1. Flushed(b)
      BY <1>2
    <3>2. StreamOut(s)' = BytesOf(b, spos[s] + DIGITS, s)
      BY <1>4, Zenon DEF StreamOut
    <3> HIDE DEF b
    <3>3. BytesOf(b, spos[s] + DIGITS, s) = StreamOut(s) \o StreamLowDigits(s)
      BY <1>1, <1>3, <1>4, <3>1, FlushedBytes
    <3> QED
      BY <3>2, <3>3, Zenon
  <2>4. StreamCut(StreamOut(s)') = StreamOut(s)'
    <3> DEFINE q == StreamOut(s)'
    <3>1. q = BytesOf(shared', spos'[s], s)
      BY Zenon DEF StreamOut
    <3>2. spos'[s] \in Nat /\ spos'[s] <= cap + 8
      BY <1>3, <1>4
    <3>3. IsSeq(q) /\ Len(q) <= cap + 8
      <4> DEFINE b == shared'
                 len == spos'[s]
      <4> HIDE DEF b, len, q
      <4>1. q = BytesOf(b, len, s) /\ len \in Nat /\ len <= cap + 8
        BY <3>1, <3>2 DEF b, len
      <4>2. IsSeq(BytesOf(b, len, s)) /\ Len(BytesOf(b, len, s)) = len
        BY <4>1, BytesFacts
      <4> QED
        BY <4>1, <4>2
    <3> HIDE DEF q
    <3>4. StreamCut(q) = q
      BY <1>1, <3>3, NothingCut
    <3> QED
      BY <3>4 DEF q
  <2>5. ~ (spos[s] + DIGITS > StreamCap)
    <3>1. spos[s] \in Nat
      BY <1>3
    <3> QED
      BY <1>1, <1>3, <1>4, <3>1, RoomForStream
  <2>6. StreamDec(s)' = StreamDec(s) /\ Half(data, s)' = Half(data, s)
    BY <1>2, DecFrame, Zenon DEF Half
  <2> QED
    BY <1>2, <1>4, <1>5, <2>1, <2>2, <2>3, <2>4, <2>5, <2>6, Zenon DEF StreamFlush
<1> QED
  BY <1>9, <1>10, <1>11, Zenon DEF Control, StreamSteps, StreamNext

(* ... so every step of the encoder.                                        *)
LEMMA EncoderMoves ==
  ASSUME Control, StreamsFit, StreamsFit', EncodeNext
  PROVE  Control' /\ \A s \in Streams : StreamSteps(s)
  BY EncodeRleSteps, BlockSteps, EncodeSteps, ShiftSteps, ReadySteps, FlushSteps
     DEF EncodeNext

-----------------------------------------------------------------------------
(* The decoder's steps.                                                     *)
LEMMA DecoderLeavesEncoder ==
  ASSUME Control, UNCHANGED encVars
  PROVE  /\ EncControl' /\ \A s : StreamEnc(s)' = StreamEnc(s)
         /\ is_rle' = is_rle /\ n' = n /\ phase' = phase /\ data' = data
  BY EncRests, EncFrame, Zenon DEF Control, encVars

(* An RLE file has no streams to decode.                                    *)
LEMMA DecodeRleSteps ==
  ASSUME Control, DecodeRle \/ DecodeNoTable
  PROVE  Control' /\ \A s \in Streams : StreamSteps(s)
<1>1. /\ UNCHANGED encVars /\ UNCHANGED <<dlow, drange, dcode, dpos>>
      /\ phase = "written" /\ dec_phase = "start"
  BY Zenon DEF DecodeRle, DecodeNoTable
<1>2. is_rle /\ is_rle'
  BY <1>1 DEF DecodeRle, DecodeNoTable, Control, EncControl, FlagIsRead, encVars
<1>3. EncControl /\ DecControl /\ EncRle /\ DecRle
  BY <1>2 DEF Control, EncControl, DecControl
<1>4. DecRle'
  <2>1. CASE DecodeRle
    <3>1. dec_phase' = "done" /\ out_buf' = [ p \in 1 .. n |-> sig3 ]
      BY <2>1 DEF DecodeRle
    <3>2. out_buf' = data'
      BY <1>1, <1>3, <3>1, DecoderLeavesEncoder DEF EncRle
    <3> QED
      BY <1>1, <1>3, <3>1, <3>2, Zenon DEF DecRle
  <2>2. CASE DecodeNoTable
    <3>1. dec_phase' = "failed"
      BY <2>2 DEF DecodeNoTable
    <3> QED
      BY <1>1, <1>3, <3>1 DEF DecRle
  <2> QED
    BY <2>1, <2>2
<1>5. DecControl'
  <2>1. phase' = "written"
    BY <1>1, DecoderLeavesEncoder
  <2> QED
    BY <1>1, <1>2, <1>3, <1>4, <2>1, Zenon DEF DecControl
<1>6. ASSUME NEW s \in Streams PROVE StreamDec(s)' = StreamDec(s)
  <2>1. /\ StreamDecPhase(s) = StreamDecPhase(s)'
        /\ Half(out_buf, s) = Half(out_buf, s)'
    BY <1>2, Zenon DEF StreamDecPhase, Half
  <2> QED
    BY <1>1, <2>1, Zenon DEF StreamDec
<1> QED
  BY <1>1, <1>5, <1>6, DecoderLeavesEncoder, Zenon DEF Control, StreamSteps, StreamVars

(* Opening and closing a block does nothing to the streams.                 *)
LEMMA DecBlockSteps ==
  ASSUME Control, DecNextBlock \/ DecEndBlock \/ DecDone
  PROVE  Control' /\ \A s \in Streams : StreamSteps(s)
<1>1. /\ UNCHANGED encVars
      /\ UNCHANGED <<dec_turn, dlow, drange, dcode, dpos, out_buf>>
      /\ dec_phase \in {"block", "pair"} /\ dec_phase' \in {"block", "pair", "done"}
  BY DEF DecNextBlock, DecEndBlock, DecDone
<1>2. /\ EncControl /\ DecControl /\ ~ is_rle /\ DecLoops /\ n \in Nat
      /\ phase = "written"
  BY <1>1 DEF Control, DecControl, DecRle, EncControl
<1>3. is_rle' = is_rle /\ n' = n /\ phase' = phase
  BY <1>1, DecoderLeavesEncoder
<1>4. DecLoops'
  <2>1. CASE DecNextBlock
    <3>1. /\ EvenBlock(dec_i) \in Nat /\ EvenBlock(dec_i) % 2 = 0
          /\ dec_i + EvenBlock(dec_i) <= n
      BY <1>2, EvenBlocks DEF DecLoops
    <3>2. /\ dec_blk' = EvenBlock(dec_i) /\ dec_k' = 0 /\ dec_phase' = "pair"
          /\ dec_phase = "block" /\ dec_i' = dec_i
      BY <2>1 DEF DecNextBlock
    <3> QED
      BY <1>1, <1>2, <1>3, <3>1, <3>2 DEF DecLoops, IsSeq
  <2>2. CASE DecEndBlock
    <3>1. /\ dec_k >= dec_blk /\ dec_i' = dec_i + dec_blk /\ dec_phase' = "block"
          /\ dec_phase = "pair" /\ dec_k' = dec_k /\ dec_blk' = dec_blk
      BY <2>2 DEF DecEndBlock
    <3> QED
      BY <1>1, <1>2, <1>3, <3>1, SMTT(60) DEF DecLoops, IsSeq
  <2>3. CASE DecDone
    <3>1. /\ dec_i = n /\ dec_phase' = "done" /\ dec_phase = "block"
          /\ dec_i' = dec_i /\ dec_k' = dec_k /\ dec_blk' = dec_blk
      BY <2>3 DEF DecDone
    <3> QED
      BY <1>1, <1>2, <1>3, <3>1 DEF DecLoops, IsSeq
  <2> QED
    BY <2>1, <2>2, <2>3
<1>5. DecControl'
  BY <1>1, <1>2, <1>3, <1>4, Zenon DEF DecControl
<1>6. ASSUME NEW s \in Streams PROVE StreamDec(s)' = StreamDec(s)
  <2>1. StreamDecPhase(s) = StreamDecPhase(s)'
    BY <1>1, <1>2, <1>3 DEF StreamDecPhase
  <2> QED
    BY <1>1, <1>3, <2>1, Zenon DEF StreamDec, Half
<1> QED
  BY <1>1, <1>5, <1>6, DecoderLeavesEncoder, Zenon DEF Control, StreamSteps, StreamVars

(* Reading the first bytes is a step of both streams.                       *)
LEMMA DecInitSteps ==
  ASSUME Control, DecInit
  PROVE  Control' /\ \A s \in Streams : StreamSteps(s)
<1>1. /\ phase = "written" /\ dec_phase = "start" /\ ~ is_rle
      /\ drange' = PerStream(WORD - 1)
      /\ dcode' = [ s \in Streams |-> FirstDigits(s)[DIGITS] ]
      /\ dpos' = PerStream(DIGITS) /\ dec_phase' = "block"
      /\ UNCHANGED encVars
      /\ UNCHANGED <<dec_i, dec_k, dec_blk, dec_turn, dlow, out_buf>>
  BY Zenon DEF DecInit
<1>2. EncControl /\ DecControl /\ DecLoops /\ Finished /\ spos \in [Streams -> Nat]
  BY <1>1 DEF Control, EncControl, DecControl
<1>3. /\ is_rle' = is_rle /\ n' = n /\ phase' = phase
      /\ EncControl' /\ \A s : StreamEnc(s)' = StreamEnc(s)
  BY <1>1, DecoderLeavesEncoder
<1>4. DecLoops'
  BY <1>1, <1>2, <1>3 DEF DecLoops
<1>5. /\ IsFun(drange', Streams) /\ \A s \in Streams : drange'[s] = WORD - 1
      /\ IsFun(dcode', Streams) /\ \A s \in Streams : dcode'[s] = FirstDigits(s)[DIGITS]
      /\ \A s \in Streams : dpos'[s] = DIGITS
  BY <1>1, Zenon DEF PerStream, IsFun
<1>6. dpos' \in [Streams -> Nat]
  BY <1>1, DigitsAssumption DEF PerStream
<1>7. DecControl'
  BY <1>1, <1>2, <1>3, <1>4, <1>5, <1>6, Zenon DEF DecControl
<1>8. ASSUME NEW s \in Streams PROVE StreamDecInit(s)
  <2>1. /\ StreamPhase(s) = "written" /\ StreamDecPhase(s) = "start"
        /\ StreamDecPhase(s)' = "step"
    BY <1>1, <1>3 DEF StreamPhase, StreamDecPhase
  <2>2. FirstDigits(s) = StreamFirstDigits(s)
    BY <1>2, SameFirstDigits DEF Finished
  <2>3. Half(out_buf, s)' = Half(out_buf, s)
    BY <1>1, <1>3, Zenon DEF Half
  <2> QED
    BY <1>1, <1>3, <1>5, <2>1, <2>2, <2>3, Zenon DEF StreamDecInit
<1> QED
  BY <1>3, <1>7, <1>8, Zenon DEF Control, StreamSteps, StreamNext

(* A pair of symbols is a symbol of each stream.                            *)
LEMMA PairSteps ==
  ASSUME Control, DecodePair
  PROVE  Control' /\ \A s \in Streams : StreamSteps(s)
<1> DEFINE sym(s) == Find(cum, Quotient(s))
           lo(s) == (dlow[s] + (drange[s] \div TOTAL) * cum[sym(s)]) % REGISTER
           rg(s) == (drange[s] \div TOTAL) * Freq(cum, sym(s))
<1>1. /\ dec_phase = "pair" /\ dec_k < dec_blk
      /\ dec_turn' = 0 /\ dec_phase' = "renorm"
      /\ UNCHANGED encVars /\ UNCHANGED <<dec_i, dec_k, dec_blk, dcode, dpos>>
  BY DEF DecodePair
<1>2. /\ IsFun(dlow', Streams) /\ \A s \in Streams : dlow'[s] = lo(s)
      /\ IsFun(drange', Streams) /\ \A s \in Streams : drange'[s] = rg(s)
      /\ out_buf' = Append(Append(out_buf, sym(0)), sym(1))
  <2>1. 0 \in Streams /\ 1 \in Streams
    BY DEF Streams
  <2>2. LET r == [ s \in Streams |-> drange[s] \div TOTAL ]
            y == [ s \in Streams |-> sym(s) ]
        IN  /\ dlow' = [ s \in Streams |-> (dlow[s] + r[s] * cum[y[s]]) % REGISTER ]
            /\ drange' = [ s \in Streams |-> r[s] * Freq(cum, y[s]) ]
            /\ out_buf' = Append(Append(out_buf, y[0]), y[1])
    BY Zenon DEF DecodePair
  <2> HIDE DEF sym
  <2> QED
    BY <2>1, <2>2, Zenon DEF IsFun
<1> HIDE DEF sym, lo, rg
<1>3. EncControl /\ DecControl /\ ~ is_rle /\ DecLoops /\ n \in Nat /\ phase = "written"
  BY <1>1 DEF Control, DecControl, DecRle, EncControl
<1>4. /\ is_rle' = is_rle /\ n' = n /\ phase' = phase
      /\ EncControl' /\ \A s : StreamEnc(s)' = StreamEnc(s)
  BY <1>1, DecoderLeavesEncoder
<1> DEFINE q == Append(out_buf, sym(0))
<1>5. /\ IsSeq(out_buf) /\ Len(out_buf) \in Nat /\ Len(out_buf) % 2 = 0
      /\ Len(out_buf) = dec_i + dec_k /\ Len(out_buf) + 2 <= n
  BY <1>1, <1>3 DEF DecLoops, IsSeq
<1>6. IsSeq(q) /\ Len(q) = Len(out_buf) + 1
  BY <1>5, Appended
<1>7. IsSeq(out_buf') /\ Len(out_buf') = Len(out_buf) + 2
  <2> HIDE DEF q
  <2>1. out_buf' = Append(q, sym(1))
    BY <1>2 DEF q
  <2>2. IsSeq(Append(q, sym(1))) /\ Len(Append(q, sym(1))) = Len(q) + 1
    BY <1>6, Appended
  <2> QED
    BY <1>5, <1>6, <2>1, <2>2
<1>8. DecLoops'
  BY <1>1, <1>3, <1>4, <1>5, <1>7 DEF DecLoops, Streams
<1>9. DecControl'
  BY <1>1, <1>2, <1>3, <1>4, <1>8, Zenon DEF DecControl
<1>10. ASSUME NEW s \in Streams
       PROVE  /\ Half(out_buf, s)' = Append(Half(out_buf, s), sym(s))
              /\ Len(Half(out_buf, s)) < n \div 2
  <2>1. /\ EverySecond(q, 0) = Append(EverySecond(out_buf, 0), sym(0))
        /\ EverySecond(q, 1) = EverySecond(out_buf, 1)
        /\ Len(EverySecond(out_buf, 0)) = Len(out_buf) \div 2
    <3>1. 0 \in Streams /\ 1 - 0 = 1
      BY DEF Streams
    <3> QED
      BY <1>5, <3>1, HalfGrows
  <2> HIDE DEF q
  <2>2. out_buf' = Append(q, sym(1))
    BY <1>2 DEF q
  <2>3. /\ EverySecond(Append(q, sym(1)), 1) = Append(EverySecond(q, 1), sym(1))
        /\ EverySecond(Append(q, sym(1)), 0) = EverySecond(q, 0)
        /\ Len(EverySecond(q, 1)) = Len(q) \div 2
    <3>1. 1 \in Streams /\ 1 - 1 = 0 /\ Len(q) % 2 = 1
      BY <1>5, <1>6 DEF Streams
    <3> QED
      BY <1>6, <3>1, HalfGrows
  <2>4. /\ Half(out_buf, s) = EverySecond(out_buf, s)
        /\ Half(out_buf, s)' = EverySecond(out_buf', s)
    <3>1. ~ is_rle /\ ~ is_rle'
      BY <1>3, <1>4
    <3> QED
      BY <3>1, Zenon DEF Half
  <2>5. s = 0 \/ s = 1
    BY DEF Streams
  <2>6. EverySecond(out_buf', s) = Append(EverySecond(out_buf, s), sym(s))
    BY <2>1, <2>2, <2>3, <2>5, Zenon
  <2>7. Len(EverySecond(out_buf, s)) = Len(out_buf) \div 2
    <3>1. Len(q) \div 2 = Len(out_buf) \div 2
      BY <1>5, <1>6
    <3> QED
      BY <2>1, <2>3, <2>5, <3>1, Zenon
  <2>8. Len(out_buf) \div 2 < n \div 2
    BY <1>3, <1>5
  <2> QED
    BY <2>4, <2>6, <2>7, <2>8
<1>11. ASSUME NEW s \in Streams PROVE StreamDecode(s)
  <2>1. StreamDecPhase(s) = "step" /\ StreamDecPhase(s)' = "renorm"
    BY <1>1, <1>3, <1>4 DEF StreamDecPhase, Streams
  <2> QED
    BY <1>1, <1>2, <1>4, <1>10, <2>1, Zenon DEF StreamDecode, lo, rg, sym
<1> QED
  BY <1>4, <1>9, <1>11, Zenon DEF Control, StreamSteps, StreamNext

(* The digit that is read is the next of the stream, 0 behind its end.      *)
LEMMA SameNextDigit ==
  ASSUME EncControl, ~ is_rle, phase = "written",
         NEW s \in Streams, dpos \in [Streams -> Nat]
  PROVE  Read(dpos[s], s) = StreamNextDigit(s)
<1>1. /\ Finished /\ n \in Nat /\ n \in LENGTHS /\ spos \in [Streams -> Nat]
      /\ Blank
  BY DEF EncControl
<1>2. /\ spos[s] \in Nat /\ dpos[s] \in Nat /\ max_len \in Nat /\ max_len <= cap + 8
      /\ spos[s] <= max_len
  BY <1>1 DEF Finished
<1>3. cap \in Nat
  BY <1>1, RoomForStream
<1>4. /\ Len(StreamOut(s)) = spos[s]
      /\ \A p \in 1 .. spos[s] : StreamOut(s)[p] = shared[Cell(p - 1, s)]
  BY <1>2, OutFacts, Zenon
<1> DEFINE p == dpos[s]
<1>5. p \in Nat
  BY <1>2
<1> HIDE DEF p
<1>6. CASE p < spos[s]
  <2>1. p + 1 \in 1 .. spos[s] /\ (p + 1) - 1 = p /\ p < max_len
    BY <1>2, <1>5, <1>6
  <2>2. StreamOut(s)[p + 1] = shared[Cell(p, s)]
    BY <1>4, <2>1
  <2> QED
    BY <1>4, <1>6, <2>1, <2>2, Zenon DEF Read, StreamNextDigit, p
<1>7. CASE ~ (p < spos[s])
  <2>1. StreamNextDigit(s) = 0
    BY <1>4, <1>7, Zenon DEF StreamNextDigit, p
  <2>2. CASE p < max_len
    <3>1. p < cap + 8 /\ p >= spos[s]
      BY <1>2, <1>3, <1>5, <1>7, <2>2
    <3>2. Cell(p, s) \in Cells /\ Cell(p, s) % 2 = s /\ Cell(p, s) \div 2 = p
      BY <1>1, <1>5, <3>1, CellsOfStreams
    <3>3. shared[Cell(p, s)] = 0
      BY <1>1, <3>1, <3>2, Zenon DEF Blank
    <3> QED
      BY <2>1, <2>2, <3>3, Zenon DEF Read, p
  <2>3. CASE ~ (p < max_len)
    BY <2>1, <2>3, Zenon DEF Read, p
  <2> QED
    BY <2>2, <2>3
<1> QED
  BY <1>6, <1>7

(* A digit read is a step of the stream that renormalises.                  *)
LEMMA DecodeShiftSteps ==
  ASSUME Control, DecodeShift
  PROVE  Control' /\ \A s \in Streams : StreamSteps(s)
<1>1. dec_phase = "renorm" /\ dec_phase' = "renorm" /\ UNCHANGED encVars
  BY DEF DecodeShift
<1>2. EncControl /\ DecControl /\ ~ is_rle /\ DecLoops /\ n \in Nat /\ phase = "written"
  BY <1>1 DEF Control, DecControl, DecRle, EncControl
<1>3. PICK s \in Streams : s = dec_turn
  BY <1>2 DEF DecLoops
<1> DEFINE cd == (dcode[s] * D + Read(dpos[s], s)) % WORD
           lo == ShiftedLow(dlow[s])
           rg == ShiftedRange(Kept(dlow[s], drange[s]))
<1>4. /\ MustShift(dlow[s], drange[s])
      /\ dcode' = [ dcode EXCEPT ![s] = cd ]
      /\ dpos' = [ dpos EXCEPT ![s] = dpos[s] + 1 ]
      /\ dlow' = [ dlow EXCEPT ![s] = lo ]
      /\ drange' = [ drange EXCEPT ![s] = rg ]
      /\ UNCHANGED <<dec_i, dec_k, dec_blk, dec_turn, dec_phase, out_buf>>
  BY <1>3, Zenon DEF DecodeShift
<1>5. cd = (dcode[s] * D + StreamNextDigit(s)) % WORD
  BY <1>2, SameNextDigit, Zenon DEF DecControl
<1> HIDE DEF cd, lo, rg
<1>6. /\ is_rle' = is_rle /\ n' = n /\ phase' = phase
      /\ EncControl' /\ \A t : StreamEnc(t)' = StreamEnc(t)
  BY <1>1, DecoderLeavesEncoder
<1>7. /\ IsFun(dcode', Streams) /\ dcode'[s] = cd
      /\ \A t \in Streams : t # s => dcode'[t] = dcode[t]
  BY <1>2, <1>4, Zenon DEF DecControl, IsFun
<1>8. /\ IsFun(dlow', Streams) /\ dlow'[s] = lo
      /\ \A t \in Streams : t # s => dlow'[t] = dlow[t]
  BY <1>2, <1>4, Zenon DEF DecControl, IsFun
<1>9. /\ IsFun(drange', Streams) /\ drange'[s] = rg
      /\ \A t \in Streams : t # s => drange'[t] = drange[t]
  BY <1>2, <1>4, Zenon DEF DecControl, IsFun
<1>10. /\ dpos' \in [Streams -> Nat] /\ dpos'[s] = dpos[s] + 1
       /\ \A t \in Streams : t # s => dpos'[t] = dpos[t]
  <2>1. dpos \in [Streams -> Nat]
    BY <1>2 DEF DecControl
  <2> QED
    BY <1>4, <2>1
<1>11. DecControl'
  <2>1. DecLoops'
    BY <1>2, <1>4, <1>6, Zenon DEF DecLoops
  <2> QED
    BY <1>2, <1>6, <1>7, <1>8, <1>9, <1>10, <2>1, Zenon DEF DecControl
<1>12. \A t \in Streams : /\ Half(out_buf, t)' = Half(out_buf, t)
                          /\ StreamDecPhase(t)' = StreamDecPhase(t)
  BY <1>1, <1>4, <1>6, Zenon DEF Half, StreamDecPhase
<1>13. StreamDecPhase(s) = "renorm"
  BY <1>1, <1>2, <1>3 DEF StreamDecPhase, Streams
<1>14. StreamDecShift(s)
  BY <1>4, <1>5, <1>6, <1>7, <1>8, <1>9, <1>10, <1>12, <1>13, Zenon
     DEF StreamDecShift, lo, rg
<1>15. ASSUME NEW t \in Streams PROVE StreamSteps(t)
  <2>1. CASE t = s
    BY <1>14, <2>1, Zenon DEF StreamSteps, StreamNext
  <2>2. CASE t # s
    <3>1. StreamVars(t)' = StreamVars(t)
      BY <1>6, <1>7, <1>8, <1>9, <1>10, <1>12, <2>2, Zenon DEF StreamVars, StreamDec
    <3> QED
      BY <3>1, Zenon DEF StreamSteps
  <2> QED
    BY <2>1, <2>2
<1> QED
  BY <1>6, <1>11, <1>15, Zenon DEF Control

(* So is leaving its loop.                                                  *)
LEMMA DecodeReadySteps ==
  ASSUME Control, DecodeReady
  PROVE  Control' /\ \A s \in Streams : StreamSteps(s)
<1>1. dec_phase = "renorm" /\ UNCHANGED encVars
  BY DEF DecodeReady
<1>2. EncControl /\ DecControl /\ ~ is_rle /\ DecLoops /\ n \in Nat /\ phase = "written"
  BY <1>1 DEF Control, DecControl, DecRle, EncControl
<1>3. PICK s \in Streams : s = dec_turn
  BY <1>2 DEF DecLoops
<1>4. /\ ~ MustShift(dlow[s], drange[s])
      /\ \/ /\ s = 0 /\ dec_turn' = 1 /\ dec_k' = dec_k /\ dec_phase' = "renorm"
         \/ /\ s = 1 /\ dec_turn' = 1 /\ dec_k' = dec_k + 2 /\ dec_phase' = "pair"
      /\ UNCHANGED <<dec_i, dec_blk, dlow, drange, dcode, dpos, out_buf>>
  BY <1>1, <1>3 DEF DecodeReady, Streams
<1>5. /\ is_rle' = is_rle /\ n' = n /\ phase' = phase
      /\ EncControl' /\ \A t : StreamEnc(t)' = StreamEnc(t)
  BY <1>1, DecoderLeavesEncoder
<1>6. DecLoops'
  BY <1>1, <1>2, <1>4, <1>5, SMTT(60) DEF DecLoops, Streams, IsSeq
<1>7. DecControl'
  BY <1>2, <1>4, <1>5, <1>6, Zenon DEF DecControl
<1>8. /\ StreamDecPhase(s) = "renorm" /\ StreamDecPhase(s)' = "step"
      /\ \A t \in Streams : t # s => StreamDecPhase(t)' = StreamDecPhase(t)
  BY <1>1, <1>2, <1>3, <1>4, <1>5 DEF StreamDecPhase, Streams
<1>9. \A t \in Streams : Half(out_buf, t)' = Half(out_buf, t)
  BY <1>4, <1>5, Zenon DEF Half
<1>10. StreamDecReady(s)
  BY <1>4, <1>5, <1>8, <1>9, Zenon DEF StreamDecReady
<1>11. ASSUME NEW t \in Streams PROVE StreamSteps(t)
  <2>1. CASE t = s
    BY <1>10, <2>1, Zenon DEF StreamSteps, StreamNext
  <2>2. CASE t # s
    <3>1. StreamVars(t)' = StreamVars(t)
      BY <1>4, <1>5, <1>8, <1>9, <2>2, Zenon DEF StreamVars, StreamDec
    <3> QED
      BY <3>1, Zenon DEF StreamSteps
  <2> QED
    BY <2>1, <2>2
<1> QED
  BY <1>5, <1>7, <1>11, Zenon DEF Control

(* ... so every step of the decoder, and every step of the two tools.       *)
LEMMA DecoderMoves ==
  ASSUME Control, DecodeNext
  PROVE  Control' /\ \A s \in Streams : StreamSteps(s)
<1>1. CASE DecodeRle \/ DecodeNoTable
  BY <1>1, DecodeRleSteps
<1>2. CASE DecNextBlock \/ DecEndBlock \/ DecDone
  BY <1>2, DecBlockSteps
<1>3. CASE DecInit
  BY <1>3, DecInitSteps
<1>4. CASE DecodePair
  BY <1>4, PairSteps
<1>5. CASE DecodeShift
  BY <1>5, DecodeShiftSteps
<1>6. CASE DecodeReady
  BY <1>6, DecodeReadySteps
<1> QED
  BY <1>1, <1>2, <1>3, <1>4, <1>5, <1>6, Zenon DEF DecodeNext

LEMMA ToolsStep ==
  ASSUME Control, StreamsFit, StreamsFit', [Next]_vars
  PROVE  Control' /\ \A s \in Streams : StreamSteps(s)
<1>1. CASE EncodeNext
  BY <1>1, EncoderMoves
<1>2. CASE DecodeNext
  BY <1>2, DecoderMoves
<1>3. CASE UNCHANGED vars
  <2>1. UNCHANGED encVars /\ UNCHANGED decVars
    BY <1>3, Zenon DEF vars
  <2>2. EncControl'
    BY <2>1, EncRests DEF Control
  <2>3. DecControl'
    BY <2>1, Zenon DEF Control, DecControl, encVars, decVars, DecRle, DecLoops
  <2> QED
    BY <1>3, <2>2, <2>3, Stutters, Zenon DEF Control
<1> QED
  BY <1>1, <1>2, <1>3 DEF Next

-----------------------------------------------------------------------------
(* The two tools start where two scalar coders start.                       *)
LEMMA ControlStarts ==
  ASSUME Init, FlagIsRead
  PROVE  Control /\ \A s \in Streams : StreamInit(s)
<1>1. /\ n \in LENGTHS /\ cum \in Tables /\ is_rle \in BOOLEAN
      /\ data = << >> /\ out_buf = << >> /\ i = 0 /\ k = 0 /\ blk = 0 /\ turn = 0
      /\ phase = "block" /\ elow = PerStream(0) /\ erange = PerStream(WORD - 1)
      /\ spos = PerStream(0) /\ shared = [ c \in Cells |-> 0 ]
      /\ dec_i = 0 /\ dec_k = 0 /\ dec_blk = 0 /\ dec_turn = 0 /\ dec_phase = "start"
      /\ dlow = PerStream(0) /\ drange = PerStream(0) /\ dcode = PerStream(0)
      /\ dpos = PerStream(0)
  BY DEF Init
<1>2. n \in Nat /\ n >= 2 /\ n \div 2 \in 1 .. Max(LENGTHS)
  <2>1. n \in Nat /\ n # 0 /\ n # 1 /\ n <= Max(LENGTHS) /\ Max(LENGTHS) \in Nat
    BY <1>1, LongestLength, InputAssumption
  <2> DEFINE m == Max(LENGTHS)
  <2> HIDE DEF m
  <2>2. n \in Nat /\ n # 0 /\ n # 1 /\ n <= m /\ m \in Nat
    BY <2>1 DEF m
  <2>3. n >= 2 /\ n \div 2 \in 1 .. m
    BY <2>2
  <2> QED
    BY <2>1, <2>3 DEF m
<1>3. IsSeq(<< >>) /\ Len(<< >>) = 0 /\ 0 \in Streams
  BY DEF IsSeq, Streams
<1>4. EncLoops
  BY <1>1, <1>2, <1>3 DEF EncLoops
<1>5. /\ IsFun(elow, Streams) /\ IsFun(erange, Streams) /\ IsFun(shared, Cells)
      /\ IsFun(dlow, Streams) /\ IsFun(drange, Streams) /\ IsFun(dcode, Streams)
      /\ \A s \in Streams :
           /\ elow[s] = 0 /\ erange[s] = WORD - 1 /\ spos[s] = 0 /\ dpos[s] = 0
           /\ dlow[s] = 0 /\ drange[s] = 0 /\ dcode[s] = 0
  BY <1>1, Zenon DEF PerStream, IsFun
<1>6. spos \in [Streams -> Nat] /\ dpos \in [Streams -> Nat]
  BY <1>1 DEF PerStream
<1>7. Blank /\ EncRle
  BY <1>1, Zenon DEF Blank, EncRle
<1>8. EncControl
  BY <1>1, <1>2, <1>4, <1>5, <1>6, <1>7 DEF EncControl
<1>9. DecLoops /\ DecRle
  BY <1>1, <1>2, <1>3 DEF DecLoops, DecRle
<1>10. DecControl
  BY <1>1, <1>5, <1>6, <1>9, Zenon DEF DecControl
<1>11. ASSUME NEW s \in Streams PROVE StreamInit(s)
  <2>1. StreamPhase(s) = "step" /\ StreamDecPhase(s) = "start"
    BY <1>1 DEF StreamPhase, StreamDecPhase
  <2>2. ASSUME NEW q, IsSeq(q), Len(q) = 0 PROVE q = << >>
    BY <1>3, <2>2, SameSeq
  <2>3. StreamOut(s) = << >>
    <3>1. spos[s] = 0
      BY <1>5
    <3>2. StreamOut(s) = BytesOf(shared, 0, s)
      BY <3>1, Zenon DEF StreamOut
    <3>3. IsSeq(StreamOut(s)) /\ Len(StreamOut(s)) = 0
      <4>1. 0 \in Nat
        OBVIOUS
      <4> QED
        BY <3>2, <4>1, BytesFacts, ZenonT(60)
    <3> QED
      BY <2>2, <3>3
  <2>4. EverySecond(<< >>, s) = << >>
    <3>1. (0 + 1 - s) \div 2 = 0
      BY DEF Streams
    <3>2. IsSeq(EverySecond(<< >>, s)) /\ Len(EverySecond(<< >>, s)) = 0
      BY <1>3, <3>1, HalfOf
    <3> QED
      BY <2>2, <3>2
  <2>5. Half(data, s) = << >> /\ Half(out_buf, s) = << >>
    BY <1>1, <2>4, Zenon DEF Half
  <2> QED
    BY <1>1, <1>2, <1>5, <2>1, <2>3, <2>5, Zenon DEF StreamInit
<1> QED
  BY <1>8, <1>10, <1>11 DEF Control

LEMMA TwoScalarCoders ==
  /\ Init /\ FlagIsRead => Control /\ Even!Init /\ Odd!Init
  /\ Control /\ StreamsFit /\ StreamsFit' /\ [Next]_vars
       => /\ Control'
          /\ [Even!Next]_(Even!vars) /\ [Odd!Next]_(Odd!vars)
<1>1. 0 \in Streams /\ 1 \in Streams
  BY DEF Streams
<1>2. ASSUME Init, FlagIsRead PROVE Control /\ Even!Init /\ Odd!Init
  BY <1>1, <1>2, ControlStarts, EvenStream, OddStream, Zenon
<1>3. ASSUME Control, StreamsFit, StreamsFit', [Next]_vars
      PROVE  /\ Control'
             /\ [Even!Next]_(Even!vars) /\ [Odd!Next]_(Odd!vars)
  <2>1. Control' /\ StreamSteps(0) /\ StreamSteps(1)
    BY <1>1, <1>3, ToolsStep, Zenon
  <2> QED
    BY <2>1, EvenStream, OddStream, Zenon DEF StreamSteps
<1> QED
  BY <1>2, <1>3

(* Where the loops are, and what the buffer holds behind the streams.       *)
THEOREM LoopsInStep == Spec /\ FlagIsRead /\ []StreamsFit => []Control
  BY TwoScalarCoders, PTL DEF Spec

(* What the 2-way tools do to a stream is what the scalar coder does        *)
(* (rc24_2way_encode.c:96-159, rc24_2way_decode.c:99-159).                  *)
THEOREM StreamsAreScalarStreams ==
  Spec /\ FlagIsRead /\ []StreamsFit => ImplementsScalarCoder
  BY TwoScalarCoders, PTL
     DEF Spec, ImplementsScalarCoder, Even!SafeSpec, Odd!SafeSpec

(* What the scalar coder promises, of both streams.                         *)
LEMMA ScalarPromises ==
  Spec /\ FlagIsRead /\ []StreamsFit
    => [](/\ E0!DecodesWhatWasCoded /\ E0!ReadsExactlyTheStream
          /\ E1!DecodesWhatWasCoded /\ E1!ReadsExactlyTheStream)
<1>1. E0!SafeSpec => []E0!DecodesWhatWasCoded /\ []E0!ReadsExactlyTheStream
  BY E0!Lossless, E0!StreamIsUsedUp, ScalarBounds, ScalarWeights,
     DigitsAssumption, DigitAssumption, WordAssumption, BotAssumption,
     RegisterAssumption, AlphabetAssumption, TotalAssumption, TotalBelowBot, PTL
<1>2. E1!SafeSpec => []E1!DecodesWhatWasCoded /\ []E1!ReadsExactlyTheStream
  BY E1!Lossless, E1!StreamIsUsedUp, ScalarBounds, ScalarWeights,
     DigitsAssumption, DigitAssumption, WordAssumption, BotAssumption,
     RegisterAssumption, AlphabetAssumption, TotalAssumption, TotalBelowBot, PTL
<1> QED
  BY <1>1, <1>2, StreamsAreScalarStreams, EvenScalar, OddScalar, PTL
     DEF ImplementsScalarCoder

-----------------------------------------------------------------------------
(* Two sequences of even length are the same if their halves are.           *)
SameHalf(a, b, s) ==
  \A j \in 1 .. Len(a) \div 2 : EverySecond(a, s)[j] = EverySecond(b, s)[j]

LEMMA HalvesMakeWhole ==
  ASSUME NEW a, IsSeq(a), NEW b, IsSeq(b), Len(a) = Len(b), Len(a) % 2 = 0,
         SameHalf(a, b, 0), SameHalf(a, b, 1)
  PROVE  a = b
<1>1. Len(a) \in Nat
  BY DEF IsSeq
<1>2. ASSUME NEW s \in Streams, NEW j \in 1 .. Len(a) \div 2
      PROVE  a[2 * j - 1 + s] = b[2 * j - 1 + s]
  <2>1. (Len(a) + 1 - s) \div 2 = Len(a) \div 2
    BY <1>1 DEF Streams
  <2>2. EverySecond(a, s)[j] = a[2 * j - 1 + s]
    BY <2>1, HalfOf
  <2>3. EverySecond(b, s)[j] = b[2 * j - 1 + s]
    BY <2>1, HalfOf
  <2>4. SameHalf(a, b, s)
    BY DEF Streams
  <2> QED
    BY <2>2, <2>3, <2>4, Zenon DEF SameHalf
<1>3. ASSUME NEW p \in 1 .. Len(a) PROVE a[p] = b[p]
  <2>1. \E s \in Streams : \E j \in 1 .. Len(a) \div 2 : p = 2 * j - 1 + s
    <3> DEFINE s == (p + 1) % 2
               j == (p + 1) \div 2
    <3>1. s \in Streams /\ j \in 1 .. Len(a) \div 2 /\ p = 2 * j - 1 + s
      BY <1>1 DEF Streams
    <3> QED
      BY <3>1
  <2> QED
    BY <1>2, <2>1, Zenon
<1> QED
  BY <1>3, SameSeq, Zenon

LEMMA FileComesBack ==
  ASSUME Control, E0!DecodesWhatWasCoded, E1!DecodesWhatWasCoded
  PROVE  RoundTrip
<1> SUFFICES ASSUME dec_phase = "done" PROVE out_buf = data
  BY DEF RoundTrip
<1>1. EncControl /\ DecControl /\ phase = "written"
  BY DEF Control, DecControl
<1>2. CASE is_rle
  BY <1>1, <1>2 DEF DecControl, DecRle
<1>3. CASE ~ is_rle
  <2>1. /\ IsSeq(data) /\ IsSeq(out_buf) /\ Len(data) = n /\ Len(out_buf) = n
        /\ n % 2 = 0 /\ n \in Nat
    BY <1>1, <1>3 DEF EncControl, DecControl, EncLoops, DecLoops
  <2>2. \A s \in Streams : /\ Half(data, s) = EverySecond(data, s)
                           /\ Half(out_buf, s) = EverySecond(out_buf, s)
                           /\ Len(EverySecond(out_buf, s)) = n \div 2
    <3>1. ASSUME NEW s \in Streams PROVE Len(EverySecond(out_buf, s)) = n \div 2
      <4>1. (n + 1 - s) \div 2 = n \div 2
        BY <2>1 DEF Streams
      <4> QED
        BY <2>1, <4>1, HalfOf
    <3> QED
      BY <1>3, <3>1, Zenon DEF Half
  <2>3. /\ 0 \in Streams /\ 1 \in Streams
        /\ 1 .. Len(out_buf) \div 2 = 1 .. n \div 2
    BY <2>1 DEF Streams
  <2>4. SameHalf(out_buf, data, 0)
    BY <2>2, <2>3, Zenon DEF E0!DecodesWhatWasCoded, SameHalf
  <2>5. SameHalf(out_buf, data, 1)
    <3>1. /\ Half(data, 1) = EverySecond(data, 1)
          /\ Half(out_buf, 1) = EverySecond(out_buf, 1)
          /\ Len(EverySecond(out_buf, 1)) = n \div 2
      BY <2>2, <2>3, Zenon
    <3>2. \A j \in 1 .. Len(Half(out_buf, 1)) : Half(out_buf, 1)[j] = Half(data, 1)[j]
      BY DEF E1!DecodesWhatWasCoded
    <3> QED
      BY <2>3, <3>1, <3>2 DEF SameHalf
  <2> QED
    BY <2>1, <2>4, <2>5, HalvesMakeWhole
<1> QED
  BY <1>2, <1>3

(* The file comes back, however its symbols fall on the two streams and     *)
(* however unevenly the streams grow.                                       *)
THEOREM FilesComeBack == Spec /\ FlagIsRead /\ []StreamsFit => []RoundTrip
  BY LoopsInStep, ScalarPromises, FileComesBack, PTL

LEMMA ReadersApart ==
  ASSUME Control, E0!ReadsExactlyTheStream, E1!ReadsExactlyTheStream
  PROVE  EachReadsItsOwn
<1>1. /\ EncControl /\ DecControl /\ spos \in [Streams -> Nat]
      /\ dec_phase # "start" => phase = "written"
  BY DEF Control, EncControl, DecControl
<1>2. \A s \in Streams : spos[s] \in Nat /\ Len(StreamOut(s)) = spos[s]
  BY <1>1, OutFacts
<1>3. CASE is_rle
  <2>1. spos = PerStream(0) /\ dpos = PerStream(0)
    BY <1>1, <1>3 DEF EncControl, DecControl, EncRle, DecRle
  <2> QED
    BY <1>3, <2>1 DEF EachReadsItsOwn, PerStream
<1>4. CASE ~ is_rle
  <2>1. \A s \in Streams : dpos[s] <= spos[s]
    BY <1>2, Zenon DEF Streams, E0!ReadsExactlyTheStream, E1!ReadsExactlyTheStream
  <2>2. ASSUME NEW s \in Streams, phase = "written" PROVE spos[s] <= max_len
    BY <1>1, <1>4, <2>2 DEF EncControl, Finished
  <2>3. ASSUME NEW s \in Streams, dec_phase = "done" PROVE dpos[s] = spos[s]
    <3>1. IsSeq(out_buf) /\ Len(out_buf) = n /\ n % 2 = 0 /\ n \in Nat
      BY <1>1, <1>4, <2>3 DEF EncControl, DecControl, DecLoops
    <3>2. Len(Half(out_buf, s)) = n \div 2
      <4>1. Half(out_buf, s) = EverySecond(out_buf, s)
        BY <1>4, Zenon DEF Half
      <4>2. (n + 1 - s) \div 2 = n \div 2
        BY <3>1 DEF Streams
      <4> QED
        BY <3>1, <4>1, <4>2, HalfOf
    <3>3. StreamDecPhase(s) = "step"
      BY <1>4, <2>3 DEF StreamDecPhase
    <3> QED
      BY <1>2, <3>2, <3>3, Zenon
         DEF Streams, E0!ReadsExactlyTheStream, E1!ReadsExactlyTheStream
  <2> QED
    BY <2>1, <2>2, <2>3, Zenon DEF EachReadsItsOwn
<1> QED
  BY <1>3, <1>4

(* Neither stream is read into the other's bytes or into the zeros behind   *)
(* it, though only the longer one's length is in the file.                  *)
THEOREM StreamsAreApart ==
  Spec /\ FlagIsRead /\ []StreamsFit => []EachReadsItsOwn
  BY LoopsInStep, ScalarPromises, ReadersApart, PTL
=============================================================================
