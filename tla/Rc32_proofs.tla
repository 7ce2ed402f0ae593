----------------------------- MODULE Rc32_proofs ----------------------------
(***************************************************************************)
(* Proofs about the 32-bit coder for every word base, every scale that fits *)
(* in a word, every table and every file: the buffer is large enough, no    *)
(* carry leaves it, the encoder implements the carry-rippling coder, and    *)
(* the decoder gives back the symbols that were coded.                      *)
(***************************************************************************)
EXTENDS Rc32, CodedInterval

(* A word that can absorb a carry is in the buffer.                         *)
CanAbsorb == \E i \in 1 .. Len(out) : out[i] # B - 1

(* The counters of the encoder: a symbol emits at most one word.            *)
Bookkeeping ==
  /\ Len(data) = n - left
  /\ Len(out) = pos
  /\ IF status = "encoding" THEN pos <= Len(data) ELSE pos <= n + 2 /\ left = 0
  /\ status # "overflow"

(* Where a carry can still come, a word can absorb it.                      *)
CarryHasRoom == status = "encoding" => low + range <= B * B \/ CanAbsorb

(* Encoder and file hold the data; a decoder that has begun is where the    *)
(* history of the encoder was after as many symbols.                        *)
Faithful ==
  /\ status = "encoding" => Encodes(B, cum, data, out, low, range)
  /\ status = "written" => FileHolds(B, cum, data, out)
  /\ Len(out_buf) <= Len(data)
  /\ \A i \in 1 .. Len(out_buf) : out_buf[i] = data[i]
  /\ IF dec_range = 0
       THEN out_buf = << >> /\ dec_pos = 0
       ELSE /\ status = "written"
            /\ DecoderAt(B, cum, data, out, Len(out_buf), code, dec_range, dec_pos)

IInv == TypeOK /\ Bookkeeping /\ CarryHasRoom /\ Faithful

-----------------------------------------------------------------------------
LEMMA Constants ==
  /\ B \in Nat \ {0} /\ 2 <= B /\ TOTAL \in Nat \ {0} /\ TOTAL <= B
  /\ B * B \in Nat \ {0} /\ B < B * B /\ B <= B * B - 1 /\ Base(B)
<1>1. B \in Nat /\ 2 <= B /\ TOTAL \in Nat \ {0} /\ TOTAL <= B
  BY BaseAssumption, TotalAssumption
<1>2. 2 * B <= B * B
  BY <1>1, MulMonotone, SMTT(30)
<1> QED
  BY <1>1, <1>2, SMTT(30) DEF Base

(* The capacity leaves room for a word per symbol and the flush.            *)
LEMMA Capacity ==
  ASSUME n \in Nat
  PROVE  cap \in Nat /\ n + 2 <= cap
<1>1. n \div 50 \in Nat
  BY EuclideanDivision
<1> QED
  BY <1>1, HeadroomAssumption DEF cap

(* One narrowing.                                                           *)
LEMMA Narrowing ==
  ASSUME TypeOK, NEW sym \in Occurring(cum)
  PROVE  /\ r \in Nat /\ r >= 1
         /\ Sum(sym) \in Nat /\ low <= Sum(sym)
         /\ Width(sym) \in Nat /\ 1 <= Width(sym) /\ Width(sym) <= range
         /\ Sum(sym) + Width(sym) <= low + range
         /\ low \in Nat /\ range \in Nat /\ low < B * B /\ range < B * B
<1> DEFINE add == r * cum[sym]
           BB == B * B
<1>1. /\ r \in Nat /\ r >= 1 /\ add \in Nat /\ Width(sym) \in Nat
      /\ Width(sym) >= 1 /\ add + Width(sym) <= range
  <2>1. range \in B .. B * B - 1 /\ cum \in Tables /\ Base(B)
    BY Constants DEF TypeOK
  <2> QED
    BY <2>1, Subinterval DEF r, Width
<1>2. low \in 0 .. BB - 1 /\ range \in B .. BB - 1 /\ BB \in Nat /\ B \in Nat
  BY Constants DEF TypeOK
<1>3. Sum(sym) = low + add
  BY DEF Sum
<1> HIDE DEF add, BB, Width
<1>4. /\ Sum(sym) \in Nat /\ low <= Sum(sym) /\ Width(sym) <= range
      /\ Sum(sym) + Width(sym) <= low + range
      /\ low \in Nat /\ range \in Nat /\ low < BB /\ range < BB
  BY <1>1, <1>2, <1>3
<1> QED
  BY <1>1, <1>4 DEF BB

(* The last word that can absorb the carry is where the patch stops.        *)
LEMMA PatchStops ==
  ASSUME out \in Seq(0 .. B - 1), CanAbsorb
  PROVE  \E stop \in 1 .. Len(out) :
           /\ out[stop] # B - 1
           /\ \A j \in stop + 1 .. Len(out) : out[j] = B - 1
           /\ rc32_carry_patch(out)
                = [ i \in 1 .. Len(out) |->
                      IF i < stop THEN out[i] ELSE (out[i] + 1) % B ]
<1> DEFINE k == Len(out)
           S == { i \in 1 .. k : out[i] # B - 1 }
<1>1. k \in Nat /\ S \in SUBSET (0 .. k) /\ S # {}
  BY DEF CanAbsorb
<1> HIDE DEF k
<1>2. PICK m \in S : \A i \in S : i <= m
  BY <1>1, GreatestElement
<1>3. Max(S) \in S /\ \A i \in S : Max(S) >= i
  <2> HIDE DEF S
  <2>1. \A i \in S : m >= i
    <3>1. \A i \in S : i \in Int /\ m \in Int
      BY <1>1
    <3> QED
      BY <1>2, <3>1
  <2> QED
    BY <2>1 DEF Max
<1> DEFINE stop == Max(S)
<1>4. stop \in 1 .. k /\ out[stop] # B - 1
  BY <1>3
<1>5. ASSUME NEW j \in stop + 1 .. k PROVE out[j] = B - 1
  <2>1. j \in 1 .. k /\ ~ (stop >= j)
    BY <1>1, <1>4
  <2> QED
    BY <1>3, <2>1
<1>6. rc32_carry_patch(out)
        = [ i \in 1 .. Len(out) |-> IF i < stop THEN out[i] ELSE (out[i] + 1) % B ]
  BY <1>1 DEF rc32_carry_patch, k
<1> HIDE DEF S
<1> QED
  BY <1>4, <1>5, <1>6 DEF k

(* The patch is the ripple of the textbook coder, and adds one to the       *)
(* number in the buffer.                                                    *)
LEMMA PatchIsRipple ==
  ASSUME out \in Seq(0 .. B - 1), CanAbsorb
  PROVE  /\ rc32_carry_patch(out) \in Seq(0 .. B - 1)
         /\ Len(rc32_carry_patch(out)) = Len(out)
         /\ \E stop : Rippled(B, out, stop, rc32_carry_patch(out))
         /\ rc32_carry_patch(out) = Carry!Ripple(out)
<1> DEFINE k == Len(out)
           digits == rc32_carry_patch(out)
<1>1. PICK stop \in 1 .. k :
        /\ out[stop] # B - 1
        /\ \A j \in stop + 1 .. k : out[j] = B - 1
        /\ digits = [ i \in 1 .. k |->
                        IF i < stop THEN out[i] ELSE (out[i] + 1) % B ]
  BY PatchStops
<1>2. k \in Nat /\ B \in Nat /\ 2 <= B /\ \A i \in 1 .. k : out[i] \in 0 .. B - 1
  BY Constants, ElementFacts
<1> DEFINE word(i) == IF i < stop THEN out[i]
                      ELSE IF i = stop THEN out[i] + 1 ELSE 0
<1>3. ASSUME NEW i \in 1 .. k
      PROVE  /\ word(i) \in 0 .. B - 1
             /\ (IF i < stop THEN out[i] ELSE (out[i] + 1) % B) = word(i)
             /\ (IF \A j \in i + 1 .. k : out[j] = B - 1
                   THEN IF out[i] = B - 1 THEN 0 ELSE out[i] + 1
                   ELSE out[i]) = word(i)
  <2> HIDE DEF k, digits
  <2>0. out[i] \in 0 .. B - 1 /\ i \in Int /\ stop \in Int
    BY <1>2
  <2>1. CASE i < stop
    <3>1. stop \in i + 1 .. k
      BY <1>2, <2>1
    <3>2. ~ \A j \in i + 1 .. k : out[j] = B - 1
      BY <1>1, <3>1
    <3> QED
      BY <2>0, <2>1, <3>2
  <2>2. CASE i = stop
    <3>1. out[i] # B - 1 /\ out[i] + 1 \in 0 .. B - 1
      BY <1>1, <1>2, <2>0, <2>2
    <3>2. (out[i] + 1) % B = out[i] + 1
      <4> DEFINE w == out[i] + 1
      <4>1. B \in Nat \ {0} /\ w \in 0 .. B - 1
        BY <3>1, Constants
      <4> HIDE DEF w
      <4>2. w % B = w
        BY <4>1, ModSmall
      <4> QED
        BY <4>2 DEF w
    <3>3. \A j \in i + 1 .. k : out[j] = B - 1
      BY <1>1, <2>2
    <3> QED
      BY <2>0, <2>2, <3>1, <3>2, <3>3
  <2>3. CASE i > stop
    <3>1. out[i] = B - 1 /\ out[i] + 1 = B
      <4>1. i \in stop + 1 .. k
        BY <1>2, <2>0, <2>3
      <4>2. out[i] = B - 1
        BY <1>1, <4>1
      <4>3. (B - 1) + 1 = B
        BY <1>2
      <4> QED
        BY <4>2, <4>3
    <3>2. B % B = 0
      BY <1>2, SMTT(30)
    <3>3. \A j \in i + 1 .. k : j \in stop + 1 .. k
      BY <1>2, <2>0, <2>3
    <3>4. \A j \in i + 1 .. k : out[j] = B - 1
      BY <1>1, <3>3
    <3> QED
      BY <1>2, <2>0, <2>3, <3>1, <3>2, <3>4
  <2> QED
    BY <2>0, <2>1, <2>2, <2>3
<1> HIDE DEF word
<1>4. digits = [ i \in 1 .. k |-> word(i) ]
  BY <1>1, <1>3
<1>5. digits \in Seq(0 .. B - 1) /\ Len(digits) = k
  <2>1. \A i \in 1 .. k : digits[i] = word(i) /\ digits[i] \in 0 .. B - 1
    BY <1>3, <1>4
  <2>2. digits = [ i \in 1 .. k |-> digits[i] ]
    BY <1>4
  <2> HIDE DEF digits
  <2> QED
    BY <2>1, <2>2, RebuiltWords
<1>6. Carry!Ripple(out) = [ i \in 1 .. k |-> word(i) ]
  BY <1>3 DEF Carry!Ripple
<1>7. Rippled(B, out, stop, digits)
  <2> HIDE DEF digits
  <2>1. \A i \in 1 .. k : digits[i] = word(i)
    BY <1>4
  <2> QED
    BY <1>1, <1>5, <2>1 DEF Rippled, word
<1> QED
  BY <1>4, <1>5, <1>6, <1>7

-----------------------------------------------------------------------------
LEMMA InitInvariant == Init => IInv
<1> SUFFICES ASSUME Init PROVE IInv
  OBVIOUS
<1>1. TypeOK
  <2>1. /\ low \in 0 .. B * B - 1 /\ range \in B .. B * B - 1
        /\ code \in 0 .. B * B - 1
    BY Constants DEF Init
  <2>2. left \in 0 .. n /\ n \in Nat
    BY MaxSymbolsAssumption DEF Init
  <2> QED
    BY <2>1, <2>2 DEF Init, TypeOK
<1>2. Bookkeeping
  BY MaxSymbolsAssumption DEF Init, Bookkeeping
<1>3. CarryHasRoom
  BY Constants DEF Init, CarryHasRoom
<1>4. Faithful
  <2>1. Encodes(B, cum, data, out, low, range)
    BY StartEncodes, Constants DEF Init
  <2>2. Len(out_buf) = 0 /\ Len(data) = 0
    BY DEF Init
  <2> QED
    BY <2>1, <2>2 DEF Init, Faithful
<1> QED
  BY <1>1, <1>2, <1>3, <1>4 DEF IInv

(* What a step of the encoder does when the buffer has room: the digits     *)
(* after the carry and what is left in low spell the sum, nothing is        *)
(* dropped, and the renormalisation is the plain one.                       *)
EncodeFacts(sym) ==
  /\ Patched(sym) \in Seq(0 .. B - 1) /\ Len(Patched(sym)) = Len(out)
  /\ Bottom(sym) \in 0 .. B * B - 1
  /\ Spells(B, out, Sum(sym), Patched(sym), Bottom(sym))
  /\ Patched(sym) = IF Sum(sym) < B * B THEN out ELSE Carry!Ripple(out)
  /\ Renormed(B, Patched(sym), Bottom(sym), Width(sym), out', low', range')
  /\ pos' = IF Width(sym) < B THEN pos + 1 ELSE pos
  /\ \/ Bottom(sym) + Width(sym) <= B * B
     \/ Patched(sym) = out /\ CanAbsorb

LEMMA EncodeStep ==
  ASSUME IInv, NEW sym \in Occurring(cum), EncodeSymbol(sym)
  PROVE  EncodeFacts(sym) /\ status = "encoding"
<1> DEFINE sum == Sum(sym)
           width == Width(sym)
           BB == B * B
<1>1. /\ sum \in Nat /\ width \in Nat /\ 1 <= width /\ width <= range
      /\ sum + width <= low + range /\ low \in Nat /\ range \in Nat
      /\ low < BB /\ range < BB /\ BB \in Nat \ {0}
  BY Narrowing, Constants DEF IInv
<1>2. out \in Seq(0 .. B - 1) /\ n \in Nat /\ left \in 0 .. n /\ left > 0
      /\ pos = Len(out) /\ Len(data) = n - left
  BY MaxSymbolsAssumption DEF IInv, TypeOK, Bookkeeping, EncodeSymbol
<1>3. status = "encoding" /\ pos <= Len(data)
  BY <1>2 DEF IInv, Bookkeeping
<1>4. pos < cap
  BY <1>2, <1>3, Capacity
<1>5. CASE sum < BB
  <2>1. Bottom(sym) = sum
    <3>1. sum \in 0 .. BB - 1
      <4> HIDE DEF sum, BB, width
      <4> QED
        BY <1>1, <1>5
    <3> HIDE DEF BB, sum
    <3>2. sum % BB = sum
      BY <1>1, <3>1, ModSmall
    <3> QED
      BY <3>2 DEF Bottom, sum, BB
  <2>2. Patched(sym) = out
    BY <1>5 DEF Patched
  <2>3. Spells(B, out, Sum(sym), Patched(sym), Bottom(sym))
    BY <2>1, <2>2, PlainSpells
  <2>4. sum \in 0 .. BB - 1 /\ (sum + width <= BB \/ CanAbsorb)
    <3>1. low + range <= BB \/ CanAbsorb
      BY <1>3 DEF IInv, CarryHasRoom
    <3> HIDE DEF sum, BB, width
    <3> QED
      BY <1>1, <1>5, <3>1
  <2> HIDE DEF width
  <2>5. Renormed(B, Patched(sym), Bottom(sym), Width(sym), out', low', range')
    BY <1>4, <1>2 DEF EncodeSymbol, Renormed, Store
  <2>6. pos' = IF Width(sym) < B THEN pos + 1 ELSE pos
    BY DEF EncodeSymbol
  <2> QED
    BY <1>2, <1>3, <1>5, <2>1, <2>2, <2>3, <2>4, <2>5, <2>6 DEF EncodeFacts, width
<1>6. CASE ~ (sum < BB)
  <2>1. CanAbsorb
    <3>1. ~ (low + range <= BB)
      <4> HIDE DEF sum, BB, width
      <4> QED
        BY <1>1, <1>6
    <3> QED
      BY <1>3, <3>1 DEF IInv, CarryHasRoom
  <2>2. /\ sum - BB \in 0 .. BB - 1 /\ (sum - BB) + width <= BB
    <3> HIDE DEF sum, BB, width
    <3> QED
      BY <1>1, <1>6
  <2>3. Bottom(sym) = sum - BB
    <3>1. sum % BB = sum - BB
      <4> DEFINE m == sum - BB
      <4>1. m % BB = m
        <5> HIDE DEF m, BB
        <5> QED
          BY <1>1, <2>2, ModSmall DEF m
      <4> HIDE DEF sum, BB
      <4>2. sum % BB = (sum - BB) % BB
        BY <1>1, <2>2, SMTT(30)
      <4> QED
        BY <4>1, <4>2
    <3> QED
      BY <3>1 DEF Bottom
  <2>4. Patched(sym) = rc32_carry_patch(out)
    BY <1>6 DEF Patched
  <2>5. /\ Patched(sym) \in Seq(0 .. B - 1) /\ Len(Patched(sym)) = Len(out)
        /\ \E stop : Rippled(B, out, stop, Patched(sym))
        /\ Patched(sym) = Carry!Ripple(out)
    BY <1>2, <2>1, <2>4, PatchIsRipple
  <2>6. Spells(B, out, Sum(sym), Patched(sym), Bottom(sym))
    BY <1>1, <1>2, <2>3, <2>5, CarrySpells, Constants
  <2> HIDE DEF width
  <2>7. Renormed(B, Patched(sym), Bottom(sym), Width(sym), out', low', range')
    BY <1>4, <1>2, <2>5 DEF EncodeSymbol, Renormed, Store
  <2>8. pos' = IF Width(sym) < B THEN pos + 1 ELSE pos
    BY DEF EncodeSymbol
  <2> QED
    BY <1>3, <1>6, <2>2, <2>3, <2>5, <2>6, <2>7, <2>8 DEF EncodeFacts, width
<1> QED
  BY <1>5, <1>6

LEMMA EncodeInvariant ==
  ASSUME IInv, NEW sym \in Occurring(cum), EncodeSymbol(sym)
  PROVE  IInv'
<1>1. EncodeFacts(sym) /\ status = "encoding"
  BY EncodeStep
<1>2. /\ Patched(sym) \in Seq(0 .. B - 1) /\ Len(Patched(sym)) = Len(out)
      /\ Bottom(sym) \in 0 .. B * B - 1
      /\ Renormed(B, Patched(sym), Bottom(sym), Width(sym), out', low', range')
  BY <1>1 DEF EncodeFacts
<1>3. Width(sym) \in 1 .. B * B - 1
  <2> DEFINE BB == B * B
             width == Width(sym)
  <2>1. /\ width \in Nat /\ 1 <= width /\ width <= range /\ range < BB
        /\ range \in Nat /\ BB \in Nat
    BY Narrowing, Constants DEF IInv
  <2> HIDE DEF BB, width
  <2>2. width \in 1 .. BB - 1
    BY <2>1
  <2> QED
    BY <2>2 DEF BB, width
<1>4. /\ out' \in Seq(0 .. B - 1)
      /\ Len(out') = IF Width(sym) < B THEN Len(out) + 1 ELSE Len(out)
      /\ \A i \in 1 .. Len(out) : out'[i] = Patched(sym)[i]
      /\ low' \in 0 .. B * B - 1
      /\ range' \in B .. B * B - 1
      /\ Bottom(sym) + Width(sym) <= B * B =>
           \/ low' + range' <= B * B
           \/ Len(out') = Len(out) + 1 /\ out'[Len(out) + 1] # B - 1
  <2> DEFINE digits == Patched(sym)
             bottom == Bottom(sym)
             width == Width(sym)
  <2>1. /\ digits \in Seq(0 .. B - 1) /\ bottom \in 0 .. B * B - 1
        /\ width \in 1 .. B * B - 1 /\ Base(B) /\ Len(digits) = Len(out)
        /\ Renormed(B, digits, bottom, width, out', low', range')
    BY <1>2, <1>3, Constants
  <2> HIDE DEF digits, bottom, width
  <2>2. /\ out' \in Seq(0 .. B - 1)
        /\ Len(out') = IF width < B THEN Len(digits) + 1 ELSE Len(digits)
        /\ \A i \in 1 .. Len(digits) : out'[i] = digits[i]
        /\ low' \in 0 .. B * B - 1
        /\ range' \in B .. B * B - 1
        /\ bottom + width <= B * B =>
             \/ low' + range' <= B * B
             \/ Len(out') = Len(digits) + 1 /\ out'[Len(digits) + 1] # B - 1
    BY <2>1, RenormedTypes
  <2> QED
    BY <2>1, <2>2 DEF digits, bottom, width
<1>5. /\ n \in Nat /\ left \in 0 .. n /\ left > 0 /\ Len(data) = n - left
      /\ data \in Seq(Occurring(cum)) /\ Len(out) = pos /\ pos <= Len(data)
      /\ n' = n /\ cum' = cum /\ left' = left - 1 /\ data' = Append(data, sym)
      /\ status' = status /\ decVars' = decVars
      /\ dec_range = 0
  BY <1>1, MaxSymbolsAssumption
     DEF IInv, TypeOK, Bookkeeping, Faithful, EncodeSymbol, decVars
<1>6. data' \in Seq(Occurring(cum)) /\ Len(data') = Len(data) + 1
      /\ \A i \in 1 .. Len(data) : data'[i] = data[i]
  BY <1>5, AppendFacts
<1>7. pos' = IF Width(sym) < B THEN pos + 1 ELSE pos
  BY <1>1 DEF EncodeFacts
<1>8. TypeOK'
  <2>1. left' \in 0 .. n' /\ pos' \in Nat
    BY <1>5, <1>7
  <2> QED
    BY <1>4, <1>5, <1>6, <2>1 DEF IInv, TypeOK, decVars
<1>9. Bookkeeping'
  <2>1. Len(data') = n' - left' /\ Len(out') = pos' /\ pos' <= Len(data')
    BY <1>4, <1>5, <1>6, <1>7
  <2> QED
    BY <1>1, <1>5, <2>1 DEF Bookkeeping
<1>a. low' + range' <= B * B \/ CanAbsorb'
  <2>0. Len(out') \in Nat /\ Len(out) \in Nat
    BY <1>2, <1>4
  <2>1. CASE Bottom(sym) + Width(sym) <= B * B
    BY <1>4, <2>0, <2>1 DEF CanAbsorb
  <2>2. CASE Patched(sym) = out /\ CanAbsorb
    <3>1. PICK i \in 1 .. Len(out) : out[i] # B - 1
      BY <2>2 DEF CanAbsorb
    <3>2. i \in 1 .. Len(out') /\ out'[i] = out[i]
      BY <1>4, <2>0, <2>2
    <3> QED
      BY <3>1, <3>2 DEF CanAbsorb
  <2> QED
    BY <1>1, <2>1, <2>2 DEF EncodeFacts
<1>b. Faithful'
  <2>1. /\ cum \in Tables /\ data \in Seq(Symbols) /\ low \in Nat
        /\ range \in B .. B * B - 1
        /\ Encodes(B, cum, data, out, low, range)
    <3>1. \A i \in 1 .. Len(data) : data[i] \in Symbols
      BY <1>5, ElementFacts DEF Occurring
    <3>2. data \in Seq(Symbols)
      BY <1>5, <3>1
    <3> QED
      BY <1>1, <3>2 DEF IInv, TypeOK, Faithful
  <2>2. /\ Spells(B, out, low + (range \div TOTAL) * cum[sym],
                  Patched(sym), Bottom(sym))
        /\ Renormed(B, Patched(sym), Bottom(sym),
                    (range \div TOTAL) * Freq(cum, sym), out', low', range')
    BY <1>1 DEF EncodeFacts, Sum, Width, r
  <2>3. Encodes(B, cum, Append(data, sym), out', low', range')
    BY <1>2, <2>1, <2>2, StepEncodes, Constants
  <2>4. out_buf' = << >> /\ dec_range' = 0 /\ dec_pos' = 0
    BY <1>5 DEF IInv, Faithful, decVars
  <2>5. Len(out_buf') <= Len(data') /\ Len(out_buf') = 0
    BY <1>6, <2>4
  <2> QED
    BY <1>1, <1>5, <2>3, <2>4, <2>5 DEF Faithful
<1> QED
  BY <1>8, <1>9, <1>a, <1>b DEF IInv, CarryHasRoom

(* The flush completes the file; it never overflows.                        *)
LEMMA FlushStep ==
  ASSUME IInv, Flush
  PROVE  /\ out' = Append(Append(out, low \div B), low % B)
         /\ low \div B \in 0 .. B - 1 /\ low % B \in 0 .. B - 1
         /\ low = (low \div B) * B + (low % B)
         /\ out' \in Seq(0 .. B - 1) /\ Len(out') = Len(out) + 2
         /\ out'[Len(out) + 1] = low \div B /\ out'[Len(out) + 2] = low % B
         /\ status' = "written"
<1> DEFINE hi == low \div B
           lo == low % B
<1>1. low \in 0 .. B * B - 1
  BY DEF IInv, TypeOK
<1>2. hi \in 0 .. B - 1 /\ lo \in 0 .. B - 1 /\ low = hi * B + lo
  BY <1>1, TopWord, Constants
<1>3. /\ n \in Nat /\ pos = Len(out) /\ pos + 2 <= cap /\ cap \in Nat
      /\ out \in Seq(0 .. B - 1) /\ pos \in Nat
  BY MaxSymbolsAssumption, Capacity DEF IInv, TypeOK, Bookkeeping, Flush
<1> HIDE DEF hi, lo
<1>4. out' = Append(Append(out, hi), lo) /\ status' = "written"
  BY <1>3 DEF Flush, Store, hi, lo
<1>5. /\ out' \in Seq(0 .. B - 1) /\ Len(out') = Len(out) + 2
      /\ out'[Len(out) + 1] = hi /\ out'[Len(out) + 2] = lo
  <2> DEFINE head == Append(out, hi)
  <2>1. /\ head \in Seq(0 .. B - 1) /\ Len(head) = Len(out) + 1
        /\ head[Len(out) + 1] = hi
    BY <1>2, <1>3, AppendFacts
  <2>2. out' = Append(head, lo)
    BY <1>4
  <2> HIDE DEF head
  <2>3. /\ out' \in Seq(0 .. B - 1) /\ Len(out') = Len(head) + 1
        /\ out'[Len(head) + 1] = lo
        /\ \A i \in 1 .. Len(head) : out'[i] = head[i]
    BY <1>2, <2>1, <2>2, AppendFacts
  <2>4. (Len(out) + 1) + 1 = Len(out) + 2 /\ Len(out) + 1 \in 1 .. Len(head)
    BY <1>3, <2>1
  <2> QED
    BY <2>1, <2>3, <2>4
<1> QED
  BY <1>2, <1>4, <1>5 DEF hi, lo

LEMMA FlushInvariant == IInv /\ Flush => IInv'
<1> SUFFICES ASSUME IInv, Flush PROVE IInv'
  OBVIOUS
<1>1. /\ out' = Append(Append(out, low \div B), low % B)
      /\ out' \in Seq(0 .. B - 1) /\ Len(out') = Len(out) + 2
      /\ status' = "written"
  BY FlushStep
<1>2. /\ low' = 0 /\ pos' = pos + 2 /\ left = 0 /\ status = "encoding"
      /\ cum' = cum /\ n' = n /\ left' = left /\ data' = data /\ range' = range
      /\ decVars' = decVars
  BY DEF Flush
<1>3. TypeOK'
  <2>1. 0 \in 0 .. B * B - 1
    BY Constants
  <2>2. pos + 2 \in Nat
    BY DEF IInv, TypeOK
  <2> QED
    BY <1>1, <1>2, <2>1, <2>2 DEF IInv, TypeOK, decVars
<1>4. Bookkeeping'
  BY <1>1, <1>2, MaxSymbolsAssumption DEF IInv, TypeOK, Bookkeeping
<1>5. Faithful'
  <2>1. FileHolds(B, cum, data, out')
    <3>1. /\ out \in Seq(0 .. B - 1) /\ low \in 0 .. B * B - 1
          /\ Encodes(B, cum, data, out, low, range)
      BY <1>2 DEF IInv, TypeOK, Faithful
    <3> QED
      BY <1>1, <3>1, FlushHolds, Constants DEF FileHolds
  <2>2. dec_range = 0
    BY <1>2 DEF IInv, Faithful
  <2> QED
    BY <1>1, <1>2, <2>1, <2>2 DEF IInv, Faithful, decVars
<1> QED
  BY <1>1, <1>3, <1>4, <1>5 DEF IInv, CarryHasRoom

(* rc32_dec_init reads the two words the flush wrote or found.              *)
LEMMA DecInitInvariant == IInv /\ DecInit => IInv'
<1> SUFFICES ASSUME IInv, DecInit PROVE IInv'
  OBVIOUS
<1>1. /\ cum \in Tables /\ data \in Seq(Occurring(cum)) /\ out \in Seq(0 .. B - 1)
      /\ FileHolds(B, cum, data, out)
  BY DEF DecInit, IInv, TypeOK, Faithful
<1>2. /\ Len(out) >= 2 /\ out[1] * B + out[2] \in 0 .. B * B - 1
      /\ DecoderAt(B, cum, data, out, 0, out[1] * B + out[2], B * B - 1, 2)
  BY <1>1, DecoderStarts, Constants
<1>3. code' = out[1] * B + out[2]
  <2>1. rc32_get(0) = out[1] /\ rc32_get(1) = out[2]
    <3>1. Len(out) \in Nat /\ 0 < Len(out) /\ 1 < Len(out) /\ 0 + 1 = 1 /\ 1 + 1 = 2
      BY <1>1, <1>2
    <3> QED
      BY <3>1 DEF rc32_get
  <2> QED
    BY <2>1 DEF DecInit
<1>4. /\ status = "written" /\ dec_range = 0 /\ dec_range' = B * B - 1
      /\ dec_pos' = 2 /\ encVars' = encVars /\ out_buf' = out_buf
  BY DEF DecInit
<1>5. out_buf = << >> /\ Len(out_buf) = 0
  BY <1>4 DEF IInv, Faithful
<1>6. B * B - 1 \in B .. B * B - 1 /\ B * B - 1 # 0
  BY Constants
<1>7. TypeOK'
  BY <1>2, <1>3, <1>4, <1>6 DEF IInv, TypeOK, encVars
<1>8. Bookkeeping' /\ CarryHasRoom'
  BY <1>4 DEF IInv, Bookkeeping, CarryHasRoom, CanAbsorb, encVars
<1>9. Faithful'
  BY <1>2, <1>3, <1>4, <1>5, <1>6 DEF IInv, Faithful, encVars
<1> QED
  BY <1>7, <1>8, <1>9 DEF IInv

(* rc32_dec_get_cum and rc32_dec_step: the next symbol is found without the *)
(* clamp, and the word that is read is in the file.                         *)
LEMMA DecodeStep ==
  ASSUME IInv, dec_range > 0, Len(out_buf) < n
  PROVE  /\ status = "written" /\ Len(data) = n
         /\ Len(out_buf) \in 0 .. Len(data) - 1
         /\ Quotient \in 0 .. TOTAL - 1
         /\ Find(cum, rc32_dec_get_cum) = data[Len(out_buf) + 1]
         /\ LET sym    == data[Len(out_buf) + 1]
                width  == dec_r * Freq(cum, sym)
                offset == code - dec_r * cum[sym]
            IN  IF width < B
                  THEN /\ dec_pos + 1 <= Len(out)
                       /\ DecoderAt(B, cum, data, out, Len(out_buf) + 1,
                                    (offset * B + out[dec_pos + 1]) % (B * B),
                                    width * B, dec_pos + 1)
                  ELSE DecoderAt(B, cum, data, out, Len(out_buf) + 1,
                                 offset % (B * B), width, dec_pos)
<1>1. status = "written" /\ dec_range # 0
  <2>1. dec_range # 0
    OBVIOUS
  <2> QED
    BY <2>1 DEF IInv, Faithful
<1>2. left = 0 /\ n \in Nat /\ Len(data) = n
  BY <1>1, MaxSymbolsAssumption DEF IInv, TypeOK, Bookkeeping
<1>3. Len(out_buf) \in 0 .. Len(data) - 1
  <2>1. Len(out_buf) \in Nat
    BY DEF IInv, TypeOK
  <2> QED
    BY <1>2, <2>1
<1>4. /\ cum \in Tables /\ data \in Seq(Occurring(cum)) /\ out \in Seq(0 .. B - 1)
      /\ DecoderAt(B, cum, data, out, Len(out_buf), code, dec_range, dec_pos)
  BY <1>1 DEF IInv, TypeOK, Faithful
<1> DEFINE sym    == data[Len(out_buf) + 1]
           width  == dec_r * Freq(cum, sym)
           offset == code - dec_r * cum[sym]
<1>5. /\ Quotient \in 0 .. TOTAL - 1
      /\ Find(cum, Quotient) = sym
      /\ IF width < B
           THEN /\ dec_pos + 1 <= Len(out)
                /\ DecoderAt(B, cum, data, out, Len(out_buf) + 1,
                             (offset * B + out[dec_pos + 1]) % (B * B),
                             width * B, dec_pos + 1)
           ELSE DecoderAt(B, cum, data, out, Len(out_buf) + 1,
                          offset % (B * B), width, dec_pos)
  BY <1>3, <1>4, DecoderSteps, Constants DEF Quotient, dec_r
<1>6. rc32_dec_get_cum = Quotient
  <2>1. ~ (Quotient >= TOTAL)
    BY <1>5, Constants
  <2> QED
    BY <2>1 DEF rc32_dec_get_cum
<1> QED
  BY <1>1, <1>2, <1>3, <1>5, <1>6

LEMMA DecodeInvariant == IInv /\ Decode => IInv'
<1> SUFFICES ASSUME IInv, Decode PROVE IInv'
  OBVIOUS
<1> DEFINE i == Len(out_buf) + 1
           sym == data[i]
<1>1. /\ dec_range > 0 /\ Len(out_buf) < n /\ DecStep(sym)
      /\ out_buf' = Append(out_buf, sym) /\ encVars' = encVars
      /\ status = "written" /\ Len(data) = n /\ Len(out_buf) \in 0 .. Len(data) - 1
  BY DecodeStep DEF Decode
<1>2. /\ cum \in Tables /\ data \in Seq(Occurring(cum)) /\ out \in Seq(0 .. B - 1)
      /\ out_buf \in Seq(Symbols) /\ dec_pos \in Nat
      /\ \A j \in 1 .. Len(out_buf) : out_buf[j] = data[j]
  BY DEF IInv, TypeOK, Faithful
<1>3. i \in 1 .. Len(data) /\ i \in 0 .. Len(data) /\ sym \in Symbols
  <2>1. i \in 1 .. Len(data) /\ i \in 0 .. Len(data)
    BY <1>1, <1>2
  <2>2. sym \in Occurring(cum)
    BY <1>2, <2>1, ElementFacts
  <2> QED
    BY <2>1, <2>2 DEF Occurring
<1>4. DecoderAt(B, cum, data, out, i, code', dec_range', dec_pos')
  <2> DEFINE width  == dec_r * Freq(cum, sym)
             offset == code - dec_r * cum[sym]
  <2>1. CASE width < B
    <3>1. /\ dec_pos + 1 <= Len(out)
          /\ DecoderAt(B, cum, data, out, i,
                       (offset * B + out[dec_pos + 1]) % (B * B),
                       width * B, dec_pos + 1)
      BY <1>1, <2>1, DecodeStep
    <3>2. rc32_get(dec_pos) = out[dec_pos + 1]
      BY <1>2, <3>1 DEF rc32_get
    <3>3. /\ code' = (offset * B + rc32_get(dec_pos)) % (B * B)
          /\ dec_range' = width * B /\ dec_pos' = dec_pos + 1
      BY <1>1, <2>1 DEF DecStep
    <3> QED
      BY <3>1, <3>2, <3>3
  <2>2. CASE ~ (width < B)
    <3>1. DecoderAt(B, cum, data, out, i, offset % (B * B), width, dec_pos)
      BY <1>1, <2>2, DecodeStep
    <3>3. code' = offset % (B * B) /\ dec_range' = width /\ dec_pos' = dec_pos
      BY <1>1, <2>2 DEF DecStep
    <3> QED
      BY <3>1, <3>3
  <2> QED
    BY <2>1, <2>2
<1>5. /\ code' \in 0 .. B * B - 1 /\ dec_range' \in B .. B * B - 1
      /\ dec_pos' \in Nat
  BY <1>2, <1>3, <1>4, DecoderPlace, Constants
<1>6. /\ out_buf' \in Seq(Symbols) /\ Len(out_buf') = i /\ out_buf'[i] = sym
      /\ \A j \in 1 .. Len(out_buf) : out_buf'[j] = out_buf[j]
  BY <1>1, <1>2, <1>3, AppendFacts
<1>7. TypeOK'
  BY <1>1, <1>5, <1>6 DEF IInv, TypeOK, encVars
<1>8. Bookkeeping' /\ CarryHasRoom'
  BY <1>1 DEF IInv, Bookkeeping, CarryHasRoom, CanAbsorb, encVars
<1>9. Faithful'
  <2>1. ASSUME NEW j \in 1 .. Len(out_buf') PROVE out_buf'[j] = data[j]
    <3>1. CASE j = i
      BY <1>6, <3>1
    <3>2. CASE j # i
      <4>1. j \in 1 .. Len(out_buf)
        BY <1>1, <1>6, <3>2
      <4> QED
        BY <1>2, <1>6, <4>1
    <3> QED
      BY <3>1, <3>2
  <2>2. dec_range' # 0
    BY <1>5, Constants
  <2>3. Len(out_buf') <= Len(data)
    BY <1>3, <1>6
  <2>4. /\ status' = status /\ data' = data /\ out' = out /\ cum' = cum
        /\ low' = low /\ range' = range
    BY <1>1 DEF encVars
  <2>5. FileHolds(B, cum, data, out)
    BY <1>1 DEF IInv, Faithful
  <2> HIDE DEF i, sym
  <2> QED
    BY <1>1, <1>4, <1>6, <2>1, <2>2, <2>3, <2>4, <2>5 DEF Faithful
<1> QED
  BY <1>7, <1>8, <1>9 DEF IInv

LEMMA NextInvariant == IInv /\ [Next]_vars => IInv'
<1> SUFFICES ASSUME IInv, [Next]_vars PROVE IInv'
  OBVIOUS
<1>1. CASE Encode
  BY <1>1, EncodeInvariant DEF Encode
<1>2. CASE Flush
  BY <1>2, FlushInvariant
<1>3. CASE DecInit
  BY <1>3, DecInitInvariant
<1>4. CASE Decode
  BY <1>4, DecodeInvariant
<1>5. CASE UNCHANGED vars
  BY <1>5 DEF IInv, TypeOK, Bookkeeping, CarryHasRoom, CanAbsorb, Faithful,
              vars, encVars, decVars
<1> QED
  BY <1>1, <1>2, <1>3, <1>4, <1>5 DEF Next

THEOREM Invariance == Spec => []IInv
  BY InitInvariant, NextInvariant, PTL DEF Spec

-----------------------------------------------------------------------------
(* Types, for every table and file: one turn of the renormalisation loops   *)
(* of rc32_enc_step and rc32_dec_step restores the lower bound of range.    *)
THEOREM TypeCorrect == Spec => []TypeOK
<1>1. IInv => TypeOK
  BY DEF IInv
<1> QED
  BY <1>1, Invariance, PTL

(* rc_encode32.c: the 1024 words of headroom (any headroom of two) are      *)
(* enough for every file, so the overflow exit is never taken.              *)
THEOREM BufferIsLargeEnough == Spec => []BufferSuffices
<1>1. IInv => BufferSuffices
  <2> SUFFICES ASSUME IInv PROVE BufferSuffices
    OBVIOUS
  <2>1. /\ n \in Nat /\ left \in 0 .. n /\ pos = Len(out) /\ pos \in Nat
        /\ Len(data) = n - left /\ status # "overflow"
        /\ IF status = "encoding" THEN pos <= Len(data) ELSE pos <= n + 2
    BY MaxSymbolsAssumption DEF IInv, TypeOK, Bookkeeping
  <2>2. pos <= n + 2
    BY <2>1
  <2> QED
    BY <2>1, <2>2, Capacity DEF BufferSuffices
<1> QED
  BY <1>1, Invariance, PTL

(* rc32_carry_patch: "a carry past the buffer start is impossible".         *)
THEOREM CarryStaysInBuffer == Spec => []CarryNeverLost
<1>1. IInv => CarryNeverLost
  <2> SUFFICES ASSUME IInv, NEW sym \in Occurring(cum), left > 0, Sum(sym) >= B * B
               PROVE  \E i \in 1 .. Len(out) : out[i] # B - 1
    BY DEF CarryNeverLost
  <2>1. status = "encoding"
    <3>1. left # 0
      OBVIOUS
    <3> QED
      BY <3>1 DEF IInv, Bookkeeping
  <2>2. ~ (low + range <= B * B)
    <3> DEFINE sum == Sum(sym)
               width == Width(sym)
               BB == B * B
    <3>1. /\ sum \in Nat /\ width \in Nat /\ 1 <= width
          /\ sum + width <= low + range /\ low \in Nat /\ range \in Nat
          /\ BB \in Nat /\ sum >= BB
      BY Narrowing, Constants DEF IInv
    <3> HIDE DEF sum, width, BB
    <3>2. ~ (low + range <= BB)
      BY <3>1
    <3> QED
      BY <3>2 DEF BB
  <2> QED
    BY <2>1, <2>2 DEF IInv, CarryHasRoom, CanAbsorb
<1> QED
  BY <1>1, Invariance, PTL

(* The 32-bit coder is lossless: for every table and every file, what       *)
(* rc_decode32.c has decoded is what rc_encode32.c coded, the clamp and the  *)
(* zeros behind the stream are never used, and the stream is used up.       *)
THEOREM Lossless == Spec => []DecodesWhatWasCoded
<1>1. IInv => DecodesWhatWasCoded
  <2> SUFFICES ASSUME IInv PROVE DecodesWhatWasCoded
    OBVIOUS
  <2>1. \A i \in 1 .. Len(out_buf) : out_buf[i] = data[i]
    BY DEF IInv, Faithful
  <2>2. dec_range > 0 /\ Len(out_buf) < n => Quotient < TOTAL
    BY DecodeStep, Constants
  <2>3. dec_pos <= Len(out) /\ (dec_range > 0 /\ Len(out_buf) = n => dec_pos = Len(out))
    <3>1. CASE dec_range = 0
      <4>1. dec_pos = 0 /\ Len(out) \in Nat
        BY <3>1 DEF IInv, TypeOK, Faithful
      <4> QED
        BY <3>1, <4>1
    <3>2. CASE dec_range # 0
      <4>1. /\ cum \in Tables /\ data \in Seq(Occurring(cum))
            /\ out \in Seq(0 .. B - 1)
            /\ DecoderAt(B, cum, data, out, Len(out_buf), code, dec_range, dec_pos)
            /\ Len(out_buf) <= Len(data) /\ out_buf \in Seq(Symbols)
            /\ status = "written"
        BY <3>2 DEF IInv, TypeOK, Faithful
      <4>2. Len(data) = n
        BY <4>1, MaxSymbolsAssumption DEF IInv, TypeOK, Bookkeeping
      <4>3. Len(out_buf) \in 0 .. Len(data)
        BY <4>1
      <4>4. dec_pos <= Len(out) /\ (Len(out_buf) = Len(data) => dec_pos = Len(out))
        BY <4>1, <4>3, DecoderPlace, Constants
      <4> QED
        BY <4>2, <4>4
    <3> QED
      BY <3>1, <3>2
  <2> QED
    BY <2>1, <2>2, <2>3 DEF DecodesWhatWasCoded
<1> QED
  BY <1>1, Invariance, PTL

-----------------------------------------------------------------------------
LEMMA EncodeImplements ==
  ASSUME IInv, NEW sym \in Occurring(cum), EncodeSymbol(sym)
  PROVE  Carry!Encode
<1>1. EncodeFacts(sym) /\ status = "encoding" /\ status' = status
  BY EncodeStep DEF EncodeSymbol
<1>2. Carry!Narrow(sym)
  <2> DEFINE sum    == Sum(sym)
             width  == Width(sym)
             bottom == sum % (B * B)
             digits == IF sum < B * B THEN out ELSE Carry!Ripple(out)
  <2>1. IF width < B
          THEN /\ out' = Append(digits, bottom \div B)
               /\ low' = (bottom % B) * B
               /\ range' = width * B
          ELSE /\ out' = digits
               /\ low' = bottom
               /\ range' = width
    <3>1. Patched(sym) = digits /\ Bottom(sym) = bottom
      BY <1>1 DEF EncodeFacts, Bottom
    <3>2. Renormed(B, digits, bottom, width, out', low', range')
      BY <1>1, <3>1 DEF EncodeFacts
    <3> HIDE DEF digits, bottom, width
    <3> QED
      BY <3>2 DEF Renormed
  <2> QED
    BY <1>1, <2>1 DEF Carry!Narrow, Carry!Freq, r, Sum, Width, Freq
<1>3. sym \in Carry!Occurring(cum)
  BY DEF Occurring, Carry!Occurring, Symbols, Carry!Symbols, Freq, Carry!Freq
<1>4. left > 0 /\ left' = left - 1 /\ cum' = cum
  BY DEF EncodeSymbol
<1> QED
  BY <1>1, <1>2, <1>3, <1>4 DEF Carry!Encode

LEMMA FlushImplements ==
  ASSUME IInv, Flush
  PROVE  Carry!Flush
<1>1. /\ low = (low \div B) * B + (low % B)
      /\ out \in Seq(0 .. B - 1) /\ out' \in Seq(0 .. B - 1)
      /\ Len(out') = Len(out) + 2
      /\ out'[Len(out) + 1] = low \div B /\ out'[Len(out) + 2] = low % B
      /\ out' = Append(Append(out, low \div B), low % B)
      /\ status' = "written"
  BY FlushStep DEF IInv, TypeOK
<1>2. /\ status = "encoding" /\ left = 0 /\ cum' = cum /\ left' = left
      /\ range' = range
  BY DEF Flush
<1>3. out' = out \o <<low \div B, low % B>>
  <2> DEFINE hi == low \div B
             lo == low % B
  <2>0. hi \in 0 .. B - 1 /\ lo \in 0 .. B - 1
    BY FlushStep
  <2> HIDE DEF hi, lo
  <2>1. Append(Append(out, hi), lo) = out \o <<hi, lo>>
    BY <1>1, <2>0
  <2> QED
    BY <1>1, <2>1 DEF hi, lo
<1>4. out'[Len(out') - 1] * B + out'[Len(out')] = low
  <2>1. Len(out) \in Nat
    BY <1>1
  <2>2. Len(out') - 1 = Len(out) + 1 /\ Len(out') = Len(out) + 2
    BY <1>1, <2>1
  <2>3. out'[Len(out') - 1] = low \div B /\ out'[Len(out')] = low % B
    BY <1>1, <2>2
  <2> QED
    BY <1>1, <2>3
<1> QED
  BY <1>1, <1>2, <1>3, <1>4 DEF Carry!Flush

(* The bounded coder that patches the buffer in place implements the         *)
(* textbook coder: neither a word nor a carry is lost, at any file length.   *)
THEOREM Refinement == Spec => ImplementsCarryCoder
<1>1. Init => Carry!Init
  BY DEF Init, Carry!Init, Tables, Carry!Tables, Symbols, Carry!Symbols, Freq,
         Carry!Freq
<1>2. IInv /\ [Next]_vars => [Carry!Next]_(Carry!vars)
  <2> SUFFICES ASSUME IInv, [Next]_vars PROVE [Carry!Next]_(Carry!vars)
    OBVIOUS
  <2>1. CASE Encode
    <3>1. PICK sym \in Occurring(cum) : EncodeSymbol(sym)
      BY <2>1 DEF Encode
    <3> QED
      BY <3>1, EncodeImplements DEF Carry!Next
  <2>2. CASE Flush
    BY <2>2, FlushImplements DEF Carry!Next
  <2>3. CASE DecInit \/ Decode \/ UNCHANGED vars
    <3>1. UNCHANGED encVars
      BY <2>3 DEF DecInit, Decode, vars
    <3> QED
      BY <3>1 DEF encVars, Carry!vars
  <2> QED
    BY <2>1, <2>2, <2>3 DEF Next
<1> QED
  BY <1>1, <1>2, Invariance, PTL DEF Spec, Carry!Spec, ImplementsCarryCoder
=============================================================================
