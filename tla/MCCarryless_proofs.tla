------------------------- MODULE MCCarryless_proofs -------------------------
(***************************************************************************)
(* The theorems about the carryless coders for the two of them: RC32SUB,   *)
(* whose constants are those of the module, and RC24, which has one digit  *)
(* less in the same registers.                                             *)
(***************************************************************************)
EXTENDS MCCarryless, Carryless_proofs

P24 == INSTANCE Carryless_proofs WITH
         DIGITS <- DIGITS - 1, TOP <- TOP \div D, WORD <- TOP,
         CHECKED <- FALSE, HEADROOM <- HEADROOM - 1

(* The constants of RC24 are constants of a carryless coder.                *)
LEMMA NarrowConstants ==
  /\ DIGITS - 1 \in Nat \ {0}
  /\ TOP \div D \in Nat \ {0} /\ TOP = D * (TOP \div D)
  /\ \E k \in 1 .. TOP \div D : TOP \div D = k * BOT
  /\ \E k \in 1 .. D : REGISTER = k * (D * (TOP \div D))
  /\ REGISTER # D * (TOP \div D)
<1>1. PICK k \in 1 .. TOP : TOP = D * (k * BOT)
  BY NarrowAssumption
<1> DEFINE m == k * BOT
<1>2. m \in Nat \ {0} /\ k <= m
  <2>1. k \in Nat /\ 1 <= k
    BY ConstantTypes
  <2>2. k * BOT \in Nat /\ k <= k * BOT
    BY <2>1, ConstantTypes, SMTT(30)
  <2> QED
    BY <2>1, <2>2
<1>3. TOP \div D = m
  <2>1. TOP = D * m + 0 /\ m \in Int /\ TOP \in Int
    BY <1>1, <1>2, ConstantTypes
  <2>2. 0 \in 0 .. D - 1
    BY ConstantTypes
  <2> HIDE DEF m
  <2> QED
    BY <2>1, <2>2, Quotients, ConstantTypes
<1>4. k \in 1 .. m
  BY <1>2
<1>5. REGISTER = D * TOP /\ TOP = D * m
  BY <1>1, Constants, NarrowAssumption
<1>6. D \in 1 .. D /\ D * TOP # TOP
  <2>1. D \in 1 .. D
    BY ConstantTypes
  <2>2. D * TOP # TOP
    BY Constants, SMTT(30)
  <2> QED
    BY <2>1, <2>2
<1>7. DIGITS - 1 \in Nat \ {0}
  BY ConstantTypes, NarrowAssumption
<1>8. \E j \in 1 .. m : m = j * BOT
  BY <1>4
<1>9. \E j \in 1 .. D : REGISTER = j * (D * m)
  BY <1>5, <1>6
<1> HIDE DEF m
<1> QED
  BY <1>2, <1>3, <1>5, <1>6, <1>7, <1>8, <1>9

(* Its top digit has the weight it should have.                             *)
LEMMA NarrowWeight == TOP \div D = P24!Weight[(DIGITS - 1) - 1]
<1> DEFINE m == DIGITS - 1
           W == P24!Weight
           Bad == { i \in 0 .. m : W[i] # Weight[i] }
<1>1. D \in Nat \ {0} /\ m \in Nat \ {0} /\ DIGITS = m + 1
  BY ConstantTypes, NarrowConstants
<1>2. /\ W \in [0 .. m -> Nat] /\ W[0] = 1
      /\ \A i \in 1 .. m : W[i] = D * W[i - 1]
  <2>1. PowersUpTo(D, m, W)
    BY Zenon DEF P24!Weight, PowersUpTo
  <2> HIDE DEF W, m
  <2> QED
    BY <1>1, <2>1, Powers
<1>3. /\ Weight \in [0 .. DIGITS -> Nat] /\ Weight[0] = 1
      /\ \A i \in 1 .. DIGITS : Weight[i] = D * Weight[i - 1]
  BY Weights
<1> HIDE DEF W, m
<1>4. Bad = {}
  <2>1. ASSUME Bad # {} PROVE FALSE
    <3>1. Bad \in SUBSET Nat
      OBVIOUS
    <3>2. PICK k \in Bad : \A j \in Bad : k <= j
      <4> HIDE DEF Bad
      <4> QED
        BY <2>1, <3>1, LeastElement
    <3>3. k \in 0 .. m /\ W[k] # Weight[k]
      OBVIOUS
    <3>4. k # 0
      BY <1>2, <1>3, <3>3
    <3>5. k - 1 \in 0 .. m /\ ~ (k <= k - 1) /\ k \in 1 .. m /\ k \in 1 .. DIGITS
      BY <1>1, <3>3, <3>4
    <3>6. W[k - 1] = Weight[k - 1]
      BY <3>2, <3>5
    <3> QED
      BY <1>2, <1>3, <3>3, <3>5, <3>6
  <2> QED
    BY <2>1
<1>5. m - 1 \in 0 .. m /\ m - 1 \in 0 .. DIGITS /\ m \in 1 .. DIGITS
      /\ DIGITS - 1 = m
  BY <1>1
<1> DEFINE x == Weight[m - 1]
           t == TOP \div D
<1>6. W[m - 1] = x /\ x \in Nat /\ TOP = D * x
  BY <1>3, <1>4, <1>5, DigitsAssumption
<1>7. t = x
  <2>1. t \in Nat /\ TOP = D * t
    BY NarrowConstants
  <2> HIDE DEF t, x
  <2> QED
    BY <1>1, <1>6, <2>1, SMTT(30)
<1> QED
  BY <1>6, <1>7 DEF W, m, t

LEMMA NarrowBounds ==
  /\ FALSE \in BOOLEAN /\ HEADROOM - 1 \in Nat /\ MAX_SYMBOLS \in Nat
  BY BoundAssumption, NarrowAssumption

-----------------------------------------------------------------------------
(* The two instances of the module have the same definitions.               *)
LEMMA SameTable ==
  /\ Rc24!Tables = P24!Tables
  /\ \A table, s : Rc24!Freq(table, s) = P24!Freq(table, s)
  /\ \A table : Rc24!Occurring(table) = P24!Occurring(table)
  /\ \A table, v : Rc24!Find(table, v) = P24!Find(table, v)
  /\ Rc24!Symbols = P24!Symbols
  BY Zenon DEF Rc24!Tables, P24!Tables, Rc24!Freq, P24!Freq, Rc24!Occurring,
     P24!Occurring, Rc24!Find, P24!Find, Rc24!Symbols, P24!Symbols

LEMMA SameTurn ==
  /\ \A lo, rg : Rc24!MustShift(lo, rg) <=> P24!MustShift(lo, rg)
  /\ \A lo, rg : Rc24!Kept(lo, rg) = P24!Kept(lo, rg)
  /\ \A lo : Rc24!ShiftedLow(lo) = P24!ShiftedLow(lo)
  /\ \A rg : Rc24!ShiftedRange(rg) = P24!ShiftedRange(rg)
  BY Zenon DEF Rc24!MustShift, P24!MustShift, Rc24!MustTrim, P24!MustTrim,
     Rc24!TopAgrees, P24!TopAgrees, Rc24!Kept, P24!Kept, Rc24!Trimmed,
     P24!Trimmed, Rc24!ShiftedLow, P24!ShiftedLow, Rc24!ShiftedRange,
     P24!ShiftedRange

LEMMA SameInit == Rc24!Init <=> P24!Init
  BY SameTable, Zenon DEF Rc24!Init, P24!Init

LEMMA SameCut ==
  /\ \A digits : Rc24!Cut(digits) = P24!Cut(digits)
  /\ Rc24!cap = P24!cap
  BY Zenon DEF Rc24!Cut, P24!Cut, Rc24!cap, P24!cap

LEMMA SameFlush ==
  Rc24!FlushLow = P24!FlushLow /\ Rc24!LowDigits = P24!LowDigits
  BY Zenon DEF Rc24!FlushLow, P24!FlushLow, Rc24!LowDigits, P24!LowDigits

LEMMA SameEncode == Rc24!Encode <=> P24!Encode
  BY SameTable, Zenon DEF Rc24!Encode, P24!Encode, Rc24!EncodeSymbol,
     P24!EncodeSymbol, Rc24!decVars, P24!decVars

LEMMA SameEncodeShift == Rc24!EncodeShift <=> P24!EncodeShift
  BY SameTurn, SameCut, Zenon DEF Rc24!EncodeShift, P24!EncodeShift,
     Rc24!decVars, P24!decVars

LEMMA SameEncodeReady == Rc24!EncodeReady <=> P24!EncodeReady
  BY SameTurn, Zenon DEF Rc24!EncodeReady, P24!EncodeReady, Rc24!decVars,
     P24!decVars

LEMMA SameFlushed == Rc24!Flush <=> P24!Flush
  BY SameFlush, SameCut, Zenon DEF Rc24!Flush, P24!Flush, Rc24!decVars,
     P24!decVars

LEMMA SameDecInit == Rc24!DecInit <=> P24!DecInit
  BY Zenon DEF Rc24!DecInit, P24!DecInit, Rc24!FirstDigits, P24!FirstDigits,
     Rc24!encVars, P24!encVars

LEMMA SameLookup ==
  /\ Rc24!Quotient = P24!Quotient /\ Rc24!GetCum = P24!GetCum
  /\ Rc24!dec_r = P24!dec_r
  BY Zenon DEF Rc24!Quotient, P24!Quotient, Rc24!GetCum, P24!GetCum,
     Rc24!dec_r, P24!dec_r

LEMMA SameDecodeSymbol == Rc24!DecodeSymbol <=> P24!DecodeSymbol
  BY SameTable, SameLookup, Zenon DEF Rc24!DecodeSymbol, P24!DecodeSymbol,
     Rc24!encVars, P24!encVars

LEMMA SameDecodeShift == Rc24!DecodeShift <=> P24!DecodeShift
  BY SameTurn, Zenon DEF Rc24!DecodeShift, P24!DecodeShift, Rc24!NextDigit,
     P24!NextDigit, Rc24!NextPos, P24!NextPos, Rc24!encVars, P24!encVars

LEMMA SameDecodeReady == Rc24!DecodeReady <=> P24!DecodeReady
  BY SameTurn, Zenon DEF Rc24!DecodeReady, P24!DecodeReady, Rc24!encVars,
     P24!encVars

LEMMA SameNext == Rc24!Next <=> P24!Next
  BY SameEncode, SameEncodeShift, SameEncodeReady, SameFlushed, SameDecInit,
     SameDecodeSymbol, SameDecodeShift, SameDecodeReady, Zenon
     DEF Rc24!Next, P24!Next

LEMMA SameProperties ==
  /\ Rc24!TypeOK <=> P24!TypeOK
  /\ Rc24!NoCarry <=> P24!NoCarry
  /\ Rc24!DecodesWhatWasCoded <=> P24!DecodesWhatWasCoded
  /\ Rc24!ReadsExactlyTheStream <=> P24!ReadsExactlyTheStream
<1>1. Rc24!TypeOK <=> P24!TypeOK
  BY SameTable, Zenon DEF Rc24!TypeOK, P24!TypeOK
<1>2. Rc24!NoCarry <=> P24!NoCarry
  BY SameTurn, Zenon DEF Rc24!NoCarry, P24!NoCarry
<1>3. Rc24!DecodesWhatWasCoded <=> P24!DecodesWhatWasCoded
  BY SameLookup, Zenon DEF Rc24!DecodesWhatWasCoded, P24!DecodesWhatWasCoded
<1>4. Rc24!ReadsExactlyTheStream <=> P24!ReadsExactlyTheStream
  BY Zenon DEF Rc24!ReadsExactlyTheStream, P24!ReadsExactlyTheStream
<1> QED
  BY <1>1, <1>2, <1>3, <1>4

-----------------------------------------------------------------------------
(* The invariant of the coder that runs.                                    *)
CodersInv ==
  /\ coder \in {"rc24", "rc32sub"}
  /\ coder = "rc24" => P24!IInv
  /\ coder = "rc32sub" => IInv

(* What holds of every carryless coder, for the constants of RC24.          *)
LEMMA NarrowInitial ==
  ASSUME P24!Init
  PROVE  P24!IInv
  BY P24!Initial, NarrowConstants, NarrowWeight, NarrowBounds,
     DigitAssumption, AlphabetAssumption, TotalAssumption, TotalBelowBot,
     BotAssumption

LEMMA NarrowStep ==
  ASSUME P24!IInv, [P24!Next]_P24!vars
  PROVE  P24!IInv'
  BY P24!Step, NarrowConstants, NarrowWeight, NarrowBounds,
     DigitAssumption, AlphabetAssumption, TotalAssumption, TotalBelowBot,
     BotAssumption

LEMMA CodersInitial == CodersInit => CodersInv
<1> SUFFICES ASSUME CodersInit PROVE CodersInv
  OBVIOUS
<1>1. CASE coder = "rc24" /\ Rc24!Init
  <2>1. P24!IInv
    BY <1>1, SameInit, NarrowInitial
  <2> QED
    BY <1>1, <2>1 DEF CodersInv
<1>2. CASE coder = "rc32sub" /\ Init
  BY <1>2, Initial DEF CodersInv
<1> QED
  BY <1>1, <1>2 DEF CodersInit

LEMMA CodersStep ==
  ASSUME CodersInv, [CodersNext]_<<coder, vars>>
  PROVE  CodersInv'
<1>1. coder' = coder /\ coder \in {"rc24", "rc32sub"}
  BY DEF CodersInv, CodersNext
<1>2. ASSUME coder = "rc24" PROVE P24!IInv'
  <2>1. P24!IInv
    BY <1>2 DEF CodersInv
  <2>2. [Rc24!Next]_vars
    BY <1>2 DEF CodersNext
  <2>3. UNCHANGED vars => UNCHANGED P24!vars
    BY DEF vars, P24!vars, encVars, decVars, P24!encVars, P24!decVars
  <2>4. [P24!Next]_P24!vars
    BY <2>2, <2>3, SameNext
  <2> QED
    BY <2>1, <2>4, NarrowStep
<1>3. ASSUME coder = "rc32sub" PROVE IInv'
  <2>1. IInv /\ [Next]_vars
    BY <1>3 DEF CodersInv, CodersNext
  <2> QED
    BY <2>1, Step
<1> QED
  BY <1>1, <1>2, <1>3 DEF CodersInv

(* The invariant holds for both coders.                                     *)
THEOREM CodersInvariance == CodersSpec => []CodersInv
<1>1. CodersInv /\ [CodersNext]_<<coder, vars>> => CodersInv'
  BY CodersStep
<1> QED
  BY CodersInitial, <1>1, PTL DEF CodersSpec

LEMMA NarrowProperties ==
  ASSUME P24!IInv
  PROVE  /\ P24!TypeOK /\ P24!NoCarry /\ P24!DecodesWhatWasCoded
         /\ P24!ReadsExactlyTheStream
  BY P24!TypesHold, P24!DigitsHold, P24!SymbolsComeBack, P24!StreamEnds,
     NarrowConstants, NarrowWeight, NarrowBounds,
     DigitAssumption, AlphabetAssumption, TotalAssumption, TotalBelowBot,
     BotAssumption

LEMMA CodersProperties ==
  ASSUME CodersInv
  PROVE  RangeRestored /\ DigitsSettled /\ DecodersInStep /\ StreamsUsedUp
<1>1. CASE coder = "rc24"
  <2>1. P24!IInv
    BY <1>1 DEF CodersInv
  <2> QED
    BY <1>1, <2>1, NarrowProperties, SameProperties
       DEF RangeRestored, DigitsSettled, DecodersInStep, StreamsUsedUp
<1>2. CASE coder = "rc32sub"
  <2>1. IInv
    BY <1>2 DEF CodersInv
  <2> QED
    BY <1>2, <2>1, TypesHold, DigitsHold, SymbolsComeBack, StreamEnds
       DEF RangeRestored, DigitsSettled, DecodersInStep, StreamsUsedUp
<1> QED
  BY <1>1, <1>2 DEF CodersInv

(* The loops of rc24_enc_step, rc32sub_enc_step and their decoders leave    *)
(* range at BOT or above, so that the next symbol has a part of it.         *)
THEOREM RangeIsRestored == CodersSpec => []RangeRestored
  BY CodersInvariance, CodersProperties, PTL

(* No digit that was written can change (rc24_codec.h:40-46,                *)
(* rc32sub_codec.h:65-83): what these coders save the carry for.            *)
THEOREM DigitsAreSettledInBoth == CodersSpec => []DigitsSettled
  BY CodersInvariance, CodersProperties, PTL

(* Both decoders give back every file, and every value they look up is in   *)
(* the table: RC24 needs no clamp, and that of rc32sub_decode.c:117 never   *)
(* acts on a stream the encoder wrote.                                      *)
THEOREM BothAreLossless == CodersSpec => []DecodersInStep
  BY CodersInvariance, CodersProperties, PTL

(* Both decoders end at the last digit of their stream and never read       *)
(* behind it (rc24_codec.h:93-114, which does not check).                   *)
THEOREM BothStreamsAreUsedUp == CodersSpec => []StreamsUsedUp
  BY CodersInvariance, CodersProperties, PTL
=============================================================================
