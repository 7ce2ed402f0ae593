-------------------------------- MODULE Fse ----------------------------------
(***************************************************************************)
(* lib/fse_compress.c, lib/fse_decompress.c and lib/fse.h: the tabled      *)
(* asymmetric coder.  Frequencies are normalized to a power of two and     *)
(* spread over a table; two states take turns in coding the symbols of a   *)
(* block, the last symbol first.                                           *)
(*                                                                         *)
(* A distribution is a function from the symbols 0..maxSymbolValue: the    *)
(* count of the symbol, or its normalized share, where -1 stands for less  *)
(* than one cell.  Results that may be an error are records with field ok. *)
(***************************************************************************)
EXTENDS BitStream

CONSTANTS
  FSE_MIN_TABLELOG,   \* 5
  FSE_MAX_TABLELOG,   \* 14 as the build sets FSE_MAX_MEMORY_USAGE
  PRECISION           \* bits of the fixed-point shares (62)

(* The encoder flushes once per turn of four symbols: the static test of    *)
(* FSE_compress_usingCTable_generic that chooses the longer turn.           *)
ASSUME TurnAssumption == CONTAINER_BITS > FSE_MAX_TABLELOG * 4 + BYTE_BITS - 1

Failed == [ok |-> FALSE]

InOrder(S)    == SelectSeq([ k \in 1 .. Max(S \cup {0}) + 1 |-> k - 1 ], LAMBDA s : s \in S)
Total(dist)   == FoldFunction(+, 0, dist)
Share(n)      == IF n = -1 THEN 1 ELSE n

-----------------------------------------------------------------------------
FSE_minTableLog(srcSize, maxSymbolValue) ==
  Min({BIT_highbit32(srcSize) + 1, BIT_highbit32(maxSymbolValue) + 2})

FSE_optimalTableLog_internal(maxTableLog, srcSize, maxSymbolValue, minus) ==
  LET maxBitsSrc == BIT_highbit32(srcSize - 1) - minus   \* below zero it wraps
      accuracy == IF maxBitsSrc \in 0 .. maxTableLog THEN maxBitsSrc ELSE maxTableLog
      enough   == Max({accuracy, FSE_minTableLog(srcSize, maxSymbolValue)})
  IN Min({Max({enough, FSE_MIN_TABLELOG}), FSE_MAX_TABLELOG})

(* The second method, for distributions whose rounded shares overdraw the   *)
(* most frequent symbol.  m is what it knows: the rare symbols of less than *)
(* a cell, the ones that are given a single cell, and the cells and counts  *)
(* left for the others.                                                     *)
SumOf(count, T) == MapThenSumSet(LAMBDA s : count[s], T)

M2_pass(count, tableLog, lowThreshold, lowOne) ==
  LET rare == { s \in DOMAIN count : count[s] \in 1 .. lowThreshold }
      low  == { s \in DOMAIN count : count[s] \in 1 .. Max({lowThreshold, lowOne}) }
  IN [rare |-> rare, ones |-> low \ rare, lowOne |-> lowOne,
      toDistribute |-> 2 ^ tableLog - Cardinality(low),
      left |-> Total(count) - SumOf(count, low)]

(* Symbols that a larger share of what is left would still round to zero.   *)
M2_secondPass(count, m) ==
  LET lowOne == IF m.left \div m.toDistribute > m.lowOne
                  THEN (m.left * 3) \div (m.toDistribute * 2) ELSE 0
      more == { s \in DOMAIN count \ (m.rare \cup m.ones) : count[s] \in 1 .. lowOne }
  IN [ m EXCEPT !.ones = @ \cup more, !.toDistribute = @ - Cardinality(more),
                !.left = @ - SumOf(count, more) ]

(* The shares so far; -2 stands for one that is still to be found.          *)
M2_norm(count, m) ==
  [ s \in DOMAIN count |-> CASE count[s] = 0 -> 0
                             [] s \in m.rare -> -1
                             [] s \in m.ones -> 1
                             [] OTHER -> -2 ]

(* The cells that are left: to the most frequent symbol if all are poor, in *)
(* turns if only symbols without a count are not, and else by remainders,   *)
(* so that rounding errors do not add up.                                   *)
M2_distribute(count, tableLog, m, norm) ==
  LET S == DOMAIN count
      richest == Min({ s \in S : \A t \in S : count[t] <= count[s] })
      turns(s) == (m.toDistribute \div Cardinality(m.ones))
                   + (IF Cardinality({ t \in m.ones : t < s })
                           < m.toDistribute % Cardinality(m.ones) THEN 1 ELSE 0)
      cell  == 2 ^ (PRECISION - tableLog)
      mid   == cell \div 2 - 1
      rStep == (cell * m.toDistribute + mid) \div m.left
      share(acc, s) ==
        LET end == acc.tmp + count[s] * rStep
            weight == end \div cell - acc.tmp \div cell
        IN [ok |-> acc.ok /\ weight >= 1, tmp |-> end,
            norm |-> [ acc.norm EXCEPT ![s] = weight ]]
  IN CASE m.rare \cup m.ones = S ->
            [ok |-> TRUE, norm |-> [ norm EXCEPT ![richest] = @ + m.toDistribute ]]
       [] m.left = 0 /\ m.rare \cup m.ones # S ->
            [ok |-> TRUE, norm |-> [ s \in S |-> IF s \in m.ones THEN 1 + turns(s) ELSE norm[s] ]]
       [] OTHER -> FoldLeft(share, [ok |-> TRUE, tmp |-> mid, norm |-> norm],
                            InOrder({ s \in S : norm[s] = -2 }))

(* Cells that are left after the first pass are given out after a second.  *)
M2_after(count, tableLog, m) ==
  IF m.toDistribute = 0 THEN [ok |-> TRUE, norm |-> M2_norm(count, m)]
  ELSE LET second == M2_secondPass(count, m)
       IN M2_distribute(count, tableLog, second, M2_norm(count, second))

FSE_normalizeM2(count, tableLog) ==
  M2_after(count, tableLog,
    M2_pass(count, tableLog, Total(count) \div 2 ^ tableLog,
            (Total(count) * 3) \div 2 ^ (tableLog + 1)))

(* What a share must exceed its floor by, to be rounded up: in millionths,  *)
(* about, by the size of the share.                                         *)
rtbTable == << 0, 473195, 504333, 520860, 550000, 700000, 750000, 830000 >>

(* Faulty variant: what the rounding leaves over is not given to anyone.    *)
FSE_normalizeCountUnbalanced(count, tableLog) ==
  LET total == Total(count)
      scale == PRECISION - tableLog
      step  == 2 ^ PRECISION \div total
  IN [ok |-> TRUE,
      norm |-> [ s \in DOMAIN count |->
                   IF count[s] = 0 THEN 0
                   ELSE IF count[s] <= total \div 2 ^ tableLog THEN -1
                   ELSE (count[s] * step) \div 2 ^ scale ]]

(* Each symbol's share, rounded on its own: floor is the share cut to whole *)
(* cells, and a small one is raised if what was cut is more than the table  *)
(* grants.                                                                  *)
FSE_proba(floor, tableLog, product) ==
  LET scale == PRECISION - tableLog
  IN IF floor < 8 /\ product % 2 ^ scale > 2 ^ (scale - 20) * rtbTable[floor + 1]
       THEN floor + 1 ELSE floor

(* A symbol that occurs but is worth less than a cell gets a share of -1.   *)
FSE_rounded(count, tableLog, total) ==
  [ s \in DOMAIN count |->
      IF count[s] = 0 THEN 0
      ELSE IF count[s] <= total \div 2 ^ tableLog THEN -1
      ELSE LET product == count[s] * (2 ^ PRECISION \div total)
           IN FSE_proba(product \div 2 ^ (PRECISION - tableLog), tableLog, product) ]

(* The most frequent symbol takes what the rounding leaves, if it can bear  *)
(* it.                                                                      *)
FSE_balanced(count, tableLog, rounded) ==
  LET S == DOMAIN count
      largest == IF \E s \in S : rounded[s] > 0
                   THEN Min({ s \in S : rounded[s] > 0 /\ \A t \in S : rounded[t] <= rounded[s] })
                   ELSE 0
      still == 2 ^ tableLog - MapThenSumSet(LAMBDA s : Share(rounded[s]), S)
  IN IF -still >= rounded[largest] \div 2 THEN FSE_normalizeM2(count, tableLog)
     ELSE [ok |-> TRUE, norm |-> [ rounded EXCEPT ![largest] = @ + still ]]

(* Shares of 2^tableLog cells for the symbols that occur.  The caller has   *)
(* seen more than one symbol.                                               *)
FSE_normalizeCount(count, tableLog) ==
  IF \/ tableLog < FSE_MIN_TABLELOG
     \/ tableLog > FSE_MAX_TABLELOG
     \/ tableLog < FSE_minTableLog(Total(count), Max(DOMAIN count))
    THEN Failed
    ELSE FSE_balanced(count, tableLog, FSE_rounded(count, tableLog, Total(count)))

-----------------------------------------------------------------------------
(* The symbols over the cells of the table: a cell at the top for each      *)
(* share of -1, and the others in steps that reach every cell below.        *)
FSE_TABLESTEP(tableSize) == tableSize \div 2 + tableSize \div 8 + 3

FSE_spread(norm, tableLog) ==
  LET tableSize == 2 ^ tableLog
      low  == InOrder({ s \in DOMAIN norm : norm[s] = -1 })
      highThreshold == tableSize - 1 - Len(low)
      walk == SelectSeq([ k \in 1 .. tableSize |-> ((k - 1) * FSE_TABLESTEP(tableSize)) % tableSize ],
                        LAMBDA p : p <= highThreshold)
      occurrences ==
        FlattenSeq([ k \in 1 .. Cardinality(DOMAIN norm) |->
                       [ i \in 1 .. Max({0, norm[k - 1]}) |-> k - 1 ] ])
      cells == [ u \in 0 .. tableSize - 1 |->
                   IF u > highThreshold THEN low[tableSize - u]
                   ELSE occurrences[CHOOSE k \in DOMAIN walk : walk[k] = u] ]
  IN IF Len(occurrences) # Len(walk) THEN Failed ELSE [ok |-> TRUE, cells |-> cells]

(* The first cell of each symbol in the table sorted by symbols, and how    *)
(* many cells of its symbol stand before cell u.                            *)
Cumul(norm) ==
  [ s \in DOMAIN norm |-> MapThenSumSet(LAMBDA t : Share(norm[t]), 0 .. s - 1) ]

Before(cells, u) == Cardinality({ v \in 0 .. u - 1 : cells[v] = cells[u] })

FSE_buildCTable(norm, tableLog) ==
  LET tableSize == 2 ^ tableLog
      cells == FSE_spread(norm, tableLog).cells
      cumul == Cumul(norm)
      place == [ u \in 0 .. tableSize - 1 |-> cumul[cells[u]] + Before(cells, u) ]
      transform(s) ==
        IF Share(norm[s]) = 1
          THEN [deltaNbBits |-> tableLog * 2 ^ 16 - tableSize,
                deltaFindState |-> cumul[s] - 1]
        ELSE LET maxBitsOut == tableLog - BIT_highbit32(norm[s] - 1)
             IN [deltaNbBits |-> maxBitsOut * 2 ^ 16 - norm[s] * 2 ^ maxBitsOut,
                 deltaFindState |-> cumul[s] - norm[s]]
  IN [tableLog |-> tableLog,
      stateTable |-> [ i \in 0 .. tableSize - 1 |->
                         tableSize + (CHOOSE u \in 0 .. tableSize - 1 : place[u] = i) ],
      symbolTT |-> [ s \in { t \in DOMAIN norm : norm[t] # 0 } |-> transform(s) ]]

(* Faulty variant: the symbol is coded from the first state, as any other.  *)
FSE_initCState2First(ct, symbol) ==
  LET tt == ct.symbolTT[symbol]
      value == 2 ^ ct.tableLog
      nbBitsOut == (value + tt.deltaNbBits) \div 2 ^ 16
  IN ct.stateTable[value \div 2 ^ nbBitsOut + tt.deltaFindState]

(* The first symbol of a state costs nothing: it starts at the smallest     *)
(* value from which it would take all its bits.                             *)
FSE_initCState2(ct, symbol) ==
  LET tt == ct.symbolTT[symbol]
      nbBitsOut == (tt.deltaNbBits + 2 ^ 15) \div 2 ^ 16
      value == nbBitsOut * 2 ^ 16 - tt.deltaNbBits
  IN ct.stateTable[value \div 2 ^ nbBitsOut + tt.deltaFindState]

(* e is an encoder: its writer w and its two states, by the parity of the   *)
(* places they code.                                                        *)
FSE_encodeSymbol(e, ct, place, symbol) ==
  LET tt == ct.symbolTT[symbol]
      value == e.state[place % 2]
      nbBitsOut == (value + tt.deltaNbBits) \div 2 ^ 16
  IN [w |-> BIT_addBits(e.w, value, nbBitsOut),
      state |-> [ e.state EXCEPT ![place % 2] =
                    ct.stateTable[value \div 2 ^ nbBitsOut + tt.deltaFindState] ]]

FSE_flushCState(e, ct, p) ==
  [ e EXCEPT !.w = BIT_flushBits(BIT_addBits(@, e.state[p], ct.tableLog)) ]

(* Faulty variant: the writer goes out after eight symbols.                 *)
FlushDueLate(place, n) == place % 8 = 1

(* The writer goes out when what is left is a multiple of four, and after   *)
(* the odd symbol of n.                                                     *)
FlushDue(place, n) == place % 4 = 1 \/ (n % 2 = 1 /\ place = n - 2)

(* The symbols from the given place down to the first.  Nothing follows     *)
(* bits that were lost.                                                     *)
RECURSIVE FSE_encodeSymbols(_, _, _, _, _)
FSE_encodeSymbols(e, ct, src, place, n) ==
  LET coded == FSE_encodeSymbol(e, ct, place, src[place])
      next  == IF FlushDue(place, n) THEN [ coded EXCEPT !.w = BIT_flushBits(@) ] ELSE coded
  IN IF place = 0 \/ ~e.w.held THEN e ELSE FSE_encodeSymbols(next, ct, src, place - 1, n)

(* A block of symbols, from its last one to its first.  No stream (<< >>)   *)
(* for one or two symbols.  [stream, held] is the result.                   *)
FSE_compress_usingCTable(src, ct, capacity) ==
  LET n == Len(src)
      start == [w |-> BIT_initCStream,
                state |-> [ p \in {0, 1} |->
                  FSE_initCState2(ct, src[IF n % 2 = p THEN n ELSE n - 1]) ]]
      coded == FSE_encodeSymbols(start, ct, src, n - 2, n)
      ended == FSE_flushCState(FSE_flushCState(coded, ct, 0), ct, 1)
  IN IF n <= 2 \/ capacity <= WORD_BYTES THEN [stream |-> << >>, held |-> TRUE]
     ELSE [stream |-> BIT_closeCStream(ended.w, capacity),
           held |-> BIT_addBits(ended.w, 1, 1).held]

-----------------------------------------------------------------------------
EveryCellTakesBits(norm, tableLog) == \A s \in DOMAIN norm : norm[s] < 2 ^ (tableLog - 1)

(* Each cell of the decoding table: its symbol, the bits it takes and the   *)
(* base of the next state.  fast allows the reading that needs some bits.   *)
DecodingCell(tableLog, s, nextState) ==
  LET nbBits == tableLog - BIT_highbit32(nextState)
  IN [symbol |-> s, nbBits |-> nbBits, newState |-> nextState * 2 ^ nbBits - 2 ^ tableLog]

DecodingTable(norm, tableLog, laid) ==
  IF tableLog > FSE_MAX_TABLELOG \/ ~laid.ok THEN Failed
  ELSE [ok |-> TRUE, tableLog |-> tableLog, fast |-> EveryCellTakesBits(norm, tableLog),
        cells |-> [ u \in 0 .. 2 ^ tableLog - 1 |->
          DecodingCell(tableLog, laid.cells[u],
                       Share(norm[laid.cells[u]]) + Before(laid.cells, u)) ]]

(* The decoder spreads the symbols as the encoder does.                     *)
FSE_buildDTable(norm, tableLog) == DecodingTable(norm, tableLog, FSE_spread(norm, tableLog))

(* A decoder: its reader d, its two states, and what it has decoded.        *)
FSE_initDState(r, dt, p) ==
  [ r EXCEPT !.d = BIT_reloadDStream(BIT_skipBits(@, dt.tableLog)).d,
             !.state[p] = BIT_lookBits(r.d, dt.tableLog) ]

FSE_decodeSymbol(r, dt, p) ==
  LET cell == dt.cells[r.state[p]]
      low  == IF dt.fast THEN BIT_lookBitsFast(r.d, cell.nbBits)
              ELSE BIT_lookBits(r.d, cell.nbBits)
  IN [d |-> BIT_skipBits(r.d, cell.nbBits),
      state |-> [ r.state EXCEPT ![p] = cell.newState + low ],
      out |-> Append(r.out, cell.symbol)]

(* Four symbols per reload while the reader is full.                        *)
RECURSIVE FSE_turns(_, _, _)
FSE_turns(r, dt, size) ==
  LET reload == BIT_reloadDStream(r.d)
      here == [ r EXCEPT !.d = reload.d ]
      pair(x) == FSE_decodeSymbol(FSE_decodeSymbol(x, dt, 1), dt, 0)
  IN IF reload.status = "unfinished" /\ Len(r.out) < size - 3
       THEN FSE_turns(pair(pair(here)), dt, size) ELSE here

(* Then one at a time; the symbol that takes bits behind the end of the     *)
(* stream is the last but one.                                              *)
RECURSIVE FSE_tail(_, _, _, _)
FSE_tail(r, dt, size, p) ==
  LET one == FSE_decodeSymbol(r, dt, p)
      reload == BIT_reloadDStream(one.d)
      here == [ one EXCEPT !.d = reload.d ]
  IN IF Len(r.out) > size - 2 THEN Failed
     ELSE IF reload.status = "overflow"
       THEN [ok |-> TRUE, out |-> FSE_decodeSymbol(here, dt, 1 - p).out]
     ELSE FSE_tail(here, dt, size, 1 - p)

FSE_decompress_usingDTable(stream, dt, size) ==
  LET start == [d |-> BIT_initDStream(stream), state |-> [ p \in {0, 1} |-> 0 ],
                out |-> << >>]
  IN IF ~HasEndMark(stream) THEN Failed
     ELSE FSE_tail(FSE_turns(FSE_initDState(FSE_initDState(start, dt, 1), dt, 0), dt, size),
                   dt, size, 1)

(* With the table that was built, if it could be.                           *)
FSE_decompressWith(stream, size, dt) ==
  IF dt.ok THEN FSE_decompress_usingDTable(stream, dt, size) ELSE Failed

-----------------------------------------------------------------------------
(* FSE_writeNCount and FSE_readNCount: a distribution as bits.  A share is  *)
(* written in nbBits bits, one less if it is small, where nbBits follows    *)
(* what remains of the table; after a zero stands the number of further     *)
(* zeros, by threes.  acc carries what both sides know of the table.        *)
NCountStart(tableLog) ==
  [remaining |-> 2 ^ tableLog + 1, threshold |-> 2 ^ tableLog, nbBits |-> tableLog + 1,
   previous0 |-> FALSE]

RECURSIVE NCountNarrowed(_)
NCountNarrowed(acc) ==
  IF acc.remaining < acc.threshold
    THEN NCountNarrowed([ acc EXCEPT !.nbBits = @ - 1, !.threshold = @ \div 2 ])
    ELSE acc

NCountAfter(acc, share) ==
  NCountNarrowed([ acc EXCEPT !.remaining = @ - Share(share), !.previous0 = share = 0 ])

(* How many values have the shorter form.                                   *)
NCountShort(acc) == 2 * acc.threshold - 1 - acc.remaining

RECURSIVE FSE_writeShares(_, _, _, _)
FSE_writeShares(norm, symbol, acc, bits) ==
  LET n == Cardinality(DOMAIN norm)
      zeros == Min({ k \in 0 .. n - symbol :
                       symbol + k = n \/ norm[symbol + k] # 0 })
      run   == FlattenSeq([ k \in 1 .. zeros \div 3 |-> BitsOf(3, 2) ])
                 \o BitsOf(zeros % 3, 2)
      short == NCountShort(acc)
      raised == norm[symbol] + 1
      field == IF raised >= acc.threshold THEN raised + short ELSE raised
  IN IF symbol >= n \/ acc.remaining <= 1
       THEN IF acc.remaining = 1 THEN [ok |-> TRUE, bits |-> Padded(bits)] ELSE Failed
     ELSE IF acc.previous0
       THEN FSE_writeShares(norm, symbol + zeros, [ acc EXCEPT !.previous0 = FALSE ], bits \o run)
     ELSE IF acc.remaining - Share(norm[symbol]) < 1 THEN Failed
     ELSE FSE_writeShares(norm, symbol + 1, NCountAfter(acc, norm[symbol]),
            bits \o BitsOf(field, IF field < short THEN acc.nbBits - 1 ELSE acc.nbBits))

FSE_writeNCount(norm, tableLog) ==
  FSE_writeShares(norm, 0, NCountStart(tableLog), BitsOf(tableLog - FSE_MIN_TABLELOG, 4))

(* The reader takes whole fields and checks the shorter form first; bits    *)
(* behind the end read as zero.  [ok, norm, tableLog, stream] is the result, *)
(* stream being the bytes behind the distribution.                          *)
Peek(bits, at, nbBits) ==
  ValueOf([ j \in 1 .. nbBits |-> IF at + j <= Len(bits) THEN bits[at + j] ELSE 0 ])

RECURSIVE FSE_readShares(_, _, _, _, _)
FSE_readShares(bits, at, acc, maxSV, shares) ==
  LET short == NCountShort(acc)
      low   == Peek(bits, at, acc.nbBits - 1)
      whole == Peek(bits, at, acc.nbBits)
      field == IF low < short THEN low
               ELSE IF whole >= acc.threshold THEN whole - short ELSE whole
      width == IF low < short THEN acc.nbBits - 1 ELSE acc.nbBits
      threes == Min({ k \in 0 .. Len(bits) : Peek(bits, at + 2 * k, 2) # 3 })
      zeros == 3 * threes + Peek(bits, at + 2 * threes, 2)
  IN IF acc.remaining <= 1 \/ Len(shares) > maxSV
       THEN IF acc.remaining = 1
              THEN [ok |-> TRUE, norm |-> [ s \in 0 .. Len(shares) - 1 |-> shares[s + 1] ],
                    used |-> BytesFor(at) * BYTE_BITS]
              ELSE Failed
     ELSE IF acc.previous0
       THEN IF Len(shares) + zeros > maxSV THEN Failed
            ELSE FSE_readShares(bits, at + 2 * (threes + 1), [ acc EXCEPT !.previous0 = FALSE ],
                                maxSV, shares \o [ k \in 1 .. zeros |-> 0 ])
     ELSE FSE_readShares(bits, at + width, NCountAfter(acc, field - 1), maxSV,
                         Append(shares, field - 1))

FSE_readNCount(bits, maxSV) ==
  LET tableLog == Peek(bits, 0, 4) + FSE_MIN_TABLELOG
      read == FSE_readShares(bits, 4, NCountStart(tableLog), maxSV, << >>)
  IN IF tableLog > 15 \/ ~read.ok \/ read.used > Len(bits) THEN Failed
     ELSE [ok |-> TRUE, norm |-> read.norm, tableLog |-> tableLog,
           stream |-> SubSeq(bits, read.used + 1, Len(bits))]
=============================================================================
