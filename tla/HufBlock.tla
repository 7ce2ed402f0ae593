------------------------------ MODULE HufBlock -------------------------------
(***************************************************************************)
(* HUF_compress and HUF_decompress: a block in four streams behind the     *)
(* description of its tree.  A coded block is [status, size], and with     *)
(* status "coded" also its header, the jump table of the first three       *)
(* streams' lengths, and the streams as one sequence of bits.              *)
(***************************************************************************)
EXTENDS Huf

(* The four segments of a block: three of a quarter, rounded up.            *)
Segment(src, k) ==
  LET size == (Len(src) + 3) \div 4
  IN SubSeq(src, (k - 1) * size + 1, IF k = 4 THEN Len(src) ELSE k * size)

(* The symbols from the given place down to the first; the writer goes out  *)
(* when a multiple of four is left.  Nothing follows bits that were lost.   *)
RECURSIVE HUF_encodeSymbols(_, _, _, _, _)
HUF_encodeSymbols(w, tree, codes, src, place) ==
  LET coded == BIT_addBits(w, codes[src[place]], tree.nbBits[src[place]])
      next  == IF place % 4 = 1 THEN BIT_flushBits(coded) ELSE coded
  IN IF place = 0 \/ ~w.held THEN w ELSE HUF_encodeSymbols(next, tree, codes, src, place - 1)

Closed(w, capacity) ==
  [stream |-> BIT_closeCStream(w, capacity), held |-> BIT_addBits(w, 1, 1).held]

HUF_compress1X_usingCTable(src, tree, codes, capacity) ==
  IF capacity <= WORD_BYTES THEN [stream |-> << >>, held |-> TRUE]
  ELSE Closed(HUF_encodeSymbols(BIT_initCStream, tree, codes, src, Len(src)), capacity)

(* The four streams, one behind the other in the room that is left; none at *)
(* all if one of them has none.                                             *)
WithStream(acc, one) ==
  [streams |-> Append(acc.streams, one.stream),
   held |-> acc.held /\ one.held,
   room |-> acc.room - StreamBytes(one.stream)]

Complete(four) == IF << >> \in Range(four.streams) THEN [ four EXCEPT !.streams = << >> ] ELSE four

FourStreams(src, tree, codes, room) ==
  LET add(acc, k) ==
        WithStream(acc, HUF_compress1X_usingCTable(Segment(src, k), tree, codes, acc.room))
  IN FoldLeft(add, [streams |-> << >>, held |-> TRUE, room |-> room], << 1, 2, 3, 4 >>)

HUF_compress4X_usingCTable(src, tree, capacity) ==
  IF capacity < 6 + 1 + 1 + 1 + 8 \/ Len(src) < 12 THEN [streams |-> << >>, held |-> TRUE]
  ELSE Complete(FourStreams(src, tree, HUF_codes(tree), capacity - 6))

None == [status |-> "none", size |-> 0, held |-> TRUE]

(* The block behind its header, or none if that brings no gain.             *)
Assembled(n, count, tree, header, coded) ==
  LET size == header.size + 6 + StreamBytes(FlattenSeq(coded.streams))
  IN IF coded.streams = << >> \/ size >= n - 1 THEN [None EXCEPT !.held = coded.held]
     ELSE [status |-> "coded", size |-> size, held |-> coded.held,
           count |-> count, tree |-> tree, header |-> header,
           jump |-> [ k \in 1 .. 3 |-> Len(coded.streams[k]) ],
           bits |-> FlattenSeq(coded.streams)]

(* The description of the tree must leave something to gain.                *)
BehindHeader(src, count, tree, header) ==
  IF ~header.ok THEN [None EXCEPT !.status = "error"]
  ELSE IF header.size + 12 >= Len(src) THEN None
  ELSE Assembled(Len(src), count, tree, header,
         HUF_compress4X_usingCTable(src, tree, HUF_COMPRESSBOUND(Len(src)) - header.size))

WithTree(src, count, tree) == BehindHeader(src, count, tree, HUF_writeCTable(tree))

HUF_compress(src) ==
  LET n     == Len(src)
      count == Histogram(src)
      most  == Max(Range(count))
      limit == FSE_optimalTableLog_internal(HUF_TABLELOG_DEFAULT, n, Max(DOMAIN count), 1)
  IN IF most = n THEN [None EXCEPT !.status = "rle", !.size = 1]
     ELSE IF most <= n \div 2 ^ 7 + 4 THEN None
     ELSE WithTree(src, count, HUF_buildCTable(count, limit))

-----------------------------------------------------------------------------
(* The cells of the tables of single symbols: symbol n has 2^(w-1) of them, *)
(* behind those of smaller weights and, among equal weights, of smaller     *)
(* symbols.  The table itself would list the symbol of each cell.           *)
CellsOf(weight) == 2 ^ weight \div 2

HUF_readDTableX1(stats) ==
  LET W == stats.weights
      rankVal[w \in 1 .. stats.tableLog] ==
        IF w = 1 THEN 0
        ELSE rankVal[w - 1] + Cardinality({ n \in DOMAIN W : W[n] = w - 1 }) * CellsOf(w - 1)
      used == { n \in DOMAIN W : W[n] > 0 }
  IN [dtLog |-> stats.tableLog,
      start |-> [ n \in used |-> rankVal[W[n]]
                    + Cardinality({ m \in used : W[m] = W[n] /\ m < n }) * CellsOf(W[n]) ],
      cells |-> [ n \in used |-> CellsOf(W[n]) ],
      nbBits |-> [ n \in used |-> stats.tableLog + 1 - W[n] ]]

InCells(table, val) ==
  CHOOSE n \in DOMAIN table.start : val \in table.start[n] .. table.start[n] + table.cells[n] - 1

(* A reader of one segment: d, and what it has decoded.                     *)
HUF_decodeSymbolX1(r, dt) ==
  LET n == InCells(dt, BIT_lookBitsFast(r.d, dt.dtLog))
  IN [d |-> BIT_skipBits(r.d, dt.nbBits[n]), out |-> Append(r.out, n)]

(* The table of double symbols, for all codes of maxTableLog bits: behind   *)
(* the first symbol's code, the cells of those second symbols that fit,     *)
(* and before them the cells that hold the first symbol alone.              *)
HUF_readDTableX2(stats, maxTableLog) ==
  LET W    == stats.weights
      used == { n \in DOMAIN W : W[n] > 0 }
      maxW == Max(Range(W))
      rescale == maxTableLog - stats.tableLog - 1
      rankVal0[w \in 1 .. maxW] ==
        IF w = 1 THEN 0
        ELSE rankVal0[w - 1]
               + Cardinality({ n \in used : W[n] = w - 1 }) * 2 ^ (w - 1 + rescale)
      nbBits(n) == stats.tableLog + 1 - W[n]
      minBits == stats.tableLog + 1 - maxW
      minWeight(n) == Max({1, nbBits(n) + stats.tableLog + 1 - maxTableLog})
      before(n) == Cardinality({ m \in used : W[m] = W[n] /\ m < n })
      width(n, consumed) == 2 ^ (maxTableLog - consumed - nbBits(n))
      second(n) ==
        IF maxTableLog - nbBits(n) < minBits THEN {}
        ELSE { m \in used : W[m] >= minWeight(n) }
  IN [dtLog |-> maxTableLog,
      start |-> [ n \in used |-> rankVal0[W[n]] + before(n) * width(n, 0) ],
      cells |-> [ n \in used |-> width(n, 0) ],
      nbBits |-> [ n \in used |-> nbBits(n) ],
      then |-> [ n \in used |->
        [alone |-> IF second(n) = {} THEN width(n, 0)
                   ELSE IF minWeight(n) = 1 THEN 0
                   ELSE rankVal0[minWeight(n)] \div 2 ^ nbBits(n),
         start |-> [ m \in second(n) |->
            rankVal0[W[m]] \div 2 ^ nbBits(n) + before(m) * width(m, nbBits(n)) ],
         cells |-> [ m \in second(n) |-> width(m, nbBits(n)) ],
         nbBits |-> [ m \in second(n) |-> nbBits(n) + nbBits(m) ]]]]

(* A lookup in the cells of symbol n gives it alone or with a second one.   *)
DecodedX2(r, dt, n, local) ==
  LET m == InCells(dt.then[n], local)
  IN IF local < dt.then[n].alone
       THEN [d |-> BIT_skipBits(r.d, dt.nbBits[n]), out |-> Append(r.out, n)]
       ELSE [d |-> BIT_skipBits(r.d, dt.then[n].nbBits[m]), out |-> r.out \o << n, m >>]

FirstX2(r, dt, val, n) == DecodedX2(r, dt, n, val - dt.start[n])

HUF_decodeSymbolX2(r, dt) ==
  LET val == BIT_lookBitsFast(r.d, dt.dtLog)
  IN FirstX2(r, dt, val, InCells(dt, val))

(* Faulty variant: the last symbol takes the bits of a pair.                *)
LastOfUncapped(r, both) == [ both EXCEPT !.out = SubSeq(@, 1, Len(r.out) + 1) ]

(* The last symbol of a segment, when it stands in a cell for two: the bits *)
(* of both are skipped, as far as there are any.                            *)
LastOf(r, both) ==
  LET pair == Len(both.out) = Len(r.out) + 2
      skipped == IF ~pair THEN both.d.consumed
                 ELSE IF r.d.consumed < CONTAINER_BITS THEN Min({both.d.consumed, CONTAINER_BITS})
                 ELSE r.d.consumed
  IN [d |-> [ both.d EXCEPT !.consumed = skipped ],
      out |-> SubSeq(both.out, 1, Len(r.out) + 1)]

HUF_decodeLastSymbolX2(r, dt) == LastOf(r, HUF_decodeSymbolX2(r, dt))

-----------------------------------------------------------------------------
(* The most symbols four lookups may give: where there is room for fewer,   *)
(* sizeof(size_t) in the code, they are not made.                           *)
MOST_PER_TURN == 8

Reloaded(r) == [ r EXCEPT !.d = BIT_reloadDStream(r.d).d ]
Full(r)     == BIT_reloadDStream(r.d).status = "unfinished"

(* A segment of size symbols, after the common loop: four lookups per       *)
(* reload while the reader is full and there is room for all they may give, *)
(* then one by one.                                                         *)
RECURSIVE HUF_decodeTailX1(_, _, _)
HUF_decodeTailX1(r, dt, size) ==
  IF Len(r.out) = size THEN r ELSE HUF_decodeTailX1(HUF_decodeSymbolX1(r, dt), dt, size)

RECURSIVE HUF_decodeStreamX1(_, _, _)
HUF_decodeStreamX1(r, dt, size) ==
  LET one(x) == HUF_decodeSymbolX1(x, dt)
  IN IF Full(r) /\ Len(r.out) < size - 3
       THEN HUF_decodeStreamX1(one(one(one(one(Reloaded(r))))), dt, size)
       ELSE HUF_decodeTailX1(Reloaded(r), dt, size)

RECURSIVE HUF_decodeStreamX2(_, _, _)
HUF_decodeStreamX2(r, dt, size) ==
  LET one(x) == HUF_decodeSymbolX2(x, dt)
  IN IF Full(r) /\ Len(r.out) < size - (MOST_PER_TURN - 1)
       THEN HUF_decodeStreamX2(one(one(one(one(Reloaded(r))))), dt, size)
     ELSE IF Len(r.out) <= size - 2 THEN HUF_decodeStreamX2(one(Reloaded(r)), dt, size)
     ELSE IF Len(r.out) < size THEN HUF_decodeLastSymbolX2(Reloaded(r), dt)
     ELSE Reloaded(r)

(* The common loop: four lookups in each stream, then the reload that stops *)
(* a word before a stream's start; the room of the fourth segment is all    *)
(* that bounds it.                                                          *)
FourTurned(rs, dt, algo) ==
  LET one(x) == IF algo = "X1" THEN HUF_decodeSymbolX1(x, dt) ELSE HUF_decodeSymbolX2(x, dt)
  IN [ k \in 1 .. 4 |-> one(one(one(one(rs[k])))) ]

FourReloaded(turned, reload) == [ k \in 1 .. 4 |-> [ turned[k] EXCEPT !.d = reload[k].d ] ]

RECURSIVE HUF_fourStreams(_, _, _, _)
AfterTurn(turned, reload, dt, algo, size4) ==
  IF \A k \in 1 .. 4 : reload[k].status = "unfinished"
    THEN HUF_fourStreams(FourReloaded(turned, reload), dt, algo, size4)
    ELSE FourReloaded(turned, reload)

HUF_fourStreams(rs, dt, algo, size4) ==
  LET most   == IF algo = "X1" THEN 4 ELSE MOST_PER_TURN
      turned == FourTurned(rs, dt, algo)
  IN IF Len(rs[4].out) >= size4 - (most - 1) THEN rs
     ELSE AfterTurn(turned, [ k \in 1 .. 4 |-> BIT_reloadDStreamFast(turned[k].d) ],
                    dt, algo, size4)

HUF_decodeStream(r, dt, size, algo) ==
  IF algo = "X1" THEN HUF_decodeStreamX1(r, dt, size) ELSE HUF_decodeStreamX2(r, dt, size)

(* Every stream must end at its first bit.                                  *)
Joined(ended) ==
  IF \E k \in 1 .. 4 : ~BIT_endOfDStream(ended[k].d) THEN Failed
  ELSE [ok |-> TRUE, out |-> FlattenSeq([ k \in 1 .. 4 |-> ended[k].out ])]

AfterCommon(rs, dt, sizes, algo) ==
  IF \E k \in 1 .. 3 : Len(rs[k].out) > sizes[k] THEN Failed
  ELSE Joined([ k \in 1 .. 4 |-> HUF_decodeStream(rs[k], dt, sizes[k], algo) ])

(* Every stream must have its end mark, and none may have run into the next *)
(* segment when the common loop is done.                                    *)
FourDecoded(streams, dt, sizes, algo) ==
  IF \E k \in 1 .. 4 : ~HasEndMark(streams[k]) THEN Failed
  ELSE AfterCommon(
         HUF_fourStreams([ k \in 1 .. 4 |-> [d |-> BIT_initDStream(streams[k]), out |-> << >>] ],
                         dt, algo, sizes[4]),
         dt, sizes, algo)

HUF_readDTable(stats, algo) ==
  IF algo = "X1" THEN HUF_readDTableX1(stats) ELSE HUF_readDTableX2(stats, HUF_TABLELOG_MAX)

(* The jump table cuts the streams of a block of size symbols; algo tells   *)
(* which table decodes them.                                                *)
WithStats(block, size, algo, stats) ==
  LET from[k \in 1 .. 4] == IF k = 1 THEN 0 ELSE from[k - 1] + block.jump[k - 1]
      streams == [ k \in 1 .. 4 |->
                     SubSeq(block.bits, from[k] + 1,
                            IF k = 4 THEN Len(block.bits) ELSE from[k + 1]) ]
      segment == (size + 3) \div 4
      sizes   == [ k \in 1 .. 4 |-> IF k = 4 THEN size - 3 * segment ELSE segment ]
  IN IF ~stats.ok THEN Failed
     ELSE FourDecoded(streams, HUF_readDTable(stats, algo), sizes, algo)

HUF_decompress4X(block, size, algo) ==
  WithStats(block, size, algo, HUF_readStats(block.header))
=============================================================================
