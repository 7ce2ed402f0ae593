-------------------------------- MODULE Huf ----------------------------------
(***************************************************************************)
(* lib/huf_compress.c, lib/huf_decompress.c and HUF_readStats: a block is  *)
(* coded with a Huffman tree of its own, of limited height, written before *)
(* the block as weights; the block is coded in four streams.               *)
(*                                                                         *)
(* A tree is a function nbBits from 0..maxSymbolValue: the length of each  *)
(* code, 0 for symbols that do not occur.                                  *)
(***************************************************************************)
EXTENDS Fse

CONSTANTS
  HUF_TABLELOG_MAX,       \* 12
  HUF_TABLELOG_DEFAULT    \* 11

(* Four codes find room in the container between two flushes.               *)
ASSUME HufTurnAssumption == CONTAINER_BITS >= HUF_TABLELOG_MAX * 4 + BYTE_BITS - 1

MAX_FSE_TABLELOG_FOR_HUFF_HEADER == 6
RAW_WEIGHTS_MAX == 2 ^ (BYTE_BITS - 1)   \* 256 - 128, or 128 to the reader
HUF_COMPRESSBOUND(size) == 129 + size + size \div 256 + 8

NoSymbol == -1

Histogram(src) ==
  [ s \in 0 .. Max(Range(src)) |-> Cardinality({ k \in DOMAIN src : src[k] = s }) ]

-----------------------------------------------------------------------------
(* HUF_sort: most frequent first, smaller symbols first among equals.       *)
HUF_sort(count) ==
  SortSeq([ k \in 1 .. Cardinality(DOMAIN count) |-> k - 1 ],
    LAMBDA s, t : count[s] > count[t] \/ (count[s] = count[t] /\ s < t))

(* The tree without a limit, by place in the sorted list: the two lightest  *)
(* of the remaining leaves and nodes are joined, a node before a leaf of    *)
(* the same weight.  Node k stands at place leaves + k - 1; the barriers    *)
(* stand for nodes not yet joined and for the end of the leaves.            *)
HUF_heights(weights) ==
  LET leaves == Len(weights)
      leaf(acc) == IF acc.lowS < 0 THEN 2 ^ 30 ELSE weights[acc.lowS + 1]
      node(acc) == IF acc.lowN > Len(acc.nodes) THEN 2 ^ 29 ELSE acc.nodes[acc.lowN]
      lightest(acc) == IF leaf(acc) < node(acc) THEN acc.lowS ELSE leaves + acc.lowN - 1
      taken(acc) == IF leaf(acc) < node(acc) THEN [ acc EXCEPT !.lowS = @ - 1 ]
                    ELSE [ acc EXCEPT !.lowN = @ + 1 ]
      join(acc, k) ==
        LET then == taken(acc)
            sum  == Min({leaf(acc), node(acc)}) + Min({leaf(then), node(then)})
        IN [lowS |-> taken(then).lowS, lowN |-> taken(then).lowN,
            nodes |-> Append(acc.nodes, sum),
            parent |-> [ acc.parent EXCEPT ![lightest(acc)] = leaves + k - 1,
                                           ![lightest(then)] = leaves + k - 1 ]]
      root == 2 * leaves - 2
      parent == FoldLeft(join, [lowS |-> leaves - 1, lowN |-> 1, nodes |-> << >>,
                                parent |-> [ i \in 0 .. root |-> root ]],
                         [ k \in 1 .. leaves - 1 |-> k ]).parent
      depth[i \in 0 .. root] == IF i = root THEN 0 ELSE depth[parent[i]] + 1
  IN [ i \in 0 .. leaves - 1 |-> depth[i] ]

(* HUF_setMaxHeight on the heights nb of the sorted symbols: codes that are *)
(* too long are cut, and the cost is repaid by making others longer, the    *)
(* cheapest first.  rankLast[r] is the last symbol of maxNbBits - r bits.   *)
RECURSIVE HUF_repay(_, _, _, _, _)
HUF_repay(nb, rankLast, cost, weights, maxNbBits) ==
  LET worth(k) == /\ rankLast[k] # NoSymbol
                  /\ \/ rankLast[k - 1] = NoSymbol
                     \/ weights[rankLast[k] + 1] <= 2 * weights[rankLast[k - 1] + 1]
      wanted == Max({1} \cup { k \in 2 .. BIT_highbit32(cost) + 1 : worth(k) })
      k == Min({ j \in wanted .. HUF_TABLELOG_MAX + 1 : rankLast[j] # NoSymbol })
      last == rankLast[k]
      nb2  == [ nb EXCEPT ![last] = @ + 1 ]
      rankLast2 ==
        [ rankLast EXCEPT
            ![k - 1] = IF @ = NoSymbol THEN last ELSE @,
            ![k] = IF last = 0 \/ nb2[last - 1] # maxNbBits - k THEN NoSymbol ELSE last - 1 ]
  IN IF cost <= 0 THEN [nb |-> nb, rankLast |-> rankLast, cost |-> cost]
     ELSE HUF_repay(nb2, rankLast2, cost - 2 ^ (k - 1), weights, maxNbBits)

(* The repayment may overshoot: then the first codes of maxNbBits become    *)
(* shorter again.  n is the last symbol with a shorter code.                *)
RECURSIVE HUF_refund(_, _, _, _, _)
HUF_refund(nb, rankLast1, n, cost, maxNbBits) ==
  LET n2 == Max({ i \in 0 .. n : nb[i] # maxNbBits })
      next == IF rankLast1 = NoSymbol THEN n2 + 1 ELSE rankLast1 + 1
  IN IF cost >= 0 THEN nb
     ELSE HUF_refund([ nb EXCEPT ![next] = @ - 1 ], next,
                     IF rankLast1 = NoSymbol THEN n2 ELSE n, cost + 1, maxNbBits)

(* Faulty variant: long codes are cut and nothing is repaid.                *)
HUF_cutHeight(nb, weights, maxNbBits) ==
  [ i \in DOMAIN nb |-> Min({nb[i], maxNbBits}) ]

HUF_setMaxHeight(nb, weights, maxNbBits) ==
  LET lastNonNull == Len(weights) - 1
      largestBits == nb[lastNonNull]
      fits == Max({ i \in 0 .. lastNonNull : nb[i] <= maxNbBits })
      cut  == [ i \in DOMAIN nb |-> IF i > fits THEN maxNbBits ELSE nb[i] ]
      totalCost ==
        MapThenSumSet(LAMBDA i : 2 ^ (largestBits - maxNbBits) - 2 ^ (largestBits - nb[i]),
                      fits + 1 .. lastNonNull) \div 2 ^ (largestBits - maxNbBits)
      n == Max({ i \in 0 .. fits : cut[i] # maxNbBits })
      ranked(r) == { i \in 0 .. n : cut[i] = maxNbBits - r
                                    /\ \A j \in i + 1 .. n : cut[j] > cut[i] }
      rankLast == [ r \in 0 .. HUF_TABLELOG_MAX + 1 |->
                      IF r = 0 \/ ranked(r) = {} THEN NoSymbol ELSE Max(ranked(r)) ]
      repaid == HUF_repay(cut, rankLast, totalCost, weights, maxNbBits)
  IN IF largestBits <= maxNbBits THEN nb
     ELSE HUF_refund(repaid.nb, repaid.rankLast[1], n, repaid.cost, maxNbBits)

(* The tree and the limit its codes are counted from.                       *)
HUF_buildCTable(count, maxNbBits) ==
  LET used    == SelectSeq(HUF_sort(count), LAMBDA s : count[s] > 0)
      weights == [ i \in 1 .. Len(used) |-> count[used[i]] ]
      heights == HUF_heights(weights)
      nb      == HUF_setMaxHeight(heights, weights, maxNbBits)
  IN [maxBits |-> Min({maxNbBits, heights[Len(used) - 1]}),
      nbBits  |-> [ s \in DOMAIN count |->
                      IF count[s] = 0 THEN 0
                      ELSE nb[CHOOSE i \in 0 .. Len(used) - 1 : used[i + 1] = s] ]]

(* The codes of each length are consecutive, in the order of the symbols.   *)
HUF_codes(tree) ==
  LET ofLength(b) == { s \in DOMAIN tree.nbBits : tree.nbBits[s] = b }
      first[b \in 1 .. tree.maxBits] ==
        IF b = tree.maxBits THEN 0
        ELSE (first[b + 1] + Cardinality(ofLength(b + 1))) \div 2
  IN [ s \in DOMAIN tree.nbBits |->
         IF tree.nbBits[s] = 0 THEN 0
         ELSE first[tree.nbBits[s]] + Cardinality({ t \in ofLength(tree.nbBits[s]) : t < s }) ]

-----------------------------------------------------------------------------
(* The bits of the weights' distribution and of their stream, or << >> if   *)
(* they have none.                                                          *)
WeightsCoded(weights, shares, tableLog) ==
  LET table == FSE_writeNCount(shares.norm, tableLog)
      coded == FSE_compress_usingCTable(weights, FSE_buildCTable(shares.norm, tableLog),
                                        HUF_COMPRESSBOUND(0)).stream
  IN IF ~shares.ok \/ ~table.ok THEN Failed
     ELSE [ok |-> TRUE, bits |-> IF coded = << >> THEN << >> ELSE table.bits \o coded]

(* Weights that are all equal, or all different, are not compressed.        *)
HUF_compressWeights(weights) ==
  LET count == Histogram(weights)
      tableLog == FSE_optimalTableLog_internal(MAX_FSE_TABLELOG_FOR_HUFF_HEADER,
                                               Len(weights), Max(DOMAIN count), 2)
  IN IF Len(weights) <= 1 \/ Max(Range(count)) \in {1, Len(weights)}
       THEN [ok |-> TRUE, bits |-> << >>]
       ELSE WeightsCoded(weights, FSE_normalizeCount(count, tableLog), tableLog)

(* Weights that do not compress stand in half bytes, and of those there may *)
(* not be too many.  size counts the bytes.                                 *)
HeaderOf(weights, coded) ==
  LET bytes == StreamBytes(coded.bits)
      maxSV == Len(weights)
  IN IF ~coded.ok THEN Failed
     ELSE IF bytes > 1 /\ bytes < maxSV \div 2
       THEN [ok |-> TRUE, fse |-> TRUE, bits |-> coded.bits, size |-> bytes + 1]
     ELSE IF maxSV > RAW_WEIGHTS_MAX THEN Failed
     ELSE [ok |-> TRUE, fse |-> FALSE, weights |-> weights, size |-> (maxSV + 1) \div 2 + 1]

(* The weights of all symbols but the last, which the reader completes.     *)
HUF_writeCTable(tree) ==
  LET weights == [ n \in 1 .. Max(DOMAIN tree.nbBits) |->
                     IF tree.nbBits[n - 1] = 0 THEN 0
                     ELSE tree.maxBits + 1 - tree.nbBits[n - 1] ]
  IN HeaderOf(weights, HUF_compressWeights(weights))

(* The weights in the header, at most 255 of them.                          *)
WeightsFrom(table) ==
  IF ~table.ok \/ table.tableLog > MAX_FSE_TABLELOG_FOR_HUFF_HEADER THEN Failed
  ELSE FSE_decompressWith(table.stream, 255, FSE_buildDTable(table.norm, table.tableLog))

HUF_readWeights(header) ==
  IF header.fse THEN WeightsFrom(FSE_readNCount(header.bits, 255))
  ELSE [ok |-> TRUE, out |-> header.weights]

WeightsTotal(weights) == MapThenSumSet(LAMBDA n : 2 ^ weights[n] \div 2, DOMAIN weights)

(* Faulty variant: the last weight is what is missing, not its logarithm.   *)
CompletedUnscaled(weights, total, tableLog) ==
  [ok |-> TRUE, tableLog |-> tableLog,
   weights |-> [ n \in 0 .. Len(weights) |->
                   IF n < Len(weights) THEN weights[n + 1] ELSE 2 ^ tableLog - total ]]

(* The last weight completes the tree to a power of two.                    *)
Completed(weights, total, tableLog) ==
  LET rest == 2 ^ tableLog - total
      all  == Append(weights, BIT_highbit32(rest) + 1)
      ones == Cardinality({ n \in DOMAIN all : all[n] = 1 })
  IN IF \/ tableLog > HUF_TABLELOG_MAX
        \/ rest # 2 ^ BIT_highbit32(rest)
        \/ ones < 2 \/ ones % 2 = 1 THEN Failed
     ELSE [ok |-> TRUE, tableLog |-> tableLog,
           weights |-> [ n \in 0 .. Len(all) - 1 |-> all[n + 1] ]]

(* The stats of weights that could be read.                                 *)
StatsOf(read) ==
  IF ~read.ok THEN Failed
  ELSE IF \/ \E n \in DOMAIN read.out : read.out[n] >= HUF_TABLELOG_MAX
          \/ WeightsTotal(read.out) = 0 THEN Failed
  ELSE Completed(read.out, WeightsTotal(read.out), BIT_highbit32(WeightsTotal(read.out)) + 1)

HUF_readStats(header) == StatsOf(HUF_readWeights(header))
=============================================================================
