---------------------------- MODULE MCBlockTools -----------------------------
(***************************************************************************)
(* The files of the tools' runs.                                           *)
(***************************************************************************)
EXTENDS BlockTools

(* A file with the given numbers of each byte, well mixed: the sorted bytes *)
(* are read in steps that reach every place.                                *)
Sorted(count) ==
  FlattenSeq([ k \in 1 .. Cardinality(DOMAIN count) |-> [ i \in 1 .. count[k - 1] |-> k - 1 ] ])

Coprime(p, n) == \A d \in 2 .. p : p % d # 0 \/ n % d # 0

FileOf(count) ==
  LET all  == Sorted(count)
      n    == Len(all)
      step == CHOOSE p \in 13 .. n + 13 : Coprime(p, n) /\ \A q \in 13 .. p - 1 : ~Coprime(q, n)
  IN [ k \in 1 .. n |-> all[((k * step) % n) + 1] ]

(* Counts by byte, from 0 on.                                               *)
ByByte(counts) == [ s \in 0 .. Len(counts) - 1 |-> counts[s + 1] ]

(* Distributions of three bytes: absent, rare, even, and nearly alone, whole *)
(* blocks and last blocks of any length; then those whose rounded shares    *)
(* overdraw the most frequent byte, and a file of one byte.                 *)
FseFiles ==
  { FileOf(c) : c \in { c \in [ 0 .. 2 -> {0, 1, 3, 11, 29} ] :
                          Cardinality({ s \in 0 .. 2 : c[s] > 0 }) >= 2 } }
  \cup { FileOf([ s \in 0 .. n |-> c ]) : n \in 11 .. 14, c \in {5, 8} }
  \cup { FileOf([ s \in 0 .. 1 |-> IF s = 0 THEN c ELSE 1 ]) : c \in 60 .. 70 }
  \cup { [ k \in 1 .. 5 |-> 7 ] }

(* Weights that grow like Fibonacci numbers make the highest trees; even    *)
(* weights, two bytes, sparse alphabets whose weights compress; files that  *)
(* do not compress, are too short or of one byte, and two blocks of         *)
(* different trees.                                                         *)
Fibonacci[n \in Nat] == IF n < 2 THEN 1 ELSE Fibonacci[n - 1] + Fibonacci[n - 2]

HufFiles ==
  { FileOf([ s \in 0 .. n |-> Fibonacci[s] ]) : n \in 4 .. 8 }
  \cup { FileOf([ s \in 0 .. n |-> Fibonacci[n - s] ]) : n \in 5 .. 7 }
  \cup { FileOf(ByByte(c)) : c \in
           { << 2, 2, 3, 3, 3, 9, 22, 22 >>, << 1, 1, 1, 1, 1, 1, 60, 60 >>,
             << 40, 3, 40, 2, 40, 1 >>, << 90, 4 >>, << 4, 90 >>, << 120, 30, 1 >>,
             << 9, 9, 9, 9, 9, 9, 9, 9 >>, << 5, 5 >> } }
  \cup { FileOf([ s \in 0 .. 40 |-> CASE s = 3 -> 50 [] s = 11 -> 20 [] s = 25 -> 9
                                      [] s = 40 -> c [] OTHER -> 0 ]) : c \in {1, 9, 70} }
  \cup { [ k \in 1 .. 20 |-> 7 ],
         FileOf([ s \in 0 .. 6 |-> Fibonacci[s] ]) \o [ k \in 1 .. 140 |-> k % 3 ] }

NoFiles == {}

(* A whole block and one byte more.                                         *)
ShortFiles == { FileOf(ByByte(<< BLOCK_BYTES - 3, 4 >>)) }

(* Twelve bytes equally often and a thirteenth as often as four of them:    *)
(* all weights that are written are equal, and with bytes of four bits that *)
(* is more than fits the uncompressed form.                                 *)
EvenFiles == { FileOf([ s \in 0 .. 12 |-> IF s = 12 THEN 12 ELSE 3 ]) }
=============================================================================
