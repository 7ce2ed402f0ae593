------------------------------ MODULE BitStream ------------------------------
(***************************************************************************)
(* lib/bitstream.h: bits written forwards into bytes through a container   *)
(* of one machine word, and read backwards from the end.                   *)
(*                                                                         *)
(* Bits stand in sequences, the lowest first.  A writer is [container,     *)
(* out, held]: the bits of the container (as many as bitPos says), the     *)
(* bits of the bytes behind it, and whether every bit found room in the    *)
(* container, which the code only asserts.  A reader is [stream, ptr,      *)
(* consumed]: its container is the word at byte ptr.                       *)
(***************************************************************************)
EXTENDS Integers, SequencesExt

CONSTANTS
  BYTE_BITS,    \* bits of a byte (8)
  WORD_BYTES    \* bytes of the container, sizeof(size_t) (8)

ASSUME WordAssumption ==
  BYTE_BITS \in Nat \ {0} /\ WORD_BYTES \in Nat \ {0}

CONTAINER_BITS == BYTE_BITS * WORD_BYTES

(* The position of the highest bit of x > 0.                                *)
BIT_highbit32(x) == CHOOSE k \in 0 .. 30 : 2 ^ k <= x /\ (k = 30 \/ x < 2 ^ (k + 1))

(* The low bits of a number, and the number of a sequence of bits.          *)
BitsOf(value, nbBits) == [ k \in 1 .. nbBits |-> (value \div 2 ^ (k - 1)) % 2 ]

ValueOf(bits) ==
  MapThenSumSet(LAMBDA k : bits[k] * 2 ^ (k - 1), DOMAIN bits)

(* Whole bytes: the last one is filled up with zeros.                       *)
BytesFor(nbBits) == (nbBits + BYTE_BITS - 1) \div BYTE_BITS

Padded(bits) == bits \o [ k \in 1 .. BytesFor(Len(bits)) * BYTE_BITS - Len(bits) |-> 0 ]

-----------------------------------------------------------------------------
BIT_initCStream == [container |-> << >>, out |-> << >>, held |-> TRUE]

(* Bits pushed out at the top of the container are lost.                    *)
BIT_addBits(w, value, nbBits) ==
  LET longer == w.container \o BitsOf(value, nbBits)
  IN [ w EXCEPT !.container = SubSeq(longer, 1, Min({Len(longer), CONTAINER_BITS})),
                !.held = @ /\ Len(longer) < CONTAINER_BITS ]

(* The whole bytes of the container go out.                                 *)
BIT_flushBits(w) ==
  LET whole == (Len(w.container) \div BYTE_BITS) * BYTE_BITS
  IN [ w EXCEPT !.out = @ \o SubSeq(w.container, 1, whole),
                !.container = SubSeq(@, whole + 1, Len(@)) ]

(* The end mark, and the byte that is not full; a buffer with no room for a *)
(* word behind the whole bytes takes no stream.                             *)
BIT_closeCStream(w, capacity) ==
  LET last == BIT_flushBits(BIT_addBits(w, 1, 1))
  IN IF Len(last.out) >= (capacity - WORD_BYTES) * BYTE_BITS THEN << >>
     ELSE last.out \o Padded(last.container)

-----------------------------------------------------------------------------
StreamBytes(stream) == Len(stream) \div BYTE_BITS

(* BIT_initDStream takes a stream that is not empty and whose last byte     *)
(* holds an end mark.                                                       *)
HasEndMark(stream) ==
  /\ stream # << >>
  /\ \E k \in Len(stream) - BYTE_BITS + 1 .. Len(stream) : stream[k] = 1

(* A stream shorter than a word lies at the low end of the container.       *)
BIT_initDStream(stream) ==
  LET size == StreamBytes(stream)
      mark == Len(stream) + 1 - Max({ k \in 1 .. Len(stream) : stream[k] = 1 })
  IN IF size >= WORD_BYTES
       THEN [stream |-> stream, ptr |-> size - WORD_BYTES, consumed |-> mark]
       ELSE [stream |-> stream, ptr |-> 0,
             consumed |-> mark + BYTE_BITS * (WORD_BYTES - size)]

(* nbBits bits of the container from bit start on; bits outside the         *)
(* container, or behind a short stream, are zero.                           *)
MiddleBits(d, start, nbBits) ==
  LET bit(k) == IF k \in 0 .. CONTAINER_BITS - 1 /\ d.ptr * BYTE_BITS + k < Len(d.stream)
                  THEN d.stream[d.ptr * BYTE_BITS + k + 1] ELSE 0
  IN ValueOf([ j \in 1 .. nbBits |-> bit(start + j - 1) ])

(* The next bits: the shift counts wrap at the width of the container, as   *)
(* they do when a reader looks behind the last bit.                         *)
BIT_lookBits(d, nbBits) ==
  MiddleBits(d, (CONTAINER_BITS - d.consumed - nbBits) % CONTAINER_BITS, nbBits)

(* Two shifts instead of a shift and a mask; of no bits, the low bits of    *)
(* the whole container.                                                     *)
BIT_lookBitsFast(d, nbBits) ==
  IF nbBits = 0 THEN MiddleBits(d, 0, BYTE_BITS)
  ELSE MiddleBits(d, CONTAINER_BITS - nbBits - (d.consumed % CONTAINER_BITS), nbBits)

BIT_skipBits(d, nbBits) == [ d EXCEPT !.consumed = @ + nbBits ]

(* BIT_reloadDStream: bytes that were consumed make room for earlier ones,  *)
(* as far as there are any; [d, status] is the reader and what it reports.  *)
BIT_reloadDStream(d) ==
  LET nbBytes == d.consumed \div BYTE_BITS
      moved   == Min({nbBytes, d.ptr})
      status  ==
        IF d.consumed > CONTAINER_BITS THEN "overflow"
        ELSE IF d.ptr >= WORD_BYTES THEN "unfinished"
        ELSE IF d.ptr = 0
          THEN IF d.consumed < CONTAINER_BITS THEN "endOfBuffer" ELSE "completed"
        ELSE IF nbBytes > d.ptr THEN "endOfBuffer" ELSE "unfinished"
  IN [d |-> IF status = "overflow" THEN d
            ELSE [ d EXCEPT !.ptr = @ - moved, !.consumed = @ - BYTE_BITS * moved ],
      status |-> status]

(* The reload of the loops over four streams, which stops a word before the *)
(* start.                                                                   *)
BIT_reloadDStreamFast(d) ==
  IF d.ptr < WORD_BYTES THEN [d |-> d, status |-> "overflow"] ELSE BIT_reloadDStream(d)

BIT_endOfDStream(d) == d.ptr = 0 /\ d.consumed = CONTAINER_BITS
=============================================================================
