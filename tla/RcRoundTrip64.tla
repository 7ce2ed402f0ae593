---------------------------- MODULE RcRoundTrip64 ---------------------------
(***************************************************************************)
(* rc_encode followed by rc_decode: the encoder of RcEncoder64 writes the  *)
(* words of a file, then the decoder of rc_codec.h (rc_dec_init,           *)
(* rc_dec_get_cum, rc_dec_step) and the loop of rc_decode.c read them.     *)
(* The decoder gets from the file only the words, the table and n.         *)
(***************************************************************************)
EXTENDS RcEncoder64

VARIABLES
  data,       \* the symbols of the input file coded so far
  code,       \* rd->code
  dec_range,  \* rd->range
  words_p,    \* index in out of the next word the decoder reads, 0 before
              \* rc_dec_init
  out_buf     \* the symbols decoded so far

decVars == <<code, dec_range, words_p, out_buf>>
allVars == <<vars, data, decVars>>

RoundTripInit ==
  /\ Init
  /\ data = << >>
  /\ code = 0
  /\ dec_range = 0
  /\ words_p = 0
  /\ out_buf = << >>

EncodeData(sym) ==
  /\ EncodeSymbol(sym)
  /\ data' = Append(data, sym)
  /\ UNCHANGED decVars

FlushFile == Flush /\ UNCHANGED <<data, decVars>>

(* The word at words_p.  Past the end of the file rc_decode.c reads the     *)
(* padding it allocated and never wrote: any word.                          *)
WordsAt(p) == IF p \in 1 .. Len(out) THEN { out[p] } ELSE 0 .. B - 1

DecInit ==
  /\ flushed
  /\ words_p = 0
  /\ dec_range' = B * B - 1
  /\ \E hi \in WordsAt(1), lo \in WordsAt(2) : code' = hi * B + lo
  /\ words_p' = 3
  /\ UNCHANGED <<vars, data, out_buf>>

(* Faulty variant: the quotient is rounded up.                              *)
CumOneHigh == code \div (dec_range \div TOTAL) + 1

(* rc_dec_get_cum.  That the value is narrowed to 16 bits afterwards has no *)
(* effect below TOTAL, which is what CumInTable says of it.                 *)
GetCum == code \div (dec_range \div TOTAL)

(* Faulty variant: the renormalisation threshold is one too high.           *)
DecStepReadsEarly(sym) ==
  LET t      == dec_range \div TOTAL
      offset == code - t * cum[sym]
      width  == t * Freq(cum, sym)
  IN IF width <= B
       THEN /\ \E word \in WordsAt(words_p) :
                 code' = (offset * B + word) % (B * B)
            /\ dec_range' = (width * B) % (B * B)
            /\ words_p' = words_p + 1
       ELSE /\ code' = offset % (B * B)
            /\ dec_range' = width
            /\ UNCHANGED words_p

(* rc_dec_step for the symbol found.  Its one renormalisation reads a word. *)
DecStep(sym) ==
  LET t      == dec_range \div TOTAL
      offset == code - t * cum[sym]
      width  == t * Freq(cum, sym)
  IN IF width < B
       THEN /\ \E word \in WordsAt(words_p) :
                 code' = (offset * B + word) % (B * B)
            /\ dec_range' = width * B
            /\ words_p' = words_p + 1
       ELSE /\ code' = offset % (B * B)
            /\ dec_range' = width
            /\ UNCHANGED words_p

(* One turn of the decoding loop: n symbols, as the header of the file says. *)
Decode ==
  /\ words_p > 0
  /\ Len(out_buf) < Len(data)
  /\ LET sym == Find(cum, GetCum)
     IN DecStep(sym) /\ out_buf' = Append(out_buf, sym)
  /\ UNCHANGED <<vars, data>>

-----------------------------------------------------------------------------
(* Whatever was decoded is what was encoded, symbol for symbol.             *)
DecodedIsPrefix ==
  /\ Len(out_buf) <= Len(data)
  /\ \A i \in 1 .. Len(out_buf) : out_buf[i] = data[i]

(* The decoder never looks past the table: the value it looks up is below   *)
(* TOTAL although rc_dec_get_cum does not clamp it, because the code stays  *)
(* below the part of the range the table covers.                            *)
CumInTable ==
  words_p > 0 /\ Len(out_buf) < Len(data) => GetCum < TOTAL

(* The decoder consumes exactly the words the encoder wrote: it never reads *)
(* the uninitialised padding behind the file, and when the last symbol is   *)
(* decoded no word of the file is left.                                     *)
ReadsExactlyTheFile ==
  words_p > 0 =>
    /\ words_p - 1 <= Len(out)
    /\ Len(out_buf) = Len(data) => words_p - 1 = Len(out)
=============================================================================
