-------------------------------- MODULE Nanopb --------------------------------
(***************************************************************************)
(* Protocol buffer streams (fd_nanopb).  An OutputStream writes into a     *)
(* buffer of the caller, an InputStream reads one; a substream reads the   *)
(* bytes of one length-delimited field.  Bytes are 0..3: a varint is one   *)
(* byte below 2, or two bytes of which the first is 2 or more, and the     *)
(* words of 32 bits are the numbers of one byte.  The C encoder and        *)
(* decoder are external; pb_write and pb_read take all of their bytes or   *)
(* none.                                                                   *)
(*                                                                         *)
(* close_string_substream cannot be called on the stream a substream was   *)
(* made from: the substream borrows it (`InputStream<'_>`), so that the    *)
(* parent is usable again only once the substream is gone.  FieldIter and  *)
(* the message functions hand descriptors to the C library and are left    *)
(* out.                                                                    *)
(***************************************************************************)
EXTENDS Integers, Sequences

CONSTANTS
    PbRoom,     \* bound: the length of a buffer
    FieldMax,   \* bound: the values written
    StringMax   \* bound: the length of a string

ASSUME NanopbAssumption == {PbRoom, FieldMax, StringMax} \subseteq Nat

Varint(v) == IF v < 2 THEN <<v>> ELSE <<2 + (v % 2), v \div 2>>
\* A number, as it is on the wire.
Number(v) == [kind |-> "varint", num |-> v, str |-> <<>>]
String(s) == [kind |-> "string", num |-> 0, str |-> s]
PbStrings == UNION {[1..n -> {1}] : n \in 0..StringMax}

Max32 == 1

\* Signed numbers on the wire, and back.
Zigzag(n) == IF n >= 0 THEN 2 * n ELSE (-2) * n - 1
UnZigzag(v) == IF v % 2 = 0 THEN v \div 2 ELSE -(v \div 2) - 1

NumberReaders == {"varint", "varint32", "svarint", "bool"}

\* What a reader makes of the number on the wire; read_varint32 and read_bool refuse one
\* of more than 32 bits.
Converted(reader, v) ==
    CASE reader = "svarint" -> UnZigzag(v)
      [] reader = "bool"    -> IF v = 0 THEN 0 ELSE 1
      [] OTHER              -> v
Overflows(reader, v) == reader \in {"varint32", "bool"} /\ v > Max32

VARIABLES
    pbOut,      \* the OutputStream: "room" of its buffer and "bytes" written
    wrote,      \* the values of the writes that succeeded
    torn,       \* a write_string failed after its length was written
    pbIn,       \* the InputStream over the bytes written: "pos" and "left", none before it is made
    pbSub,      \* the substream that borrows it
    readBack,   \* the values read
    gave,       \* the reader of the last number and what it gave, until the next value is read
    astray      \* a substream of a string that was not empty has been made, or a number refused

pbVars == <<pbOut, wrote, torn, pbIn, pbSub, readBack, gave, astray>>

NoStream == [pos |-> -1, left |-> 0]
NotANumber == [reader |-> "none", value |-> 0]

PbInit ==
    /\ pbOut = [room |-> 0, bytes |-> <<>>] /\ wrote = <<>> /\ torn = FALSE
    /\ pbIn = NoStream /\ pbSub = NoStream /\ readBack = <<>> /\ gave = NotANumber
    /\ astray = FALSE

\* OutputStream::from_buffer: an empty buffer is refused.
OutFromBuffer(room) ==
    /\ pbOut.room = 0 /\ room > 0
    /\ pbOut' = [pbOut EXCEPT !.room = room]
    /\ UNCHANGED <<wrote, torn, pbIn, pbSub, readBack, gave, astray>>

PbFits(bytes) == Len(pbOut.bytes) + Len(bytes) <= pbOut.room

\* write, write_varint, write_fixed32, write_fixed64 and write_tag are one pb_write each.
WriteOnce(value, bytes) ==
    /\ pbOut.room > 0 /\ pbIn = NoStream /\ Len(wrote) < FieldMax /\ PbFits(bytes)
    /\ pbOut' = [pbOut EXCEPT !.bytes = @ \o bytes]
    /\ wrote' = Append(wrote, value)
    /\ UNCHANGED <<torn, pbIn, pbSub, readBack, gave, astray>>

WriteSvarint(n) == WriteOnce(Number(Zigzag(n)), Varint(Zigzag(n)))

\* write_string: the length and then the bytes; the length stays when the bytes do not fit.
WriteString(s) ==
    /\ pbOut.room > 0 /\ pbIn = NoStream /\ Len(wrote) < FieldMax
    /\ PbFits(Varint(Len(s)))
    /\ IF PbFits(Varint(Len(s)) \o s)
       THEN /\ pbOut' = [pbOut EXCEPT !.bytes = @ \o Varint(Len(s)) \o s]
            /\ wrote' = Append(wrote, String(s)) /\ UNCHANGED torn
       ELSE /\ pbOut' = [pbOut EXCEPT !.bytes = @ \o Varint(Len(s))]
            /\ torn' = TRUE /\ UNCHANGED wrote
    /\ UNCHANGED <<pbIn, pbSub, readBack, gave, astray>>

\* InputStream::from_buffer over encoded_data(): an empty buffer is refused.
InFromBuffer ==
    /\ pbIn = NoStream /\ pbOut.bytes # <<>>
    /\ pbIn' = [pos |-> 0, left |-> Len(pbOut.bytes)]
    /\ UNCHANGED <<pbOut, wrote, torn, pbSub, readBack, gave, astray>>

----------------------------------------------------------------------------
\* pb_decode_varint: the bytes it takes, also when the last one is missing, and its value.
VarintTaken(s) ==
    IF s.left = 0 THEN 0
    ELSE IF pbOut.bytes[s.pos + 1] < 2 \/ s.left = 1 THEN 1 ELSE 2
VarintRead(s) == s.left > 0 /\ (pbOut.bytes[s.pos + 1] < 2 \/ s.left > 1)
VarintValue(s) ==
    LET b == pbOut.bytes[s.pos + 1] IN IF b < 2 THEN b ELSE (b - 2) + 2 * pbOut.bytes[s.pos + 2]

PbTaken(s, n) == [pos |-> s.pos + n, left |-> s.left - n]

\* The reader asks for the values in the order they were written.
Expects(kind) ==
    /\ pbIn # NoStream /\ pbSub = NoStream /\ Len(readBack) < Len(wrote)
    /\ wrote[Len(readBack) + 1].kind = kind

\* read_varint, read_varint32, read_svarint and read_bool (read_tag takes its number as
\* read_varint32 does).  After a refusal the stream stands somewhere behind where it was.
ReadVarint(reader) ==
    /\ Expects("varint")
    /\ pbIn' = PbTaken(pbIn, VarintTaken(pbIn))
    /\ LET v == VarintValue(pbIn)
           refused == VarintRead(pbIn) /\ Overflows(reader, v)
       IN  /\ IF VarintRead(pbIn) /\ ~refused
              THEN /\ readBack' = Append(readBack, Number(v))
                   /\ gave' = [reader |-> reader, value |-> Converted(reader, v)]
              ELSE readBack' = readBack /\ gave' = NotANumber
           /\ astray' = (astray \/ refused)
    /\ UNCHANGED <<pbOut, wrote, torn, pbSub>>

\* A length read with read_varint and the bytes with read (read_fixed32 and read_fixed64
\* are reads of a known length, and skip_field of a string takes the same bytes).
ReadString ==
    /\ Expects("string") /\ VarintRead(pbIn)
    /\ LET body == PbTaken(pbIn, VarintTaken(pbIn))
           n    == VarintValue(pbIn)
       IN  IF n <= body.left
           THEN /\ pbIn' = PbTaken(body, n)
                /\ readBack' = Append(readBack, String(SubSeq(pbOut.bytes, body.pos + 1, body.pos + n)))
           ELSE pbIn' = body /\ UNCHANGED readBack
    /\ gave' = NotANumber
    /\ UNCHANGED <<pbOut, wrote, torn, pbSub, astray>>

\* Mutant: the parent as it would be if it went past the bytes it lends.
MutMakeSubstream ==
    /\ Expects("string") /\ VarintRead(pbIn)
    /\ LET body == PbTaken(pbIn, VarintTaken(pbIn))
           n    == VarintValue(pbIn)
       IN  /\ n <= body.left
           /\ pbSub' = [body EXCEPT !.left = n]
           /\ pbIn' = [pos |-> body.pos + n, left |-> body.left]
           /\ UNCHANGED astray
    /\ UNCHANGED <<pbOut, wrote, torn, readBack, gave>>

\* make_string_substream: the parent gives up the bytes it lends but stays where it is.
\* With fewer bytes than the length says, the length is taken and the call fails.
MakeSubstream ==
    /\ Expects("string") /\ VarintRead(pbIn)
    /\ LET body == PbTaken(pbIn, VarintTaken(pbIn))
           n    == VarintValue(pbIn)
       IN  IF n <= body.left
           THEN /\ pbSub' = [body EXCEPT !.left = n]
                /\ pbIn' = [body EXCEPT !.left = @ - n]
                /\ astray' = (astray \/ n > 0)
           ELSE pbIn' = body /\ UNCHANGED <<pbSub, astray>>
    /\ UNCHANGED <<pbOut, wrote, torn, readBack, gave>>

\* The substream is read to its end and dropped.
ReadSubstream ==
    /\ pbSub # NoStream
    /\ readBack' = Append(readBack, String(SubSeq(pbOut.bytes, pbSub.pos + 1, pbSub.pos + pbSub.left)))
    /\ pbSub' = NoStream /\ gave' = NotANumber
    /\ UNCHANGED <<pbOut, wrote, torn, pbIn, astray>>

PbNext ==
    \/ \E room \in 1..PbRoom : OutFromBuffer(room)
    \/ \E v \in 0..3 : WriteOnce(Number(v), Varint(v))
    \/ \E n \in (-2)..1 : WriteSvarint(n)
    \/ \E s \in PbStrings : WriteString(s)
    \/ \E reader \in NumberReaders : ReadVarint(reader)
    \/ InFromBuffer \/ ReadString \/ MakeSubstream \/ ReadSubstream

PbSpec == PbInit /\ [][PbNext]_pbVars

----------------------------------------------------------------------------
PbTypeOK == torn \in BOOLEAN /\ astray \in BOOLEAN /\ Len(wrote) <= FieldMax

(***************************************************************************)
(* No stream leaves its buffer: what a stream has left lies inside the     *)
(* bytes written, and a substream never reaches past its field.  What is   *)
(* read is what was written, value by value, as long as no write_string    *)
(* broke off after its length, no substream was taken (behind a substream  *)
(* the parent reads the bytes it has lent) and no number refused; and a    *)
(* reader gives the number itself, the signed number that was written, or  *)
(* whether it is zero, and never one that was cut to 32 bits.              *)
(***************************************************************************)
StreamsAgree ==
    /\ Len(pbOut.bytes) <= pbOut.room
    /\ pbIn # NoStream => pbIn.pos + pbIn.left <= Len(pbOut.bytes)
    /\ pbSub # NoStream => pbSub.pos + pbSub.left <= Len(pbOut.bytes) - pbIn.left
    /\ ~torn /\ ~astray =>
          /\ readBack = SubSeq(wrote, 1, Len(readBack))
          /\ pbIn # NoStream => pbIn.pos + pbIn.left = Len(pbOut.bytes)
          /\ gave # NotANumber =>
                LET v == wrote[Len(readBack)].num IN
                CASE gave.reader = "varint"   -> gave.value = v
                  [] gave.reader = "varint32" -> gave.value = v /\ v <= Max32
                  [] gave.reader = "svarint"  -> Zigzag(gave.value) = v
                  [] gave.reader = "bool"     -> (gave.value = 0) = (v = 0) /\ v <= Max32
=============================================================================
