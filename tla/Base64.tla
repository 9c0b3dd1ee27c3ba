-------------------------------- MODULE Base64 --------------------------------
(***************************************************************************)
(* The base64 codec (fd_base64): the sizes it asks for, what happens to a  *)
(* vector it appends to or a buffer it fills, and the errors it reports.   *)
(* A text is a sequence of "c" (a character of the alphabet), "=" and "x"  *)
(* (anything else); bytes are counted, not looked at.  The C codec is      *)
(* external.                                                               *)
(***************************************************************************)
EXTENDS Integers, Sequences, SequencesExt

CONSTANTS
    TextMax,    \* bound: the length of a text to decode
    BytesMax    \* bound: the bytes to encode, and the room or the contents of an output

ASSUME Base64Assumption == TextMax \in Nat /\ BytesMax \in Nat

VARIABLE coded   \* the last call: what was given, what the output held before and holds after

b64Vars == <<coded>>

NotCoded == [op |-> "none", text |-> <<>>, bytes |-> 0, before |-> 0, after |-> 0, answer |-> "none"]

B64Init == coded = NotCoded

\* encoded_size and decoded_size.
EncodedSize(n) == ((n + 2) \div 3) * 4
DecodedSize(n) == ((n + 3) \div 4) * 3

\* fd_base64_encode: four characters for three bytes, the last group padded.
CEncode(n) ==
    [i \in 1..EncodedSize(n) |-> IF i > EncodedSize(n) - ((3 - (n % 3)) % 3) THEN "=" ELSE "c"]

\* fd_base64_decode: the bytes written, or -1 when the text is no encoding.
CDecode(text) ==
    LET pads == {p \in 0..2 : /\ p <= Len(text)
                              /\ \A i \in 1..Len(text) :
                                    text[i] = IF i > Len(text) - p THEN "=" ELSE "c"}
    IN  IF Len(text) % 4 # 0 \/ pads = {} THEN -1
        ELSE (Len(text) \div 4) * 3 - CHOOSE p \in pads : TRUE

\* The error of a text the C codec refused, found out by looking at the text again.
DecodeError(text) ==
    IF Len(text) % 4 # 0 THEN "InvalidLength"
    ELSE IF \E i \in 1..Len(text) : text[i] \notin {"c", "="} THEN "InvalidCharacter"
    ELSE "InvalidPadding"

\* encode, encode_string and encode_to_vec: the vector grows by the size asked for and is
\* cut back to what was written.
Encode(n, before) ==
    /\ coded = NotCoded
    /\ coded' = [op |-> "encode", text |-> CEncode(n), bytes |-> n, before |-> before,
                 after |-> before + Len(CEncode(n)), answer |-> "ok"]

\* decode, decode_string and decode_to_vec: a refused text leaves the vector as it was.
Decode(text, before) ==
    /\ coded = NotCoded
    /\ coded' = [op |-> "decode", text |-> text, bytes |-> 0, before |-> before,
                 after |-> IF text = <<>> \/ CDecode(text) < 0 THEN before
                           ELSE before + CDecode(text),
                 answer |-> IF text # <<>> /\ CDecode(text) < 0 THEN DecodeError(text) ELSE "ok"]

\* inplace::encode: `before` is the room of the buffer, `after` what was written.
InplaceEncode(n, room) ==
    /\ coded = NotCoded
    /\ coded' = [op |-> "inplace", text |-> CEncode(n), bytes |-> n, before |-> room,
                 after |-> IF room < EncodedSize(n) THEN 0 ELSE Len(CEncode(n)),
                 answer |-> IF n > 0 /\ room < EncodedSize(n) THEN "BufferTooSmall" ELSE "ok"]

\* inplace::decode asks for room for the text without padding.
InplaceDecode(text, room) ==
    LET small == text # <<>> /\ room < DecodedSize(Len(text))
    IN  /\ coded = NotCoded
        /\ coded' = [op |-> "inplace", text |-> text, bytes |-> 0, before |-> room,
                     after |-> IF small \/ CDecode(text) < 0 THEN 0 ELSE CDecode(text),
                     answer |-> IF small THEN "BufferTooSmall"
                                ELSE IF CDecode(text) < 0 THEN DecodeError(text) ELSE "ok"]

B64Next ==
    /\ coded = NotCoded
    /\ \/ \E n, before \in 0..BytesMax : Encode(n, before) \/ InplaceEncode(n, before)
       \/ \E text \in SeqOf({"c", "=", "x"}, TextMax), before \in 0..BytesMax :
             Decode(text, before) \/ InplaceDecode(text, before)

B64Spec == B64Init /\ [][B64Next]_b64Vars

----------------------------------------------------------------------------
B64TypeOK == coded.before \in Nat /\ coded.after \in Nat

(***************************************************************************)
(* A buffer is never written past its end; a text that is refused leaves   *)
(* the vector it would have been appended to unchanged; decoding what was  *)
(* encoded gives as many bytes back, and any other text of an accepted     *)
(* shape fits the size asked for; the error is about the text.             *)
(***************************************************************************)
Base64Sound ==
    /\ coded.op = "inplace" => coded.after <= coded.before
    /\ coded.op = "decode" /\ coded.answer # "ok" => coded.after = coded.before
    /\ coded.op = "encode" => /\ CDecode(coded.text) = coded.bytes
                              /\ coded.bytes <= DecodedSize(Len(coded.text))
    /\ coded.op = "decode" => coded.after - coded.before <= DecodedSize(Len(coded.text))
    /\ coded.answer = "InvalidCharacter" => "x" \in ToSet(coded.text)
    /\ coded.answer = "InvalidPadding" => "=" \in ToSet(coded.text)
=============================================================================
