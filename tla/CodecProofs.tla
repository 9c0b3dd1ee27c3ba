----------------------------- MODULE CodecProofs ----------------------------
(***************************************************************************)
(* Proofs about the components that turn bytes into values and back, for   *)
(* every size, limit and alphabet.  They share no state: each part has its *)
(* own invariant and its own theorem.                                      *)
(***************************************************************************)
EXTENDS Services, FiniteSetTheorems, SequenceTheorems, TLAPS

-----------------------------------------------------------------------------
(* Induction.  The finite subsets of a set are well founded, so a set of   *)
(* numbers has a least one; what holds of 0 and passes on from each number *)
(* to the next holds of all of them; and a function defined by recursion   *)
(* exists and has the type its steps keep.                                 *)

LEMMA LeastNumber ==
  ASSUME NEW T, T \subseteq Nat, T # {}
  PROVE  \E n \in T : \A m \in T : n <= m
  <1> DEFINE U == {1..n : n \in T}
  <1>1. U \subseteq FiniteSubsetsOf(Nat) /\ U # {}
    <2>1. ASSUME NEW n \in T PROVE 1..n \in SUBSET Nat /\ IsFiniteSet(1..n)
      BY FS_Interval
    <2> QED BY <2>1 DEF FiniteSubsetsOf
  <1>2. PICK s \in U : \A r \in U : <<r, s>> \notin StrictSubsetOrdering(Nat)
    <2> HIDE DEF U
    <2> QED BY <1>1, FS_StrictSubsetOrderingWellFounded, WFMin
  <1>3. PICK n \in T : s = 1..n
    OBVIOUS
  <1>4. ASSUME NEW m \in T, m < n PROVE FALSE
    <2>1. 1..m \in U /\ 1..m \in SUBSET Nat /\ s \in SUBSET Nat
      BY <1>3, <1>4
    <2>2. 1..m \subseteq s /\ n \in s /\ n \notin 1..m
      BY <1>3, <1>4
    <2> QED BY <1>2, <2>1, <2>2 DEF StrictSubsetOrdering
  <1> QED BY <1>4

LEMMA AllNumbers ==
  ASSUME NEW T, 0 \in T, \A n \in Nat : n \in T => n + 1 \in T
  PROVE  Nat \subseteq T
  <1> SUFFICES ASSUME Nat \ T # {} PROVE FALSE
    OBVIOUS
  <1>1. PICK n \in Nat \ T : \A m \in Nat \ T : n <= m
    BY LeastNumber
  <1>2. n # 0 /\ n - 1 \in Nat /\ n - 1 \in T
    BY <1>1
  <1> QED BY <1>1, <1>2

\* f is the function on 0..N that starts with v and goes on by the steps d.
Recursive(f, N, v, d) == f = [n \in 0..N |-> IF n = 0 THEN v ELSE d[n][f[n - 1]]]

LEMMA RecursionExists ==
  ASSUME NEW V, NEW v \in V, NEW d, \A n \in Nat : d[n] \in [V -> V]
  PROVE  \A N \in Nat : \E f \in [0..N -> V] : Recursive(f, N, v, d)
  <1> DEFINE T == {N \in Nat : \E f \in [0..N -> V] : Recursive(f, N, v, d)}
  <1>1. 0 \in T
    <2> DEFINE f == [n \in 0..0 |-> v]
    <2>1. f \in [0..0 -> V] /\ Recursive(f, 0, v, d)
      BY DEF Recursive
    <2> QED BY <2>1
  <1>2. ASSUME NEW N \in Nat, N \in T PROVE N + 1 \in T
    <2>1. PICK f \in [0..N -> V] : Recursive(f, N, v, d)
      BY <1>2
    <2> DEFINE h == [n \in 0..N+1 |-> IF n = N+1 THEN d[N+1][f[N]] ELSE f[n]]
    <2>2. h \in [0..N+1 -> V]
      OBVIOUS
    <2>3. ASSUME NEW n \in 0..N+1 PROVE h[n] = IF n = 0 THEN v ELSE d[n][h[n - 1]]
      <3>1. CASE n = N + 1
        BY <3>1
      <3>2. CASE n # N + 1
        <4>1. n \in 0..N /\ f[n] = IF n = 0 THEN v ELSE d[n][f[n - 1]]
          BY <2>1, <3>2 DEF Recursive
        <4> QED BY <4>1
      <3> QED BY <3>1, <3>2
    <2> HIDE DEF h
    <2>4. Recursive(h, N + 1, v, d)
      BY <2>2, <2>3 DEF Recursive
    <2> QED BY <2>2, <2>4
  <1>3. Nat \subseteq T
    <2> HIDE DEF T
    <2> QED BY <1>1, <1>2, AllNumbers
  <1> QED BY <1>3

-----------------------------------------------------------------------------
(* Base64: the size of an encoding, how a text is read, and that encoding  *)
(* and decoding undo each other whatever the buffers.                      *)

Letters == {"c", "=", "x"}

\* How many characters of padding the encoding of n bytes has.
Padding(n) == (3 - (n % 3)) % 3

LEMMA EncodedSizes ==
  ASSUME NEW n \in Nat
  PROVE  /\ EncodedSize(n) \in Nat /\ EncodedSize(n) % 4 = 0 /\ Padding(n) \in 0..2
         /\ Padding(n) <= EncodedSize(n)
         /\ (EncodedSize(n) \div 4) * 3 - Padding(n) = n
         /\ n <= DecodedSize(EncodedSize(n))
  <1>1. PICK k \in Nat, r \in 0..2 : n = 3 * k + r
    <2>1. n % 3 \in 0..2 /\ n \div 3 \in Nat
      OBVIOUS
    <2>2. n % 3 = n - 3 * (n \div 3)
      OBVIOUS
    <2> QED BY <2>1, <2>2
  <1>2. CASE r = 0
    <2>1. n % 3 = 0 /\ (n + 2) \div 3 = k
      BY <1>1, <1>2
    <2>2. EncodedSize(n) = 4 * k /\ Padding(n) = 0
      BY <2>1 DEF EncodedSize, Padding
    <2> QED BY <1>1, <1>2, <2>2 DEF DecodedSize
  <1>3. CASE r # 0
    <2>1. n % 3 = r /\ (n + 2) \div 3 = k + 1
      BY <1>1, <1>3
    <2>2. EncodedSize(n) = 4 * (k + 1) /\ Padding(n) = 3 - r
      BY <1>1, <1>3, <2>1 DEF EncodedSize, Padding
    <2> QED BY <1>1, <1>3, <2>2 DEF DecodedSize
  <1> QED BY <1>2, <1>3

\* The texts that end in p characters of padding, and have no other.
PaddedText(text, p) ==
  p <= Len(text) /\ \A i \in 1..Len(text) : text[i] = IF i > Len(text) - p THEN "=" ELSE "c"

LEMMA DecodeIs ==
  ASSUME NEW text \in Seq(Letters)
  PROVE  \/ CDecode(text) = -1 /\ (Len(text) % 4 # 0 \/ \A p \in 0..2 : ~PaddedText(text, p))
         \/ \E p \in 0..2 : /\ PaddedText(text, p) /\ Len(text) % 4 = 0
                            /\ CDecode(text) = (Len(text) \div 4) * 3 - p
  <1> DEFINE pads == {p \in 0..2 : PaddedText(text, p)}
  <1>1. CDecode(text) = IF Len(text) % 4 # 0 \/ pads = {} THEN -1
                        ELSE (Len(text) \div 4) * 3 - CHOOSE p \in pads : TRUE
    BY DEF CDecode, PaddedText
  <1>2. CASE Len(text) % 4 # 0 \/ pads = {}
    BY <1>1, <1>2
  <1>3. CASE Len(text) % 4 = 0 /\ pads # {}
    <2> DEFINE q == CHOOSE p \in pads : TRUE
    <2>1. q \in pads
      BY <1>3
    <2> HIDE DEF q
    <2>2. CDecode(text) = (Len(text) \div 4) * 3 - q
      BY <1>1, <1>3 DEF q
    <2> QED BY <1>3, <2>1, <2>2
  <1> QED BY <1>2, <1>3

LEMMA DecodeBounds ==
  ASSUME NEW text \in Seq(Letters)
  PROVE  /\ CDecode(text) \in Int /\ CDecode(text) <= DecodedSize(Len(text))
         /\ DecodedSize(Len(text)) \in Nat
  <1>1. Len(text) \in Nat /\ Len(text) \div 4 <= (Len(text) + 3) \div 4 /\ Len(text) \div 4 \in Nat
    OBVIOUS
  <1>2. CASE CDecode(text) = -1
    BY <1>1, <1>2 DEF DecodedSize
  <1>3. CASE \E p \in 0..2 : CDecode(text) = (Len(text) \div 4) * 3 - p
    BY <1>1, <1>3 DEF DecodedSize
  <1> QED BY <1>2, <1>3, DecodeIs

LEMMA RefusedText ==
  ASSUME NEW text \in Seq(Letters), CDecode(text) < 0
  PROVE  /\ DecodeError(text) = "InvalidCharacter" => "x" \in ToSet(text)
         /\ DecodeError(text) = "InvalidPadding" => "=" \in ToSet(text)
         /\ DecodeError(text) # "ok"
  <1>1. Len(text) \in Nat /\ (\A i \in 1..Len(text) : text[i] \in Letters)
        /\ ToSet(text) = {text[i] : i \in 1..Len(text)}
    BY DEF ToSet
  <1>2. ASSUME DecodeError(text) = "InvalidPadding", "=" \notin ToSet(text) PROVE FALSE
    <2>1. Len(text) % 4 = 0 /\ \A i \in 1..Len(text) : text[i] = "c"
      BY <1>1, <1>2 DEF DecodeError, Letters
    <2>2. PaddedText(text, 0)
      BY <1>1, <2>1 DEF PaddedText
    <2>3. PICK p \in 0..2 : PaddedText(text, p) /\ CDecode(text) = (Len(text) \div 4) * 3 - p
      BY <2>1, <2>2, DecodeIs
    <2>4. p = 0
      <3>1. SUFFICES ASSUME p # 0 PROVE FALSE
        OBVIOUS
      <3>2. Len(text) \in 1..Len(text) /\ Len(text) > Len(text) - p
        BY <1>1, <2>3, <3>1 DEF PaddedText
      <3>3. text[Len(text)] = "="
        BY <2>3, <3>2 DEF PaddedText
      <3> QED BY <2>1, <3>2, <3>3
    <2> QED BY <1>1, <2>3, <2>4
  <1>3. DecodeError(text) = "InvalidCharacter" => "x" \in ToSet(text)
    BY <1>1 DEF DecodeError, Letters
  <1>4. DecodeError(text) # "ok"
    BY DEF DecodeError
  <1> QED BY <1>2, <1>3, <1>4

LEMMA EncodedDecodes ==
  ASSUME NEW n \in Nat
  PROVE  /\ CEncode(n) \in Seq(Letters) /\ Len(CEncode(n)) = EncodedSize(n)
         /\ CDecode(CEncode(n)) = n
  <1> DEFINE t == CEncode(n)
             size == EncodedSize(n)
             q == Padding(n)
  <1>1. size \in Nat /\ q \in 0..2 /\ q <= size /\ size % 4 = 0 /\ (size \div 4) * 3 - q = n
    BY EncodedSizes
  <1>2. t = [i \in 1..size |-> IF i > size - q THEN "=" ELSE "c"]
    BY DEF CEncode, Padding
  <1> HIDE DEF t, size, q
  <1>3. t \in Seq(Letters) /\ Len(t) = size
    BY <1>1, <1>2 DEF Letters
  <1>4. \A i \in 1..size : t[i] = IF i > size - q THEN "=" ELSE "c"
    BY <1>2
  <1>5. PaddedText(t, q)
    BY <1>1, <1>3, <1>4 DEF PaddedText
  <1>6. PICK p \in 0..2 : PaddedText(t, p) /\ CDecode(t) = (Len(t) \div 4) * 3 - p
    BY <1>1, <1>3, <1>5, DecodeIs
  <1>7. p <= size /\ \A i \in 1..size : (i > size - p) <=> (i > size - q)
    <2>1. p <= size /\ \A i \in 1..size : t[i] = IF i > size - p THEN "=" ELSE "c"
      BY <1>3, <1>6 DEF PaddedText
    <2> QED BY <1>4, <2>1
  <1>8. p = q
    <2>1. CASE p < q
      <3>1. size - p \in 1..size /\ ~(size - p > size - p) /\ size - p > size - q
        BY <1>1, <2>1
      <3> QED BY <1>7, <3>1
    <2>2. CASE q < p
      <3>1. size - q \in 1..size /\ ~(size - q > size - q) /\ size - q > size - p
        BY <1>1, <1>7, <2>2
      <3> QED BY <1>7, <3>1
    <2> QED BY <1>1, <2>1, <2>2
  <1> QED BY <1>1, <1>3, <1>6, <1>8 DEF t, size

B64Inv == B64TypeOK /\ Base64Sound

LEMMA SeqOfType ==
  ASSUME NEW S, NEW n \in Nat, NEW s \in SeqOf(S, n)
  PROVE  s \in Seq(S) /\ Len(s) <= n
  <1>1. PICK m \in 0..n : s \in [1..m -> S]
    BY DEF SeqOf
  <1> QED BY <1>1

LEMMA EncodeSound ==
  ASSUME NEW n \in Nat, NEW before \in Nat
  PROVE  Encode(n, before) \/ InplaceEncode(n, before) => B64Inv'
  <1>1. /\ CEncode(n) \in Seq(Letters) /\ Len(CEncode(n)) = EncodedSize(n)
        /\ CDecode(CEncode(n)) = n /\ EncodedSize(n) \in Nat
        /\ n <= DecodedSize(Len(CEncode(n)))
    BY EncodedDecodes, EncodedSizes
  <1>2. ASSUME Encode(n, before) PROVE B64Inv'
    BY <1>1, <1>2 DEF Encode, B64Inv, B64TypeOK, Base64Sound
  <1>3. ASSUME InplaceEncode(n, before) PROVE B64Inv'
    BY <1>1, <1>3 DEF InplaceEncode, B64Inv, B64TypeOK, Base64Sound
  <1> QED BY <1>2, <1>3

LEMMA DecodeSound ==
  ASSUME NEW text \in Seq(Letters), NEW before \in Nat
  PROVE  Decode(text, before) \/ InplaceDecode(text, before) => B64Inv'
  <1>1. /\ CDecode(text) \in Int /\ CDecode(text) <= DecodedSize(Len(text))
        /\ DecodedSize(Len(text)) \in Nat /\ Len(text) \in Nat
    BY DecodeBounds
  <1>2. CDecode(text) < 0 =>
          /\ DecodeError(text) = "InvalidCharacter" => "x" \in ToSet(text)
          /\ DecodeError(text) = "InvalidPadding" => "=" \in ToSet(text)
          /\ DecodeError(text) # "ok"
    BY RefusedText
  <1>3. text = <<>> => DecodedSize(Len(text)) = 0
    BY DEF DecodedSize
  <1>4. ASSUME Decode(text, before) PROVE B64Inv'
    BY <1>1, <1>2, <1>4 DEF Decode, B64Inv, B64TypeOK, Base64Sound
  <1>5. ASSUME InplaceDecode(text, before) PROVE B64Inv'
    BY <1>1, <1>2, <1>3, <1>5 DEF InplaceDecode, B64Inv, B64TypeOK, Base64Sound
  <1> QED BY <1>4, <1>5

\* Base64Sound: whatever is encoded or decoded and whatever the vector holds before, decoding
\* what encode wrote gives as many bytes back, decode_inplace and decode never go past the
\* buffer, and a text that is refused leaves the vector as it was.
THEOREM Base64AlwaysSound == B64Spec => [](B64TypeOK /\ Base64Sound)
  <1>1. B64Init => B64Inv
    BY DEF B64Init, NotCoded, B64Inv, B64TypeOK, Base64Sound
  <1>2. B64Inv /\ [B64Next]_b64Vars => B64Inv'
    <2> SUFFICES ASSUME B64Inv, [B64Next]_b64Vars PROVE B64Inv'
      OBVIOUS
    <2>1. ASSUME NEW n \in 0..BytesMax, NEW before \in 0..BytesMax,
                 Encode(n, before) \/ InplaceEncode(n, before)
          PROVE  B64Inv'
      BY <2>1, EncodeSound, Base64Assumption
    <2>2. ASSUME NEW text \in SeqOf({"c", "=", "x"}, TextMax), NEW before \in 0..BytesMax,
                 Decode(text, before) \/ InplaceDecode(text, before)
          PROVE  B64Inv'
      BY <2>2, DecodeSound, SeqOfType, Base64Assumption DEF Letters
    <2>3. CASE UNCHANGED b64Vars
      BY <2>3 DEF b64Vars, B64Inv, B64TypeOK, Base64Sound
    <2> QED BY <2>1, <2>2, <2>3 DEF B64Next
  <1> QED BY <1>1, <1>2, PTL DEF B64Spec, B64Inv

-----------------------------------------------------------------------------
(* compact-u16: every number of two bytes is read back from the one, two   *)
(* or three bytes it is written in, and no other bytes are read.           *)

U16 == 0..(256 * 256 - 1)

LEMMA U16Is == \A v \in U16 : v \in Nat /\ v < 256 * 256
  <1>1. \A n \in Nat : \A v \in 0..(n - 1) : v \in Nat /\ v < n
    OBVIOUS
  <1>2. 256 * 256 \in Nat
    OBVIOUS
  <1> QED BY <1>1, <1>2, Zenon DEF U16

\* Of a number of seven-bit digits, the digits.
LEMMA Digits ==
  ASSUME NEW v \in U16
  PROVE  \E a \in 0..127, b \in 0..127, c \in 0..3 :
           /\ v = a + 128 * (b + 128 * c)
           /\ v % 128 = a /\ v \div (128 * 128) = c /\ (v \div 128) % 128 = b
           /\ v < 128 * 128 => v \div 128 = b
  <1> DEFINE a == v % 128
             w == v \div 128
             b == w % 128
             c == w \div 128
  <1>1. v \in Nat /\ v < 256 * 256
    BY U16Is, Zenon
  <1>2. a \in 0..127 /\ w \in Nat /\ w < 4 * 128 /\ a = v - 128 * w
    <2>1. a \in 0..127 /\ w \in Nat
      BY <1>1
    <2>2. a = v - 128 * w
      BY <1>1
    <2> HIDE DEF a, w
    <2>3. w < 4 * 128
      BY <1>1, <2>1, <2>2
    <2> QED BY <2>1, <2>2, <2>3
  <1>3. b \in 0..127 /\ c \in 0..3 /\ b = w - 128 * c
    BY <1>2
  <1> HIDE DEF a, w, b, c
  <1>4. v = a + 128 * (b + 128 * c)
    BY <1>1, <1>2, <1>3
  <1>5. v \div (128 * 128) = c
    BY <1>1, <1>2, <1>3, <1>4
  <1>6. v < 128 * 128 => w = b
    BY <1>1, <1>2, <1>3
  <1>7. v % 128 = a /\ v \div 128 = w /\ (v \div 128) % 128 = b
    BY DEF a, b, w
  <1>8. /\ v = a + 128 * (b + 128 * c)
        /\ v % 128 = a /\ v \div (128 * 128) = c /\ (v \div 128) % 128 = b
        /\ v < 128 * 128 => v \div 128 = b
    BY <1>4, <1>5, <1>6, <1>7, Zenon
  <1> a \in 0..127 /\ b \in 0..127 /\ c \in 0..3
    BY <1>2, <1>3
  <1> WITNESS a \in 0..127, b \in 0..127, c \in 0..3
  <1> QED BY <1>8

LEMMA CompactOne ==
  ASSUME NEW s \in Seq(Nat), Len(s) >= 1, s[1] < 128
  PROVE  CompactDecode(s) = <<s[1], 1>>
  BY DEF CompactDecode

LEMMA CompactTwo ==
  ASSUME NEW s \in Seq(Nat), Len(s) >= 1, s[1] >= 128
  PROVE  /\ Len(s) = 1 => CompactDecode(s) = <<>>
         /\ Len(s) >= 2 /\ s[2] \in 1..127 => CompactDecode(s) = <<(s[1] - 128) + 128 * s[2], 2>>
  <1>1. s[1] \in Nat /\ Len(s) \in Nat
    OBVIOUS
  <1>2. ~(s[1] < 128)
    BY <1>1
  <1>3. Len(s) = 1 => ~(Len(s) >= 2) /\ ~(Len(s) >= 3)
    OBVIOUS
  <1> QED BY <1>2, <1>3, Zenon DEF CompactDecode

LEMMA NotASevenBitDigit == \A n \in Nat : n >= 128 => n \notin 1..127
  OBVIOUS

LEMMA CompactThree ==
  ASSUME NEW s \in Seq(Nat), Len(s) >= 2, s[1] >= 128, s[2] >= 128
  PROVE  /\ Len(s) = 2 => CompactDecode(s) = <<>>
         /\ Len(s) >= 3 /\ s[3] \in 1..3 =>
              CompactDecode(s) = <<(s[1] - 128) + 128 * ((s[2] - 128) + 128 * s[3]), 3>>
  <1>1. s[1] \in Nat /\ s[2] \in Nat /\ Len(s) \in Nat
    OBVIOUS
  <1>2. ~(s[1] < 128)
    BY <1>1
  <1>3. s[2] \notin 1..127
    BY <1>1, NotASevenBitDigit, Zenon
  <1>4. Len(s) = 2 => ~(Len(s) >= 3)
    OBVIOUS
  <1> QED BY <1>2, <1>3, <1>4, Zenon DEF CompactDecode

\* Not only at the values a run tries: every u16 is read back from the bytes CompactU16::encode
\* writes, whatever follows them, and not from fewer.
THEOREM CompactExact ==
  ASSUME NEW v \in U16
  PROVE  LET b == CompactEncode(v)
         IN /\ CompactDecode(b) = <<v, Len(b)>> /\ CompactSize(b \o <<200>>) = Len(b)
            /\ CompactDecode(SubSeq(b, 1, Len(b) - 1)) = <<>>
  <1>1. v \in Nat
    BY U16Is, Zenon
  <1>2. PICK d0 \in 0..127, d1 \in 0..127, d2 \in 0..3 :
           /\ v = d0 + 128 * (d1 + 128 * d2)
           /\ v % 128 = d0 /\ v \div (128 * 128) = d2 /\ (v \div 128) % 128 = d1
           /\ v < 128 * 128 => v \div 128 = d1
    BY Digits, Zenon
  <1> DEFINE b == CompactEncode(v)
             more == b \o <<200>>
             cut == SubSeq(b, 1, Len(b) - 1)
  <1>3. ASSUME b \in Seq(Nat), Len(b) >= 1
        PROVE  /\ more \in Seq(Nat) /\ Len(more) = Len(b) + 1 /\ \A i \in 1..Len(b) : more[i] = b[i]
               /\ cut \in Seq(Nat) /\ Len(cut) = Len(b) - 1 /\ \A i \in 1..(Len(b) - 1) : cut[i] = b[i]
    <2> HIDE DEF b
    <2>1. <<200>> \in Seq(Nat) /\ Len(<<200>>) = 1
      OBVIOUS
    <2>2. more \in Seq(Nat) /\ Len(more) = Len(b) + 1 /\ \A i \in 1..Len(b) : more[i] = b[i]
      BY <1>3, <2>1, ConcatProperties
    <2>3. 1 \in 1..(Len(b) + 1) /\ Len(b) - 1 \in (1 - 1)..Len(b)
      BY <1>3
    <2>4. /\ cut \in Seq(Nat) /\ Len(cut) = Len(b) - 1
          /\ \A i \in 1..(Len(b) - 1) : cut[i] = b[i]
      <3>1. Len(b) \in Nat /\ \A i \in 1..(Len(b) - 1) : b[i] \in Nat
        BY <1>3
      <3>2. cut \in Seq(Nat)
        BY <1>3, <3>1, SubSeqProperties
      <3>3. Len(cut) = IF 1 <= Len(b) - 1 THEN (Len(b) - 1) - 1 + 1 ELSE 0
        BY <1>3, <3>1, SubSeqProperties
      <3>4. \A i \in 1..((Len(b) - 1) - 1 + 1) : cut[i] = b[1 + i - 1]
        BY <1>3, <3>1, SubSeqProperties
      <3> HIDE DEF cut
      <3>5. Len(cut) = Len(b) - 1
        <4>1. \A n \in Nat : n >= 1 => (IF 1 <= n - 1 THEN (n - 1) - 1 + 1 ELSE 0) = n - 1
          OBVIOUS
        <4> QED BY <1>3, <3>1, <3>3, <4>1, Zenon
      <3>6. ASSUME NEW i \in 1..(Len(b) - 1) PROVE cut[i] = b[i]
        <4>1. i \in 1..((Len(b) - 1) - 1 + 1) /\ 1 + i - 1 = i
          BY <3>1
        <4> QED BY <3>4, <4>1
      <3> QED BY <3>2, <3>5, <3>6
    <2> QED BY <2>2, <2>4
  <1> HIDE DEF more, cut
  <1>4. CASE v < 128
    <2>1. b = <<v>>
      BY <1>4 DEF CompactEncode
    <2>2. b \in Seq(Nat) /\ Len(b) = 1 /\ b[1] = v
      BY <1>1, <2>1
    <2> HIDE DEF b
    <2>3. CompactDecode(b) = <<v, 1>>
      BY <1>4, <2>2, CompactOne
    <2>4. more \in Seq(Nat) /\ Len(more) >= 1 /\ more[1] = v
      <3>1. Len(b) >= 1 /\ 1 \in 1..Len(b) /\ Len(b) + 1 = 2 /\ 2 >= 1
        BY <2>2
      <3> QED BY <1>3, <2>2, <3>1, Zenon
    <2>5. CompactDecode(more) = <<v, 1>>
      BY <1>4, <2>4, CompactOne
    <2>6. CompactDecode(cut) = <<>>
      <3>1. Len(cut) = 0
        BY <1>3, <2>2
      <3>2. ~(Len(cut) >= 1) /\ ~(Len(cut) >= 2) /\ ~(Len(cut) >= 3)
        BY <3>1
      <3> QED BY <3>2, Zenon DEF CompactDecode
    <2> QED BY <2>2, <2>3, <2>5, <2>6 DEF CompactSize, more, cut, b
  <1>5. CASE v >= 128 /\ v < 128 * 128
    <2>1. b = <<d0 + 128, d1>> /\ d2 = 0 /\ d1 \in 1..127
      BY <1>2, <1>5 DEF CompactEncode
    <2>2. b \in Seq(Nat) /\ Len(b) = 2 /\ b[1] = d0 + 128 /\ b[2] = d1
      BY <2>1
    <2> HIDE DEF b
    <2>0. Len(b) >= 1 /\ Len(b) >= 2 /\ b[2] \in 1..127 /\ 1 \in 1..Len(b) /\ 2 \in 1..Len(b)
      BY <2>1, <2>2
    <2>3. (b[1] - 128) + 128 * b[2] = v /\ b[1] >= 128
      BY <1>2, <2>1, <2>2
    <2>4. CompactDecode(b) = <<v, 2>>
      <3>1. CompactDecode(b) = <<(b[1] - 128) + 128 * b[2], 2>>
        BY <2>0, <2>2, <2>3, CompactTwo, Zenon
      <3> QED BY <2>3, <3>1, Zenon
    <2>5. /\ more \in Seq(Nat) /\ more[1] = b[1] /\ more[2] = b[2]
          /\ Len(more) >= 1 /\ Len(more) >= 2
      <3>1. Len(more) = 2 + 1
        BY <1>3, <2>0, <2>2, Zenon
      <3>2. Len(more) >= 1 /\ Len(more) >= 2
        BY <3>1
      <3> QED BY <1>3, <2>0, <2>2, <3>2, Zenon
    <2>6. CompactDecode(more) = <<v, 2>>
      <3>1. CompactDecode(more) = <<(more[1] - 128) + 128 * more[2], 2>>
        BY <2>0, <2>3, <2>5, CompactTwo, Zenon
      <3> QED BY <2>3, <2>5, <3>1, Zenon
    <2>7. CompactDecode(cut) = <<>>
      <3>1. cut \in Seq(Nat) /\ Len(cut) = 1 /\ Len(cut) >= 1 /\ cut[1] = b[1]
        <4>1. 2 - 1 = 1 /\ 1 >= 1 /\ 1 \in 1..1
          OBVIOUS
        <4> QED BY <1>3, <2>0, <2>2, <4>1, Zenon
      <3> QED BY <2>3, <3>1, CompactTwo, Zenon
    <2> QED BY <2>2, <2>4, <2>6, <2>7 DEF CompactSize, more, cut, b
  <1>6. CASE v >= 128 * 128
    <2>1. b = <<d0 + 128, d1 + 128, d2>> /\ d2 \in 1..3
      BY <1>2, <1>6 DEF CompactEncode
    <2>2. b \in Seq(Nat) /\ Len(b) = 3 /\ b[1] = d0 + 128 /\ b[2] = d1 + 128 /\ b[3] = d2
      BY <2>1
    <2> HIDE DEF b
    <2>0. /\ Len(b) >= 1 /\ Len(b) >= 2 /\ Len(b) >= 3 /\ b[3] \in 1..3
          /\ 1 \in 1..Len(b) /\ 2 \in 1..Len(b) /\ 3 \in 1..Len(b)
      BY <2>1, <2>2
    <2>3. (b[1] - 128) + 128 * ((b[2] - 128) + 128 * b[3]) = v /\ b[1] >= 128 /\ b[2] >= 128
      BY <1>2, <2>1, <2>2
    <2>4. CompactDecode(b) = <<v, 3>>
      <3>1. CompactDecode(b) = <<(b[1] - 128) + 128 * ((b[2] - 128) + 128 * b[3]), 3>>
        BY <2>0, <2>2, <2>3, CompactThree, Zenon
      <3> QED BY <2>3, <3>1, Zenon
    <2>5. /\ more \in Seq(Nat) /\ more[1] = b[1] /\ more[2] = b[2] /\ more[3] = b[3]
          /\ Len(more) >= 2 /\ Len(more) >= 3
      <3>1. Len(more) = 3 + 1
        BY <1>3, <2>0, <2>2, Zenon
      <3>2. Len(more) >= 2 /\ Len(more) >= 3
        BY <3>1
      <3> QED BY <1>3, <2>0, <2>2, <3>2, Zenon
    <2>6. CompactDecode(more) = <<v, 3>>
      <3>1. CompactDecode(more) = <<(more[1] - 128) + 128 * ((more[2] - 128) + 128 * more[3]), 3>>
        BY <2>0, <2>3, <2>5, CompactThree, Zenon
      <3> QED BY <2>3, <2>5, <3>1, Zenon
    <2>7. CompactDecode(cut) = <<>>
      <3>1. cut \in Seq(Nat) /\ Len(cut) = 2 /\ Len(cut) >= 2 /\ cut[1] = b[1] /\ cut[2] = b[2]
        <4>1. 3 - 1 = 2 /\ 2 >= 2 /\ 1 \in 1..2 /\ 2 \in 1..2
          OBVIOUS
        <4> QED BY <1>3, <2>0, <2>2, <4>1, Zenon
      <3> QED BY <2>3, <3>1, CompactThree, Zenon
    <2> QED BY <2>2, <2>4, <2>6, <2>7 DEF CompactSize, more, cut, b
  <1>7. 128 * 128 \in Nat
    OBVIOUS
  <1> QED BY <1>1, <1>4, <1>5, <1>6, <1>7

\* CompactRoundTrip, from CompactExact.
LEMMA CompactSound == CompactRoundTrip
  <1>1. CompactValues \subseteq U16
    BY DEF CompactValues, U16
  <1> QED BY <1>1, CompactExact DEF CompactRoundTrip

-----------------------------------------------------------------------------
(* The averages of fd_math, for words of any width.                        *)

\* avg::avg2_*, whichever way the sum is kept from overflowing: the mean rounded down, of any
\* two integers, and between the limits of any type that both lie in, as are the halves added
\* on the way: the lower limit of a type, signed or not, is even.
THEOREM AveragesInRange ==
  ASSUME NEW lo \in Int, NEW hi \in Int, lo % 2 = 0, NEW x \in lo..hi, NEW y \in lo..hi
  PROVE  /\ Avg2Halves(x, y) = Avg2Widened(x, y) /\ Avg2HalvesSigned(x, y) = Avg2Widened(x, y)
         /\ Avg2Widened(x, y) \in lo..hi
         /\ (x \div 2) + (y \div 2) \in lo..hi
  <1> DEFINE a == x \div 2
             b == y \div 2
             r == x % 2
             s == y % 2
  <1>1. a \in Int /\ r \in 0..1 /\ x = 2 * a + r /\ x \in Int
    OBVIOUS
  <1>2. b \in Int /\ s \in 0..1 /\ y = 2 * b + s /\ y \in Int
    OBVIOUS
  <1> HIDE DEF a, b, r, s
  <1>3. r * s \in 0..1 /\ (r = 0 => r * s = 0) /\ (s = 0 => r * s = 0) /\ (r = 1 /\ s = 1 => r * s = 1)
    BY <1>1, <1>2
  <1>4. (x + y) \div 2 = a + b + r * s
    <2>1. CASE r = 1 /\ s = 1
      BY <1>1, <1>2, <1>3, <2>1
    <2>2. CASE r = 0 \/ s = 0
      BY <1>1, <1>2, <1>3, <2>2
    <2> QED BY <1>1, <1>2, <2>1, <2>2
  <1>5. a + b + r * s \in lo..hi /\ a + b \in lo..hi
    <2>1. lo <= x /\ x <= hi /\ lo <= y /\ y <= hi
      OBVIOUS
    <2>4. PICK m \in Int : lo = 2 * m
      <3>1. lo \div 2 \in Int /\ lo = 2 * (lo \div 2)
        OBVIOUS
      <3> QED BY <3>1
    <2>5. m <= a /\ m <= b
      BY <1>1, <1>2, <2>1, <2>4
    <2>2. CASE r = 1 /\ s = 1
      BY <1>1, <1>2, <1>3, <2>1, <2>2, <2>4, <2>5
    <2>3. CASE r = 0 \/ s = 0
      BY <1>1, <1>2, <1>3, <2>1, <2>3, <2>4, <2>5
    <2> QED BY <1>1, <1>2, <2>2, <2>3
  <1>6. Avg2Halves(x, y) = a + b + r * s /\ Avg2HalvesSigned(x, y) = a + b + r * s
        /\ Avg2Widened(x, y) = (x + y) \div 2
    BY DEF Avg2Halves, Avg2HalvesSigned, Avg2Widened, a, b, r, s
  <1> QED BY <1>4, <1>5, <1>6 DEF a, b

-----------------------------------------------------------------------------
(* Parsed transactions.  What an iterator over a category has yielded is   *)
(* the front of the category, in order (WalkInv).                          *)

TxnIndex ==
  [version: {"Legacy", "V0"}, sigs: Nat, roSigned: Nat, roUnsigned: Nat, static: Nat,
   tableW: Nat, tableR: Nat, instr: Seq([program: Nat, accts: Seq(Nat)])]

\* What has been parsed, and where the iterators over it are: an AccountIter has yielded
\* the accounts of its category in front of those it has left.
ParsedInv ==
  /\ txn = NoTxn \/ (txn \in TxnIndex /\ WellFormed(txn) /\ Len(txn.instr) <= 1)
  /\ instrs \in 0..1
  /\ instrs > 0 => txn # NoTxn /\ instrs <= Len(txn.instr)

WalkInv ==
  /\ walk = NoWalk \/ txn # NoTxn
  /\ walk.cat \subseteq Categories /\ walk.yielded \in Seq(Nat)
  /\ walk = NoWalk \/ walk.left \subseteq InCategory(txn, walk.cat)
  /\ walk = NoWalk \/ ToSet(walk.yielded) = InCategory(txn, walk.cat) \ walk.left
  /\ \A k \in 1..Len(walk.yielded) : walk.yielded[k] < txn.static
  /\ \A k \in 1..Len(walk.yielded), i \in walk.left : walk.yielded[k] < i
  /\ \A k, m \in 1..Len(walk.yielded) : k < m => walk.yielded[k] < walk.yielded[m]
  /\ walk.ended => walk # NoWalk /\ \A i \in walk.left : i >= txn.static

WalkShape == walk \in [cat: SUBSET Categories, left: SUBSET Nat, yielded: Seq(Nat), ended: BOOLEAN]

TvInv == ParsedInv /\ WalkShape /\ WalkInv /\ PanicsOnlyForTables

LEMMA LeastOf ==
  ASSUME NEW S, S \subseteq Nat, S # {}
  PROVE  Min(S) \in S /\ \A i \in S : Min(S) <= i
  BY LeastNumber DEF Min

\* The predicates agree with the categories.
LEMMA CategoriesAgree ==
  ASSUME txn \in TxnIndex, WellFormed(txn)
  PROVE  /\ FeePayer(txn) < txn.static /\ IsSigner(txn, FeePayer(txn)) /\ IsWritable(txn, FeePayer(txn))
         /\ \A i \in 0..(TotalCount(txn) - 1) :
              /\ IsSigner(txn, i) <=> CategoryOf(txn, i) \in Signer
              /\ IsWritable(txn, i) <=> CategoryOf(txn, i) \in Writable
         /\ \A i \in Nat : i >= txn.static => CategoryOf(txn, i) \in AddressLookup
         /\ txn.version = "Legacy" => TotalCount(txn) = txn.static
  <1> DEFINE s == txn.sigs
             a == txn.roSigned
             u == txn.roUnsigned
             n == txn.static
             w == txn.tableW
             r == txn.tableR
  <1>1. /\ s \in Nat /\ a \in Nat /\ u \in Nat /\ n \in Nat /\ w \in Nat /\ r \in Nat
        /\ s > 0 /\ a < s /\ s <= n /\ u <= n - s
        /\ txn.version = "Legacy" => w + r = 0
    BY DEF TxnIndex, WellFormed
  <1>2. \A i : CategoryOf(txn, i) = IF i < s - a THEN "WRITABLE_SIGNER" ELSE IF i < s THEN "READONLY_SIGNER"
                                    ELSE IF i < n - u THEN "WRITABLE_NONSIGNER_IMM"
                                    ELSE IF i < n THEN "READONLY_NONSIGNER_IMM"
                                    ELSE IF i < n + w THEN "WRITABLE_ALT" ELSE "READONLY_ALT"
    BY DEF CategoryOf
  <1>3. \A i : /\ IsSigner(txn, i) <=> i < s
               /\ IsWritable(txn, i) <=> \/ i < s - a
                                         \/ i >= s /\ i < n - u
                                         \/ i >= n /\ i < n + w
    BY DEF IsSigner, IsWritable
  <1>4. FeePayer(txn) = 0 /\ TotalCount(txn) = n + w + r
    BY DEF FeePayer, TotalCount
  <1> HIDE DEF s, a, u, n, w, r
  <1>5. FeePayer(txn) < n /\ IsSigner(txn, FeePayer(txn)) /\ IsWritable(txn, FeePayer(txn))
    BY <1>1, <1>3, <1>4
  <1>6. ASSUME NEW i \in Nat
        PROVE  /\ IsSigner(txn, i) <=> CategoryOf(txn, i) \in Signer
               /\ IsWritable(txn, i) <=> CategoryOf(txn, i) \in Writable
               /\ i >= n => CategoryOf(txn, i) \in AddressLookup
    <2>1. CASE i < s - a
      BY <1>1, <1>2, <1>3, <2>1 DEF Signer, Writable
    <2>2. CASE i >= s - a /\ i < s
      BY <1>1, <1>2, <1>3, <2>2 DEF Signer, Writable
    <2>3. CASE i >= s /\ i < n - u
      BY <1>1, <1>2, <1>3, <2>3 DEF Signer, Writable
    <2>4. CASE i >= n - u /\ i < n
      BY <1>1, <1>2, <1>3, <2>4 DEF Signer, Writable
    <2>5. CASE i >= n /\ i < n + w
      BY <1>1, <1>2, <1>3, <2>5 DEF Signer, Writable, AddressLookup
    <2>6. CASE i >= n + w
      BY <1>1, <1>2, <1>3, <2>6 DEF Signer, Writable, AddressLookup
    <2> QED BY <1>1, <2>1, <2>2, <2>3, <2>4, <2>5, <2>6
  <1>7. txn.version = "Legacy" => TotalCount(txn) = n
    BY <1>1, <1>4
  <1>8. \A i \in 0..(TotalCount(txn) - 1) : i \in Nat
    BY <1>1, <1>4
  <1> QED BY <1>5, <1>6, <1>7, <1>8 DEF n

LEMMA TvInvSound == TvInv => TvTypeOK /\ TxnViewSound
  <1> SUFFICES ASSUME TvInv PROVE TvTypeOK /\ TxnViewSound
    OBVIOUS
  <1>1. TvTypeOK
    BY DEF TvInv, ParsedInv, WalkInv, TvTypeOK
  <1>2. walk.ended => ToSet(walk.yielded) = {i \in InCategory(txn, walk.cat) : i < txn.static}
    <2> SUFFICES ASSUME walk.ended
                 PROVE  ToSet(walk.yielded) = {i \in InCategory(txn, walk.cat) : i < txn.static}
      OBVIOUS
    <2> DEFINE all == InCategory(txn, walk.cat)
    <2>1. txn \in TxnIndex /\ walk # NoWalk
      BY DEF TvInv, WalkInv, ParsedInv
    <2>2. ToSet(walk.yielded) = all \ walk.left /\ \A i \in walk.left : i >= txn.static
      BY <2>1 DEF TvInv, WalkInv
    <2>3. \A i \in ToSet(walk.yielded) : i < txn.static
      BY DEF TvInv, WalkInv, ToSet
    <2>4. \A i \in all : i \in Int
      BY DEF InCategory
    <2>5. txn.static \in Nat
      BY <2>1 DEF TxnIndex
    <2> HIDE DEF all
    <2>6. ASSUME NEW i \in all, i < txn.static PROVE i \notin walk.left
      BY <2>2, <2>4, <2>5, <2>6
    <2> QED BY <2>2, <2>3, <2>6 DEF all
  <1>3. txn # NoTxn => txn \in TxnIndex /\ WellFormed(txn)
    BY DEF TvInv, ParsedInv
  <1>4. \A k, m \in 1..Len(walk.yielded) : k < m => walk.yielded[k] < walk.yielded[m]
    BY DEF TvInv, WalkInv
  <1>5. IterationExact
    BY <1>2, <1>3, <1>4, CategoriesAgree DEF IterationExact
  <1> QED BY <1>1, <1>5, CompactSound DEF TvInv, TxnViewSound

LEMMA WiresType ==
  ASSUME NEW t \in Wires
  PROVE  t \in TxnIndex /\ WellFormed(t) /\ Len(t.instr) <= 1 /\ t # NoTxn
  <1>1. PICK s \in 1..StaticMax :
          /\ t \in [version : {"Legacy", "V0"}, sigs : 1..s, roSigned : 0..(s - 1), roUnsigned : 0..(s - 1),
                    static : {s}, tableW : 0..TableMax, tableR : 0..TableMax,
                    instr : {<<>>} \cup { <<i>> : i \in Instrs(s + 1) }]
          /\ WellFormed(t)
    BY DEF Wires
  <1>2. ASSUME NEW i \in Instrs(s + 1) PROVE <<i>> \in Seq([program: Nat, accts: Seq(Nat)])
    <2>1. PICK p \in 1..s, a \in UNION { [1..k -> 0..s] : k \in 0..RefMax } : i = [program |-> p, accts |-> a]
      BY TxnViewAssumption DEF Instrs
    <2>m. PICK m \in 0..RefMax : a \in [1..m -> 0..s]
      OBVIOUS
    <2>2. a \in Seq(Nat)
      BY <2>m, TxnViewAssumption
    <2> QED BY <2>1, <2>2
  <1>3. t.instr \in Seq([program: Nat, accts: Seq(Nat)]) /\ Len(t.instr) <= 1
    <2>1. CASE t.instr = <<>>
      BY <2>1
    <2>2. ASSUME NEW i \in Instrs(s + 1), t.instr = <<i>>
          PROVE  t.instr \in Seq([program: Nat, accts: Seq(Nat)]) /\ Len(t.instr) <= 1
      BY <1>2, <2>2
    <2> QED BY <1>1, <2>1, <2>2
  <1>4. t \in TxnIndex
    <2>1. /\ t.version \in {"Legacy", "V0"} /\ t.sigs \in Nat /\ t.roSigned \in Nat
          /\ t.roUnsigned \in Nat /\ t.static \in Nat /\ t.tableW \in Nat /\ t.tableR \in Nat
      BY <1>1, TxnViewAssumption
    <2>2. t = [version |-> t.version, sigs |-> t.sigs, roSigned |-> t.roSigned,
               roUnsigned |-> t.roUnsigned, static |-> t.static, tableW |-> t.tableW,
               tableR |-> t.tableR, instr |-> t.instr]
      BY <1>1
    <2> HIDE DEF TxnIndex
    <2> QED BY ONLY <1>3, <2>1, <2>2 DEF TxnIndex
  <1>5. t # NoTxn
    BY <1>1 DEF NoTxn
  <1> QED BY <1>1, <1>3, <1>4, <1>5

\* The accessors of an instruction panic only for an account of a lookup table.
LEMMA AddressesPanic ==
  ASSUME TvInv, instrs > 0, NEW idx \in Seq(Nat),
         \A k \in 1..Len(idx) : idx[k] < TotalCount(txn),
         asked' = AddressesOf(txn, idx), txn' = txn
  PROVE  PanicsOnlyForTables'
  <1> SUFFICES ASSUME asked'.kind = "panic" PROVE PanicsOnlyForTables'
    BY DEF PanicsOnlyForTables
  <1>1. txn \in TxnIndex /\ WellFormed(txn)
    BY DEF TvInv, ParsedInv
  <1>2. PICK k \in 1..Len(idx) : idx[k] >= txn.static
    BY DEF AddressesOf
  <1>3. asked'.of = idx
    BY <1>2 DEF AddressesOf
  <1>4. idx[k] \in Nat /\ txn.static \in Nat /\ txn.tableW \in Nat /\ txn.tableR \in Nat
    BY <1>1 DEF TxnIndex
  <1>5. idx[k] < txn.static + txn.tableW + txn.tableR
    BY DEF TotalCount
  <1>6. txn.tableW + txn.tableR > 0
    BY <1>2, <1>4, <1>5
  <1>7. txn.version = "V0"
    <2>1. txn.version \in {"Legacy", "V0"} /\ (txn.version = "Legacy" => txn.tableW + txn.tableR = 0)
      BY <1>1 DEF TxnIndex, WellFormed
    <2> QED BY <1>4, <1>6, <2>1
  <1>8. CategoryOf(txn, idx[k]) \in AddressLookup
    BY <1>1, <1>2, <1>4, CategoriesAgree
  <1>9. txn'.version = "V0" /\ txn'.tableW + txn'.tableR > 0 /\ CategoryOf(txn',
           asked'.of[k]) \in AddressLookup
    BY <1>3, <1>6, <1>7, <1>8
  <1> QED BY <1>3, <1>9 DEF PanicsOnlyForTables, CategoryOf, AddressLookup

LEMMA AccountNextKeeps ==
  ASSUME TvInv, AccountNext
  PROVE  WalkShape' /\ WalkInv'
  <1> DEFINE all == InCategory(txn, walk.cat)
             s == walk.yielded
             left == walk.left
             n == txn.static
  <1>1. walk # NoWalk /\ txn # NoTxn /\ txn \in TxnIndex
    BY DEF AccountNext, NoWalk, TvInv, WalkInv, ParsedInv
  <1>2. n \in Nat
    BY <1>1 DEF TxnIndex
  <1>3. /\ left \subseteq Nat /\ left \subseteq all /\ s \in Seq(Nat) /\ ToSet(s) = all \ left
        /\ walk.cat \subseteq Categories
        /\ \A k \in 1..Len(s) : s[k] < n
        /\ \A k \in 1..Len(s), i \in left : s[k] < i
        /\ \A k, m \in 1..Len(s) : k < m => s[k] < s[m]
        /\ walk = [cat |-> walk.cat, left |-> left, yielded |-> s, ended |-> walk.ended]
    BY <1>1 DEF TvInv, WalkShape, WalkInv
  <1>4. CASE left = {} \/ Min(left) >= n
    <2>1. walk' = [cat |-> walk.cat, left |-> left, yielded |-> s, ended |-> TRUE] /\ txn' = txn
      BY <1>3, <1>4 DEF AccountNext
    <2>2. \A i \in left : i >= n
      BY <1>2, <1>3, <1>4, LeastOf
    <2>3. InCategory(txn', walk'.cat) = all
      BY <2>1
    <2>4. walk' # NoWalk
      BY <2>1 DEF NoWalk
    <2> HIDE DEF all, s, left
    <2> QED BY <1>1, <1>2, <1>3, <2>1, <2>2, <2>3, <2>4 DEF WalkShape, WalkInv
  <1>5. CASE left # {} /\ ~(Min(left) >= n)
    <2> DEFINE i == Min(left)
               s2 == Append(s, i)
               left2 == left \ {i}
    <2>1. walk' = [cat |-> walk.cat, left |-> left2, yielded |-> s2, ended |-> walk.ended] /\ txn' = txn
          /\ ~walk.ended
      BY <1>3, <1>5 DEF AccountNext
    <2>2. i \in left /\ i \in Nat /\ \A j \in left : i <= j
      BY <1>3, <1>5, LeastOf
    <2>3. i < n
      BY <1>2, <1>5, <2>2
    <2>4. InCategory(txn', walk'.cat) = all /\ walk' # NoWalk
      <3>1. s2 # <<>>
        BY <1>3, <2>2
      <3> QED BY <2>1, <3>1 DEF NoWalk
    <2> HIDE DEF i, all, s, left, n
    <2>5. /\ s2 \in Seq(Nat) /\ Len(s2) = Len(s) + 1 /\ Len(s) \in Nat
          /\ \A k \in 1..Len(s) : s2[k] = s[k] 
          /\ s2[Len(s) + 1] = i
      BY <1>3, <2>2, AppendProperties
    <2>6. \A k \in 1..Len(s2) : k \in 1..Len(s) \/ k = Len(s) + 1
      BY <2>5
    <2>7. ToSet(s2) = ToSet(s) \cup {i}
      <3>1. ToSet(s2) = {s2[k] : k \in 1..Len(s2)} /\ ToSet(s) = {s[k] : k \in 1..Len(s)}
        BY DEF ToSet
      <3>2. Len(s) + 1 \in 1..Len(s2) /\ \A k \in 1..Len(s) : k \in 1..Len(s2)
        BY <2>5
      <3> HIDE DEF s2
      <3> QED BY <2>5, <2>6, <3>1, <3>2, Zenon
    <2> HIDE DEF s2, left2
    <2>8. ToSet(s2) = all \ left2
      BY <1>3, <2>2, <2>7 DEF left2
    <2>9. /\ \A k \in 1..Len(s2) : s2[k] < n
          /\ \A k \in 1..Len(s2), j \in left2 : s2[k] < j
      <3>1. \A j \in left2 : i < j /\ j \in left
        BY <1>3, <2>2 DEF left2
      <3> QED BY <1>3, <2>3, <2>5, <2>6, <3>1, Zenon
    <2>10. ASSUME NEW k \in 1..Len(s2), NEW m \in 1..Len(s2), k < m PROVE s2[k] < s2[m]
      <3>1. k \in 1..Len(s)
        BY <2>5, <2>10
      <3>2. CASE m \in 1..Len(s)
        BY <1>3, <2>5, <2>10, <3>1, <3>2, Zenon
      <3>3. CASE m = Len(s) + 1
        BY <1>3, <2>2, <2>5, <3>1, <3>3, Zenon
      <3> QED BY <2>6, <3>2, <3>3
    <2>11. left2 \subseteq Nat /\ left2 \subseteq all
      BY <1>3 DEF left2
    <2>12. WalkShape'
      BY <1>3, <2>1, <2>5, <2>11 DEF WalkShape, TvInv
    <2>13. WalkInv'
      <3>1. /\ walk'.cat = walk.cat /\ walk'.left = left2 /\ walk'.yielded = s2
            /\ walk'.ended = walk.ended /\ txn'.static = n
        BY <2>1 DEF n
      <3> QED BY <1>1, <1>3, <2>1, <2>4, <2>5, <2>8, <2>9, <2>10, <2>11, <3>1, Zenon DEF WalkInv
    <2> QED BY <2>12, <2>13
  <1> QED BY <1>4, <1>5

LEMMA TvStep == TvInv /\ [TvNext]_tvVars => TvInv'
  <1> SUFFICES ASSUME TvInv, [TvNext]_tvVars PROVE TvInv'
    OBVIOUS
  <1>1. ASSUME NEW t \in Wires, Parse(t) PROVE TvInv'
    <2>1. txn = NoTxn /\ txn' = t /\ UNCHANGED <<walk, instrs, asked>>
      BY <1>1 DEF Parse
    <2>2. t \in TxnIndex /\ WellFormed(t) /\ Len(t.instr) <= 1 /\ t # NoTxn
      BY WiresType
    <2>3. instrs = 0 /\ walk = NoWalk /\ asked.kind # "panic"
      BY <2>1 DEF TvInv, ParsedInv, WalkInv, PanicsOnlyForTables, NoTxn
    <2>4. ParsedInv'
      BY <2>1, <2>2, <2>3 DEF ParsedInv, WellFormed, TotalCount
    <2>5. WalkShape' /\ WalkInv'
      BY <2>1, <2>3 DEF TvInv, WalkShape, WalkInv, NoWalk
    <2> QED BY <2>1, <2>3, <2>4, <2>5 DEF TvInv, PanicsOnlyForTables
  <1>2. ASSUME NEW e \in ParseErrors, ParseFails(e) PROVE TvInv'
    <2>1. txn' = txn /\ walk' = walk /\ instrs' = instrs /\ asked'.kind # "panic"
      BY <1>2 DEF ParseFails, ParseErrors, NotAsked
    <2>2. ParsedInv' /\ WalkShape' /\ WalkInv'
      BY <2>1 DEF TvInv, ParsedInv, WalkShape, WalkInv, InCategory
    <2> QED BY <2>1, <2>2 DEF TvInv, PanicsOnlyForTables
  <1>3. ASSUME NEW cat \in SUBSET Categories, AccountsByCategory(cat) PROVE TvInv'
    <2>1. /\ txn # NoTxn /\ txn' = txn /\ instrs' = instrs /\ asked' = asked
          /\ walk' = [cat |-> cat, left |-> InCategory(txn, cat), yielded |-> <<>>, ended |-> FALSE]
      BY <1>3 DEF AccountsByCategory
    <2>2. InCategory(txn, cat) \subseteq Nat
      BY DEF InCategory
    <2>3. WalkShape'
      BY <2>1, <2>2 DEF WalkShape
    <2>4. WalkInv'
      BY <2>1 DEF WalkInv, InCategory, ToSet
    <2>5. ParsedInv' /\ PanicsOnlyForTables'
      BY <2>1 DEF TvInv, ParsedInv, PanicsOnlyForTables
    <2> QED BY <2>3, <2>4, <2>5 DEF TvInv
  <1>4. ASSUME AccountNext PROVE TvInv'
    <2>1. txn' = txn /\ instrs' = instrs /\ asked' = asked
      BY <1>4 DEF AccountNext
    <2>2. ParsedInv' /\ PanicsOnlyForTables'
      BY <2>1 DEF TvInv, ParsedInv, PanicsOnlyForTables
    <2> QED BY <1>4, <2>2, AccountNextKeeps DEF TvInv
  <1>5. ASSUME InstructionNext PROVE TvInv'
    <2>1. /\ txn # NoTxn /\ txn' = txn /\ walk' = walk /\ asked' = asked
          /\ instrs < Len(txn.instr) /\ instrs' = instrs + 1
      BY <1>5 DEF InstructionNext
    <2>2. Len(txn.instr) <= 1 /\ Len(txn.instr) \in Nat
      BY <2>1 DEF TvInv, ParsedInv, TxnIndex
    <2>3. ParsedInv'
      BY <2>1, <2>2 DEF TvInv, ParsedInv
    <2> QED BY <2>1, <2>3 DEF TvInv, WalkShape, WalkInv, InCategory, PanicsOnlyForTables
  <1>6. ASSUME ProgramIdAddress \/ AccountAddresses PROVE TvInv'
    <2>1. instrs > 0 /\ txn' = txn /\ walk' = walk /\ instrs' = instrs
      BY <1>6 DEF ProgramIdAddress, AccountAddresses
    <2>2. instrs \in 1..Len(txn.instr) /\ txn \in TxnIndex /\ WellFormed(txn)
      BY <2>1 DEF TvInv, ParsedInv, TxnIndex
    <2> DEFINE ix == txn.instr[instrs]
    <2>3. ix \in [program: Nat, accts: Seq(Nat)]
      <3>1. txn.instr \in Seq([program: Nat, accts: Seq(Nat)])
        BY <2>2 DEF TxnIndex
      <3>2. \A S, q : q \in Seq(S) => \A k \in 1..Len(q) : q[k] \in S
        OBVIOUS
      <3> HIDE DEF TxnIndex
      <3> QED BY <2>2, <3>1, <3>2, Zenon
    <2>4. ix.program \in 1..(txn.static - 1) /\ \A a \in Range(ix.accts) : a < TotalCount(txn)
      BY <2>2 DEF WellFormed
    <2>5. PanicsOnlyForTables'
      <3>1. CASE ProgramIdAddress
        <4>1. asked' = AddressesOf(txn, <<ix.program>>) /\ <<ix.program>> \in Seq(Nat)
          BY <2>3, <3>1 DEF ProgramIdAddress
        <4>2. ix.program < TotalCount(txn)
          <5>1. txn.static \in Nat /\ txn.tableW \in Nat /\ txn.tableR \in Nat
            BY <2>2 DEF TxnIndex
          <5> QED BY <2>4, <5>1 DEF TotalCount
        <4>3. \A k \in 1..Len(<<ix.program>>) : <<ix.program>>[k] < TotalCount(txn)
          BY <4>2
        <4> QED BY <2>1, <4>1, <4>3, AddressesPanic
      <3>2. CASE AccountAddresses
        <4>1. asked' = AddressesOf(txn, ix.accts)
          BY <3>2 DEF AccountAddresses
        <4>2. \A k \in 1..Len(ix.accts) : ix.accts[k] < TotalCount(txn)
          BY <2>3, <2>4 DEF Range
        <4> QED BY <2>1, <2>3, <4>1, <4>2, AddressesPanic
      <3> QED BY <1>6, <3>1, <3>2
    <2>6. ParsedInv' /\ WalkShape' /\ WalkInv'
      BY <2>1 DEF TvInv, ParsedInv, WalkShape, WalkInv, InCategory
    <2> QED BY <2>5, <2>6 DEF TvInv
  <1>7. CASE UNCHANGED tvVars
    BY <1>7 DEF tvVars, TvInv, ParsedInv, WalkShape, WalkInv, InCategory, PanicsOnlyForTables
  <1>8. \A cat \in {Writable, Signer, AddressLookup, Categories,
           Categories \ Signer} : cat \in SUBSET Categories
    BY DEF Writable, Signer, AddressLookup, Categories
  <1> QED BY <1>1, <1>2, <1>3, <1>4, <1>5, <1>6, <1>7, <1>8 DEF TvNext

\* TxnViewSound: for a transaction of any shape the parser lets through, an AccountIter yields
\* exactly the accounts of its category, once and in order, up to the static ones, the only
\* accessors that panic are those asked for accounts of a table, and compact-u16 lengths are
\* read back as they were written.
THEOREM ViewsAlwaysSound == TvSpec => [](TvTypeOK /\ TxnViewSound)
  <1>1. TvInit => TvInv
    BY DEF TvInit, TvInv, ParsedInv, WalkShape, WalkInv, PanicsOnlyForTables, NoWalk, NotAsked
  <1> QED BY <1>1, TvStep, TvInvSound, PTL DEF TvSpec

-----------------------------------------------------------------------------
(* Shreds: what the C parser accepts leaves room for each slice.           *)

\* What parse lets through is what the C parser accepts.
ShInv ==
  /\ ShTypeOK
  /\ view = "ok" => /\ shred \in [raw: Nat, nodes: Nat, size: Nat] /\ bufLen \in Nat
                    /\ CAccepts(shred, bufLen)

\* No two types of shred have the same raw type, and 10 stands for legacy data.
LEMMA RawTypesApart ==
  ASSUME NEW t \in ShredTypes, NEW u \in ShredTypes, RawTypes[t] = RawTypes[u]
  PROVE  t = u
  BY DEF ShredTypes, RawTypes

LEMMA TypeOfShred ==
  ASSUME ShInv, view = "ok"
  PROVE  /\ ShredType \in ShredTypes /\ ShredFromRaw(shred.raw) = <<ShredType>>
         /\ RawShred(ShredType) = shred.raw
  <1>1. ShredFromRaw(shred.raw) # <<>>
    BY DEF ShInv, CAccepts
  <1>2. \E t \in ShredTypes : RawTypes[t] = shred.raw
    BY <1>1 DEF ShredFromRaw
  <1> DEFINE u == CHOOSE t \in ShredTypes : RawTypes[t] = shred.raw
  <1>3. u \in ShredTypes /\ RawTypes[u] = shred.raw
    BY <1>2
  <1>4. ShredFromRaw(shred.raw) = <<u>>
    BY <1>2 DEF ShredFromRaw
  <1> HIDE DEF u
  <1>5. ShredType = u
    BY <1>4 DEF ShredType
  <1> QED BY <1>3, <1>4, <1>5 DEF RawShred

LEMMA NodesFit ==
  ASSUME NEW t, NEW nodes \in Nat
  PROVE  MerkleSize(t, nodes) \in Nat /\ nodes * NodeSize \in Nat
  BY ShredAssumption DEF MerkleSize

LEMMA ShredIsSound == ShInv => ShredSlicesInside
  <1> SUFFICES ASSUME ShInv, view = "ok" PROVE ShredSlicesInside!2
    BY DEF ShredSlicesInside
  <1> DEFINE t == ShredType
             merkle == MerkleSize(t, shred.nodes)
             root == IF IsChained(t) THEN RootSize ELSE 0
             sig == IF IsResigned(t) THEN SigSize ELSE 0
  <1>1. t \in ShredTypes /\ ShredFromRaw(shred.raw) = <<t>> /\ RawShred(t) = shred.raw
    BY TypeOfShred
  <1>2. shred.nodes \in Nat /\ shred.size \in Nat /\ bufLen \in Nat
    BY DEF ShInv
  <1>3. merkle \in Nat /\ root \in Nat /\ sig \in Nat /\ DataHeader \in Nat /\ CodeHeader \in Nat
    BY <1>2, NodesFit, ShredAssumption
  <1>4. /\ HeaderSize(t) + (merkle + root + sig) <= bufLen
        /\ IsData(t) => shred.size >= DataHeader /\ shred.size + (merkle + root + sig) <= bufLen
    BY <1>1 DEF ShInv, CAccepts, TrailerSize
  <1>5. IsData(t) # IsCode(t) /\ ~(IsData(t) /\ IsCode(t))
    BY <1>1 DEF ShredTypes, IsData, IsCode
  <1>6. TrailerSize(t, shred.nodes) = merkle + root + sig
    BY DEF TrailerSize
  <1>7. ~IsLegacy(t) => shred.nodes * NodeSize = merkle
    BY DEF MerkleSize
  <1> DEFINE nodes == IF IsLegacy(t) \/ shred.nodes = 0 THEN <<>>
                      ELSE <<bufLen - merkle - sig, merkle>>
             data == IF ~IsData(t) \/ shred.size - DataHeader = 0 THEN <<>>
                     ELSE <<DataHeader, shred.size - DataHeader>>
             rest == bufLen - CodeHeader - (merkle + root + sig)
             code == IF ~IsCode(t) \/ rest = 0 THEN <<>> ELSE <<CodeHeader, rest>>
  <1>8. MerkleNodes = nodes
    BY <1>7 DEF MerkleNodes
  <1>9. DataPayload = data
    BY DEF DataPayload, PayloadSize
  <1>10. CodePayload = code
    BY <1>5, <1>6 DEF CodePayload, PayloadSize
  <1> HIDE DEF t, merkle, root, sig
  <1>11. Inside(nodes)
    <2>1. HeaderSize(t) \in Nat
      BY <1>3 DEF HeaderSize
    <2>2. bufLen - merkle - sig >= 0
      BY <1>2, <1>3, <1>4, <2>1
    <2> QED BY <1>2, <1>3, <2>2 DEF Inside
  <1>12. Inside(data) /\ Apart(data, nodes)
    BY <1>2, <1>3, <1>4 DEF Inside, Apart
  <1>13. Inside(code) /\ Apart(code, nodes)
    <2>1. IsCode(t) => HeaderSize(t) = CodeHeader
      BY <1>5 DEF HeaderSize
    <2> QED BY <1>2, <1>3, <1>4, <2>1 DEF Inside, Apart
  <1>14. data = <<>> \/ code = <<>>
    BY <1>5
  <1> HIDE DEF nodes, data, code
  <1> QED BY <1>1, <1>5, <1>8, <1>9, <1>10, <1>11, <1>12, <1>13, <1>14 DEF t

\* ShredSlicesInside: for any layout of headers, nodes and roots, what a parsed shred hands out
\* lies in its buffer, the payload ends before the proof, and the shred is data or code.
THEOREM ShredsAlwaysInside == ShSpec => [](ShTypeOK /\ ShredSlicesInside)
  <1>1. ShInit => ShInv
    BY DEF ShInit, ShInv, ShTypeOK
  <1>2. ShInv /\ [ShNext]_shVars => ShInv'
    <2> SUFFICES ASSUME ShInv, [ShNext]_shVars PROVE ShInv'
      OBVIOUS
    <2>1. ASSUME NEW raw \in 0..15, NEW nodes \in 0..NodesBound, NEW size \in 0..SizeBound,
                 NEW len \in 0..SizeBound,
                 ParseShred([raw |-> raw, nodes |-> nodes, size |-> size], len)
          PROVE  ShInv'
      <3> DEFINE s == [raw |-> raw, nodes |-> nodes, size |-> size]
      <3>1. s \in [raw: Nat, nodes: Nat, size: Nat] /\ len \in Nat
        BY ShredAssumption
      <3> HIDE DEF s
      <3>2. shred' = s /\ bufLen' = len
            /\ view' = IF len < MinSize THEN "TooSmall" ELSE IF CAccepts(s, len) THEN "ok" ELSE "Invalid"
        BY <2>1 DEF ParseShred, s
      <3>3. view' = "ok" => CAccepts(s, len)
        BY <3>2
      <3>4. view' \in {"none", "ok", "TooSmall", "Invalid"}
        BY <3>2
      <3> QED BY <3>1, <3>2, <3>3, <3>4 DEF ShInv, ShTypeOK, CAccepts
    <2>2. CASE UNCHANGED shVars
      BY <2>2 DEF shVars, ShInv, ShTypeOK, CAccepts
    <2> QED BY <2>1, <2>2 DEF ShNext
  <1>3. ShInv => ShTypeOK /\ ShredSlicesInside
    BY ShredIsSound DEF ShInv
  <1> QED BY <1>1, <1>2, <1>3, PTL DEF ShSpec

-----------------------------------------------------------------------------
(* TOML: a pod has an entry of the right kind at each of its paths, and no *)
(* more than fit.                                                          *)

\* A pod is allocated while a TomlPod holds it, its paths are known ones, and no more than fit.
TomlInv ==
  /\ podLive \in BOOLEAN /\ podHeld \in BOOLEAN /\ podLive = podHeld
  /\ DOMAIN pod \subseteq TPaths
  /\ podHeld => PodLen <= PodMax

LEMMA EmptyPod == DOMAIN <<>> = {}
  OBVIOUS

\* What a query answers, from what the pod holds.
LEMMA QueriesAnswer ==
  ASSUME NEW path \in Asked
  PROVE  LET here == path.len < PathMax /\ path.cname \in DOMAIN pod
         IN  /\ QueryLong(path) =
                  IF ~here THEN None
                  ELSE IF pod[path.cname].type = "long" THEN Some(pod[path.cname].long)
                  ELSE Some(Sentinel)
             /\ QueryCstr(path) # None <=> (here /\ pod[path.cname].type = "cstr"
                                                 /\ pod[path.cname].text # "badutf8")
             /\ QuerySubpod(path) <=> (here /\ pod[path.cname].type = "subpod")
  <1> DEFINE name == path.cname
             fits == path.len < PathMax
             has == name \in DOMAIN pod
             entry == pod[name]
  <1>1. path.len \in Nat /\ PathMax \in Nat
    BY TomlAssumption DEF Asked
  <1>2. \A v : Some(v) # None /\ Some(v)[1] = v
    BY DEF Some, None
  <1>3. CPath(path) = IF fits THEN Some(name) ELSE None
    BY <1>1 DEF CPath
  <1>4. (CPath(path) = None) = ~fits /\ (fits => CPath(path)[1] = name)
    BY <1>2, <1>3
  <1>5. PathExists(path) = (fits /\ has)
    BY <1>4 DEF PathExists
  <1>6. \A type : CHas(name, type) = (has /\ entry.type = type)
    BY DEF CHas
  <1> HIDE DEF name, fits, has, entry
  <1>7. CQueryLong(name, Sentinel) = IF has /\ entry.type = "long" THEN entry.long ELSE Sentinel
    BY <1>6 DEF CQueryLong, entry
  <1>8. QueryLong(path) = IF ~(fits /\ has) THEN None
                          ELSE IF entry.type = "long" THEN Some(entry.long) ELSE Some(Sentinel)
    BY <1>4, <1>5, <1>7 DEF QueryLong
  <1>9. QueryCstr(path) # None <=> (fits /\ has /\ entry.type = "cstr" /\ entry.text # "badutf8")
    <2>1. QueryCstr(path) = IF ~fits THEN None
                            ELSE IF ~CHas(name, "cstr") \/ entry.text = "badutf8" THEN None
                            ELSE Some(entry.text)
      BY <1>4 DEF QueryCstr, entry
    <2> QED BY <1>2, <1>6, <2>1
  <1>10. QuerySubpod(path) <=> (fits /\ has /\ entry.type = "subpod")
    BY <1>4, <1>6 DEF QuerySubpod
  <1> QED BY <1>8, <1>9, <1>10 DEF name, fits, has, entry

LEMMA TomlInvSound == TomlInv => TomlTypeOK /\ TomlFaithful
  <1> SUFFICES ASSUME TomlInv PROVE TomlTypeOK /\ TomlFaithful
    OBVIOUS
  <1>1. TomlTypeOK
    BY DEF TomlInv, TomlTypeOK
  <1> QED BY <1>1, QueriesAnswer DEF TomlInv, TomlFaithful

LEMMA ParseKeeps ==
  ASSUME NEW doc \in SeqOf([path : TPaths, entry : TomlEntry], PodMax + 1), ParseToml(doc)
  PROVE  TomlInv'
  <1>1. PICK m \in 0..(PodMax + 1) : doc \in [1..m -> [path : TPaths, entry : TomlEntry]]
    BY DEF SeqOf
  <1>2. m \in Nat /\ Len(doc) = m
    BY <1>1, TomlAssumption
  <1> DEFINE paths == {doc[i].path : i \in 1..m}
  <1>3. paths \subseteq TPaths
    BY <1>1
  <1>4. CASE CParse(doc) # "SUCCESS"
    <2>1. podLive' = FALSE /\ podHeld' = FALSE /\ pod' = <<>>
      BY <1>4 DEF ParseToml
    <2> QED BY <2>1, EmptyPod DEF TomlInv
  <1>5. CASE CParse(doc) = "SUCCESS"
    <2>1. podLive' = TRUE /\ podHeld' = TRUE /\ DOMAIN pod' = paths
      BY <1>2, <1>5 DEF ParseToml
    <2>2. m <= PodMax
      BY <1>2, <1>5, TomlAssumption DEF CParse
    <2>3. IsFiniteSet(1..m) /\ Cardinality(1..m) = m
      BY <1>2, FS_Interval
    <2>4. IsFiniteSet(paths) /\ Cardinality(paths) <= m
      <3> DEFINE f == [i \in 1..m |-> doc[i].path]
      <3>1. f \in Surjection(1..m, paths)
        BY DEF Surjection
      <3> HIDE DEF f, paths
      <3> QED BY <2>3, <3>1, FS_Surjection
    <2>5. Cardinality(paths) \in Nat
      BY <2>4, FS_CardinalityType
    <2> QED BY <1>2, <1>3, <2>1, <2>2, <2>4, <2>5, TomlAssumption DEF TomlInv, PodLen
  <1> QED BY <1>4, <1>5

\* TomlFaithful: a pod of any size answers every query with what the text said, and lives as
\* long as the TomlPod that reads it.
THEOREM TomlAlwaysFaithful == TomlSpec => [](TomlTypeOK /\ TomlFaithful)
  <1>1. TomlInit => TomlInv
    BY EmptyPod DEF TomlInit, TomlInv
  <1>2. TomlInv /\ [TomlNext]_tomlVars => TomlInv'
    <2> SUFFICES ASSUME TomlInv, [TomlNext]_tomlVars PROVE TomlInv'
      OBVIOUS
    <2>1. CASE DropPod
      BY <2>1, EmptyPod DEF DropPod, TomlInv
    <2>2. CASE UNCHANGED tomlVars
      BY <2>2 DEF tomlVars, TomlInv, PodLen
    <2> QED BY <2>1, <2>2, ParseKeeps DEF TomlNext
  <1> QED BY <1>1, <1>2, TomlInvSound, PTL DEF TomlSpec

-----------------------------------------------------------------------------
(* decompress_all: how far the loop is in the frames (ZLoopInv), whose     *)
(* lengths are sums by recursion.                                          *)

\* The sums go up by what each frame comes to.
LEMMA TotalsAre ==
  ASSUME NEW a \in Seq(Nat)
  PROVE  /\ Totals(a) \in [0..Len(a) -> Nat]
         /\ Totals(a)[0] = 0
         /\ \A n \in 1..Len(a) : Totals(a)[n] = Totals(a)[n - 1] + a[n]
  <1> DEFINE total[n \in 0..Len(a)] == IF n = 0 THEN 0 ELSE total[n - 1] + a[n]
             d == [n \in Nat |-> [v \in Nat |-> IF n \in 1..Len(a) THEN v + a[n] ELSE v]]
  <1>1. Len(a) \in Nat /\ \A n \in 1..Len(a) : a[n] \in Nat
    OBVIOUS
  <1>2. /\ \A n \in Nat : d[n] \in [Nat -> Nat]
        /\ \A n \in 1..Len(a), v \in Nat : d[n][v] = v + a[n]
    BY <1>1
  <1>3. PICK f \in [0..Len(a) -> Nat] : Recursive(f, Len(a), 0, d)
    <2> HIDE DEF d
    <2> QED BY <1>1, <1>2, RecursionExists
  <1>4. f = [n \in 0..Len(a) |-> IF n = 0 THEN 0 ELSE f[n - 1] + a[n]]
    <2> HIDE DEF d
    <2>1. ASSUME NEW n \in 1..Len(a) PROVE d[n][f[n - 1]] = f[n - 1] + a[n]
      <3>1. n - 1 \in 0..Len(a)
        BY <1>1
      <3> QED BY <1>2, <3>1
    <2>2. \A n \in 0..Len(a) : n = 0 \/ n \in 1..Len(a)
      BY <1>1
    <2> QED BY <1>3, <2>1, <2>2 DEF Recursive
  <1>5. total = [n \in 0..Len(a) |-> IF n = 0 THEN 0 ELSE total[n - 1] + a[n]]
    BY <1>4
  <1>6. Totals(a) = total
    BY DEF Totals
  <1> HIDE DEF total
  <1> DEFINE T == {n \in Nat : n <= Len(a) => total[n] \in Nat}
  <1>7. 0 \in T
    BY <1>1, <1>5
  <1>8. ASSUME NEW n \in Nat, n \in T PROVE n + 1 \in T
    <2>1. SUFFICES ASSUME n + 1 <= Len(a) PROVE total[n + 1] \in Nat
      OBVIOUS
    <2>2. total[n + 1] = total[n] + a[n + 1] /\ total[n] \in Nat
      BY <1>1, <1>5, <1>8, <2>1
    <2> QED BY <1>1, <2>1, <2>2
  <1>9. \A n \in 0..Len(a) : total[n] \in Nat
    <2> HIDE DEF T
    <2>1. Nat \subseteq T
      BY <1>7, <1>8, AllNumbers
    <2> QED BY <1>1, <2>1 DEF T
  <1>10. total[0] = 0 /\ \A n \in 1..Len(a) : total[n] = total[n - 1] + a[n]
    <2>1. \A n \in 0..Len(a) : total[n] = IF n = 0 THEN 0 ELSE total[n - 1] + a[n]
      BY <1>5, Zenon
    <2>2. 0 \in 0..Len(a) /\ \A n \in 1..Len(a) : n \in 0..Len(a) /\ n # 0
      BY <1>1
    <2> QED BY <2>1, <2>2, Zenon
  <1>11. total \in [0..Len(a) -> Nat]
    <2>1. \E t : total = [n \in 0..Len(a) |-> t[n]]
      BY <1>5
    <2> QED BY <1>9, <2>1
  <1> QED BY <1>6, <1>10, <1>11

LEMMA TotalsGrow ==
  ASSUME NEW a \in Seq(Nat), NEW m \in 0..Len(a)
  PROVE  \A n \in m..Len(a) : Totals(a)[m] <= Totals(a)[n]
  <1> DEFINE t == Totals(a)
             T == {k \in Nat : m + k <= Len(a) => t[m] <= t[m + k]}
  <1>1. /\ t \in [0..Len(a) -> Nat] /\ \A n \in 1..Len(a) : t[n] = t[n - 1] + a[n]
        /\ \A n \in 1..Len(a) : a[n] \in Nat
        /\ Len(a) \in Nat
    BY TotalsAre
  <1> HIDE DEF t
  <1>2. 0 \in T
    BY <1>1
  <1>3. ASSUME NEW k \in Nat, k \in T PROVE k + 1 \in T
    <2>1. SUFFICES ASSUME m + (k + 1) <= Len(a) PROVE t[m] <= t[m + (k + 1)]
      OBVIOUS
    <2>2. m + (k + 1) \in 1..Len(a) /\ (m + (k + 1)) - 1 = m + k /\ m + k \in 0..Len(a) /\ m + k <= Len(a)
      BY <1>1, <2>1
    <2>3. t[m + (k + 1)] = t[m + k] + a[m + (k + 1)] /\ t[m] <= t[m + k] /\ a[m + (k + 1)] \in Nat
      BY <1>1, <1>3, <2>2
    <2>4. t[m] \in Nat /\ t[m + k] \in Nat
      BY <1>1, <2>2
    <2> QED BY <2>3, <2>4
  <1>4. Nat \subseteq T
    <2> HIDE DEF T
    <2> QED BY <1>2, <1>3, AllNumbers
  <1>5. ASSUME NEW n \in m..Len(a) PROVE t[m] <= t[n]
    <2>1. n - m \in Nat /\ m + (n - m) = n /\ n <= Len(a)
      BY <1>1
    <2> QED BY <1>4, <2>1
  <1> QED BY <1>5 DEF t

ZDataInv ==
  /\ packed = [frames |-> packed.frames, cut |-> packed.cut]
  /\ packed.frames \in Seq(ZFrames) /\ packed.cut \in Nat
  /\ packed.frames # <<>> => packed.cut < packed.frames[Len(packed.frames)].packed

\* The output is the content of the frames read and what was written of this one.
ZLoopInv ==
  /\ packed.frames # <<>> /\ dstream \in Nat /\ zmem = "held"
  /\ zAt \in [frame: 1..Len(packed.frames), in: Nat, out: Nat]
  /\ zAt.in <= ZHeld(zAt.frame) /\ zAt.out <= packed.frames[zAt.frame].content
  /\ zOut = Content(packed.frames, zAt.frame - 1) + zAt.out
  /\ ZLeft > 0

ZInv ==
  /\ ZTypeOK /\ ZDataInv /\ UnpackedWhole
  /\ zOut \in Nat /\ zLimit \in Nat
  /\ unpack = "idle" => zAt = FirstFrame /\ zOut = 0 /\ dstream = -1 /\ zmem = "none"
  /\ unpack = "loop" => ZLoopInv

FrameFacts ==
  /\ Len(packed.frames) \in Nat
  /\ \A i \in 1..Len(packed.frames) :
       /\ packed.frames[i] \in ZFrames
       /\ packed.frames[i].packed \in Nat /\ packed.frames[i].packed > 0
       /\ packed.frames[i].content \in Nat /\ packed.frames[i].window \in Nat
       /\ ZHeld(i) \in Nat /\ ZHeld(i) > 0 /\ ZHeld(i) <= packed.frames[i].packed
       /\ (i # Len(packed.frames) \/ packed.cut = 0) => ZHeld(i) = packed.frames[i].packed

HeldFacts ==
  /\ \A i \in 0..Len(packed.frames) : HeldUpTo(i) \in Nat /\ HeldUpTo(i) <= HeldUpTo(Len(packed.frames))
  /\ HeldUpTo(0) = 0
  /\ \A i \in 1..Len(packed.frames) : HeldUpTo(i) = HeldUpTo(i - 1) + ZHeld(i)

LEMMA FramesAre == ZDataInv => FrameFacts
  <1> SUFFICES ASSUME ZDataInv PROVE FrameFacts
    OBVIOUS
  <1>1. packed.frames \in Seq(ZFrames) /\ packed.cut \in Nat
    BY DEF ZDataInv
  <1>2. Len(packed.frames) \in Nat /\ \A i \in 1..Len(packed.frames) : packed.frames[i] \in ZFrames
    BY <1>1, ElementOfSeq
  <1>3. \A f \in ZFrames : f.packed \in Nat /\ f.packed > 0 /\ f.content \in Nat /\ f.window \in Nat
    BY ZstdAssumption
  <1>4. ASSUME NEW i \in 1..Len(packed.frames)
        PROVE  /\ ZHeld(i) \in Nat /\ ZHeld(i) > 0 /\ ZHeld(i) <= packed.frames[i].packed
               /\ (i # Len(packed.frames) \/ packed.cut = 0) => ZHeld(i) = packed.frames[i].packed
    <2>1. packed.frames[i].packed \in Nat /\ packed.frames[i].packed > 0
      BY <1>2, <1>3
    <2>2. packed.frames # <<>>
      BY <1>1, <1>2
    <2>3. packed.cut < packed.frames[Len(packed.frames)].packed
      BY <2>2 DEF ZDataInv
    <2> QED BY <1>1, <2>1, <2>3 DEF ZHeld
  <1> QED BY <1>2, <1>3, <1>4 DEF FrameFacts

LEMMA HeldIs == ZDataInv => HeldFacts
  <1> SUFFICES ASSUME ZDataInv PROVE HeldFacts
    OBVIOUS
  <1> DEFINE n == Len(packed.frames)
             a == [i \in 1..n |-> ZHeld(i)]
  <1>1. n \in Nat /\ a \in Seq(Nat) /\ Len(a) = n /\ \A i \in 1..n : a[i] = ZHeld(i)
    BY FramesAre DEF FrameFacts
  <1>2. \A i : HeldUpTo(i) = Totals(a)[i]
    BY DEF HeldUpTo
  <1> HIDE DEF a, n
  <1>3. /\ Totals(a) \in [0..n -> Nat] /\ Totals(a)[0] = 0
        /\ \A i \in 1..n : Totals(a)[i] = Totals(a)[i - 1] + a[i]
    BY <1>1, TotalsAre
  <1>4. \A i \in 0..n : Totals(a)[i] <= Totals(a)[n]
    <2>1. ASSUME NEW i \in 0..n PROVE n \in i..n
      BY <1>1
    <2> QED BY <1>1, <2>1, TotalsGrow
  <1> QED BY <1>1, <1>2, <1>3, <1>4 DEF n, HeldFacts

LEMMA ContentIs ==
  ASSUME NEW frames \in Seq(ZFrames)
  PROVE  /\ \A i \in 0..Len(frames) : Content(frames, i) \in Nat
         /\ Content(frames, 0) = 0
         /\ \A i \in 1..Len(frames) : Content(frames, i) = Content(frames, i - 1) + frames[i].content
  <1> DEFINE n == Len(frames)
             a == [i \in 1..n |-> frames[i].content]
  <1>1. n \in Nat /\ \A i \in 1..n : frames[i].content \in Nat
    <2>1. \A f \in ZFrames : f.content \in Nat
      BY ZstdAssumption
    <2> QED BY <2>1, ElementOfSeq
  <1>2. a \in Seq(Nat) /\ Len(a) = n /\ \A i \in 1..n : a[i] = frames[i].content
    BY <1>1
  <1>3. \A i : Content(frames, i) = Totals(a)[i]
    BY DEF Content
  <1> HIDE DEF a, n
  <1>4. /\ Totals(a) \in [0..n -> Nat] /\ Totals(a)[0] = 0
        /\ \A i \in 1..n : Totals(a)[i] = Totals(a)[i - 1] + a[i]
    BY <1>2, TotalsAre
  <1> QED BY <1>1, <1>2, <1>3, <1>4 DEF n

LEMMA ZStartKeeps ==
  ASSUME ZInv, NEW n \in 0..FramesMax, NEW frames \in [1..n -> ZFrames], NEW max \in 0..OutputMax,
         NEW made \in StreamResults, NEW cut \in 0..(IF n = 0 THEN 0 ELSE frames[n].packed - 1),
         DecompressAll(frames, cut, max, made)
  PROVE  ZInv'
  <1>0. n \in Nat /\ max \in Nat
    BY ZstdAssumption
  <1>1. n \in Nat /\ max \in Nat /\ frames \in Seq(ZFrames) /\ Len(frames) = n
    BY <1>0, SeqDef
  <1>2. packed' = [frames |-> frames, cut |-> cut] /\ zLimit' = max /\ zAt' = zAt /\ zOut' = zOut
        /\ unpack = "idle"
    BY DEF DecompressAll
  <1>3. cut \in Nat /\ (n # 0 => cut < frames[n].packed)
    <2>1. CASE n = 0
      BY <2>1
    <2>2. CASE n # 0
      <3>1. frames[n].packed \in Nat
        BY <1>1, <2>2, ZstdAssumption
      <3> QED BY <2>2, <3>1
    <2> QED BY <2>1, <2>2
  <1>4. ZDataInv'
    BY <1>1, <1>2, <1>3 DEF ZDataInv
  <1>5. zAt = FirstFrame /\ zOut = 0 /\ dstream = -1 /\ zmem = "none"
    BY <1>2 DEF ZInv
  <1> DEFINE size == Totals([i \in 1..Len(frames) |-> frames[i].packed])[Len(frames)] - cut
  <1>6. CASE unpack' = "loop"
    <2>1. size >= HeaderMin /\ dstream' = frames[1].window /\ zmem' = "held" /\ n # 0
      <3>1. size >= HeaderMin \/ size < HeaderMin
        <4>1. [i \in 1..n |-> frames[i].packed] \in Seq(Nat) /\ Len([i \in 1..n |-> frames[i].packed]) = n
          BY <1>1, ZstdAssumption
        <4>2. Totals([i \in 1..n |-> frames[i].packed])[n] \in Nat
          <5> DEFINE b == [i \in 1..n |-> frames[i].packed]
          <5>1. b \in Seq(Nat) /\ n \in 0..Len(b)
            BY <1>1, <4>1
          <5> HIDE DEF size, b
          <5>2. Totals(b) \in [0..Len(b) -> Nat]
            BY <5>1, TotalsAre
          <5>3. Totals(b)[n] \in Nat
            BY <5>1, <5>2
          <5> QED BY <5>3 DEF b
        <4>3. size = Totals([i \in 1..n |-> frames[i].packed])[n] - cut
          BY <1>1
        <4> HIDE DEF size
        <4> QED BY <1>3, <4>2, <4>3, ZstdAssumption
      <3> HIDE DEF size
      <3> QED BY <1>1, <1>6, <3>1 DEF DecompressAll, FramePeek, StreamResults, size
    <2>2. FrameFacts' /\ HeldFacts'
      <3>1. ZDataInv' => FrameFacts' /\ HeldFacts'
        BY FramesAre, HeldIs, PTL
      <3> QED BY <1>4, <3>1
    <2>3. packed'.frames = frames /\ 1 \in 1..n /\ n \in 1..n /\ 0 \in 0..n /\ n \in 0..n
             /\ 1 - 1 = 0 /\ Len(packed'.frames) = n
      BY <1>1, <1>2, <2>1
    <2>4. /\ ZHeld(1)' \in Nat /\ ZHeld(1)' > 0 /\ packed'.frames[1].content \in Nat
          /\ packed'.frames[1].window \in Nat
      BY <2>2, <2>3 DEF FrameFacts
    <2>5. /\ HeldUpTo(0)' = 0 /\ HeldUpTo(1)' = HeldUpTo(0)' + ZHeld(1)' /\ HeldUpTo(1)' <= HeldUpTo(n)'
          /\ HeldUpTo(1)' \in Nat /\ HeldUpTo(n)' \in Nat
      <3>1. 1 \in 0..n
        BY <1>1, <2>1
      <3> QED BY <2>2, <2>3, <3>1 DEF HeldFacts
    <2>6. zAt' = [frame |-> 1, in |-> 0, out |-> 0] /\ zAt'.frame = 1 /\ zAt'.in = 0 /\ zAt'.out = 0
      BY <1>2, <1>5 DEF FirstFrame
    <2>7. ZLeft' = HeldUpTo(n)' - HeldUpTo(0)' - 0
      BY <1>1, <2>1, <2>3, <2>6 DEF ZLeft
    <2>8. ZLeft' > 0
      BY <2>4, <2>5, <2>7
    <2>9. Content(packed'.frames, 0) = 0
      BY <1>1, <1>2, ContentIs
    <2>10. ZLoopInv'
      <3>1. zAt' \in [frame: 1..Len(packed'.frames), in: Nat, out: Nat]
        BY <2>3, <2>6
      <3>2. ZHeld(zAt.frame)' = ZHeld(1)'
        BY <2>6
      <3>3. zOut' = Content(packed'.frames, zAt'.frame - 1) + zAt'.out
        BY <1>2, <1>5, <2>3, <2>6, <2>9
      <3>4. packed'.frames # <<>> /\ dstream' \in Nat
        BY <1>1, <1>2, <2>1, <2>4
      <3> QED BY <2>1, <2>4, <2>6, <2>8, <3>1, <3>2, <3>3, <3>4 DEF ZLoopInv
    <2>11. UnpackedWhole'
      BY <1>1, <1>2, <1>5, <1>6, <2>1, <2>10 DEF UnpackedWhole, ZLoopInv
    <2> QED BY <1>1, <1>2, <1>4, <1>5, <1>6, <2>10, <2>11 DEF ZInv, ZTypeOK
  <1>7. CASE unpack' # "loop"
    <2>1. /\ unpack' \in {"UnexpectedEof", "InvalidInput", "AllocationFailed", "InternalError"}
          /\ dstream' = dstream /\ zmem' = zmem
      <3> HIDE DEF size
      <3> QED BY <1>7 DEF DecompressAll, FramePeek, StreamResults
    <2>2. UnpackedWhole'
      BY <1>1, <1>2, <1>5, <2>1 DEF UnpackedWhole
    <2> QED BY <1>1, <1>2, <1>4, <1>5, <2>1, <2>2 DEF ZInv, ZTypeOK
  <1> QED BY <1>6, <1>7

\* A call that has returned with an error keeps nothing.
LEMMA ZErrorKeeps ==
  ASSUME ZInv, unpack' \in {"InsufficientBuffer", "ProtocolError", "InternalError"},
         dstream' = -1, zmem' = "none", packed' = packed, zLimit' = zLimit,
         zOut' \in Nat, zOut' <= zLimit
  PROVE  ZInv'
  <1>1. ZDataInv'
    BY DEF ZInv, ZDataInv
  <1>2. UnpackedWhole'
    BY DEF UnpackedWhole
  <1> QED BY <1>1, <1>2 DEF ZInv, ZTypeOK

LEMMA ZReadKeeps ==
  ASSUME ZInv, NEW in \in Nat, NEW out \in Nat, ReadLoop(in, out)
  PROVE  ZInv'
  <1> DEFINE n == Len(packed.frames)
             k == zAt.frame
             f == packed.frames[k]
             done == zAt.in + in = f.packed /\ zAt.out + out = f.content
             C(i) == Content(packed.frames, i)
  <1>1. ZLoopInv /\ ZDataInv /\ FrameFacts /\ HeldFacts /\ zOut \in Nat /\ zLimit \in Nat /\ zOut <= zLimit
    BY FramesAre, HeldIs DEF ReadLoop, ZInv, UnpackedWhole
  <1>2. packed' = packed /\ zLimit' = zLimit
    BY DEF ReadLoop
  <1>3. /\ n \in Nat /\ k \in 1..n /\ zAt.in \in Nat /\ zAt.out \in Nat
        /\ zAt = [frame |-> k, in |-> zAt.in, out |-> zAt.out]
        /\ zAt.in <= ZHeld(k) /\ zAt.out <= f.content /\ zOut = C(k - 1) + zAt.out
        /\ dstream \in Nat /\ zmem = "held"
    BY <1>1 DEF ZLoopInv, FrameFacts
  <1>4. /\ f.packed \in Nat /\ f.packed > 0 /\ f.content \in Nat
        /\ ZHeld(k) \in Nat /\ ZHeld(k) > 0 /\ ZHeld(k) <= f.packed
        /\ (k # n \/ packed.cut = 0) => ZHeld(k) = f.packed
    BY <1>1, <1>3 DEF FrameFacts
  <1>5. /\ HeldUpTo(k) \in Nat /\ HeldUpTo(k - 1) \in Nat /\ HeldUpTo(n) \in Nat
        /\ HeldUpTo(k) = HeldUpTo(k - 1) + ZHeld(k) /\ HeldUpTo(k) <= HeldUpTo(n)
    <2>1. k \in 0..n /\ k - 1 \in 0..n /\ n \in 0..n
      BY <1>3
    <2> QED BY <1>1, <1>3, <2>1 DEF HeldFacts
  <1>6. C(k - 1) \in Nat /\ C(k) \in Nat /\ C(n) \in Nat /\ C(n - 1) \in Nat /\ C(k) = C(k - 1) + f.content
    <2>1. k \in 0..n /\ k - 1 \in 0..n /\ n \in 0..n /\ n - 1 \in 0..n
      BY <1>3
    <2>2. packed.frames \in Seq(ZFrames)
      BY <1>1 DEF ZDataInv
    <2> QED BY <1>3, <2>1, <2>2, ContentIs
  <1>7. ZLeft = HeldUpTo(n) - HeldUpTo(k - 1) - zAt.in
    <2>1. ~(zAt.frame > Len(packed.frames))
      BY <1>3
    <2> QED BY <2>1 DEF ZLeft
  <1>8. /\ unpack = "loop" /\ ZLeft > 0
        /\ in <= ZHeld(k) - zAt.in /\ out <= f.content - zAt.out
        /\ zAt.in + in = f.packed => zAt.out + out = f.content
        /\ zAt' = IF done THEN [frame |-> k + 1, in |-> 0, out |-> 0]
                  ELSE [zAt EXCEPT !.in = @ + in, !.out = @ + out]
    BY DEF ReadLoop
  <1>9. \/ /\ zOut + out > zLimit /\ ZReturn("InsufficientBuffer") /\ zOut' = zOut
        \/ /\ ~(zOut + out > zLimit) /\ zOut' = zOut + out
           /\ \/ ZLeft = in /\ ZReturn("ok")
              \/ ZReturn("InternalError")
              \/ ZLeft # in /\ unpack' = unpack /\ dstream' = dstream /\ zmem' = zmem
    BY DEF ReadLoop
  <1>10. CASE ZReturn("InsufficientBuffer") /\ zOut' = zOut
    BY <1>1, <1>2, <1>10, ZErrorKeeps DEF ZReturn
  <1>11. CASE ~(zOut + out > zLimit) /\ zOut' = zOut + out /\ ZReturn("InternalError")
    BY <1>1, <1>2, <1>11, ZErrorKeeps DEF ZReturn
  <1>12. CASE ~(zOut + out > zLimit) /\ zOut' = zOut + out /\ ZLeft = in /\ ZReturn("ok")
    <2> HIDE DEF n, k, f, C
    <2>1. k = n /\ zAt.in + in = ZHeld(n)
      <3>1. ASSUME k # n PROVE FALSE
        <4>1. k + 1 \in 1..n
          BY <1>3, <3>1
        <4>2. HeldUpTo(k + 1) = HeldUpTo(k) + ZHeld(k + 1) /\ HeldUpTo(k + 1) <= HeldUpTo(n)
                 /\ HeldUpTo(k + 1) \in Nat
          <5>1. k + 1 \in 0..n /\ (k + 1) - 1 = k
            BY <1>3, <4>1
          <5> QED BY <1>1, <4>1, <5>1 DEF HeldFacts, n
        <4>3. ZHeld(k + 1) \in Nat /\ ZHeld(k + 1) > 0
          BY <1>1, <4>1 DEF FrameFacts, n
        <4> QED BY <1>3, <1>4, <1>5, <1>7, <1>8, <1>12, <4>2, <4>3
      <3> QED BY <1>3, <1>4, <1>5, <1>7, <1>12, <3>1
    <2>2. zOut' = C(n - 1) + (zAt.out + out) /\ zAt.out + out <= f.content
      BY <1>3, <1>4, <1>6, <1>8, <1>12, <2>1
    <2>3. packed.cut = 0 => zAt.out + out = f.content
      BY <1>4, <1>8, <2>1
    <2>4. zOut' <= C(n) /\ zOut' >= C(n - 1) /\ (packed.cut = 0 => zOut' = C(n))
      BY <1>3, <1>6, <2>1, <2>2, <2>3, <1>4
    <2>5. UnpackedWhole'
      <3>1. unpack' = "ok" /\ dstream' = -1 /\ zmem' = "none" /\ zOut' <= zLimit'
        BY <1>1, <1>2, <1>12 DEF ZReturn
      <3> QED BY <1>2, <2>4, <3>1 DEF UnpackedWhole, C, n
    <2>6. ZDataInv'
      BY <1>1, <1>2 DEF ZDataInv
    <2> QED BY <1>1, <1>2, <1>12, <2>5, <2>6 DEF ZReturn, ZInv, ZTypeOK
  <1>13. CASE /\ ~(zOut + out > zLimit) /\ zOut' = zOut + out
              /\ ZLeft # in /\ unpack' = unpack /\ dstream' = dstream /\ zmem' = zmem
    <2>1. ZDataInv'
      BY <1>1, <1>2 DEF ZDataInv
    <2>2. /\ \A i : ZHeld(i)' = ZHeld(i) /\ HeldUpTo(i)' = HeldUpTo(i)
      BY <1>2 DEF ZHeld, HeldUpTo
    <2>3. ZLoopInv'
      <3>1. CASE done
        <4>1. zAt'.frame = k + 1 /\ zAt'.in = 0 /\ zAt'.out = 0 /\ zAt' = [frame |-> k + 1,
                 in |-> 0, out |-> 0]
          BY <1>8, <3>1
        <4> HIDE DEF n, k, f, C
        <4>2. k # n
          BY <1>3, <1>4, <1>5, <1>7, <1>8, <1>13, <3>1
        <4>3. k + 1 \in 1..n /\ (k + 1) - 1 = k
          BY <1>3, <4>2
        <4>4. ZHeld(k + 1) \in Nat /\ ZHeld(k + 1) > 0 /\ packed.frames[k + 1].content \in Nat
          BY <1>1, <4>3 DEF FrameFacts, n
        <4>5. HeldUpTo(k + 1) = HeldUpTo(k) + ZHeld(k + 1) /\ HeldUpTo(k + 1) <= HeldUpTo(n)
                 /\ HeldUpTo(k + 1) \in Nat
          <5>1. k + 1 \in 0..n
            BY <1>3, <4>3
          <5> QED BY <1>1, <4>3, <5>1 DEF HeldFacts, n
        <4>6. ZLeft' = HeldUpTo(n) - HeldUpTo(k)
          <5>1. ~(zAt'.frame > Len(packed'.frames))
            BY <1>2, <1>3, <4>1, <4>3 DEF n
          <5>2. HeldUpTo(zAt.frame - 1)' = HeldUpTo(k)
            <6>1. HeldUpTo(zAt.frame - 1)' = HeldUpTo(zAt'.frame - 1)
              BY <2>2
            <6> QED BY <4>1, <4>3, <6>1
          <5>3. HeldUpTo(Len(packed.frames))' = HeldUpTo(n)
            <6>1. HeldUpTo(Len(packed.frames))' = HeldUpTo(Len(packed'.frames))
              BY <2>2
            <6> QED BY <1>2, <6>1 DEF n
          <5>4. ZLeft' = HeldUpTo(Len(packed.frames))' - HeldUpTo(zAt.frame - 1)' - zAt'.in
            BY <5>1 DEF ZLeft
          <5> QED BY <1>5, <4>1, <5>2, <5>3, <5>4
        <4>7. zOut' = C(k) + 0
          BY <1>3, <1>4, <1>6, <1>13, <3>1
        <4>8. ZLeft' > 0
          BY <1>5, <4>4, <4>5, <4>6
        <4>9. ZHeld(zAt.frame)' = ZHeld(k + 1)
          BY <2>2, <4>1
        <4>10. zAt' \in [frame: 1..Len(packed'.frames), in: Nat, out: Nat]
          BY <1>2, <4>1, <4>3 DEF n
        <4>11. zOut' = Content(packed'.frames, zAt'.frame - 1) + zAt'.out
          BY <1>2, <4>1, <4>3, <4>7 DEF C
        <4>12. packed'.frames # <<>>
          BY <1>1, <1>2 DEF ZLoopInv
        <4> QED BY <1>2, <1>3, <1>13, <4>1, <4>4, <4>8, <4>9, <4>10, <4>11, <4>12, SMTT(30) DEF ZLoopInv
      <3>2. CASE ~done
        <4>1. /\ zAt'.frame = k /\ zAt'.in = zAt.in + in /\ zAt'.out = zAt.out + out
              /\ zAt' = [frame |-> k, in |-> zAt.in + in, out |-> zAt.out + out]
          BY <1>3, <1>8, <3>2
        <4> HIDE DEF n, k, f, C, done
        <4>2. zAt.in + in \in Nat /\ zAt.out + out \in Nat
          BY <1>3
        <4>3. ZLeft' = HeldUpTo(n) - HeldUpTo(k - 1) - (zAt.in + in)
          <5>1. ~(zAt'.frame > Len(packed'.frames))
            BY <1>2, <1>3, <4>1 DEF n
          <5>2. HeldUpTo(zAt.frame - 1)' = HeldUpTo(k - 1)
            <6>1. HeldUpTo(zAt.frame - 1)' = HeldUpTo(zAt'.frame - 1)
              BY <2>2
            <6> QED BY <4>1, <6>1
          <5>3. HeldUpTo(Len(packed.frames))' = HeldUpTo(n)
            <6>1. HeldUpTo(Len(packed.frames))' = HeldUpTo(Len(packed'.frames))
              BY <2>2
            <6> QED BY <1>2, <6>1 DEF n
          <5>4. ZLeft' = HeldUpTo(Len(packed.frames))' - HeldUpTo(zAt.frame - 1)' - zAt'.in
            BY <5>1 DEF ZLeft
          <5> QED BY <1>5, <4>1, <5>2, <5>3, <5>4
        <4>4. ZLeft' > 0
          BY <1>3, <1>4, <1>5, <1>7, <1>8, <1>13, <4>2, <4>3
        <4>5. zAt.in + in <= ZHeld(k) /\ zAt.out + out <= f.content
          BY <1>3, <1>4, <1>8
        <4>6. zOut' = C(k - 1) + (zAt.out + out)
          BY <1>3, <1>6, <1>13
        <4>7. zAt' \in [frame: 1..Len(packed'.frames), in: Nat, out: Nat]
          BY <1>2, <1>3, <4>1, <4>2 DEF n
        <4>8. zOut' = Content(packed'.frames, zAt'.frame - 1) + zAt'.out
          BY <1>2, <4>1, <4>6 DEF C
        <4>9. ZHeld(zAt.frame)' = ZHeld(k)
          BY <2>2, <4>1
        <4>10. packed'.frames[zAt'.frame] = f
          BY <1>2, <4>1 DEF f
        <4>11. packed'.frames # <<>>
          BY <1>1, <1>2 DEF ZLoopInv
        <4> QED BY <1>3, <1>13, <4>1, <4>4, <4>5, <4>7, <4>8, <4>9, <4>10, <4>11 DEF ZLoopInv
      <3> QED BY <3>1, <3>2
    <2>4. UnpackedWhole'
      BY <1>1, <1>2, <1>3, <1>8, <1>13 DEF UnpackedWhole
    <2> QED BY <1>1, <1>2, <1>3, <1>8, <1>13, <2>1, <2>3, <2>4 DEF ZInv, ZTypeOK
  <1> QED BY <1>9, <1>10, <1>11, <1>12, <1>13

\* ZSpec without its fairness, which safety does not need.
ZSafety == ZInit /\ [][ZNext]_zstdVars

\* UnpackedWhole: however many frames there are and however the C stream divides its work,
\* decompress_all returns the content of all of them or, of a buffer that was cut, of all but
\* the last, never more than the limit, and frees its stream when it ends.
THEOREM UnpackingAlwaysWhole == ZSafety => [](ZTypeOK /\ UnpackedWhole)
  <1>1. ZInit => ZInv
    <2>1. <<>> \in Seq(ZFrames)
      OBVIOUS
    <2> QED BY <2>1 DEF ZInit, NoData, ZInv, ZTypeOK, ZDataInv, UnpackedWhole
  <1>2. ZInv /\ [ZNext]_zstdVars => ZInv'
    <2> SUFFICES ASSUME ZInv, [ZNext]_zstdVars PROVE ZInv'
      OBVIOUS
    <2>1. CASE ReadFails
      <3>1. /\ unpack' = "ProtocolError" /\ dstream' = -1 /\ zmem' = "none" /\ packed' = packed
            /\ zLimit' = zLimit /\ zOut' = zOut
        BY <2>1 DEF ReadFails, ZReturn
      <3> QED BY <3>1, ZErrorKeeps DEF ZInv, UnpackedWhole
    <2>2. ASSUME NEW in \in Nat, NEW out \in Nat, ReadLoop(in, out) PROVE ZInv'
      BY <2>2, ZReadKeeps
    <2>3. CASE UNCHANGED zstdVars
      BY <2>3 DEF zstdVars, ZInv, ZTypeOK, ZDataInv, UnpackedWhole, ZLoopInv, ZLeft, ZHeld, HeldUpTo
    <2>4. \A b : \A i \in 0..b : i \in Nat
      OBVIOUS
    <2> QED BY <2>1, <2>2, <2>3, <2>4, ZStartKeeps DEF ZNext
  <1>3. ZInv => ZTypeOK /\ UnpackedWhole
    BY DEF ZInv
  <1> QED BY <1>1, <1>2, <1>3, PTL DEF ZSafety

-----------------------------------------------------------------------------
(* Protocol buffer streams.  The values written lie one behind the other   *)
(* in the buffer, and the parent stream stands where one of them starts    *)
(* (PbAligned).                                                            *)

PbValues == {Number(v) : v \in Nat} \cup {String(s) : s \in Seq(Nat)}

\* The bytes a write puts in the buffer.
PbEncoded(v) == IF v.kind = "varint" THEN Varint(v.num) ELSE Varint(Len(v.str)) \o v.str

StartsAt(b, p, e) == p + Len(e) <= Len(b) /\ \A i \in 1..Len(e) : b[p + i] = e[i]

\* The values written lie one behind the other, from off[k - 1] to off[k].
PbLayout(off) ==
  /\ off \in [0..Len(wrote) -> 0..Len(pbOut.bytes)]
  /\ off[0] = 0 /\ off[Len(wrote)] = Len(pbOut.bytes)
  /\ \A k \in 1..Len(wrote) : /\ off[k] = off[k - 1] + Len(PbEncoded(wrote[k]))
                              /\ StartsAt(pbOut.bytes, off[k - 1], PbEncoded(wrote[k]))

\* How many values the parent has gone past: a substream of an empty string is one more.
PbPassed == Len(readBack) + (IF pbSub = NoStream THEN 0 ELSE 1)

\* What is known as long as no write has broken off and no substream has lent bytes.
PbAligned(off) ==
  /\ PbLayout(off)
  /\ PbPassed <= Len(wrote)
  /\ readBack = SubSeq(wrote, 1, Len(readBack))
  /\ pbIn # NoStream => pbIn.pos = off[PbPassed] /\ pbIn.pos + pbIn.left = Len(pbOut.bytes)
  /\ pbSub # NoStream => pbSub.left = 0 /\ wrote[Len(readBack) + 1] = String(<<>>)

PbTypes ==
  /\ pbOut \in [room: Nat, bytes: Seq(Nat)] /\ wrote \in Seq(PbValues) /\ Len(wrote) <= FieldMax
  /\ torn \in BOOLEAN /\ astray \in BOOLEAN /\ readBack \in Seq(PbValues)
  /\ pbIn = NoStream \/ pbIn \in [pos: Nat, left: Nat]
  /\ pbSub = NoStream \/ pbSub \in [pos: Nat, left: Nat]

PbBounds ==
  /\ Len(pbOut.bytes) <= pbOut.room
  /\ pbIn # NoStream => pbIn.pos + pbIn.left <= Len(pbOut.bytes)
  /\ pbSub # NoStream => pbIn # NoStream /\ pbSub.pos + pbSub.left <= Len(pbOut.bytes) - pbIn.left
  /\ pbIn = NoStream => readBack = <<>> /\ ~astray

PbInv == PbTypes /\ PbBounds /\ (~torn /\ ~astray => \E off : PbAligned(off))

LEMMA VarintIs ==
  ASSUME NEW v \in Nat
  PROVE  /\ Varint(v) \in Seq(Nat)
         /\ v < 2 => Len(Varint(v)) = 1 /\ Varint(v)[1] = v
         /\ v >= 2 => /\ Len(Varint(v)) = 2 /\ Varint(v)[1] = 2 + (v % 2) /\ Varint(v)[2] = v \div 2
                      /\ v % 2 \in 0..1 /\ v \div 2 \in Nat /\ v = 2 * (v \div 2) + (v % 2)
  <1>1. CASE v < 2
    BY <1>1 DEF Varint
  <1>2. CASE v >= 2
    <2>1. v % 2 \in 0..1 /\ v \div 2 \in Nat /\ v = 2 * (v \div 2) + (v % 2)
      <3>1. v % 2 \in 0..1 /\ v \div 2 \in Nat
        OBVIOUS
      <3>2. PICK q \in Nat, r \in 0..1 : q = v \div 2 /\ r = v % 2 /\ r = v - 2 * q
        BY <3>1
      <3>3. v = 2 * q + r
        BY <3>2
      <3> QED BY <3>1, <3>2, <3>3
    <2>2. Varint(v) = <<2 + (v % 2), v \div 2>>
      BY <1>2 DEF Varint
    <2> QED BY <1>2, <2>1, <2>2
  <1> QED BY <1>1, <1>2

LEMMA VarintLength ==
  ASSUME NEW v \in Nat
  PROVE  Len(Varint(v)) \in 1..2
  BY VarintIs

LEMMA EncodedIs ==
  /\ \A v \in Nat : Number(v) \in PbValues /\ Number(v).kind = "varint" /\ PbEncoded(Number(v)) = Varint(v)
  /\ \A s \in Seq(Nat) : /\ String(s) \in PbValues /\ String(s).kind = "string" /\ String(s).str = s
                         /\ PbEncoded(String(s)) = Varint(Len(s)) \o s
  BY DEF PbValues, Number, String, PbEncoded

LEMMA ValueIs ==
  ASSUME NEW v \in PbValues
  PROVE  /\ v.kind = "varint" => v.num \in Nat /\ v = Number(v.num)
         /\ v.kind = "string" => v.str \in Seq(Nat) /\ v = String(v.str)
         /\ v.kind \in {"varint", "string"}
  BY DEF PbValues, Number, String

LEMMA EncodedType ==
  ASSUME NEW v \in PbValues
  PROVE  PbEncoded(v) \in Seq(Nat) /\ Len(PbEncoded(v)) \in Nat
  <1>1. CASE v.kind = "varint"
    <2>1. v.num \in Nat /\ PbEncoded(v) = Varint(v.num)
      BY <1>1, ValueIs DEF PbEncoded
    <2> QED BY <2>1, VarintIs
  <1>2. CASE v.kind = "string"
    <2>1. v.str \in Seq(Nat) /\ PbEncoded(v) = Varint(Len(v.str)) \o v.str /\ Len(v.str) \in Nat
      BY <1>2, ValueIs DEF PbEncoded
    <2>2. Varint(Len(v.str)) \in Seq(Nat)
      BY <2>1, VarintIs
    <2>3. \A a, b \in Seq(Nat) : a \o b \in Seq(Nat) /\ Len(a \o b) \in Nat
      BY ConcatProperties, LenProperties
    <2> QED BY <2>1, <2>2, <2>3
  <1> QED BY <1>1, <1>2, ValueIs

\* A number that was written where a stream is comes back, and the stream goes past it.
LEMMA NumberReadBack ==
  ASSUME NEW v \in Nat, NEW s \in [pos: Nat, left: Nat], StartsAt(pbOut.bytes, s.pos, Varint(v)),
         s.pos + s.left = Len(pbOut.bytes), pbOut.bytes \in Seq(Nat)
  PROVE  VarintRead(s) /\ VarintTaken(s) = Len(Varint(v)) /\ VarintValue(s) = v /\ VarintTaken(s) <= s.left
  <1> DEFINE b == pbOut.bytes
             p == s.pos
  <1>1. p \in Nat /\ s.left \in Nat /\ Len(b) \in Nat /\ p + s.left = Len(b) /\ p + Len(Varint(v)) <= Len(b)
        /\ \A i \in 1..Len(Varint(v)) : b[p + i] = Varint(v)[i]
    BY DEF StartsAt
  <1> HIDE DEF b, p
  <1>2. CASE v < 2
    <2>1. Len(Varint(v)) = 1 /\ Varint(v)[1] = v
      BY <1>2, VarintIs
    <2>2. b[p + 1] = v /\ s.left > 0
      BY <1>1, <2>1
    <2> QED BY <1>1, <1>2, <2>1, <2>2 DEF VarintRead, VarintTaken, VarintValue, b, p
  <1>3. CASE v >= 2
    <2>1. /\ Len(Varint(v)) = 2 /\ Varint(v)[1] = 2 + (v % 2) /\ Varint(v)[2] = v \div 2
          /\ v % 2 \in 0..1 /\ v \div 2 \in Nat /\ v = 2 * (v \div 2) + (v % 2)
      BY <1>3, VarintIs
    <2>2. b[p + 1] = 2 + (v % 2) /\ b[p + 2] = v \div 2 /\ s.left >= 2
      BY <1>1, <2>1
    <2>3. PICK q \in Nat, r \in 0..1 : b[p + 1] = 2 + r /\ b[p + 2] = q /\ v = 2 * q + r
      BY <2>1, <2>2
    <2>4. ~(b[p + 1] < 2) /\ (b[p + 1] - 2) + 2 * b[p + 2] = v /\ s.left # 0 /\ s.left > 1 /\ s.left # 1
      <3>1. \A x, y : x = 2 + r /\ y = q => ~(x < 2) /\ (x - 2) + 2 * y = v
        BY <2>3
      <3>2. s.left # 0 /\ s.left > 1 /\ s.left # 1
        BY <1>1, <2>2, SMTT(30)
      <3> QED BY <2>3, <3>1, <3>2, Zenon
    <2>5. VarintRead(s) /\ VarintTaken(s) = 2
      <3>1. s.left > 0
        BY <1>1, <2>4
      <3> QED BY <2>4, <3>1, Zenon DEF VarintRead, VarintTaken, b, p
    <2>6. VarintValue(s) = v
      BY <2>4 DEF VarintValue, b, p
    <2> QED BY <1>1, <2>1, <2>2, <2>5, <2>6
  <1> QED BY <1>2, <1>3

\* What the last number reader gave is the number written last of those read.
GivesBack ==
  LET v == wrote[Len(readBack)].num IN
  CASE gave.reader = "varint"   -> gave.value = v
    [] gave.reader = "varint32" -> gave.value = v /\ v <= Max32
    [] gave.reader = "svarint"  -> Zigzag(gave.value) = v
    [] gave.reader = "bool"     -> (gave.value = 0) = (v = 0) /\ v <= Max32

GaveInv ==
  /\ pbIn = NoStream => gave = NotANumber
  /\ ~torn /\ ~astray /\ gave # NotANumber => GivesBack

LEMMA PbInvSound == PbInv /\ GaveInv => PbTypeOK /\ StreamsAgree
  <1> SUFFICES ASSUME PbInv, GaveInv PROVE PbTypeOK /\ StreamsAgree
    OBVIOUS
  <1>1. PbTypeOK
    BY DEF PbInv, PbTypes, PbTypeOK
  <1>2. ~torn /\ ~astray =>
          /\ readBack = SubSeq(wrote, 1, Len(readBack))
          /\ pbIn # NoStream => pbIn.pos + pbIn.left = Len(pbOut.bytes)
    BY DEF PbInv, PbAligned
  <1>3. ~torn /\ ~astray /\ gave # NotANumber => GivesBack
    BY DEF GaveInv
  <1>4. /\ Len(pbOut.bytes) <= pbOut.room
        /\ pbIn # NoStream => pbIn.pos + pbIn.left <= Len(pbOut.bytes)
        /\ pbSub # NoStream => pbSub.pos + pbSub.left <= Len(pbOut.bytes) - pbIn.left
    BY DEF PbInv, PbBounds
  <1> QED BY ONLY <1>1, <1>2, <1>3, <1>4, Zenon DEF StreamsAgree, GivesBack

\* A write goes behind what is there.
LEMMA AppendAligned ==
  ASSUME PbInv, ~torn, pbIn = NoStream, NEW v \in PbValues,
         pbOut' = [pbOut EXCEPT !.bytes = @ \o PbEncoded(v)], wrote' = Append(wrote, v),
         pbIn' = pbIn, pbSub' = pbSub, readBack' = readBack
  PROVE  \E off : PbAligned(off)'
  <1> DEFINE b == pbOut.bytes
             e == PbEncoded(v)
             b2 == b \o e
             n == Len(wrote)
  <1>1. /\ pbOut \in [room: Nat, bytes: Seq(Nat)] /\ wrote \in Seq(PbValues) /\ readBack = <<>> /\ ~astray
        /\ pbSub = NoStream
    BY DEF PbInv, PbTypes, PbBounds
  <1>2. b \in Seq(Nat) /\ n \in Nat /\ e \in Seq(Nat) /\ Len(e) \in Nat /\ Len(b) \in Nat
    BY <1>1, EncodedType
  <1>3. pbOut'.bytes = b2
    BY <1>1
  <1>4. /\ Len(b2) = Len(b) + Len(e)
        /\ \A i \in 1..(Len(b) + Len(e)) : b2[i] = IF i <= Len(b) THEN b[i] ELSE e[i - Len(b)]
    BY <1>2, ConcatProperties
  <1>5. Len(wrote') = n + 1 /\ wrote'[n + 1] = v /\ \A k \in 1..n : wrote'[k] = wrote[k]
    BY <1>1, <1>2, AppendProperties
  <1>6. PICK off : PbLayout(off)
    BY <1>1 DEF PbInv, PbAligned
  <1> DEFINE off2 == [k \in 0..(n + 1) |-> IF k <= n THEN off[k] ELSE Len(b2)]
  <1>7. /\ off \in [0..n -> 0..Len(b)] /\ off[0] = 0 /\ off[n] = Len(b)
        /\ \A k \in 1..n : off[k] = off[k - 1] + Len(PbEncoded(wrote[k]))
                           /\ StartsAt(b, off[k - 1], PbEncoded(wrote[k]))
    BY <1>6 DEF PbLayout
  <1> HIDE DEF b, e, n
  <1>8. off2 \in [0..(n + 1) -> 0..Len(b2)] /\ off2[0] = 0 /\ off2[n + 1] = Len(b2)
        /\ \A k \in 0..n : off2[k] = off[k]
    <2>1. \A k \in 0..n : off[k] \in 0..Len(b2)
      BY <1>2, <1>4, <1>7
    <2>2. Len(b2) \in Nat
      BY <1>2, <1>4
    <2> HIDE DEF b2
    <2> QED BY <1>2, <1>7, <2>1, <2>2
  <1> HIDE DEF off2, b2
  <1>9. ASSUME NEW k \in 1..(n + 1)
        PROVE  /\ off2[k] = off2[k - 1] + Len(PbEncoded(wrote'[k]))
               /\ StartsAt(b2, off2[k - 1], PbEncoded(wrote'[k]))
    <2>1. CASE k = n + 1
      <3>1. off2[k - 1] = Len(b) /\ off2[k] = Len(b) + Len(e) /\ wrote'[k] = v
        BY <1>2, <1>4, <1>5, <1>7, <1>8, <2>1
      <3>2. ASSUME NEW i \in 1..Len(e) PROVE b2[Len(b) + i] = e[i]
        <4>1. Len(b) + i \in 1..(Len(b) + Len(e)) /\ ~(Len(b) + i <= Len(b)) /\ (Len(b) + i) - Len(b) = i
          BY <1>2
        <4> QED BY <1>4, <4>1
      <3> QED BY <1>2, <1>4, <3>1, <3>2 DEF StartsAt, e
    <2>2. CASE k # n + 1
      <3>1. k \in 1..n /\ k - 1 \in 0..n /\ k \in 0..n
        BY <1>2, <2>2
      <3>2. off2[k] = off[k] /\ off2[k - 1] = off[k - 1] /\ wrote'[k] = wrote[k]
        BY <1>5, <1>8, <3>1
      <3>3. off[k - 1] \in Nat /\ StartsAt(b, off[k - 1], PbEncoded(wrote[k]))
               /\ Len(PbEncoded(wrote[k])) \in Nat
        <4>1. wrote[k] \in PbValues
          BY <1>1, <3>1 DEF n
        <4> QED BY <1>2, <1>7, <3>1, <4>1, EncodedType
      <3>4. ASSUME NEW i \in 1..Len(PbEncoded(wrote[k])) PROVE b2[off[k - 1] + i] = b[off[k - 1] + i]
        <4>1. off[k - 1] + i \in 1..Len(b)
          <5>1. \A p, c, l \in Nat, j \in Int : 1 <= j /\ j <= c /\ p + c <= l => p + j \in 1..l
            OBVIOUS
          <5>2. off[k - 1] + Len(PbEncoded(wrote[k])) <= Len(b)
            BY <3>3 DEF StartsAt
          <5>3. i \in Int /\ 1 <= i /\ i <= Len(PbEncoded(wrote[k]))
            BY <3>3
          <5> QED BY <1>2, <3>3, <5>1, <5>2, <5>3, Zenon
        <4>2. off[k - 1] + i \in 1..(Len(b) + Len(e)) /\ off[k - 1] + i <= Len(b)
          BY <1>2, <4>1
        <4> QED BY <1>4, <4>2
      <3>5. StartsAt(b2, off[k - 1], PbEncoded(wrote[k]))
        <4>1. /\ off[k - 1] + Len(PbEncoded(wrote[k])) <= Len(b)
              /\ \A i \in 1..Len(PbEncoded(wrote[k])) : b[off[k - 1] + i] = PbEncoded(wrote[k])[i]
          BY <3>3 DEF StartsAt
        <4>2. off[k - 1] + Len(PbEncoded(wrote[k])) <= Len(b2)
          <5>1. \A p, c, l, m \in Nat : p + c <= l => p + c <= l + m
            OBVIOUS
          <5>2. Len(b2) = Len(b) + Len(e)
            BY <1>4
          <5> QED BY <1>2, <3>3, <4>1, <5>1, <5>2
        <4> QED BY <3>4, <4>1, <4>2, Zenon DEF StartsAt
      <3> QED BY <1>7, <3>1, <3>2, <3>5
    <2> QED BY <2>1, <2>2
  <1>o. PICK o : o = off2
    OBVIOUS
  <1>10. PbLayout(o)'
    BY <1>3, <1>5, <1>8, <1>9, <1>o DEF PbLayout
  <1>11. PbAligned(o)'
    <2>1. PbPassed' = 0
      BY <1>1 DEF PbPassed
    <2>2. readBack' = SubSeq(wrote', 1, Len(readBack'))
      BY <1>1
    <2> QED BY <1>1, <1>2, <1>5, <1>10, <2>1, <2>2 DEF PbAligned
  <1> QED BY <1>11

LEMMA StringReadBack ==
  ASSUME NEW str \in Seq(Nat), NEW s \in [pos: Nat, left: Nat], pbOut.bytes \in Seq(Nat),
         StartsAt(pbOut.bytes, s.pos, PbEncoded(String(str))), s.pos + s.left = Len(pbOut.bytes),
         NEW c, c = VarintTaken(s)
  PROVE  /\ VarintRead(s) /\ VarintValue(s) = Len(str) /\ c \in Nat
         /\ Len(PbEncoded(String(str))) = c + Len(str) /\ Len(str) <= s.left - c
         /\ SubSeq(pbOut.bytes, s.pos + c + 1, s.pos + c + Len(str)) = str
  <1> DEFINE b == pbOut.bytes
             p == s.pos
             n == Len(str)
             head == Varint(n)
             e == head \o str
  <1>1. n \in Nat /\ head \in Seq(Nat) /\ Len(head) \in Nat /\ p \in Nat /\ s.left \in Nat /\ Len(b) \in Nat
    <2>1. n \in Nat /\ p \in Nat /\ s.left \in Nat /\ Len(b) \in Nat
      OBVIOUS
    <2>2. \A v \in Nat : Varint(v) \in Seq(Nat) /\ Len(Varint(v)) \in Nat
      <3>1. ASSUME NEW v \in Nat PROVE Varint(v) \in Seq(Nat) /\ Len(Varint(v)) \in Nat
        <4>1. Len(Varint(v)) \in 1..2
          BY VarintLength
        <4>2. Varint(v) \in Seq(Nat)
          BY VarintIs
        <4> QED BY <4>1, <4>2
      <3> QED BY <3>1
    <2> QED BY <2>1, <2>2, Zenon
  <1>2. PbEncoded(String(str)) = e
    BY EncodedIs
  <1>3. p + Len(e) <= Len(b) /\ (\A i \in 1..Len(e) : b[p + i] = e[i]) /\ p + s.left = Len(b)
    BY <1>2 DEF StartsAt
  <1> HIDE DEF b, p, n, head
  <1>4. Len(e) = Len(head) + n
           /\ \A i \in 1..(Len(head) + n) : e[i] = IF i <= Len(head) THEN head[i] ELSE str[i - Len(head)]
    BY <1>1, ConcatProperties DEF n
  <1> HIDE DEF e
  <1>5. StartsAt(b, p, head)
    <2>1. \A i \in 1..Len(head) : i \in 1..(Len(head) + n) /\ i <= Len(head)
      BY <1>1
    <2>2. \A i \in 1..Len(head) : b[p + i] = head[i]
      BY <1>3, <1>4, <2>1
    <2> QED BY <1>1, <1>3, <1>4, <2>2 DEF StartsAt
  <1>6. VarintRead(s) /\ VarintTaken(s) = Len(head) /\ VarintValue(s) = n
    BY <1>1, <1>3, <1>5, NumberReadBack DEF b, p, head
  <1>7. c = Len(head) /\ c \in Nat
    BY <1>1, <1>6
  <1>8. SubSeq(b, p + c + 1, p + c + n) = str
    <2> DEFINE t == SubSeq(b, p + c + 1, p + c + n)
    <2>1. \A i \in 1..n : b[p + c + i] = str[i]
      <3>1. ASSUME NEW i \in 1..n PROVE b[p + c + i] = str[i]
        <4>1. c + i \in 1..(c + n) /\ ~(c + i <= c) /\ (c + i) - c = i /\ p + (c + i) = p + c + i
          BY <1>1, <1>7
        <4> QED BY <1>3, <1>4, <1>7, <4>1
      <3> QED BY <3>1
    <2>2. \A i \in (p + c + 1)..(p + c + n) : b[i] \in Nat
      <3>1. p + c + n <= Len(b)
        BY <1>1, <1>3, <1>4, <1>7
      <3>2. \A i \in (p + c + 1)..(p + c + n) : i \in 1..Len(b)
        BY <1>1, <1>7, <3>1
      <3> QED BY <3>2, ElementOfSeq DEF b
    <2>3. p + c + 1 \in Int /\ p + c + n \in Int
      BY <1>1, <1>7
    <2>4. /\ t \in Seq(Nat)
          /\ Len(t) = IF p + c + 1 <= p + c + n THEN (p + c + n) - (p + c + 1) + 1 ELSE 0
          /\ \A i \in 1..((p + c + n) - (p + c + 1) + 1) : t[i] = b[(p + c + 1) + i - 1]
      BY <2>2, <2>3, SubSeqProperties
    <2> HIDE DEF t
    <2>5. Len(t) = n
      BY <1>1, <1>7, <2>4
    <2>6. ASSUME NEW i \in 1..n PROVE t[i] = str[i]
      <3>1. i \in 1..((p + c + n) - (p + c + 1) + 1) /\ (p + c + 1) + i - 1 = p + c + i
        BY <1>1, <1>7
      <3> QED BY <2>1, <2>4, <3>1
    <2> QED BY <2>4, <2>5, <2>6, SeqEqual DEF t, n
  <1>9. n <= s.left - c
    BY <1>1, <1>3, <1>4, <1>7
  <1> QED BY <1>2, <1>4, <1>6, <1>7, <1>8, <1>9 DEF b, p, n

LEMMA VarintTakes ==
  ASSUME NEW s \in [pos: Nat, left: Nat], s.pos + s.left <= Len(pbOut.bytes), pbOut.bytes \in Seq(Nat)
  PROVE  /\ VarintTaken(s) \in 0..s.left
         /\ VarintRead(s) => VarintValue(s) \in Nat
  <1> DEFINE b == pbOut.bytes
             p == s.pos
             l == s.left
  <1>1. p \in Nat /\ l \in Nat /\ p + l <= Len(b) /\ \A i \in 1..Len(b) : b[i] \in Nat
    BY ElementOfSeq
  <1>2. /\ VarintTaken(s) = IF l = 0 THEN 0 ELSE IF b[p + 1] < 2 \/ l = 1 THEN 1 ELSE 2
        /\ VarintRead(s) = (l > 0 /\ (b[p + 1] < 2 \/ l > 1))
        /\ VarintValue(s) = IF b[p + 1] < 2 THEN b[p + 1] ELSE (b[p + 1] - 2) + 2 * b[p + 2]
    BY DEF VarintTaken, VarintRead, VarintValue
  <1>3. Len(b) \in Nat
    BY LenProperties
  <1> HIDE DEF b, p, l
  <1>4. VarintTaken(s) \in 0..l
    BY <1>1, <1>2
  <1>5. VarintRead(s) => VarintValue(s) \in Nat
    <2>1. l > 0 => p + 1 \in 1..Len(b)
      BY <1>1, <1>3
    <2>2. l > 1 => p + 2 \in 1..Len(b)
      BY <1>1, <1>3
    <2>3. l > 0 => b[p + 1] \in Nat
      BY <1>1, <2>1
    <2>4. l > 1 => b[p + 2] \in Nat
      BY <1>1, <2>2
    <2> SUFFICES ASSUME l > 0, b[p + 1] < 2 \/ l > 1
                 PROVE  (IF b[p + 1] < 2 THEN b[p + 1] ELSE (b[p + 1] - 2) + 2 * b[p + 2]) \in Nat
      BY <1>2
    <2>5. CASE b[p + 1] < 2
      BY <2>3, <2>5
    <2>6. CASE ~(b[p + 1] < 2)
      <3>1. \A x, y \in Nat : ~(x < 2) => (x - 2) + 2 * y \in Nat
        OBVIOUS
      <3> QED BY <2>3, <2>4, <2>6, <3>1
    <2> QED BY <2>5, <2>6
  <1> QED BY <1>4, <1>5 DEF l

\* What the parent reads next, when nothing is out of step.
LEMMA NextValue ==
  ASSUME PbInv, NEW off, PbAligned(off), pbIn # NoStream, pbSub = NoStream, Len(readBack) < Len(wrote)
  PROVE  LET r == Len(readBack)
             v == wrote[r + 1]
         IN  /\ r \in Nat /\ r + 1 \in 1..Len(wrote) /\ v \in PbValues
             /\ pbIn \in [pos: Nat, left: Nat] /\ pbIn.pos + pbIn.left = Len(pbOut.bytes)
             /\ pbOut.bytes \in Seq(Nat)
             /\ pbIn.pos = off[r] /\ off[r + 1] = pbIn.pos + Len(PbEncoded(v))
             /\ StartsAt(pbOut.bytes, pbIn.pos, PbEncoded(v))
  <1> DEFINE r == Len(readBack)
             v == wrote[r + 1]
  <1>1. readBack \in Seq(PbValues) /\ wrote \in Seq(PbValues) /\ pbIn \in [pos: Nat, left: Nat]
           /\ pbOut.bytes \in Seq(Nat)
    BY DEF PbInv, PbTypes
  <1>2. r \in Nat /\ r + 1 \in 1..Len(wrote) /\ (r + 1) - 1 = r /\ PbPassed = r
    BY <1>1 DEF PbPassed
  <1>3. v \in PbValues
    BY <1>1, <1>2, ElementOfSeq
  <1>4. pbIn.pos = off[r] /\ pbIn.pos + pbIn.left = Len(pbOut.bytes)
    BY <1>2 DEF PbAligned
  <1>5. off[r + 1] = off[r] + Len(PbEncoded(v)) /\ StartsAt(pbOut.bytes, off[r], PbEncoded(v))
    BY <1>2 DEF PbAligned, PbLayout
  <1> QED BY <1>1, <1>2, <1>3, <1>4, <1>5

LEMMA PrefixGrows ==
  ASSUME NEW S, NEW w \in Seq(S), NEW q \in Seq(S), q = SubSeq(w, 1, Len(q)), Len(q) < Len(w)
  PROVE  Append(q, w[Len(q) + 1]) = SubSeq(w, 1, Len(q) + 1)
  <1> DEFINE r == Len(q)
  <1>1. r \in Nat /\ Len(w) \in Nat /\ \A i \in 1..r+1 : w[i] \in S
    BY ElementOfSeq
  <1> DEFINE t == SubSeq(w, 1, r + 1)
             a == Append(q, w[r + 1])
  <1>2. t \in Seq(S) /\ Len(t) = r + 1 /\ \A i \in 1..(r + 1) : t[i] = w[i]
    BY <1>1, SubSeqProperties
  <1>3. \A i \in 1..r : q[i] = w[i]
    <2>1. \A i \in 1..r : w[i] \in S
      BY <1>1
    <2>2. \A i \in 1..(r - 1 + 1) : SubSeq(w, 1, r)[i] = w[1 + i - 1]
      BY <1>1, <2>1, SubSeqProperties
    <2> HIDE DEF r
    <2>3. \A i \in 1..r : i \in 1..(r - 1 + 1) /\ 1 + i - 1 = i
      BY <1>1
    <2> QED BY <2>2, <2>3 DEF r
  <1>4. a \in Seq(S) /\ Len(a) = r + 1 /\ a[r + 1] = w[r + 1] /\ \A i \in 1..r : a[i] = q[i]
    BY <1>1, AppendProperties
  <1>5. \A i \in 1..(r + 1) : a[i] = t[i]
    <2> HIDE DEF t, a, r
    <2>1. \A i \in 1..(r + 1) : i \in 1..r \/ i = r + 1
      BY <1>1
    <2> QED BY <1>2, <1>3, <1>4, <2>1
  <1> HIDE DEF t, a
  <1> QED BY <1>2, <1>4, <1>5, SeqEqual DEF t, a

LEMMA AlignedMoves ==
  ASSUME PbInv, NEW off, PbAligned(off), pbIn # NoStream, pbSub = NoStream, Len(readBack) < Len(wrote),
         pbIn' = PbTaken(pbIn, Len(PbEncoded(wrote[Len(readBack) + 1]))),
         readBack' = Append(readBack, wrote[Len(readBack) + 1]),
         pbOut' = pbOut, wrote' = wrote, pbSub' = pbSub
  PROVE  PbAligned(off)'
  <1> DEFINE r == Len(readBack)
             v == wrote[r + 1]
             m == Len(PbEncoded(v))
  <1>1. /\ r \in Nat /\ r + 1 \in 1..Len(wrote) /\ v \in PbValues
        /\ pbIn \in [pos: Nat, left: Nat] /\ pbIn.pos + pbIn.left = Len(pbOut.bytes)
        /\ off[r + 1] = pbIn.pos + m
    BY NextValue
  <1>2. m \in Nat
    BY <1>1, EncodedType
  <1>3. readBack \in Seq(PbValues) /\ wrote \in Seq(PbValues)
    BY DEF PbInv, PbTypes
  <1>4. Len(readBack') = r + 1 /\ readBack' = SubSeq(wrote, 1, r + 1)
    <2>1. readBack = SubSeq(wrote, 1, Len(readBack))
      BY DEF PbAligned
    <2> QED BY <1>1, <1>3, <2>1, PrefixGrows, AppendProperties
  <1>5. PbLayout(off)'
    BY DEF PbAligned, PbLayout
  <1>6. PbPassed' = r + 1
    BY <1>1, <1>4 DEF PbPassed
  <1>7. pbIn'.pos = off[r + 1] /\ pbIn'.pos + pbIn'.left = Len(pbOut'.bytes)
    <2> HIDE DEF m, r
    <2>1. pbIn'.pos = pbIn.pos + m /\ pbIn'.left = pbIn.left - m
      BY DEF PbTaken, m, r
    <2> QED BY <1>1, <1>2, <2>1
  <1> QED BY <1>1, <1>4, <1>5, <1>6, <1>7 DEF PbAligned

LEMMA PbWriteKeeps ==
  ASSUME PbInv, NEW v \in PbValues, WriteOnce(v, PbEncoded(v))
  PROVE  PbInv'
  <1>1. /\ pbOut.room > 0 /\ pbIn = NoStream /\ Len(wrote) < FieldMax /\ PbFits(PbEncoded(v))
        /\ pbOut' = [pbOut EXCEPT !.bytes = @ \o PbEncoded(v)] /\ wrote' = Append(wrote, v)
        /\ torn' = torn /\ pbIn' = pbIn /\ pbSub' = pbSub /\ readBack' = readBack /\ astray' = astray
    BY DEF WriteOnce
  <1>2. pbOut \in [room: Nat, bytes: Seq(Nat)] /\ wrote \in Seq(PbValues)
    BY DEF PbInv, PbTypes
  <1>3. PbEncoded(v) \in Seq(Nat) /\ Len(PbEncoded(v)) \in Nat
    BY EncodedType
  <1>4. pbOut' \in [room: Nat, bytes: Seq(Nat)] /\ Len(pbOut'.bytes) <= pbOut'.room
    BY <1>1, <1>2, <1>3, ConcatProperties DEF PbFits
  <1>5. wrote' \in Seq(PbValues) /\ Len(wrote') <= FieldMax
    BY <1>1, <1>2, AppendProperties, NanopbAssumption
  <1>6. PbTypes'
    BY <1>1, <1>4, <1>5 DEF PbInv, PbTypes
  <1>7. PbBounds'
    BY <1>1, <1>4 DEF PbInv, PbBounds
  <1>8. ~torn => \E off : PbAligned(off)'
    BY <1>1, AppendAligned
  <1> QED BY <1>1, <1>6, <1>7, <1>8 DEF PbInv

LEMMA PbWriteStringKeeps ==
  ASSUME PbInv, NEW s \in Seq(Nat), WriteString(s)
  PROVE  PbInv'
  <1> DEFINE v == String(s)
  <1>1. v \in PbValues /\ PbEncoded(v) = Varint(Len(s)) \o s
    BY EncodedIs
  <1>2. CASE PbFits(Varint(Len(s)) \o s)
    <2>1. WriteOnce(v, PbEncoded(v))
      <3>1. \A b \in Seq(Nat) : b \o Varint(Len(s)) \o s = b \o (Varint(Len(s)) \o s)
        <4>1. Varint(Len(s)) \in Seq(Nat)
          BY VarintIs
        <4> QED BY <4>1, ConcatAssociative, SMTT(30)
      <3>2. pbOut.bytes \in Seq(Nat)
        BY DEF PbInv, PbTypes
      <3> QED BY <1>1, <1>2, <3>1, <3>2 DEF WriteString, WriteOnce
    <2> QED BY <1>1, <2>1, PbWriteKeeps
  <1>3. CASE ~PbFits(Varint(Len(s)) \o s)
    <2> DEFINE h == Varint(Len(s))
    <2>1. /\ pbIn = NoStream /\ PbFits(h) /\ pbOut' = [pbOut EXCEPT !.bytes = @ \o h] /\ torn' = TRUE
          /\ wrote' = wrote /\ pbIn' = pbIn /\ pbSub' = pbSub /\ readBack' = readBack /\ astray' = astray
      BY <1>3 DEF WriteString
    <2>2. h \in Seq(Nat)
      BY VarintIs
    <2> HIDE DEF h
    <2>3. pbOut \in [room: Nat, bytes: Seq(Nat)]
      BY DEF PbInv, PbTypes
    <2>4. pbOut' \in [room: Nat, bytes: Seq(Nat)] /\ Len(pbOut'.bytes) <= pbOut'.room
      BY <2>1, <2>2, <2>3, ConcatProperties DEF PbFits
    <2>5. PbTypes'
      BY <2>1, <2>4 DEF PbInv, PbTypes
    <2>6. PbBounds'
      BY <2>1, <2>4 DEF PbInv, PbBounds
    <2> QED BY <2>1, <2>5, <2>6 DEF PbInv
  <1> QED BY <1>2, <1>3

\* A read that does not touch what was written, and leaves the parent inside it.
LEMMA PbReadBounds ==
  ASSUME PbInv, pbIn # NoStream, pbOut' = pbOut, wrote' = wrote, torn' = torn, astray' \in BOOLEAN,
         pbIn' \in [pos: Nat, left: Nat], readBack' \in Seq(PbValues),
         pbSub' = NoStream \/ pbSub' \in [pos: Nat, left: Nat],
         pbIn'.pos + pbIn'.left <= Len(pbOut.bytes),
         pbSub' # NoStream => pbSub'.pos + pbSub'.left <= Len(pbOut.bytes) - pbIn'.left
  PROVE  PbTypes' /\ PbBounds'
  <1>1. pbIn' # NoStream
    BY DEF NoStream
  <1>2. PbTypes'
    BY DEF PbInv, PbTypes
  <1> QED BY <1>1, <1>2 DEF PbInv, PbBounds

\* The bytes a read takes are bytes.
LEMMA TakenType ==
  ASSUME NEW bytes \in Seq(Nat), NEW p \in Nat, NEW n \in Nat, p + n <= Len(bytes)
  PROVE  SubSeq(bytes, p + 1, p + n) \in Seq(Nat)
  <1>1. Len(bytes) \in Nat
    OBVIOUS
  <1>2. ASSUME NEW i \in (p + 1)..(p + n) PROVE bytes[i] \in Nat
    <2>1. i \in 1..Len(bytes)
      BY <1>1
    <2> QED BY <2>1, ElementOfSeq
  <1>3. p + 1 \in Int /\ p + n \in Int
    OBVIOUS
  <1> QED BY <1>2, <1>3, SubSeqProperties

\* The number that is next, when nothing is out of step.
LEMMA NextNumber ==
  ASSUME PbInv, Expects("varint"), ~torn, ~astray
  PROVE  LET v == wrote[Len(readBack) + 1]
         IN  /\ VarintRead(pbIn) /\ VarintTaken(pbIn) = Len(PbEncoded(v)) /\ VarintValue(pbIn) = v.num
             /\ v.num \in Nat /\ v = Number(v.num)
  <1> DEFINE r == Len(readBack)
             v == wrote[r + 1]
  <1>1. pbIn # NoStream /\ pbSub = NoStream /\ r < Len(wrote) /\ v.kind = "varint"
    BY DEF Expects
  <1>2. PICK off : PbAligned(off)
    BY DEF PbInv
  <1>3. /\ v \in PbValues /\ pbIn.pos + pbIn.left = Len(pbOut.bytes)
        /\ StartsAt(pbOut.bytes, pbIn.pos, PbEncoded(v))
        /\ pbIn \in [pos: Nat, left: Nat] /\ pbOut.bytes \in Seq(Nat)
    BY <1>1, <1>2, NextValue
  <1>4. v.num \in Nat /\ v = Number(v.num) /\ PbEncoded(v) = Varint(v.num)
    BY <1>1, <1>3, ValueIs DEF PbEncoded
  <1>5. /\ VarintRead(pbIn) /\ VarintTaken(pbIn) = Len(PbEncoded(v)) /\ VarintValue(pbIn) = v.num
    BY <1>3, <1>4, NumberReadBack
  <1> QED BY <1>4, <1>5

LEMMA ReadVarintKeeps ==
  ASSUME PbInv, NEW reader, ReadVarint(reader)
  PROVE  PbInv'
  <1> DEFINE c == VarintTaken(pbIn)
             r == Len(readBack)
             refused == VarintRead(pbIn) /\ Overflows(reader, VarintValue(pbIn))
  <1>1. /\ pbIn # NoStream /\ pbSub = NoStream /\ r < Len(wrote) /\ wrote[r + 1].kind = "varint"
        /\ pbIn' = PbTaken(pbIn, c)
        /\ readBack' = IF VarintRead(pbIn) /\ ~refused
                       THEN Append(readBack, Number(VarintValue(pbIn))) ELSE readBack
        /\ pbOut' = pbOut /\ wrote' = wrote /\ torn' = torn /\ pbSub' = pbSub
        /\ astray' = (astray \/ refused)
    BY DEF ReadVarint, Expects
  <1> HIDE DEF refused
  <1>2. /\ pbIn \in [pos: Nat, left: Nat] /\ pbIn.pos + pbIn.left <= Len(pbOut.bytes)
        /\ pbOut.bytes \in Seq(Nat) /\ readBack \in Seq(PbValues) /\ astray \in BOOLEAN
    BY <1>1 DEF PbInv, PbTypes, PbBounds
  <1>3. c \in 0..pbIn.left /\ (VarintRead(pbIn) => VarintValue(pbIn) \in Nat)
    BY <1>2, VarintTakes
  <1> HIDE DEF c
  <1>4. pbIn' \in [pos: Nat, left: Nat] /\ pbIn'.pos + pbIn'.left <= Len(pbOut.bytes)
    BY <1>1, <1>2, <1>3 DEF PbTaken
  <1>5. readBack' \in Seq(PbValues)
    <2>1. VarintRead(pbIn) => Number(VarintValue(pbIn)) \in PbValues
      BY <1>3, EncodedIs
    <2> QED BY <1>1, <1>2, <2>1, AppendProperties
  <1>6. PbTypes' /\ PbBounds'
    <2>1. astray' \in BOOLEAN
      BY <1>1
    <2> QED BY <1>1, <1>2, <1>4, <1>5, <2>1, PbReadBounds
  <1>7. ASSUME ~torn, ~astray' PROVE \E off : PbAligned(off)'
    <2>1. ~astray /\ ~refused
      BY <1>1, <1>7
    <2>2. PICK off : PbAligned(off)
      BY <1>7, <2>1 DEF PbInv
    <2>3. Expects("varint")
      BY DEF ReadVarint
    <2> DEFINE v == wrote[r + 1]
    <2>4. VarintRead(pbIn) /\ c = Len(PbEncoded(v)) /\ VarintValue(pbIn) = v.num /\ v = Number(v.num)
      BY <1>7, <2>1, <2>3, NextNumber DEF c
    <2>5. readBack' = Append(readBack, wrote[r + 1]) /\ pbIn' = PbTaken(pbIn, Len(PbEncoded(wrote[r + 1])))
      BY <1>1, <2>1, <2>4
    <2> QED BY <1>1, <2>2, <2>5, AlignedMoves
  <1> QED BY <1>1, <1>6, <1>7 DEF PbInv

LEMMA ReadStringKeeps == PbInv /\ ReadString => PbInv'
  <1> SUFFICES ASSUME PbInv, ReadString PROVE PbInv'
    OBVIOUS
  <1> DEFINE c == VarintTaken(pbIn)
             r == Len(readBack)
             body == PbTaken(pbIn, c)
             n == VarintValue(pbIn)
             bytes == pbOut.bytes
             str == SubSeq(bytes, body.pos + 1, body.pos + n)
  <1>1. /\ pbIn # NoStream /\ pbSub = NoStream /\ r < Len(wrote) /\ wrote[r + 1].kind = "string"
        /\ VarintRead(pbIn)
        /\ \/ n <= body.left /\ pbIn' = PbTaken(body, n) /\ readBack' = Append(readBack, String(str))
           \/ ~(n <= body.left) /\ pbIn' = body /\ readBack' = readBack
        /\ pbOut' = pbOut /\ wrote' = wrote /\ torn' = torn /\ pbSub' = pbSub /\ astray' = astray
    BY DEF ReadString, Expects
  <1>2. /\ pbIn \in [pos: Nat, left: Nat] /\ pbIn.pos + pbIn.left <= Len(bytes)
        /\ bytes \in Seq(Nat) /\ readBack \in Seq(PbValues) /\ astray \in BOOLEAN
    BY <1>1 DEF PbInv, PbTypes, PbBounds
  <1>3. c \in 0..pbIn.left /\ n \in Nat
    BY <1>1, <1>2, VarintTakes
  <1>4. body \in [pos: Nat, left: Nat] /\ body.pos = pbIn.pos + c /\ body.left = pbIn.left - c
        /\ body.pos + body.left <= Len(bytes)
    <2> HIDE DEF c
    <2> QED BY <1>2, <1>3 DEF PbTaken
  <1> HIDE DEF c, body, n
  <1>5. n <= body.left => str \in Seq(Nat)
    <2> SUFFICES ASSUME n <= body.left PROVE str \in Seq(Nat)
      OBVIOUS
    <2>1. body.pos \in Nat /\ body.left \in Nat /\ body.pos + n <= Len(bytes)
      <3>1. \A p, l, k, m \in Nat : k <= l /\ p + l <= m => p + k <= m
        OBVIOUS
      <3>2. Len(bytes) \in Nat /\ body.pos \in Nat /\ body.left \in Nat
        BY <1>2, <1>4, LenProperties
      <3> QED BY <1>3, <1>4, <3>1, <3>2
    <2> QED BY <1>2, <1>3, <2>1, TakenType
  <1>6. pbIn' \in [pos: Nat, left: Nat] /\ pbIn'.pos + pbIn'.left <= Len(pbOut.bytes)
    <2>1. CASE n <= body.left /\ pbIn' = PbTaken(body, n)
      BY <1>3, <1>4, <2>1 DEF PbTaken
    <2>2. CASE pbIn' = body
      BY <1>4, <2>2
    <2> QED BY <1>1, <2>1, <2>2
  <1> HIDE DEF str
  <1>7. readBack' \in Seq(PbValues)
    <2>1. n <= body.left => String(str) \in PbValues
      BY <1>5, EncodedIs
    <2>2. CASE n <= body.left /\ readBack' = Append(readBack, String(str))
      BY <1>2, <2>1, <2>2, AppendProperties
    <2>3. CASE readBack' = readBack
      BY <1>2, <2>3
    <2> QED BY <1>1, <2>2, <2>3
  <1>8. PbTypes' /\ PbBounds'
    BY <1>1, <1>2, <1>6, <1>7, PbReadBounds
  <1>9. ASSUME ~torn, ~astray PROVE \E off : PbAligned(off)'
    <2>1. PICK off : PbAligned(off)
      BY <1>9 DEF PbInv
    <2> DEFINE v == wrote[r + 1]
    <2>2. /\ v \in PbValues /\ pbIn.pos + pbIn.left = Len(pbOut.bytes)
          /\ StartsAt(pbOut.bytes, pbIn.pos, PbEncoded(v))
      BY <1>1, <2>1, NextValue
    <2>3. v.str \in Seq(Nat) /\ v = String(v.str)
      BY <1>1, <2>2, ValueIs
    <2>4. /\ n = Len(v.str) /\ Len(PbEncoded(v)) = c + n /\ n <= body.left /\ str = v.str
      <3>1. StartsAt(pbOut.bytes, pbIn.pos, PbEncoded(String(v.str)))
        BY <2>2, <2>3
      <3> HIDE DEF v, r
      <3>2. /\ n = Len(v.str) /\ Len(PbEncoded(String(v.str))) = c + Len(v.str)
            /\ Len(v.str) <= pbIn.left - c
            /\ SubSeq(pbOut.bytes, pbIn.pos + c + 1, pbIn.pos + c + Len(v.str)) = v.str
        BY <1>2, <2>2, <2>3, <3>1, StringReadBack DEF n, c
      <3>3. str = v.str
        <4>1. str = SubSeq(pbOut.bytes, pbIn.pos + c + 1, pbIn.pos + c + n)
          BY <1>4 DEF str
        <4> QED BY <3>2, <4>1
      <3>4. n <= body.left
        BY <1>4, <3>2
      <3>5. Len(PbEncoded(v)) = Len(PbEncoded(String(v.str)))
        BY <2>3
      <3> QED BY <3>2, <3>3, <3>4, <3>5
    <2>5. pbIn' = PbTaken(pbIn, Len(PbEncoded(v))) /\ readBack' = Append(readBack, v)
      <3>1. PbTaken(body, n) = PbTaken(pbIn, c + n)
        <4>1. body.pos + n = pbIn.pos + (c + n) /\ body.left - n = pbIn.left - (c + n)
          BY <1>2, <1>3, <1>4
        <4> QED BY <4>1, Zenon DEF PbTaken
      <3>2. n <= body.left => pbIn' = PbTaken(body, n) /\ readBack' = Append(readBack, String(str))
        BY <1>1
      <3>3. String(str) = v
        BY <2>3, <2>4
      <3> HIDE DEF v, body, r
      <3> QED BY <2>4, <3>1, <3>2, <3>3
    <2> QED BY <1>1, <2>1, <2>5, AlignedMoves
  <1> QED BY <1>1, <1>8, <1>9 DEF PbInv

LEMMA MakeSubstreamKeeps == PbInv /\ MakeSubstream => PbInv'
  <1> SUFFICES ASSUME PbInv, MakeSubstream PROVE PbInv'
    OBVIOUS
  <1> DEFINE c == VarintTaken(pbIn)
             r == Len(readBack)
             body == PbTaken(pbIn, c)
             n == VarintValue(pbIn)
             bytes == pbOut.bytes
  <1>1. /\ pbIn # NoStream /\ pbSub = NoStream /\ r < Len(wrote) /\ wrote[r + 1].kind = "string"
        /\ VarintRead(pbIn)
        /\ \/ /\ n <= body.left /\ pbSub' = [body EXCEPT !.left = n]
              /\ pbIn' = [body EXCEPT !.left = @ - n] /\ astray' = (astray \/ n > 0)
           \/ ~(n <= body.left) /\ pbIn' = body /\ pbSub' = pbSub /\ astray' = astray
        /\ pbOut' = pbOut /\ wrote' = wrote /\ torn' = torn /\ readBack' = readBack
    BY DEF MakeSubstream, Expects
  <1>2. /\ pbIn \in [pos: Nat, left: Nat] /\ pbIn.pos + pbIn.left <= Len(bytes)
        /\ bytes \in Seq(Nat) /\ readBack \in Seq(PbValues) /\ astray \in BOOLEAN
    BY <1>1 DEF PbInv, PbTypes, PbBounds
  <1>3. c \in 0..pbIn.left /\ n \in Nat
    BY <1>1, <1>2, VarintTakes
  <1>4. body \in [pos: Nat, left: Nat] /\ body.pos = pbIn.pos + c /\ body.left = pbIn.left - c
        /\ body.pos + body.left <= Len(bytes)
    <2> HIDE DEF c
    <2> QED BY <1>2, <1>3 DEF PbTaken
  <1>5. Len(bytes) \in Nat
    BY <1>2
  <1> HIDE DEF c, body, n, bytes
  <1>6. /\ pbIn' \in [pos: Nat, left: Nat] /\ pbIn'.pos + pbIn'.left <= Len(bytes)
        /\ pbSub' = NoStream \/ pbSub' \in [pos: Nat, left: Nat]
        /\ pbSub' # NoStream => pbSub'.pos + pbSub'.left <= Len(bytes) - pbIn'.left
        /\ astray' \in BOOLEAN
    <2>1. CASE n <= body.left /\ pbSub' = [body EXCEPT !.left = n] /\ pbIn' = [body EXCEPT !.left = @ - n]
               /\ astray' = (astray \/ n > 0)
      <3>1. /\ pbIn' = [pos |-> body.pos, left |-> body.left - n]
            /\ pbSub' = [pos |-> body.pos, left |-> n]
        BY <1>4, <2>1
      <3>2. body.pos \in Nat /\ body.left \in Nat /\ body.left - n \in Nat
        BY <1>3, <1>4, <2>1
      <3>3. /\ body.pos + (body.left - n) <= Len(bytes)
            /\ body.pos + n <= Len(bytes) - (body.left - n)
        BY <1>3, <1>4, <1>5, <2>1, <3>2
      <3>4. astray' \in BOOLEAN
        BY <1>2, <2>1
      <3> QED BY <1>3, <3>1, <3>2, <3>3, <3>4
    <2>2. CASE pbIn' = body /\ pbSub' = pbSub /\ astray' = astray
      BY <1>1, <1>2, <1>4, <2>2
    <2> QED BY <1>1, <2>1, <2>2
  <1>7. PbTypes' /\ PbBounds'
    BY <1>1, <1>2, <1>6, PbReadBounds DEF bytes
  <1>8. ASSUME ~torn, ~astray' PROVE \E off : PbAligned(off)'
    <2>0. ~astray
      BY <1>1, <1>2, <1>8
    <2>1. PICK off : PbAligned(off)
      BY <1>8, <2>0 DEF PbInv
    <2> DEFINE v == wrote[r + 1]
    <2>2. /\ r \in Nat /\ v \in PbValues /\ pbIn.pos + pbIn.left = Len(bytes)
          /\ off[r + 1] = pbIn.pos + Len(PbEncoded(v)) /\ StartsAt(bytes, pbIn.pos, PbEncoded(v))
          /\ r + 1 \in 1..Len(wrote)
      BY <1>1, <2>1, NextValue DEF bytes
    <2>3. v.str \in Seq(Nat) /\ v = String(v.str)
      BY <1>1, <2>2, ValueIs
    <2>4. n = Len(v.str) /\ Len(PbEncoded(v)) = c + n /\ n <= body.left
      <3>1. StartsAt(bytes, pbIn.pos, PbEncoded(String(v.str)))
        BY <2>2, <2>3
      <3> HIDE DEF v, r
      <3>2. /\ n = Len(v.str) /\ Len(PbEncoded(String(v.str))) = c + Len(v.str)
            /\ Len(v.str) <= pbIn.left - c
        BY <1>2, <2>2, <2>3, <3>1, StringReadBack DEF n, c, bytes
      <3> QED BY <1>4, <2>3, <3>2
    <2>5. /\ pbSub' = [body EXCEPT !.left = n] /\ pbIn' = [body EXCEPT !.left = @ - n]
          /\ astray' = (astray \/ n > 0)
      BY <1>1, <2>4
    <2>6. n = 0
      <3>1. ~(n > 0)
        BY <1>8, <2>5, Zenon
      <3>2. n \in Nat
        BY <1>3
      <3> QED BY <3>1, <3>2
    <2>7. v.str = <<>>
      BY <2>3, <2>4, <2>6, EmptySeq
    <2>8. v = String(<<>>)
      BY <2>3, <2>7
    <2>9. /\ pbIn' = body /\ pbSub' = [pos |-> body.pos, left |-> 0] /\ pbSub' # NoStream
      <3>1. body.pos \in Nat /\ body.left \in Nat /\ body.left - 0 = body.left
               /\ body = [pos |-> body.pos, left |-> body.left]
        BY <1>4
      <3>2. [body EXCEPT !.left = 0] = [pos |-> body.pos, left |-> 0]
        BY <3>1
      <3>3. [body EXCEPT !.left = @ - 0] = [pos |-> body.pos, left |-> body.left - 0]
        BY <3>1
      <3>4. [pos |-> body.pos, left |-> 0] # NoStream
        BY <3>1 DEF NoStream
      <3> QED BY <2>5, <2>6, <3>1, <3>2, <3>3, <3>4
    <2>10. PbPassed' = r + 1
      <3>1. PbPassed' = Len(readBack') + (IF pbSub' = NoStream THEN 0 ELSE 1)
        BY DEF PbPassed
      <3> QED BY <1>1, <2>9, <3>1
    <2>11. pbIn'.pos = off[r + 1] /\ pbIn'.pos + pbIn'.left = Len(bytes)
      <3> HIDE DEF r, v
      <3>1. pbIn'.pos = pbIn.pos + c /\ pbIn'.left = pbIn.left - c
        BY <1>4, <2>9
      <3>2. Len(PbEncoded(v)) = c
        BY <1>3, <2>4, <2>6
      <3> QED BY <1>2, <1>3, <2>2, <3>1, <3>2
    <2>12. PbLayout(off)'
      BY <1>1, <2>1 DEF PbAligned, PbLayout
    <2>13. readBack' = SubSeq(wrote', 1, Len(readBack'))
      BY <1>1, <2>1 DEF PbAligned
    <2>14. pbSub'.left = 0 /\ wrote'[Len(readBack') + 1] = String(<<>>)
      BY <1>1, <2>8, <2>9
    <2>15. PbPassed' <= Len(wrote')
      BY <1>1, <2>2, <2>10
    <2> QED BY <1>1, <2>10, <2>11, <2>12, <2>13, <2>14, <2>15 DEF PbAligned, bytes
  <1> QED BY <1>1, <1>7, <1>8 DEF PbInv

LEMMA ReadSubstreamKeeps == PbInv /\ ReadSubstream => PbInv'
  <1> SUFFICES ASSUME PbInv, ReadSubstream PROVE PbInv'
    OBVIOUS
  <1> DEFINE r == Len(readBack)
             bytes == pbOut.bytes
             str == SubSeq(bytes, pbSub.pos + 1, pbSub.pos + pbSub.left)
  <1>1. /\ pbSub # NoStream /\ readBack' = Append(readBack, String(str)) /\ pbSub' = NoStream
        /\ pbOut' = pbOut /\ wrote' = wrote /\ torn' = torn /\ pbIn' = pbIn /\ astray' = astray
    BY DEF ReadSubstream
  <1>2. /\ pbIn # NoStream /\ pbIn \in [pos: Nat, left: Nat] /\ pbIn.pos + pbIn.left <= Len(bytes)
        /\ pbSub \in [pos: Nat, left: Nat] /\ pbSub.pos + pbSub.left <= Len(bytes) - pbIn.left
        /\ bytes \in Seq(Nat) /\ readBack \in Seq(PbValues) /\ wrote \in Seq(PbValues) /\ astray \in BOOLEAN
    BY <1>1 DEF PbInv, PbTypes, PbBounds
  <1>3. Len(bytes) \in Nat /\ r \in Nat
    BY <1>2
  <1> HIDE DEF bytes
  <1>4. str \in Seq(Nat)
    <2>1. pbSub.pos \in Nat /\ pbSub.left \in Nat /\ pbSub.pos + pbSub.left <= Len(bytes)
      BY <1>2, <1>3
    <2> QED BY <1>2, <2>1, TakenType
  <1> HIDE DEF str
  <1>5. readBack' \in Seq(PbValues) /\ Len(readBack') = r + 1
    BY <1>1, <1>2, <1>4, EncodedIs, AppendProperties
  <1>6. PbTypes' /\ PbBounds'
    BY <1>1, <1>2, <1>5, PbReadBounds DEF bytes
  <1>7. ASSUME ~torn, ~astray PROVE \E off : PbAligned(off)'
    <2>1. PICK off : PbAligned(off)
      BY <1>7 DEF PbInv
    <2>2. pbSub.left = 0 /\ wrote[r + 1] = String(<<>>) /\ PbPassed = r + 1
      BY <1>1, <2>1 DEF PbAligned, PbPassed
    <2>3. str = <<>>
      <3>1. SubSeq(bytes, pbSub.pos + 1, pbSub.pos) = <<>>
        <4>1. pbSub.pos \in Nat
          BY <1>2
        <4> QED BY <1>2, <4>1, SubSeqProperties, EmptySeq
      <3>2. pbSub.pos + pbSub.left = pbSub.pos
        BY <1>2, <2>2
      <3> QED BY <3>1, <3>2 DEF str
    <2>4. r < Len(wrote) /\ readBack = SubSeq(wrote, 1, r)
      <3>1. Len(wrote) \in Nat
        BY <1>2
      <3>2. PbPassed <= Len(wrote) /\ readBack = SubSeq(wrote, 1, r)
        BY <2>1 DEF PbAligned
      <3> QED BY <1>3, <2>2, <3>1, <3>2
    <2>5. readBack' = SubSeq(wrote', 1, Len(readBack'))
      BY <1>1, <1>2, <1>5, <2>2, <2>3, <2>4, PrefixGrows
    <2>6. PbPassed' = PbPassed
      <3>1. PbPassed' = Len(readBack') + (IF pbSub' = NoStream THEN 0 ELSE 1)
        BY DEF PbPassed
      <3> QED BY <1>1, <1>3, <1>5, <2>2, <3>1
    <2>7. PbLayout(off)'
      BY <1>1, <2>1 DEF PbAligned, PbLayout
    <2> QED BY <1>1, <1>5, <2>1, <2>5, <2>6, <2>7 DEF PbAligned
  <1> QED BY <1>1, <1>6, <1>7 DEF PbInv

LEMMA InFromBufferKeeps == PbInv /\ InFromBuffer => PbInv'
  <1> SUFFICES ASSUME PbInv, InFromBuffer PROVE PbInv'
    OBVIOUS
  <1>1. /\ pbIn = NoStream /\ pbIn' = [pos |-> 0, left |-> Len(pbOut.bytes)]
        /\ pbOut' = pbOut /\ wrote' = wrote /\ torn' = torn /\ pbSub' = pbSub
              /\ readBack' = readBack /\ astray' = astray
    BY DEF InFromBuffer
  <1>2. pbSub = NoStream /\ readBack = <<>> /\ pbOut.bytes \in Seq(Nat)
    BY <1>1 DEF PbInv, PbTypes, PbBounds
  <1>3. Len(pbOut.bytes) \in Nat /\ pbIn' \in [pos: Nat, left: Nat] /\ pbIn' # NoStream
    <2>1. Len(pbOut.bytes) \in Nat
      BY <1>2
    <2> QED BY <1>1, <2>1 DEF NoStream
  <1>4. PbTypes'
    BY <1>1, <1>3 DEF PbInv, PbTypes
  <1>5. PbBounds'
    BY <1>1, <1>2, <1>3 DEF PbInv, PbBounds
  <1>6. ASSUME ~torn, ~astray PROVE \E off : PbAligned(off)'
    <2>1. PICK off : PbAligned(off)
      BY <1>6 DEF PbInv
    <2>2. PbPassed = 0 /\ PbPassed' = 0
      BY <1>1, <1>2 DEF PbPassed
    <2>3. PbLayout(off)' /\ off[0] = 0
      BY <1>1, <2>1 DEF PbAligned, PbLayout
    <2> QED BY <1>1, <1>2, <1>3, <2>1, <2>2, <2>3 DEF PbAligned
  <1> QED BY <1>1, <1>4, <1>5, <1>6 DEF PbInv

LEMMA OutFromBufferKeeps == PbInv /\ (\E room \in 1..PbRoom : OutFromBuffer(room)) => PbInv'
  <1> SUFFICES ASSUME PbInv, NEW room \in 1..PbRoom, OutFromBuffer(room) PROVE PbInv'
    OBVIOUS
  <1>1. /\ pbOut.room = 0 /\ pbOut' = [pbOut EXCEPT !.room = room]
        /\ wrote' = wrote /\ torn' = torn /\ pbIn' = pbIn /\ pbSub' = pbSub
              /\ readBack' = readBack /\ astray' = astray
    BY DEF OutFromBuffer
  <1>2. pbOut \in [room: Nat, bytes: Seq(Nat)] /\ Len(pbOut.bytes) <= pbOut.room
    BY DEF PbInv, PbTypes, PbBounds
  <1>3. room \in Nat /\ room >= 0
    BY NanopbAssumption
  <1>4. pbOut' \in [room: Nat, bytes: Seq(Nat)] /\ pbOut'.bytes = pbOut.bytes /\ pbOut'.room = room
    BY <1>1, <1>2, <1>3
  <1>5. Len(pbOut.bytes) <= room
    BY <1>1, <1>2, <1>3
  <1>6. PbTypes'
    BY <1>1, <1>4 DEF PbInv, PbTypes
  <1>7. PbBounds'
    BY <1>1, <1>4, <1>5 DEF PbInv, PbBounds
  <1>8. ASSUME NEW off, PbAligned(off) PROVE PbAligned(off)'
    BY <1>1, <1>4, <1>8 DEF PbAligned, PbLayout, PbPassed
  <1> QED BY <1>1, <1>6, <1>7, <1>8 DEF PbInv

LEMMA PbStarts == PbInit => PbInv
  <1> SUFFICES ASSUME PbInit PROVE PbInv
    OBVIOUS
  <1>1. /\ pbOut = [room |-> 0, bytes |-> <<>>] /\ wrote = <<>> /\ torn = FALSE
        /\ pbIn = NoStream /\ pbSub = NoStream /\ readBack = <<>> /\ astray = FALSE
    BY DEF PbInit
  <1>2. Len(<<>>) = 0 /\ <<>> \in Seq(Nat) /\ <<>> \in Seq(PbValues)
    BY EmptySeq
  <1>3. PbTypes
    <2>1. pbOut \in [room: Nat, bytes: Seq(Nat)]
      BY <1>1, <1>2
    <2>2. Len(wrote) <= FieldMax
      BY <1>1, <1>2, NanopbAssumption
    <2> QED BY <1>1, <1>2, <2>1, <2>2 DEF PbTypes
  <1>4. PbBounds
    BY <1>1, <1>2 DEF PbBounds
  <1>5. PICK off : off = [k \in 0..0 |-> 0]
    OBVIOUS
  <1>6. PbLayout(off)
    BY <1>1, <1>2, <1>5 DEF PbLayout
  <1>7. PbAligned(off)
    <2>1. PbPassed = 0
      BY <1>1, <1>2 DEF PbPassed
    <2>2. SubSeq(<<>>, 1, 0) = <<>>
      OBVIOUS
    <2> QED BY <1>1, <1>2, <1>6, <2>1, <2>2 DEF PbAligned
  <1> QED BY <1>3, <1>4, <1>7 DEF PbInv

LEMMA ZigzagBack ==
  ASSUME NEW v \in Nat
  PROVE  UnZigzag(v) \in Int /\ Zigzag(UnZigzag(v)) = v
  <1>1. PICK q \in Nat, m \in 0..1 : q = v \div 2 /\ m = v % 2 /\ v = 2 * q + m
    <2>1. v \div 2 \in Nat /\ v % 2 \in 0..1 /\ v = 2 * (v \div 2) + (v % 2)
      OBVIOUS
    <2> QED BY <2>1
  <1>2. UnZigzag(v) = IF m = 0 THEN q ELSE -q - 1
    BY <1>1 DEF UnZigzag
  <1>3. CASE m = 0
    <2>1. UnZigzag(v) = q /\ v = 2 * q /\ q >= 0
      BY <1>1, <1>2, <1>3
    <2> QED BY <1>1, <2>1 DEF Zigzag
  <1>4. CASE m = 1
    <2>1. UnZigzag(v) = -q - 1 /\ v = 2 * q + 1
      BY <1>1, <1>2, <1>4
    <2>2. \A x \in Int, y \in Nat : x = -y - 1 => ~(x >= 0) /\ (-2) * x - 1 = 2 * y + 1
      OBVIOUS
    <2>3. ~(-q - 1 >= 0) /\ (-2) * (-q - 1) - 1 = 2 * q + 1 /\ -q - 1 \in Int
      BY <1>1, <2>2
    <2>4. Zigzag(-q - 1) = (-2) * (-q - 1) - 1
      BY <2>3, Zenon DEF Zigzag
    <2> QED BY <2>1, <2>3, <2>4
  <1> QED BY <1>1, <1>3, <1>4

\* A step that reads nothing, or that reads a string, has no number to answer for.
LEMMA GaveStays ==
  ASSUME PbInv, GaveInv,
         \/ gave' = NotANumber
         \/ pbIn = NoStream /\ gave' = gave
         \/ /\ gave' = gave /\ pbIn' # NoStream /\ readBack' = readBack /\ wrote' = wrote
            /\ torn' = torn /\ (~astray' => ~astray)
  PROVE  GaveInv'
  <1>1. CASE gave' = NotANumber \/ (pbIn = NoStream /\ gave' = gave)
    BY <1>1 DEF GaveInv
  <1>2. CASE /\ gave' = gave /\ pbIn' # NoStream /\ readBack' = readBack /\ wrote' = wrote
             /\ torn' = torn /\ (~astray' => ~astray)
    <2>1. GivesBack => GivesBack'
      BY ONLY <1>2 DEF GivesBack
    <2> QED BY <1>2, <2>1 DEF GaveInv
  <1> QED BY <1>1, <1>2

LEMMA ReadVarintGives ==
  ASSUME PbInv, GaveInv, NEW reader \in NumberReaders, ReadVarint(reader)
  PROVE  GaveInv'
  <1> DEFINE n == VarintValue(pbIn)
             refused == VarintRead(pbIn) /\ Overflows(reader, n)
  <1>1. /\ pbIn # NoStream /\ pbIn' = PbTaken(pbIn, VarintTaken(pbIn)) /\ wrote' = wrote /\ torn' = torn
        /\ IF VarintRead(pbIn) /\ ~refused
           THEN readBack' = Append(readBack, Number(n)) /\ gave' = [reader |-> reader, value |-> Converted(reader, n)]
           ELSE gave' = NotANumber
        /\ astray' = (astray \/ refused)
    BY DEF ReadVarint, Expects
  <1> HIDE DEF n, refused
  <1>2. CASE gave' = NotANumber
    BY <1>2, GaveStays
  <1>3. CASE gave' # NotANumber
    <2>1. /\ VarintRead(pbIn) /\ ~refused /\ readBack' = Append(readBack, Number(n))
          /\ gave' = [reader |-> reader, value |-> Converted(reader, n)]
      BY <1>1, <1>3
    <2>2. pbIn' # NoStream
      <3>1. pbIn \in [pos: Nat, left: Nat] /\ pbIn.pos + pbIn.left <= Len(pbOut.bytes) /\ pbOut.bytes \in Seq(Nat)
        BY <1>1 DEF PbInv, PbTypes, PbBounds
      <3>2. VarintTaken(pbIn) \in 0..pbIn.left
        BY <3>1, VarintTakes
      <3>3. pbIn'.pos \in Nat
        <4>1. pbIn'.pos = pbIn.pos + VarintTaken(pbIn)
          BY <1>1 DEF PbTaken
        <4>2. pbIn.pos \in Nat /\ VarintTaken(pbIn) \in Nat
          BY <3>1, <3>2
        <4> QED BY ONLY <4>1, <4>2
      <3> QED BY <3>3 DEF NoStream
    <2>3. ASSUME ~torn, ~astray PROVE GivesBack'
      <3>1. Expects("varint")
        BY DEF ReadVarint
      <3>2. n = wrote[Len(readBack) + 1].num /\ n \in Nat
        BY <2>3, <3>1, NextNumber DEF n
      <3>3. readBack \in Seq(PbValues)
        BY DEF PbInv, PbTypes
      <3>4. Number(n) \in PbValues
        BY <3>2, EncodedIs
      <3>5. Len(readBack') = Len(readBack) + 1
        BY <2>1, <3>3, <3>4, AppendProperties
      <3>6. wrote'[Len(readBack')].num = n
        BY <1>1, <3>2, <3>5
      <3>7. gave'.reader = reader /\ gave'.value = Converted(reader, n)
        BY <2>1
      <3>8. reader \in {"varint32", "bool"} => n <= Max32
        <4>1. reader \in {"varint32", "bool"} => ~(n > Max32)
          BY <2>1 DEF refused, Overflows
        <4> QED BY <3>2, <4>1 DEF Max32
      <3>9. CASE reader = "svarint"
        BY <3>2, <3>6, <3>7, <3>9, ZigzagBack DEF GivesBack, Converted
      <3>10. CASE reader # "svarint"
        <4>1. reader \in {"varint", "varint32", "bool"}
          BY <3>10 DEF NumberReaders
        <4>2. CASE reader = "varint"
          BY <3>6, <3>7, <4>2 DEF GivesBack, Converted
        <4>3. CASE reader = "varint32"
          BY <3>6, <3>7, <3>8, <4>3 DEF GivesBack, Converted
        <4>4. CASE reader = "bool"
          <5>1. gave'.value = (IF n = 0 THEN 0 ELSE 1) /\ n <= Max32
            BY <3>7, <3>8, <4>4 DEF Converted
          <5>2. (gave'.value = 0) = (n = 0)
            BY ONLY <5>1
          <5> QED BY <3>6, <3>7, <4>4, <5>1, <5>2 DEF GivesBack
        <4> QED BY <4>1, <4>2, <4>3, <4>4
      <3> QED BY <3>9, <3>10
    <2>4. ~astray' => ~astray
      BY <1>1
    <2> QED BY <1>1, <2>2, <2>3, <2>4 DEF GaveInv
  <1> QED BY <1>2, <1>3

LEMMA GaveStep == PbInv /\ GaveInv /\ [PbNext]_pbVars => GaveInv'
  <1> SUFFICES ASSUME PbInv, GaveInv, [PbNext]_pbVars PROVE GaveInv'
    OBVIOUS
  <1>1. CASE \/ \E room \in 1..PbRoom : OutFromBuffer(room)
             \/ \E v \in 0..3 : WriteOnce(Number(v), Varint(v))
             \/ \E m \in (-2)..1 : WriteSvarint(m)
             \/ \E s \in PbStrings : WriteString(s)
             \/ InFromBuffer
    <2>1. gave' = gave
      BY <1>1 DEF OutFromBuffer, WriteOnce, WriteSvarint, WriteString, InFromBuffer
    <2>2. CASE pbIn = NoStream
      BY <2>1, <2>2, GaveStays
    <2>3. CASE \E room \in 1..PbRoom : OutFromBuffer(room)
      <3>1. UNCHANGED <<wrote, torn, pbIn, pbSub, readBack, gave, astray>>
        BY <2>3 DEF OutFromBuffer
      <3> QED BY <2>2, <3>1, GaveStays
    <2> QED BY <1>1, <2>2, <2>3 DEF WriteOnce, WriteSvarint, WriteString, InFromBuffer
  <1>2. CASE \E reader \in NumberReaders : ReadVarint(reader)
    BY <1>2, ReadVarintGives
  <1>3. CASE ReadString \/ ReadSubstream
    <2>1. gave' = NotANumber
      BY <1>3 DEF ReadString, ReadSubstream
    <2> QED BY <2>1, GaveStays
  <1>4. CASE MakeSubstream
    <2>1. PbInv'
      BY <1>4, MakeSubstreamKeeps
    <2>2. gave' = gave /\ readBack' = readBack /\ wrote' = wrote /\ torn' = torn
          /\ (~astray' => ~astray) /\ pbIn # NoStream
      BY <1>4 DEF MakeSubstream, Expects
    <2>3. CASE pbIn' # NoStream
      BY <2>2, <2>3, GaveStays
    <2>4. CASE pbIn' = NoStream
      <3>1. pbIn \in [pos: Nat, left: Nat] /\ pbIn.pos + pbIn.left <= Len(pbOut.bytes) /\ pbOut.bytes \in Seq(Nat)
        BY <2>2 DEF PbInv, PbTypes, PbBounds
      <3>2. VarintTaken(pbIn) \in 0..pbIn.left
        BY <3>1, VarintTakes
      <3>3. pbIn'.pos = pbIn.pos + VarintTaken(pbIn)
        BY <1>4 DEF MakeSubstream, PbTaken
      <3>4. pbIn.pos \in Nat /\ VarintTaken(pbIn) \in Nat
        BY <3>1, <3>2
      <3>5. pbIn'.pos \in Nat
        BY ONLY <3>3, <3>4
      <3> QED BY <2>4, <3>5 DEF NoStream
    <2> QED BY <2>3, <2>4
  <1>5. CASE UNCHANGED pbVars
    BY <1>5 DEF pbVars, GaveInv, GivesBack
  <1> QED BY <1>1, <1>2, <1>3, <1>4, <1>5 DEF PbNext

\* StreamsAgree: whatever is written, no stream leaves the buffer and the values are read back
\* in order, each by its reader, until a write_string breaks off, a substream lends bytes or a
\* number of more than 32 bits is refused.
THEOREM StreamsAlwaysAgree == PbSpec => [](PbTypeOK /\ StreamsAgree)
  <1>1. PbInv /\ [PbNext]_pbVars => PbInv'
    <2> SUFFICES ASSUME PbInv, [PbNext]_pbVars PROVE PbInv'
      OBVIOUS
    <2>1. CASE \E v \in 0..3 : WriteOnce(Number(v), Varint(v))
      <3>1. PICK v \in 0..3 : WriteOnce(Number(v), Varint(v))
        BY <2>1
      <3>2. Number(v) \in PbValues /\ PbEncoded(Number(v)) = Varint(v)
        BY EncodedIs
      <3> QED BY <3>1, <3>2, PbWriteKeeps
    <2>4. CASE \E m \in (-2)..1 : WriteSvarint(m)
      <3>1. PICK m \in (-2)..1 : WriteOnce(Number(Zigzag(m)), Varint(Zigzag(m)))
        BY <2>4 DEF WriteSvarint
      <3>2. Zigzag(m) \in Nat
        BY DEF Zigzag
      <3>3. Number(Zigzag(m)) \in PbValues /\ PbEncoded(Number(Zigzag(m))) = Varint(Zigzag(m))
        BY <3>2, EncodedIs
      <3> QED BY <3>1, <3>3, PbWriteKeeps
    <2>2. CASE \E s \in PbStrings : WriteString(s)
      <3>1. PICK s \in PbStrings : WriteString(s)
        BY <2>2
      <3>2. s \in Seq(Nat)
        <4>1. PICK n \in 0..StringMax : s \in [1..n -> {1}]
          BY DEF PbStrings
        <4>2. s \in [1..n -> Nat] /\ n \in Nat
          BY <4>1, NanopbAssumption
        <4> QED BY <4>2, SeqDef
      <3> QED BY <3>1, <3>2, PbWriteStringKeeps
    <2>3. CASE UNCHANGED pbVars
      <3>1. /\ pbOut' = pbOut /\ wrote' = wrote /\ torn' = torn /\ pbIn' = pbIn /\ pbSub' = pbSub
            /\ readBack' = readBack /\ astray' = astray
        BY <2>3 DEF pbVars
      <3> QED BY <3>1 DEF PbInv, PbTypes, PbBounds, PbAligned, PbLayout, PbPassed
    <2> QED BY <2>1, <2>2, <2>3, <2>4, OutFromBufferKeeps, InFromBufferKeeps, ReadVarintKeeps, ReadStringKeeps,
               MakeSubstreamKeeps, ReadSubstreamKeeps DEF PbNext
  <1>2. PbInit => GaveInv
    BY DEF PbInit, GaveInv
  <1> QED BY <1>1, <1>2, GaveStep, PbStarts, PbInvSound, PTL DEF PbSpec

-----------------------------------------------------------------------------
(* Program addresses and batches of signatures: what the search and the    *)
(* C library have been asked so far.                                       *)

HashWith(b) == Preimage(Append(finding.seeds, <<b>>))

\* A search has asked for every larger bump and was given a point of the curve each time;
\* a class, once given, stays (Ask).
FindInv ==
  /\ finding.seeds \in Seq(EdSeeds)
  /\ finding.bump \in 0..BumpMax
  /\ finding.at \in {"idle", "loop", "found", "failed", "refused"}
  /\ finding.at \in {"loop", "found"} =>
       /\ finding.bump > 0 /\ ~SeedsRefused(finding.seeds)
       /\ \A b \in (finding.bump + 1)..BumpMax : HashWith(b) \in DOMAIN oracle /\ oracle[HashWith(b)] # "off"
  /\ finding.at = "found" =>
       /\ finding.address = HashWith(finding.bump)
       /\ finding.address \in DOMAIN oracle /\ oracle[finding.address] = "off"

FindShape ==
  finding = [at |-> finding.at, seeds |-> finding.seeds, bump |-> finding.bump, address |-> finding.address]

OracleInv == \A h \in DOMAIN oracle : oracle[h] \in Classes

EdInv == OracleInv /\ FindShape /\ FindInv /\ BatchHonest

LEMMA BumpIsASeed ==
  ASSUME NEW seeds \in Seq(EdSeeds), NEW b, ~SeedsRefused(seeds)
  PROVE  SeedsRefused(Append(seeds, <<b>>)) <=> Len(seeds) = MaxSeeds
  <1> DEFINE full == Append(seeds, <<b>>)
  <1>1. /\ Len(full) = Len(seeds) + 1 /\ full[Len(seeds) + 1] = <<b>> /\ Len(<<b>>) = 1
        /\ \A i \in 1..Len(seeds) : full[i] = seeds[i]
        /\ Len(seeds) \in Nat
    OBVIOUS
  <1>2. /\ Len(seeds) <= MaxSeeds /\ \A i \in 1..Len(seeds) : ~(Len(seeds[i]) > MaxSeedLen)
    BY <1>1, EdAssumption DEF SeedsRefused
  <1>3. \A i \in 1..Len(full) : i \in 1..Len(seeds) \/ i = Len(seeds) + 1
    BY <1>1
  <1>4. MaxSeedLen \in Nat /\ MaxSeedLen >= 1 /\ MaxSeeds \in Nat
    BY EdAssumption
  <1> HIDE DEF full
  <1>5. \A i \in 1..Len(full) : ~(Len(full[i]) > MaxSeedLen)
    <2>1. Len(full[Len(seeds) + 1]) = 1 /\ ~(1 > MaxSeedLen)
      BY <1>1, <1>4
    <2> QED BY <1>1, <1>2, <1>3, <2>1, Zenon
  <1>6. SeedsRefused(full) <=> Len(full) > MaxSeeds
    BY <1>5 DEF SeedsRefused
  <1> QED BY <1>1, <1>2, <1>4, <1>6 DEF full

LEMMA EdInvSound == EdInv => EdTypeOK /\ FoundIsDerivable /\ BatchHonest
  <1> SUFFICES ASSUME EdInv PROVE EdTypeOK /\ FoundIsDerivable /\ BatchHonest
    OBVIOUS
  <1>1. EdTypeOK
    BY DEF EdInv, OracleInv, FindInv, EdTypeOK
  <1>2. FoundIsDerivable
    <2> SUFFICES ASSUME finding.at = "found" PROVE FoundIsDerivable!2
      BY DEF FoundIsDerivable
    <2>1. /\ finding.address = HashWith(finding.bump)
          /\ finding.address \in DOMAIN oracle /\ oracle[finding.address] = "off"
          /\ \A b \in (finding.bump + 1)..BumpMax : oracle[HashWith(b)] # "off"
          /\ finding.seeds \in Seq(EdSeeds) /\ ~SeedsRefused(finding.seeds)
      BY DEF EdInv, FindInv
    <2>2. Recreated(Append(finding.seeds, <<finding.bump>>)) =
            IF Len(finding.seeds) = MaxSeeds THEN "refused" ELSE "ok"
      BY <2>1, BumpIsASeed DEF Recreated, BytesAreCurvePoint, HashWith
    <2> QED BY <2>1, <2>2 DEF HashWith
  <1> QED BY <1>1, <1>2 DEF EdInv

LEMMA EdAskKeeps ==
  ASSUME OracleInv, NEW hash, NEW class \in Classes, Ask(hash, class)
  PROVE  /\ OracleInv'
         /\ hash \in DOMAIN oracle' /\ oracle'[hash] = class
         /\ \A h \in DOMAIN oracle : h \in DOMAIN oracle' /\ oracle'[h] = oracle[h]
  BY DEF OracleInv, Ask

LEMMA SearchStepKeeps ==
  ASSUME EdInv, NEW class \in Classes, FindStep(class)
  PROVE  EdInv'
  <1> DEFINE hash == HashWith(finding.bump)
  <1>1. /\ finding.at = "loop" /\ Ask(hash, class) /\ batch' = batch
        /\ finding' = IF ~PointIsOnCurve(class)
                      THEN [finding EXCEPT !.at = "found", !.address = hash]
                      ELSE [finding EXCEPT !.bump = @ - 1,
                                           !.at = IF finding.bump = 1 THEN "failed" ELSE @]
    BY DEF FindStep, HashWith
  <1>2. OracleInv' /\ hash \in DOMAIN oracle' /\ oracle'[hash] = class
        /\ \A h \in DOMAIN oracle : h \in DOMAIN oracle' /\ oracle'[h] = oracle[h]
    BY <1>1, EdAskKeeps DEF EdInv
  <1>3. /\ finding.seeds \in Seq(EdSeeds) /\ finding.bump \in 1..BumpMax /\ ~SeedsRefused(finding.seeds)
        /\ \A b \in (finding.bump + 1)..BumpMax : HashWith(b) \in DOMAIN oracle /\ oracle[HashWith(b)] # "off"
        /\ BumpMax \in Nat
    BY <1>1, EdAssumption DEF EdInv, FindInv
  <1>4. FindShape
    BY DEF EdInv
  <1>5. finding'.seeds = finding.seeds => \A b : HashWith(b)' = Preimage(Append(finding.seeds, <<b>>))
    BY DEF HashWith
  <1>6. BatchHonest'
    BY <1>1 DEF EdInv, BatchHonest
  <1>7. CASE ~PointIsOnCurve(class)
    <2>1. /\ finding'.at = "found" /\ finding'.seeds = finding.seeds /\ finding'.bump = finding.bump
          /\ finding'.address = hash /\ FindShape'
      BY <1>1, <1>4, <1>7 DEF FindShape
    <2>2. class = "off"
      BY <1>7 DEF PointIsOnCurve
    <2>3. HashWith(finding.bump)' = hash
      BY <2>1 DEF HashWith
    <2>4. \A b \in (finding'.bump + 1)..BumpMax : HashWith(b)' \in DOMAIN oracle'
             /\ oracle'[HashWith(b)'] # "off"
      BY <1>2, <1>3, <1>5, <2>1 DEF HashWith
    <2> HIDE DEF hash
    <2>5. FindInv'
      BY <1>2, <1>3, <1>5, <2>1, <2>2, <2>3, <2>4 DEF FindInv
    <2> QED BY <1>2, <1>6, <2>1, <2>5 DEF EdInv
  <1>8. CASE PointIsOnCurve(class)
    <2>1. /\ finding'.seeds = finding.seeds /\ finding'.bump = finding.bump - 1 /\ FindShape'
          /\ finding'.at = IF finding.bump = 1 THEN "failed" ELSE "loop"
      BY <1>1, <1>4, <1>8 DEF FindShape
    <2>2. class # "off"
      BY <1>8 DEF PointIsOnCurve
    <2>3. ASSUME NEW b \in (finding'.bump + 1)..BumpMax
          PROVE  HashWith(b)' \in DOMAIN oracle' /\ oracle'[HashWith(b)'] # "off"
      <3>1. CASE b = finding.bump
        BY <1>2, <1>5, <2>1, <2>2, <3>1 DEF HashWith
      <3>2. CASE b # finding.bump
        <4>1. b \in (finding.bump + 1)..BumpMax
          BY <1>3, <2>1, <3>2
        <4> QED BY <1>2, <1>3, <1>5, <2>1, <4>1 DEF HashWith
      <3> QED BY <3>1, <3>2
    <2> HIDE DEF hash
    <2>4. FindInv'
      <3>1. /\ finding'.seeds \in Seq(EdSeeds) /\ finding'.bump \in 0..BumpMax
            /\ finding'.at \in {"loop", "failed"}
            /\ finding'.at = "loop" => finding'.bump > 0
        BY <1>3, <2>1
      <3> QED BY <1>3, <2>1, <2>3, <3>1 DEF FindInv
    <2> QED BY <1>2, <1>6, <2>1, <2>4 DEF EdInv
  <1> QED BY <1>7, <1>8

\* What does not touch the search keeps what is known of it.
LEMMA SearchUntouched ==
  ASSUME EdInv, finding' = finding, OracleInv', BatchHonest',
         \A h \in DOMAIN oracle : h \in DOMAIN oracle' /\ oracle'[h] = oracle[h]
  PROVE  EdInv'
  <1>1. \A b : HashWith(b)' = HashWith(b)
    BY DEF HashWith
  <1> QED BY <1>1, Zenon DEF EdInv, FindShape, FindInv

LEMMA VerifyAnswers ==
  /\ VerifyAnswer("SUCCESS") = "true"
  /\ VerifyAnswer("ERR_MSG") = "false"
  /\ VerifyAnswer("ERR_SIG") = "InvalidSignature"
  BY DEF VerifyAnswer

LEMMA EdBatchKeeps ==
  ASSUME NEW n \in Nat, NEW sigs \in Nat, NEW ok \in [1..n -> BOOLEAN], BatchVerify(ok, sigs)
  PROVE  BatchHonest'
  <1>1. /\ ok \in Seq(BOOLEAN) /\ Len(ok) = n /\ (n = 0 => ok = <<>>) /\ (ok = <<>> => n = 0)
    OBVIOUS
  <1> DEFINE verdict == IF n # sigs THEN "InvalidInput" ELSE IF ok = <<>> THEN "true"
                       ELSE VerifyAnswer(CVerifyBatch(ok, n % CountWidth))
             told == IF n < CountWidth THEN n ELSE n % CountWidth
  <1>2. batch'.ok = ok /\ batch'.sigs = sigs /\ batch'.answer = verdict
    BY <1>1 DEF BatchVerify
  <1> SUFFICES ASSUME n = sigs
               PROVE  verdict = "true" <=>
                        (n # 0 => told # 0) /\ told <= BatchMax /\ \A i \in 1..told : ok[i]
    BY <1>1, <1>2 DEF BatchHonest
  <1>3. told \in Nat /\ told = n % CountWidth /\ (n = 0 => told = 0)
    BY EdAssumption
  <1>4. BatchMax \in Nat
    BY EdAssumption
  <1>5. CASE n = 0
    <2>1. verdict = "true"
      BY <1>1, <1>5
    <2> HIDE DEF verdict, told
    <2> QED BY <1>3, <1>4, <1>5, <2>1
  <1>6. CASE n # 0
    <2>1. verdict = VerifyAnswer(CVerifyBatch(ok, told))
      BY <1>1, <1>3, <1>6
    <2> HIDE DEF verdict, told
    <2>2. CASE told = 0 \/ told > BatchMax
      <3>1. verdict = "InvalidSignature"
        BY <2>1, <2>2, VerifyAnswers DEF CVerifyBatch
      <3>2. told = 0 \/ ~(told <= BatchMax)
        BY <1>3, <1>4, <2>2
      <3> QED BY <1>6, <3>1, <3>2
    <2>3. CASE ~(told = 0 \/ told > BatchMax)
      <3>1. verdict = IF \A i \in 1..told : ok[i] THEN "true" ELSE "false"
        BY <2>1, <2>3, VerifyAnswers DEF CVerifyBatch
      <3>2. told <= BatchMax /\ told # 0
        BY <1>3, <1>4, <2>3
      <3> QED BY <3>1, <3>2
    <2> QED BY <2>2, <2>3
  <1> QED BY <1>5, <1>6

\* FoundIsDerivable and BatchHonest: for any number of seeds and bumps, find_program_address
\* returns the first address off the curve and create_program_address derives it again; a batch
\* of signatures verifies exactly if the pairs the C library is told of are good and fit.
THEOREM AddressesAlwaysDerivable == EdSpec => [](EdTypeOK /\ FoundIsDerivable /\ BatchHonest)
  <1>1. EdInit => EdInv
    <2>1. DOMAIN <<>> = {} /\ <<>> \in Seq(EdSeeds)
      OBVIOUS
    <2> QED BY <2>1, EdAssumption DEF EdInit, Idle, NoBatch, EdInv, OracleInv, FindShape, FindInv, BatchHonest
  <1>2. EdInv /\ [EdNext]_edVars => EdInv'
    <2> SUFFICES ASSUME EdInv, [EdNext]_edVars PROVE EdInv'
      OBVIOUS
    <2>1. ASSUME NEW seeds \in SeedLists, FindStart(seeds) PROVE EdInv'
      <3>1. seeds \in Seq(EdSeeds)
        <4>1. PICK n \in 0..(MaxSeeds + 1) : seeds \in [1..n -> EdSeeds]
          BY DEF SeedLists
        <4> QED BY <4>1, EdAssumption
      <3>2. /\ finding' = [at |-> IF SeedsRefused(seeds) THEN "refused" ELSE "loop", seeds |-> seeds,
                           bump |-> BumpMax, address |-> <<>>]
            /\ oracle' = oracle /\ batch' = batch
        BY <2>1 DEF FindStart, Idle
      <3>3. BumpMax \in Nat /\ BumpMax > 0 /\ (BumpMax + 1)..BumpMax = {}
        BY EdAssumption
      <3>4. FindInv' /\ FindShape'
        BY <3>1, <3>2, <3>3 DEF FindInv, FindShape
      <3> QED BY <3>2, <3>4 DEF EdInv, OracleInv, BatchHonest
    <2>2. ASSUME NEW seeds \in SeedLists, NEW class \in Classes, CreateProgramAddress(seeds, class)
          PROVE  EdInv'
      <3>1. finding' = finding /\ batch' = batch /\ (oracle' = oracle \/ Ask(Preimage(seeds), class))
        BY <2>2 DEF CreateProgramAddress
      <3>2. OracleInv' /\ \A h \in DOMAIN oracle : h \in DOMAIN oracle' /\ oracle'[h] = oracle[h]
        BY <3>1, EdAskKeeps DEF EdInv, OracleInv
      <3>3. BatchHonest'
        BY <3>1 DEF EdInv, BatchHonest
      <3> QED BY <3>1, <3>2, <3>3, SearchUntouched
    <2>3. ASSUME NEW n \in 0..EdBatch, NEW sigs \in 0..EdBatch, NEW ok \in [1..n -> BOOLEAN],
                 BatchVerify(ok, sigs)
          PROVE  EdInv'
      <3>1. BatchHonest'
        BY <2>3, EdBatchKeeps, EdAssumption
      <3>2. finding' = finding /\ oracle' = oracle
        BY <2>3 DEF BatchVerify
      <3>3. OracleInv'
        BY <3>2 DEF EdInv, OracleInv
      <3> QED BY <3>1, <3>2, <3>3, SearchUntouched
    <2>4. ASSUME finding' = finding, oracle' = oracle, batch' = batch PROVE EdInv'
      <3>1. OracleInv' /\ BatchHonest'
        BY <2>4 DEF EdInv, OracleInv, BatchHonest
      <3> QED BY <2>4, <3>1, SearchUntouched
    <2>5. ASSUME NEW mine, NEW peer, Exchange(mine, peer) PROVE EdInv'
      BY <2>4, <2>5 DEF Exchange, edVars
    <2>6. CASE DropSecret
      BY <2>4, <2>6 DEF DropSecret
    <2>7. CASE UNCHANGED edVars
      BY <2>4, <2>7 DEF edVars
    <2> QED BY <2>1, <2>2, <2>3, <2>5, <2>6, <2>7, SearchStepKeeps DEF EdNext
  <1> QED BY <1>1, <1>2, EdInvSound, PTL DEF EdSpec

-----------------------------------------------------------------------------
(* The command line: the compaction in C goes through the arguments once,  *)
(* and what it has scanned after each of them is known (ScanKnown).        *)

Texts == Words \cup {""}
Scanned == {s \in [kept: Seq(Nat), values: Seq(Texts), owed: BOOLEAN] : s.owed => s.values # <<>>}
NothingScanned == [kept |-> <<>>, values |-> <<>>, owed |-> FALSE]

KeptPointers(s) == {s.kept[j] : j \in 1..Len(s.kept)}

\* The pointers that count are in the order of the arguments, and name them.
CountedArgs ==
  /\ args \in Seq(Texts) /\ argv \in Seq(Nat) /\ argc \in 0..Len(args)
  /\ argv # <<>> => Len(argv) = Len(args) + 1
  /\ argv = <<>> => argc = 0 /\ args = <<>>
  /\ \A i \in 1..argc : argv[i] \in 1..Len(args)
  /\ \A i, j \in 1..argc : i < j => argv[i] < argv[j]

LEMMA CountedAt ==
  ASSUME CountedArgs, NEW n \in 1..argc
  PROVE  argv[n] \in Nat /\ args[argv[n]] \in Texts /\ argc \in Nat
  BY DEF CountedArgs

LEMMA AppendOne ==
  ASSUME NEW S, NEW s \in Seq(S), NEW e \in S
  PROVE  Append(s, e) \in Seq(S) /\ Append(s, e) # <<>>
  BY AppendProperties

LEMMA FrontAppend ==
  ASSUME NEW S, NEW s \in Seq(S), s # <<>>, NEW e \in S
  PROVE  Append(Front(s), e) \in Seq(S) /\ Append(Front(s), e) # <<>>
  <1>1. Front(s) \in Seq(S)
    BY DEF Front
  <1> HIDE DEF Front
  <1> QED BY <1>1, AppendProperties

LEMMA RecordIsScanned ==
  ASSUME NEW k \in Seq(Nat), NEW v \in Seq(Texts), NEW o \in BOOLEAN, o => v # <<>>
  PROVE  [kept |-> k, values |-> v, owed |-> o] \in Scanned
  BY DEF Scanned

LEMMA StepType ==
  ASSUME CountedArgs, NEW key \in OptKeys, NEW pairs \in BOOLEAN, NEW s \in Scanned, NEW n \in 1..argc
  PROVE  ScanStep(s, argv[n], key, pairs) \in Scanned
  <1> DEFINE p == argv[n]
  <1>1. p \in Nat /\ args[p] \in Texts
    BY CountedAt
  <1>2. s.kept \in Seq(Nat) /\ s.values \in Seq(Texts) /\ s.owed \in BOOLEAN
        /\ s = [kept |-> s.kept, values |-> s.values, owed |-> s.owed]
        /\ (s.owed => s.values # <<>>)
    BY DEF Scanned
  <1>3. Append(s.kept, p) \in Seq(Nat) /\ Append(s.values, "") \in Seq(Texts) /\ Append(s.values, "") # <<>>
    <2>1. Append(s.kept, p) \in Seq(Nat)
      BY <1>1, <1>2
    <2>2. "" \in Texts
      BY DEF Texts
    <2> HIDE DEF Texts
    <2>3. Append(s.values, "") \in Seq(Texts) /\ Append(s.values, "") # <<>>
      BY <1>2, <2>2, AppendOne
    <2> QED BY <2>1, <2>3
  <1>4. s.owed => Append(Front(s.values), args[p]) \in Seq(Texts)
    BY <1>1, <1>2, FrontAppend
  <1> HIDE DEF Texts, p
  <1>5. CASE s.owed
    <2>1. ScanStep(s, p, key, pairs) = [kept |-> s.kept, values |-> Append(Front(s.values),
             args[p]), owed |-> FALSE]
      BY <1>2, <1>5 DEF ScanStep
    <2> QED BY <1>2, <1>4, <1>5, <2>1 DEF Scanned, p
  <1>6. CASE ~s.owed /\ args[p] = key
    <2>1. ScanStep(s, p, key, pairs) = [kept |-> s.kept, values |-> Append(s.values, ""), owed |-> pairs]
      BY <1>2, <1>6 DEF ScanStep
    <2> HIDE DEF Scanned
    <2>2. ScanStep(s, p, key, pairs) \in Scanned
      BY <1>2, <1>3, <2>1, RecordIsScanned
    <2> QED BY <2>2 DEF p
  <1>7. CASE ~s.owed /\ args[p] # key
    <2>1. ScanStep(s, p, key, pairs) = [kept |-> Append(s.kept, p), values |-> s.values, owed |-> FALSE]
      BY <1>2, <1>7 DEF ScanStep
    <2> HIDE DEF Scanned
    <2>2. ScanStep(s, p, key, pairs) \in Scanned
      BY <1>2, <1>3, <2>1, RecordIsScanned
    <2> QED BY <2>2 DEF p
  <1> QED BY <1>2, <1>5, <1>6, <1>7

\* What is known of a scan of the first n arguments.
ScanKnown(s, n, key) ==
  /\ s \in Scanned
  /\ Len(s.kept) <= n
  /\ \A j \in 1..Len(s.kept) : \E i \in 1..n : s.kept[j] = argv[i]
  /\ \A j, k \in 1..Len(s.kept) : j < k => s.kept[j] < s.kept[k]
  /\ \A i \in 1..n : argv[i] \notin KeptPointers(s) => args[argv[i]] = key \/ (i > 1
        /\ argv[i - 1] \notin KeptPointers(s))
  /\ s.owed => n > 0 /\ argv[n] \notin KeptPointers(s)

LEMMA StepKnown ==
  ASSUME CountedArgs, NEW key \in OptKeys, NEW pairs \in BOOLEAN, NEW s, NEW n \in 0..(argc - 1),
           ScanKnown(s, n, key)
  PROVE  ScanKnown(ScanStep(s, argv[n + 1], key, pairs), n + 1, key)
  <1> DEFINE p == argv[n + 1]
             t == ScanStep(s, p, key, pairs)
  <1>1. n \in Nat /\ n + 1 \in 1..argc /\ argc \in Nat
    BY DEF CountedArgs
  <1>2. t \in Scanned /\ s \in Scanned
    BY <1>1, StepType DEF ScanKnown
  <1>3. \A i \in 1..n : argv[i] < p /\ argv[i] \in Nat /\ p \in Nat
    <2>1. \A i \in 1..n : i \in 1..argc /\ i < n + 1
      BY <1>1
    <2>2. p \in Nat /\ \A i \in 1..argc : argv[i] \in Nat
      BY <1>1, SMTT(30) DEF CountedArgs
    <2> QED BY <1>1, <2>1, <2>2 DEF CountedArgs
  <1>4. s.kept \in Seq(Nat) /\ s.values \in Seq(Texts) /\ s.owed \in BOOLEAN
        /\ s = [kept |-> s.kept, values |-> s.values, owed |-> s.owed]
    BY <1>2 DEF Scanned
  <1>5. \A i \in 1..(n + 1) : i \in 1..n \/ i = n + 1
    BY <1>1
  <1>6. \A i \in 1..n : i \in 1..(n + 1)
    BY <1>1
  <1>7. p \notin KeptPointers(s)
    BY <1>3, <1>4 DEF ScanKnown, KeptPointers
  <1> DEFINE k == s.kept
  <1>8. /\ Len(k) \in Nat /\ Len(k) <= n
        /\ \A j \in 1..Len(k) : \E i \in 1..n : k[j] = argv[i]
        /\ \A j, m \in 1..Len(k) : j < m => k[j] < k[m]
        /\ \A i \in 1..n : argv[i] \notin KeptPointers(s) => args[argv[i]] = key \/ (i > 1
              /\ argv[i - 1] \notin KeptPointers(s))
        /\ s.owed => n > 0 /\ argv[n] \notin KeptPointers(s)
    BY <1>4 DEF ScanKnown
  <1>9. CASE s.owed \/ args[p] = key
    <2>1. t.kept = k /\ (t.owed => ~s.owed /\ args[p] = key)
      BY <1>4, <1>9 DEF ScanStep
    <2>2. KeptPointers(t) = KeptPointers(s)
      BY <2>1 DEF KeptPointers
    <2>3. ASSUME NEW i \in 1..(n + 1), argv[i] \notin KeptPointers(t)
          PROVE  args[argv[i]] = key \/ (i > 1 /\ argv[i - 1] \notin KeptPointers(t))
      <3>1. CASE i \in 1..n
        BY <1>8, <2>2, <2>3, <3>1
      <3>2. CASE i = n + 1 /\ s.owed
        BY <1>1, <1>8, <2>2, <3>2
      <3>3. CASE i = n + 1 /\ args[p] = key
        BY <3>3
      <3> QED BY <1>5, <1>9, <3>1, <3>2, <3>3
    <2> HIDE DEF t
    <2>4. t.owed => n + 1 > 0 /\ argv[n + 1] \notin KeptPointers(t)
      BY <1>1, <1>7, <2>2
    <2>5. Len(t.kept) <= n + 1 /\ \A j \in 1..Len(t.kept) : \E i \in 1..(n + 1) : t.kept[j] = argv[i]
      BY <1>1, <1>6, <1>8, <2>1
    <2> QED BY <1>2, <1>8, <2>1, <2>3, <2>4, <2>5 DEF ScanKnown, t
  <1>10. CASE ~s.owed /\ args[p] # key
    <2>1. t.kept = Append(k, p) /\ t.owed = FALSE
      BY <1>4, <1>10 DEF ScanStep
    <2>2. /\ Len(t.kept) = Len(k) + 1 /\ t.kept[Len(k) + 1] = p
          /\ \A j \in 1..Len(k) : t.kept[j] = k[j]
      BY <1>1, <1>4, <2>1, CountedAt, AppendProperties
    <2>3. \A j \in 1..Len(t.kept) : j \in 1..Len(k) \/ j = Len(k) + 1
      BY <1>8, <2>2
    <2> HIDE DEF t, p, k
    <2>4. KeptPointers(t) = KeptPointers(s) \cup {p}
      <3>1. Len(k) + 1 \in 1..Len(t.kept) /\ \A j \in 1..Len(k) : j \in 1..Len(t.kept)
        BY <1>8, <2>2
      <3>2. KeptPointers(s) = {k[j] : j \in 1..Len(k)} /\ KeptPointers(t) = {t.kept[j] : j \in 1..Len(t.kept)}
        BY DEF KeptPointers, k
      <3> QED BY <2>2, <2>3, <3>1, <3>2, Zenon
    <2>5. ASSUME NEW i \in 1..(n + 1), argv[i] \notin KeptPointers(t)
          PROVE  args[argv[i]] = key \/ (i > 1 /\ argv[i - 1] \notin KeptPointers(t))
      <3>1. i \in 1..n
        BY <1>5, <2>4, <2>5 DEF p
      <3>2. CASE i > 1
        <4>1. i - 1 \in 1..n
          BY <1>1, <3>1, <3>2
        <4>2. argv[i - 1] # p
          BY <1>3, <4>1
        <4> QED BY <1>8, <2>4, <2>5, <3>1, <4>2
      <3>3. CASE ~(i > 1)
        BY <1>8, <2>4, <2>5, <3>1, <3>3
      <3> QED BY <3>2, <3>3
    <2>6. Len(t.kept) <= n + 1 /\ \A j \in 1..Len(t.kept) : \E i \in 1..(n + 1) : t.kept[j] = argv[i]
      <3>1. n + 1 \in 1..(n + 1)
        BY <1>1
      <3>2. Len(t.kept) <= n + 1
        BY <1>1, <1>8, <2>2
      <3> QED BY <1>6, <1>8, <2>2, <2>3, <3>1, <3>2, Zenon DEF p
    <2>7. ASSUME NEW j \in 1..Len(t.kept), NEW m \in 1..Len(t.kept), j < m PROVE t.kept[j] < t.kept[m]
      <3>1. j \in 1..Len(k)
        BY <1>8, <2>2, <2>7
      <3>2. CASE m \in 1..Len(k)
        BY <1>8, <2>2, <2>7, <3>1, <3>2, Zenon
      <3>3. CASE m = Len(k) + 1
        BY <1>3, <1>8, <2>2, <3>1, <3>3, Zenon
      <3> QED BY <2>3, <3>2, <3>3
    <2> QED BY <1>2, <2>1, <2>5, <2>6, <2>7, Zenon DEF ScanKnown, t, p
  <1> QED BY <1>4, <1>9, <1>10 DEF p

LEMMA ScanIsKnown ==
  ASSUME CountedArgs, NEW key \in OptKeys, NEW pairs \in BOOLEAN
  PROVE  ScanKnown(Scan(key, pairs), argc, key)
  <1> DEFINE scan[n \in 0..argc] == IF n = 0 THEN [kept |-> <<>>, values |-> <<>>, owed |-> FALSE]
                                    ELSE ScanStep(scan[n - 1], argv[n], key, pairs)
             d == [n \in Nat |-> [s \in Scanned |-> IF n \in 1..argc THEN ScanStep(s, argv[n],
                      key, pairs) ELSE s]]
  <1>1. argc \in Nat /\ \A n \in 1..argc : n \in Nat /\ n # 0 /\ n - 1 \in 0..argc /\ n \in 0..argc
    BY DEF CountedArgs
  <1>2. NothingScanned \in Scanned
    BY DEF NothingScanned, Scanned
  <1>3. /\ \A n \in Nat : d[n] \in [Scanned -> Scanned]
        /\ \A n \in 1..argc, s \in Scanned : d[n][s] = ScanStep(s, argv[n], key, pairs)
    BY <1>1, StepType, Zenon
  <1>4. PICK f \in [0..argc -> Scanned] : Recursive(f, argc, NothingScanned, d)
    <2> HIDE DEF d
    <2> QED BY <1>1, <1>2, <1>3, RecursionExists
  <1>5. f = [n \in 0..argc |-> IF n = 0 THEN NothingScanned ELSE ScanStep(f[n - 1], argv[n], key, pairs)]
    <2> HIDE DEF d
    <2>1. ASSUME NEW n \in 1..argc PROVE d[n][f[n - 1]] = ScanStep(f[n - 1], argv[n], key, pairs)
      BY <1>1, <1>3
    <2>2. \A n \in 0..argc : n = 0 \/ n \in 1..argc
      BY <1>1
    <2> QED BY <1>4, <2>1, <2>2 DEF Recursive
  <1>6. scan = [n \in 0..argc |-> IF n = 0 THEN NothingScanned ELSE ScanStep(scan[n - 1], argv[n],
           key, pairs)]
    <2> HIDE DEF d
    <2> QED BY <1>5 DEF NothingScanned
  <1>7. Scan(key, pairs) = scan[argc]
    BY DEF Scan
  <1> HIDE DEF scan
  <1> DEFINE T == {n \in Nat : n <= argc => ScanKnown(scan[n], n, key)}
  <1>8. 0 \in T
    <2>1. scan[0] = NothingScanned
      BY <1>1, <1>6
    <2>2. ScanKnown(NothingScanned, 0, key)
      BY <1>2 DEF ScanKnown, NothingScanned
    <2> QED BY <2>1, <2>2
  <1>9. ASSUME NEW n \in Nat, n \in T PROVE n + 1 \in T
    <2>1. SUFFICES ASSUME n + 1 <= argc PROVE ScanKnown(scan[n + 1], n + 1, key)
      OBVIOUS
    <2>2. n \in 0..(argc - 1) /\ ScanKnown(scan[n], n, key) /\ scan[n + 1] = ScanStep(scan[n],
             argv[n + 1], key, pairs)
      BY <1>1, <1>6, <1>9, <2>1
    <2> QED BY <2>2, StepKnown
  <1> HIDE DEF T
  <1>10. Nat \subseteq T
    BY <1>8, <1>9, AllNumbers
  <1> QED BY <1>1, <1>7, <1>10 DEF T

\* What a strip may answer, and what is left where an argument has gone.
CmdLineAnswers == Texts \cup {Default, FromEnv, "true", "false"}

CmdLineShape == {argv[i] : i \in 1..argc}

ClInv ==
  /\ CountedArgs
  /\ argv # <<>> => argv[argc + 1] = 0
  /\ \A k \in 1..Len(args) : k \notin CmdLineShape => args[k] \in OptKeys \/ (k > 1
        /\ k - 1 \notin CmdLineShape)
  /\ got \in Seq(CmdLineAnswers) /\ Len(got) <= 2
  /\ got = <<>> => argc = Len(args) /\ \A i \in 1..argc : argv[i] = i

LEMMA ClInvSound == ClInv => ClTypeOK /\ ArgumentsSound
  <1> SUFFICES ASSUME ClInv PROVE ClTypeOK /\ ArgumentsSound
    OBVIOUS
  <1>1. ClTypeOK
    BY DEF ClInv, CountedArgs, ClTypeOK
  <1>2. \A k \in 1..Len(got) : got[k] \in Words \cup {"", Default, FromEnv, "true", "false"}
    <2>1. got \in Seq(CmdLineAnswers)
      BY DEF ClInv
    <2> QED BY <2>1, ElementOfSeq DEF CmdLineAnswers, Texts
  <1>3. got = <<>> => ToVec = args
    <2> SUFFICES ASSUME got = <<>> PROVE ToVec = args
      OBVIOUS
    <2>1. argc = Len(args) /\ \A i \in 1..argc : argv[i] = i
      BY DEF ClInv
    <2>2. ToVec = [i \in 1..Len(args) |-> args[i]]
      BY <2>1 DEF ToVec
    <2> QED BY <2>2 DEF ClInv, CountedArgs
  <1>4. \A i \in 1..argc : argv[i] \in 1..Len(args)
    BY DEF ClInv, CountedArgs
  <1>5. \A i, j \in 1..argc : i < j => argv[i] < argv[j]
    BY DEF ClInv, CountedArgs
  <1> QED BY <1>1, <1>2, <1>3, <1>4, <1>5 DEF ClInv, ArgumentsSound, CmdLineShape

LEMMA CompactKeeps ==
  ASSUME ClInv, NEW s, NEW key \in OptKeys, ScanKnown(s, argc, key), argv # <<>>, Compact(s),
         got' \in Seq(CmdLineAnswers), Len(got') <= 2, got' # <<>>
  PROVE  ClInv'
  <1> DEFINE k == s.kept
  <1>1. /\ args' = args /\ argc' = Len(k) /\ Len(k) <= argc /\ Len(k) \in Nat /\ argc \in Nat
        /\ argv' = [i \in 1..Len(argv) |-> IF i <= Len(k) THEN k[i]
              ELSE IF i = Len(k) + 1 THEN 0 ELSE argv[i]]
        /\ k \in Seq(Nat)
    BY DEF Compact, ScanKnown, Scanned, ClInv, CountedArgs
  <1>2. Len(argv) = Len(args) + 1 /\ argc <= Len(args) /\ Len(args) \in Nat /\ args \in Seq(Texts)
    BY DEF ClInv, CountedArgs
  <1>3. argv' \in Seq(Nat) /\ Len(argv') = Len(argv) /\ argv' # <<>>
    <2>1. \A i \in 1..Len(argv) : (IF i <= Len(k) THEN k[i] ELSE IF i = Len(k) + 1 THEN 0
             ELSE argv[i]) \in Nat
      <3>1. argv \in Seq(Nat)
        BY DEF ClInv, CountedArgs
      <3>2. (\A i \in 1..Len(argv) : argv[i] \in Nat) /\ \A i \in 1..Len(k) : k[i] \in Nat
        BY <1>1, <3>1, ElementOfSeq
      <3> HIDE DEF k
      <3> QED BY <1>1, <3>2
    <2>2. Len(argv) \in Nat /\ Len(argv) > 0
      BY <1>2
    <2> HIDE DEF k
    <2>3. argv' \in [1..Len(argv) -> Nat]
      BY <1>1, <2>1
    <2> QED BY <2>2, <2>3
  <1>4. argc' \in 0..Len(args) /\ Len(argv') = Len(args') + 1 /\ args' \in Seq(Texts)
    BY <1>1, <1>2, <1>3
  <1>5. argv'[argc' + 1] = 0 /\ \A i \in 1..Len(k) : argv'[i] = k[i]
    BY <1>1, <1>2
  <1>6. /\ \A j \in 1..Len(k) : \E i \in 1..argc : k[j] = argv[i]
        /\ \A j, m \in 1..Len(k) : j < m => k[j] < k[m]
        /\ \A i \in 1..argc : argv[i] \notin KeptPointers(s) => args[argv[i]] = key \/ (i > 1
              /\ argv[i - 1] \notin KeptPointers(s))
    BY DEF ScanKnown
  <1>7. /\ \A i \in 1..argc : argv[i] \in 1..Len(args)
        /\ \A i, j \in 1..argc : i < j => argv[i] < argv[j]
        /\ \A n \in 1..Len(args) : n \notin CmdLineShape => args[n] \in OptKeys \/ (n > 1
              /\ n - 1 \notin CmdLineShape)
    BY DEF ClInv, CountedArgs
  <1>8. CmdLineShape' = KeptPointers(s) /\ KeptPointers(s) \subseteq CmdLineShape
    <2>1. CmdLineShape' = {argv'[i] : i \in 1..Len(k)} /\ KeptPointers(s) = {k[i] : i \in 1..Len(k)}
          /\ CmdLineShape = {argv[i] : i \in 1..argc}
      BY <1>1 DEF CmdLineShape, KeptPointers
    <2> HIDE DEF k
    <2>2. {argv'[i] : i \in 1..Len(k)} = {k[i] : i \in 1..Len(k)}
      BY <1>5, Zenon
    <2>3. \A j \in 1..Len(k) : k[j] \in {argv[i] : i \in 1..argc}
      BY <1>6
    <2> QED BY <2>1, <2>2, <2>3
  <1> HIDE DEF k
  <1>9. CountedArgs'
    <2>1. \A i \in 1..argc' : argv'[i] \in 1..Len(args')
      BY <1>1, <1>5, <1>6, <1>7
    <2>2. \A i, j \in 1..argc' : i < j => argv'[i] < argv'[j]
      BY <1>1, <1>5, <1>6
    <2> QED BY <1>1, <1>3, <1>4, <2>1, <2>2 DEF CountedArgs
  <1>10. ASSUME NEW n \in 1..Len(args), n \notin KeptPointers(s)
         PROVE  args[n] \in OptKeys \/ (n > 1 /\ n - 1 \notin KeptPointers(s))
    <2>1. CASE n \notin CmdLineShape
      BY <1>7, <1>8, <2>1
    <2>2. CASE n \in CmdLineShape
      <3>1. PICK i \in 1..argc : n = argv[i]
        BY <2>2 DEF CmdLineShape
      <3>2. args[n] = key \/ (i > 1 /\ argv[i - 1] \notin KeptPointers(s))
        BY <1>6, <1>10, <3>1
      <3>3. CASE i > 1 /\ argv[i - 1] \notin KeptPointers(s)
        <4>1. i - 1 \in 1..argc /\ i - 1 < i /\ argv[i - 1] < n /\ argv[i - 1] \in 1..Len(args)
          BY <1>1, <1>7, <3>1, <3>3
        <4>2. n > 1
          BY <4>1
        <4>3. ASSUME n - 1 \in KeptPointers(s) PROVE FALSE
          <5>1. PICK j \in 1..argc : argv[j] = n - 1
            BY <1>8, <4>3 DEF CmdLineShape
          <5>2. argv[i - 1] # n - 1
            BY <3>3, <4>3
          <5>3. CASE j < i
            <6>1. j < i - 1 \/ j = i - 1
              BY <1>1, <5>3
            <6>2. j < i - 1 => argv[j] < argv[i - 1]
              BY <1>7, <4>1
            <6> QED BY <4>1, <5>1, <5>2, <6>1, <6>2
          <5>4. CASE j = i
            BY <3>1, <5>1, <5>4
          <5>5. CASE j > i
            <6>1. argv[i] < argv[j]
              BY <1>7, <5>5
            <6> QED BY <3>1, <5>1, <6>1
          <5> QED BY <1>1, <5>3, <5>4, <5>5
        <4> QED BY <4>2, <4>3
      <3> QED BY <3>2, <3>3
    <2> QED BY <2>1, <2>2
  <1> QED BY <1>1, <1>3, <1>5, <1>8, <1>9, <1>10 DEF ClInv

LEMMA AnswerKept ==
  ASSUME ClInv, Len(got) < 2, NEW given \in CmdLineAnswers, got' = Append(got, given)
  PROVE  got' \in Seq(CmdLineAnswers) /\ Len(got') <= 2 /\ got' # <<>>
  BY AppendProperties DEF ClInv

LEMMA LastIs ==
  ASSUME NEW S, NEW s \in Seq(S), s # <<>>
  PROVE  Last(s) \in S
  BY DEF Last

LEMMA StripKeeps ==
  ASSUME ClInv, NEW key \in OptKeys, NEW env \in BOOLEAN,
         Strip(key, env) \/ StripCstr(key, env) \/ ContainsAndStrip(key)
  PROVE  ClInv'
  <1>1. PICK pairs \in BOOLEAN :
          /\ argv # <<>> /\ Len(got) < 2 /\ Compact(Scan(key, pairs))
          /\ \E given \in CmdLineAnswers : got' = Append(got, given)
    <2>1. \A pairs \in BOOLEAN : ScanKnown(Scan(key, pairs), argc, key)
      BY ScanIsKnown DEF ClInv
    <2>2. \A pairs \in BOOLEAN : LET v == Scan(key, pairs).values IN v # <<>> => Last(v) \in CmdLineAnswers
      BY <2>1, LastIs DEF ScanKnown, Scanned, CmdLineAnswers
    <2>3. {"true", "false", Default, FromEnv} \subseteq CmdLineAnswers
      BY DEF CmdLineAnswers
    <2> HIDE DEF CmdLineAnswers
    <2>4. CASE Strip(key, env)
      BY <2>2, <2>3, <2>4 DEF Strip
    <2>5. CASE StripCstr(key, env)
      BY <2>2, <2>3, <2>5 DEF StripCstr
    <2>6. CASE ContainsAndStrip(key)
      BY <2>3, <2>6 DEF ContainsAndStrip
    <2> QED BY <2>4, <2>5, <2>6
  <1>2. ScanKnown(Scan(key, pairs), argc, key)
    BY ScanIsKnown DEF ClInv
  <1>3. got' \in Seq(CmdLineAnswers) /\ Len(got') <= 2 /\ got' # <<>>
    BY <1>1, AnswerKept
  <1> QED BY <1>1, <1>2, <1>3, CompactKeeps

LEMMA NewCommandLineKeeps ==
  ASSUME ClInv, NEW n \in 0..ArgMax, NEW a \in [1..n -> Words], NewCommandLine(a)
  PROVE  ClInv'
  <1>1. n \in Nat /\ Len(a) = n
    BY CmdLineAssumption
  <1>2. /\ args' = [i \in 1..n |-> IF a[i] = "nul" THEN "" ELSE a[i]]
        /\ argv' = [i \in 1..(n + 1) |-> IF i <= n THEN i ELSE 0]
        /\ argc' = n /\ got' = <<>>
    BY <1>1 DEF NewCommandLine
  <1>3. args' \in Seq(Texts) /\ Len(args') = n
    <2>1. args' \in [1..n -> Texts]
      BY <1>2 DEF Texts
    <2> QED BY <1>1, <2>1
  <1>4. argv' \in Seq(Nat) /\ Len(argv') = n + 1 /\ argv' # <<>>
    <2>1. argv' \in [1..(n + 1) -> Nat]
      <3>1. \A i \in 1..(n + 1) : (IF i <= n THEN i ELSE 0) \in Nat
        BY <1>1
      <3> QED BY <1>2, <3>1, Zenon
    <2>2. n + 1 \in Nat /\ n + 1 # 0
      BY <1>1
    <2> QED BY <2>1, <2>2
  <1>5. (\A i \in 1..n : argv'[i] = i) /\ argv'[n + 1] = 0
    <2>1. \A i \in 1..(n + 1) : argv'[i] = IF i <= n THEN i ELSE 0
      BY <1>2, Zenon
    <2>2. n + 1 \in 1..(n + 1) /\ ~(n + 1 <= n) /\ \A i \in 1..n : i <= n /\ i \in 1..(n + 1)
      BY <1>1
    <2> QED BY <2>1, <2>2, Zenon
  <1>6. CountedArgs'
    <2>1. \A i \in 1..argc' : argv'[i] \in 1..Len(args')
      BY <1>1, <1>2, <1>3, <1>5
    <2>2. \A i, j \in 1..argc' : i < j => argv'[i] < argv'[j]
      BY <1>1, <1>2, <1>5
    <2>3. argc' \in 0..Len(args') /\ Len(argv') = Len(args') + 1
      <3>1. n \in 0..n
        BY <1>1
      <3> QED BY <1>2, <1>3, <1>4, <3>1, Zenon
    <2> QED BY <1>3, <1>4, <2>1, <2>2, <2>3 DEF CountedArgs
  <1>7. \A k \in 1..Len(args') : k \in CmdLineShape'
    BY <1>2, <1>3, <1>5 DEF CmdLineShape
  <1>8. <<>> \in Seq(CmdLineAnswers) /\ Len(<<>>) = 0
    OBVIOUS
  <1>9. argv'[argc' + 1] = 0
    BY <1>2, <1>5
  <1>10. got' \in Seq(CmdLineAnswers) /\ Len(got') <= 2
    <2>1. 0 <= 2
      OBVIOUS
    <2> QED BY <1>2, <1>8, <2>1, Zenon
  <1>11. argc' = Len(args') /\ \A i \in 1..argc' : argv'[i] = i
    BY <1>2, <1>3, <1>5
  <1> QED BY <1>6, <1>7, <1>9, <1>10, <1>11 DEF ClInv

\* ArgumentsSound: after any strips of any command line the pointers that count name arguments
\* in their order, and an argument goes only with its key.
THEOREM ArgumentsAlwaysSound == ClSpec => [](ClTypeOK /\ ArgumentsSound)
  <1>1. ClInit => ClInv
    <2>1. Len(<<>>) = 0 /\ \A S : <<>> \in Seq(S)
      OBVIOUS
    <2> QED BY <2>1 DEF ClInit, ClInv, CountedArgs
  <1>2. ClInv /\ [ClNext]_clVars => ClInv'
    <2> SUFFICES ASSUME ClInv, [ClNext]_clVars PROVE ClInv'
      OBVIOUS
    <2>1. CASE UNCHANGED clVars
      BY <2>1 DEF clVars, ClInv, CountedArgs, CmdLineShape
    <2> QED BY <2>1, NewCommandLineKeeps, StripKeeps DEF ClNext
  <1> QED BY <1>1, <1>2, ClInvSound, PTL DEF ClSpec

-----------------------------------------------------------------------------
(* The composition.  A step of Services is a step or a stutter of each     *)
(* codec, so every behaviour of it is a behaviour of each of them.         *)

LEMMA CodecStep ==
  ASSUME [SvNext]_svVars
  PROVE  /\ [TvNext]_tvVars /\ [B64Next]_b64Vars /\ [ZNext]_zstdVars /\ [PbNext]_pbVars
         /\ [TomlNext]_tomlVars /\ [ShNext]_shVars /\ [EdNext]_edVars /\ [ClNext]_clVars
  <1>1. CASE SvNext
    BY <1>1 DEF SvNext
  <1>2. CASE UNCHANGED svVars
    BY <1>2 DEF svVars
  <1> QED BY <1>1, <1>2

LEMMA CodecsImplemented ==
  SvSpec => TvSpec /\ B64Spec /\ ZSafety /\ PbSpec /\ TomlSpec /\ ShSpec /\ EdSpec /\ ClSpec
  BY CodecStep, PTL
     DEF SvSpec, SvInit, TvSpec, B64Spec, ZSafety, PbSpec, TomlSpec, ShSpec, EdSpec, ClSpec

\* CodecsFaithful: what each component promises of the bytes it turns into values, and of the
\* values it turns into bytes, holds throughout the composition.
THEOREM CodecsAlwaysFaithful == SvSpec => []CodecsFaithful
  <1>1. /\ TvTypeOK /\ TxnViewSound /\ B64TypeOK /\ Base64Sound /\ ZTypeOK /\ UnpackedWhole
        /\ PbTypeOK /\ StreamsAgree /\ TomlTypeOK /\ TomlFaithful /\ ShTypeOK /\ ShredSlicesInside
        /\ EdTypeOK /\ FoundIsDerivable /\ BatchHonest /\ ClTypeOK /\ ArgumentsSound
        => CodecsFaithful
    BY DEF CodecsFaithful
  <1> QED BY <1>1, CodecsImplemented, ViewsAlwaysSound, Base64AlwaysSound, UnpackingAlwaysWhole,
             StreamsAlwaysAgree, TomlAlwaysFaithful, ShredsAlwaysInside, AddressesAlwaysDerivable,
             ArgumentsAlwaysSound, PTL
=============================================================================
