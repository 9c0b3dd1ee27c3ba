------------------------------ MODULE JsonScan ------------------------------
(***************************************************************************)
(* The zero-allocation JSON scanner of the RPC client (fd_rpc json_scan.rs)*)
(*                                                                         *)
(* A scan is a body (a sequence of characters) and a position in it; every *)
(* lookup walks over the text from the position and returns another        *)
(* position, or nothing.  No tree is ever built, so a value that is        *)
(* skipped wrongly puts every later lookup in the wrong place.  The model  *)
(* keeps the scanner's control, character by character, and compares it    *)
(* with the tree the text was written from.  Characters are the ones the   *)
(* scanner tells apart: punctuation, "\"" and "\\" (here "q" and "b"), a   *)
(* blank, digits, "-", ".", "e", a letter, and the literals true and null  *)
(* as two characters each.                                                 *)
(*                                                                         *)
(* The body may have been cut short: a connection may close before the     *)
(* whole body has been received.  Positions count from 1, the code's from 0.*)
(***************************************************************************)
EXTENDS Integers, Sequences, FiniteSetsExt

CONSTANTS ScanKeys,   \* the raw text of an object's keys
          ScanLeaves, \* the text of the strings, numbers and literals
          ScanWidth   \* members of an object or an array

ASSUME JsonScanAssumption == ScanWidth \in Nat /\ ScanKeys # {} /\ ScanLeaves # {}

VARIABLES body,   \* the characters received
          whole,  \* the tree the sender wrote, and whether it put blanks
          scan    \* [pos, path]: where the scan stands, the node it should be; pos = 0: None

jscVars == <<body, whole, scan>>

Blank == " "
NoScan == [pos |-> 0, path |-> <<>>]

(***************************************************************************)
(* Trees, and the text a server writes for one.                            *)
(***************************************************************************)
ScanLeaf(t) == [kind |-> "leaf", text |-> t, keys |-> <<>>, items |-> <<>>]
ShortSeqs(S) == UNION { [1..n -> S] : n \in 0..ScanWidth }
ScanArrays(S) == { [kind |-> "array", text |-> <<>>, keys |-> <<>>, items |-> s] : s \in ShortSeqs(S) }
ScanObjects(S) == UNION { { [kind |-> "object", text |-> <<>>, keys |-> k, items |-> s] :
                               s \in [1..n -> S], k \in [1..n -> ScanKeys] } : n \in 0..ScanWidth }
FlatTrees == { ScanLeaf(t) : t \in ScanLeaves }
NestedTrees == ScanArrays(FlatTrees) \cup ScanObjects(FlatTrees)
\* A nested value beside a leaf: the scanner has to step over one to reach the other
DeepTrees == UNION { { [kind |-> k, text |-> <<>>, keys |-> IF k = "array" THEN <<>> ELSE ks,
                         items |-> <<n, l>>] : k \in {"array", "object"}, ks \in [1..2 -> ScanKeys] } :
                       n \in NestedTrees, l \in FlatTrees }

Pad(ws) == IF ws THEN <<Blank>> ELSE <<>>
Quoted(s) == <<"q">> \o s \o <<"q">>

RECURSIVE TextOf(_, _)
\* The members of a node one after the other, each with its key and the separator before it
RECURSIVE Members(_, _, _)
TextOf(t, ws) ==
  CASE t.kind = "leaf"   -> t.text
    [] t.kind = "array"  -> <<"[">> \o Members(t, ws, Len(t.items)) \o Pad(ws) \o <<"]">>
    [] t.kind = "object" -> <<"{">> \o Members(t, ws, Len(t.items)) \o Pad(ws) \o <<"}">>
\* What stands before member i of t
Lead(t, ws, i) ==
  (IF i = 1 THEN Pad(ws) ELSE Pad(ws) \o <<",">> \o Pad(ws))
    \o (IF t.kind = "object" THEN Quoted(t.keys[i]) \o Pad(ws) \o <<":">> \o Pad(ws) ELSE <<>>)
Members(t, ws, n) ==
  IF n = 0 THEN <<>> ELSE Members(t, ws, n - 1) \o Lead(t, ws, n) \o TextOf(t.items[n], ws)

RECURSIVE NodeAt(_, _)
NodeAt(t, path) == IF path = <<>> THEN t ELSE NodeAt(t.items[Head(path)], Tail(path))

RECURSIVE StartOf(_, _, _)
\* The position of the first character of the node at path, for a text of t that starts at 1
StartOf(t, ws, path) ==
  IF path = <<>> THEN 1
  ELSE 1 + Len(Members(t, ws, Head(path) - 1)) + Len(Lead(t, ws, Head(path)))
         + StartOf(t.items[Head(path)], ws, Tail(path))

(***************************************************************************)
(* The scanner.  A skip answers whether it succeeded and where it stopped. *)
(***************************************************************************)
At(d, p) == IF p <= Len(d) THEN d[p] ELSE "end"
Skip(ok, p) == [ok |-> ok, pos |-> p]
Digit == {"1", "2"}
FirstNotIn(d, p, S) == IF p > Len(d) THEN p ELSE Min({ i \in p..(Len(d) + 1) : At(d, i) \notin S })

SkipWs(d, p) == FirstNotIn(d, p, {Blank})

RECURSIVE InString(_, _)
InString(d, p) ==
  CASE At(d, p) = "end" -> Skip(FALSE, p)
    [] At(d, p) = "b"   -> InString(d, p + 2)
    [] At(d, p) = "q"   -> Skip(TRUE, p + 1)
    [] OTHER            -> InString(d, p + 1)

\* Mutant: an escaped quote ends the string as well.
MutSkipString(d, p) ==
  LET ends == {i \in (p + 1)..Len(d) : d[i] = "q"}
  IN IF At(d, p) # "q" \/ ends = {} THEN Skip(FALSE, p) ELSE Skip(TRUE, Min(ends) + 1)

SkipString(d, p) == IF At(d, p) # "q" THEN Skip(FALSE, p) ELSE InString(d, p + 1)

SkipNumber(d, p) ==
  LET sign == IF At(d, p) = "-" THEN p + 1 ELSE p
      int  == FirstNotIn(d, sign, Digit)
      frac == IF At(d, int) = "." THEN FirstNotIn(d, int + 1, Digit) ELSE int
      exp  == IF At(d, frac) = "e"
              THEN FirstNotIn(d, IF At(d, frac + 1) \in {"+", "-"} THEN frac + 2 ELSE frac + 1, Digit)
              ELSE frac
  IN IF At(d, sign) \notin Digit THEN Skip(FALSE, p) ELSE Skip(TRUE, exp)

TrueToken == <<"t", "u">>
NullToken == <<"n", "u">>
StartsWith(d, p, lit) == p + Len(lit) - 1 <= Len(d) /\ SubSeq(d, p, p + Len(lit) - 1) = lit
SkipLiteral(d, p, lit) == IF StartsWith(d, p, lit) THEN Skip(TRUE, p + Len(lit)) ELSE Skip(FALSE, p)

RECURSIVE SkipValue(_, _)

RECURSIVE ObjectRest(_, _)
ObjectRest(d, p) ==
  LET key == SkipString(d, SkipWs(d, p))
      colon == SkipWs(d, key.pos)
      value == SkipValue(d, colon + 1)
      next == SkipWs(d, value.pos)
  IN CASE ~key.ok -> key
       [] key.ok /\ At(d, colon) # ":" -> Skip(FALSE, colon)
       [] key.ok /\ At(d, colon) = ":" ->
            CASE ~value.ok -> value
              [] value.ok /\ At(d, next) = "," -> ObjectRest(d, next + 1)
              [] value.ok /\ At(d, next) = "}" -> Skip(TRUE, next + 1)
              [] OTHER -> Skip(FALSE, next)
SkipObject(d, p) ==
  LET in == SkipWs(d, p + 1)
  IN CASE At(d, p) # "{" -> Skip(FALSE, p)
       [] At(d, p) = "{" /\ At(d, in) = "}" -> Skip(TRUE, in + 1)
       [] OTHER -> ObjectRest(d, in)

RECURSIVE ArrayRest(_, _)
ArrayRest(d, p) ==
  LET value == SkipValue(d, p)
      next == SkipWs(d, value.pos)
  IN CASE ~value.ok -> value
       [] value.ok /\ At(d, next) = "," -> ArrayRest(d, next + 1)
       [] value.ok /\ At(d, next) = "]" -> Skip(TRUE, next + 1)
       [] OTHER -> Skip(FALSE, next)
SkipArray(d, p) ==
  LET in == SkipWs(d, p + 1)
  IN CASE At(d, p) # "[" -> Skip(FALSE, p)
       [] At(d, p) = "[" /\ At(d, in) = "]" -> Skip(TRUE, in + 1)
       [] OTHER -> ArrayRest(d, in)

SkipValue(d, p0) ==
  LET p == SkipWs(d, p0)
      c == At(d, p)
  IN CASE c = "q" -> SkipString(d, p)
       [] c = "{" -> SkipObject(d, p)
       [] c = "[" -> SkipArray(d, p)
       [] c = "t" -> SkipLiteral(d, p, TrueToken)
       [] c = "n" -> SkipLiteral(d, p, NullToken)
       [] c \in Digit \cup {"-"} -> SkipNumber(d, p)
       [] OTHER   -> Skip(FALSE, p)

(***************************************************************************)
(* Lookups: a position, or 0 for None.                                     *)
(***************************************************************************)
RECURSIVE FieldFrom(_, _, _)
FieldFrom(d, p0, name) ==
  LET p == SkipWs(d, p0)
      key == SkipString(d, p)
      colon == SkipWs(d, key.pos)
      at == SkipWs(d, colon + 1)
      value == SkipValue(d, at)
      next == SkipWs(d, value.pos)
  IN IF At(d, p) # "q" \/ ~key.ok \/ At(d, colon) # ":" THEN 0
     ELSE IF SubSeq(d, p + 1, key.pos - 2) = name THEN at
     ELSE IF value.ok /\ At(d, next) = "," THEN FieldFrom(d, next + 1, name) ELSE 0
Field(d, p0, name) ==
  LET p == SkipWs(d, p0)
      in == SkipWs(d, p + 1)
  IN IF At(d, p) # "{" \/ At(d, in) = "}" THEN 0 ELSE FieldFrom(d, in, name)

\* array_iter: [pos, done]; pos = 0 when the value is not an array
ArrayIter(d, p0) ==
  LET p == SkipWs(d, p0)
      in == SkipWs(d, p + 1)
  IN IF At(d, p) # "[" THEN [pos |-> 0, done |-> TRUE] ELSE [pos |-> in, done |-> At(d, in) = "]"]

\* One next(): the item's position (0: None) and the iterator afterwards
IterNext(d, it) ==
  LET p == SkipWs(d, it.pos)
      value == SkipValue(d, p)
      next == SkipWs(d, value.pos)
  IN IF it.done \/ At(d, p) \in {"end", "]"} THEN [item |-> 0, it |-> [it EXCEPT !.done = TRUE]]
     ELSE [item |-> p,
           it |-> IF value.ok /\ At(d, next) = "," THEN [pos |-> next + 1, done |-> FALSE]
                  ELSE [pos |-> p, done |-> TRUE]]

RECURSIVE Nth(_, _, _)
\* Iterator::nth: idx items are dropped first
Nth(d, it, idx) ==
  LET step == IterNext(d, it)
  IN IF step.item = 0 \/ idx = 0 THEN step.item ELSE Nth(d, step.it, idx - 1)
Index(d, p, idx) == LET it == ArrayIter(d, p) IN IF it.pos = 0 THEN 0 ELSE Nth(d, it, idx)

(***************************************************************************)
(* Accessors: the characters of the value, or <<>> for None (every string  *)
(* keeps its quotes here, so that an empty one is not None).                *)
(***************************************************************************)
AsStr(d, p) ==
  IF At(d, p) # "q" \/ ~InString(d, p + 1).ok THEN <<>> ELSE SubSeq(d, p, InString(d, p + 1).pos - 1)
AsF64(d, p0) ==
  LET p == SkipWs(d, p0) n == SkipNumber(d, p)
  IN IF n.pos = p THEN <<>> ELSE SubSeq(d, p, n.pos - 1)
\* A lone "-" does not parse.  Only the integer part of a fraction is read.
AsI64(d, p0) ==
  LET p == SkipWs(d, p0)
      sign == IF At(d, p) = "-" THEN p + 1 ELSE p
      end == FirstNotIn(d, sign, Digit)
  IN IF end = sign THEN <<>> ELSE SubSeq(d, p, end - 1)
AsBool(d, p) == IF StartsWith(d, p, TrueToken) THEN TrueToken ELSE <<>>
IsNull(d, p) == StartsWith(d, p, NullToken)
IsObject(d, p) == At(d, p) = "{"
IsString(d, p) == At(d, p) = "q"

(***************************************************************************)
(* A client receives a body, opens a scan and walks down.                  *)
(***************************************************************************)
NoScanTree == [tree |-> ScanLeaf(<<>>), ws |-> FALSE]
JscInit == body = <<>> /\ whole = NoScanTree /\ scan = NoScan

\* JsonScan::new on the first `cut' characters of a document
NewScan(t, ws, cut) ==
  /\ whole = NoScanTree
  /\ whole' = [tree |-> t, ws |-> ws]
  /\ body' = SubSeq(Pad(ws) \o TextOf(t, ws), 1, cut)
  /\ scan' = [pos |-> SkipWs(body', 1), path |-> <<>>]

FirstKey(t, name) == { i \in 1..Len(t.keys) : t.keys[i] = name /\ \A j \in 1..(i - 1) : t.keys[j] # name }

LookField(name) ==
  LET node == NodeAt(whole.tree, scan.path)
  IN /\ scan.pos # 0 /\ whole # NoScanTree
     /\ scan' = [pos |-> Field(body, scan.pos, name),
                 path |-> IF FirstKey(node, name) = {} THEN <<0>>
                          ELSE Append(scan.path, Min(FirstKey(node, name)))]
     /\ UNCHANGED <<body, whole>>

LookIndex(i) ==
  LET node == NodeAt(whole.tree, scan.path)
  IN /\ scan.pos # 0 /\ whole # NoScanTree
     /\ scan' = [pos |-> Index(body, scan.pos, i - 1),
                 path |-> IF node.kind = "array" /\ i <= Len(node.items) THEN Append(scan.path, i)
                          ELSE <<0>>]
     /\ UNCHANGED <<body, whole>>

JscNext ==
  \/ /\ whole = NoScanTree
     /\ \E t \in FlatTrees \cup NestedTrees \cup DeepTrees, ws \in BOOLEAN :
       \E cut \in {Len(Pad(ws) \o TextOf(t, ws)), Len(TextOf(t, ws)) - 1, Len(TextOf(t, ws)) - 2} \cap Nat :
          NewScan(t, ws, cut)
  \/ \E name \in ScanKeys : LookField(name)
  \/ \E i \in 1..(ScanWidth + 1) : LookIndex(i)

JscSpec == JscInit /\ [][JscNext]_jscVars

(***************************************************************************)
(* Properties.                                                             *)
(***************************************************************************)

JscTypeOK == /\ scan.pos \in Nat
            /\ whole = NoScanTree => body = <<>>

Complete == Len(body) = Len(Pad(whole.ws) \o TextOf(whole.tree, whole.ws))
ExpectedPos == StartOf(whole.tree, whole.ws, scan.path) + Len(Pad(whole.ws))

(***************************************************************************)
(* field, first and index of json_scan.rs find what the tree holds: the    *)
(* position of the first member with that key, or of that element, and     *)
(* None when there is none - over escaped quotes, nested values and blanks *)
(* before it; and on a body that was cut short they find that same place   *)
(* or nothing, never another value.                                        *)
(***************************************************************************)
LookupsFindTheNode ==
  whole # NoScanTree =>
    IF scan.path = <<0>> THEN scan.pos = 0
    ELSE /\ scan.pos # 0 /\ scan.pos <= Len(body) => scan.pos = ExpectedPos
         /\ Complete => scan.pos = ExpectedPos

(***************************************************************************)
(* The accessors of json_scan.rs never read past the body, and what they   *)
(* read from a complete leaf is that leaf: its string, its number (as_i64: *)
(* when it is an integer), its literal.                                    *)
(***************************************************************************)
AccessorsRead ==
  whole # NoScanTree /\ scan.pos # 0 =>
    /\ scan.pos <= Len(body) + 1
    /\ Complete =>
         LET node == NodeAt(whole.tree, scan.path)
             leaf == node.text
             number == leaf # <<>> /\ leaf[1] \in Digit \cup {"-"}
         IN /\ node.kind = "leaf" /\ leaf[1] = "q" => AsStr(body, scan.pos) = leaf
            /\ node.kind = "leaf" /\ number =>
                 /\ AsF64(body, scan.pos) = leaf
                 /\ "." \notin { leaf[i] : i \in 1..Len(leaf) } => AsI64(body, scan.pos) = leaf
            /\ AsBool(body, scan.pos) = TrueToken <=> leaf = TrueToken
            /\ IsNull(body, scan.pos) <=> leaf = NullToken
            /\ IsObject(body, scan.pos) <=> node.kind = "object"
            /\ IsString(body, scan.pos) <=> (leaf # <<>> /\ leaf[1] = "q")
=============================================================================
