-------------------------------- MODULE Json --------------------------------
(***************************************************************************)
(* JSON (fd_json).  Values are Rust trees; text is read and written by     *)
(* cJSON, whose trees are made of nodes that must be deleted.  parse       *)
(* converts the C tree and deletes it; to_string builds a C tree node by   *)
(* node, any of which may fail to be allocated or may be refused for a NUL *)
(* byte, prints it and deletes it.  What counts is what the trees hold and *)
(* which nodes are left over.                                              *)
(*                                                                         *)
(* cJSON is external: printing a tree and reading the text again gives the *)
(* tree, and text may hold an object with a key twice.  Trees of both      *)
(* sides have the same shape here: a type and members with a key each.     *)
(***************************************************************************)
EXTENDS Integers, Sequences, SequencesExt, FiniteSets

CONSTANTS
    JKeys,      \* keys of objects, in some order (a sequence)
    Leaves,     \* types of values without members; "nul" is a string with a NUL byte in it
    Width,      \* bound: members of an array or an object
    NodesMax,   \* bound: nodes the allocator may have left
    Mantissa    \* 2^53: the integers up to it are exact as f64

Tree(t, m) == [t |-> t, kids |-> m]
Member(k, v) == [k |-> k, v |-> v]
NoTree == Tree("none", <<>>)

VARIABLES
    jValue,     \* the JsonValue a program has
    jNodesLeft, \* nodes that can be allocated until the allocator fails
    jText,      \* the C tree that the text stands for
    jStage,     \* the call made last
    jErr,       \* "ok" or the error it returned
    jLive,      \* nodes allocated and not deleted
    jNumber     \* an integer, and what it is after From<u64> and as_i64

jsVars == <<jValue, jNodesLeft, jText, jStage, jErr, jLive, jNumber>>

----------------------------------------------------------------------------
\* The inputs: trees of depth 2.
Scalars == {Tree(t, <<>>) : t \in Leaves}
Arrays(V) == UNION {{Tree("array", [i \in 1..n |-> Member("", f[i])]) : f \in [1..n -> V]} : n \in 0..Width}

\* Members of a Rust object have distinct keys; they are listed in the order of JKeys.
Objects(V) == {Tree("object", SelectSeq([i \in DOMAIN JKeys |-> Member(JKeys[i], f[i])], LAMBDA m : m.v /= NoTree)) :
                 f \in [DOMAIN JKeys -> V \cup {NoTree}]}

\* In text a key may come twice.
Texts(V) == UNION {{Tree("object", [i \in 1..n |-> Member(f[i], g[i])]) : f \in [1..n -> ToSet(JKeys)], g \in [1..n -> V]} :
                      n \in 0..Width}

Small == Scalars \cup Arrays(Scalars) \cup Objects(Scalars)

----------------------------------------------------------------------------
(***************************************************************************)
(* json_value_to_cjson: the error, the nodes of the tree it returns, the   *)
(* nodes nobody will delete, and the allocations that are left.  An error  *)
(* of a member comes back with `?': what was built of this container so    *)
(* far is not deleted.  An add that fails (there is no memory for the copy *)
(* of the key) deletes both.                                               *)
(***************************************************************************)
RECURSIVE ToC(_, _)
ToC(v, left) ==
    IF v.t = "nul" THEN [err |-> "InvalidInput", live |-> 0, lost |-> 0, left |-> left]
    ELSE IF left = 0 THEN [err |-> "MemoryError", live |-> 0, lost |-> 0, left |-> 0]
    ELSE FoldLeft(LAMBDA acc, m :
                     IF acc.err /= "ok" THEN acc
                     ELSE LET r    == ToC(m.v, acc.left)
                              fits == v.t = "array" \/ r.left > 0
                          IN  CASE r.err /= "ok" -> [err |-> r.err, live |-> 0, lost |-> acc.lost + acc.live + r.lost, left |-> r.left]
                                [] r.err = "ok" /\ ~fits -> [err |-> "MemoryError", live |-> 0, lost |-> acc.lost, left |-> r.left]
                                [] OTHER -> [err |-> "ok", live |-> acc.live + r.live, lost |-> acc.lost + r.lost,
                                             left |-> IF v.t = "array" THEN r.left ELSE r.left - 1],
                  [err |-> "ok", live |-> 1, lost |-> 0, left |-> left - 1], v.kids)

(***************************************************************************)
(* cjson_to_json_value: a key that comes twice keeps its last value (the   *)
(* insert of a HashMap).                                                   *)
(***************************************************************************)
RECURSIVE FromC(_)
FromC(c) ==
    CASE c.t = "array"  -> Tree("array", [i \in DOMAIN c.kids |-> Member("", FromC(c.kids[i].v))])
      [] c.t = "object" ->
            LET at(k) == SelectSeq(c.kids, LAMBDA m : m.k = k)
            IN  Tree("object", FoldLeft(LAMBDA acc, k : IF at(k) = <<>> THEN acc ELSE Append(acc, Member(k, FromC(Last(at(k)).v))),
                                        <<>>, JKeys))
      [] OTHER -> c

\* From<u64> and as_i64: rounding to the nearest f64, ties to even.
ToF64(n) == IF n <= Mantissa \/ n % 2 = 0 THEN n ELSE IF n % 4 = 1 THEN n - 1 ELSE n + 1

----------------------------------------------------------------------------
JsInit ==
    /\ jValue = NoTree /\ jNodesLeft = NodesMax
    /\ jText = NoTree /\ jStage = "start" /\ jErr = "ok" /\ jLive = 0
    /\ jNumber = [in |-> 0, out |-> 0]

\* A program makes a value (the constructors, From and the json! macros).
MakeValue(v, left) ==
    /\ jStage = "start" /\ jValue = NoTree
    /\ jStage' = "made" /\ jValue' = v /\ jNodesLeft' = left
    /\ UNCHANGED <<jText, jErr, jLive, jNumber>>

\* to_string and to_string_compact: print and delete; an error of the conversion returns first.
WriteJson ==
    LET r == ToC(jValue, jNodesLeft)
    IN  /\ jStage = "made"
        /\ jStage' = "written" /\ jErr' = r.err
        /\ jLive' = r.lost
        /\ jText' = IF r.err = "ok" THEN jValue ELSE NoTree
        /\ jNodesLeft' = r.left
        /\ UNCHANGED <<jValue, jNumber>>

\* parse of what was written: the C tree is converted and deleted, also when it does not convert.
ReadJson ==
    /\ jStage = "written" /\ jErr = "ok"
    /\ jStage' = "read" /\ jValue' = FromC(jText)
    /\ UNCHANGED <<jNodesLeft, jText, jErr, jLive, jNumber>>

\* parse of text from elsewhere.
ParseText(c) ==
    /\ jStage = "start"
    /\ jStage' = "read" /\ jText' = c /\ jValue' = FromC(c)
    /\ UNCHANGED <<jNodesLeft, jErr, jLive, jNumber>>

\* json_merge: the members of source replace those of target; not an object, no change.
JsonMerge(source) ==
    /\ jStage = "read" /\ jValue.t = "object" /\ source.t = "object"
    /\ jStage' = "merged"
    /\ jValue' = FromC(Tree("object", jValue.kids \o source.kids))
    /\ jText' = source
    /\ UNCHANGED <<jNodesLeft, jErr, jLive, jNumber>>

\* The conversions from integers.
Convert(n) ==
    /\ jStage = "start"
    /\ jStage' = "converted" /\ jNumber' = [in |-> n, out |-> ToF64(n)]
    /\ UNCHANGED <<jValue, jNodesLeft, jText, jErr, jLive>>

JsNext ==
    \/ /\ jStage = "start"
       /\ \/ \E v \in Small \cup Arrays(Small) \cup Objects(Small), left \in 0..NodesMax : MakeValue(v, left)
          \/ \E c \in Texts(Scalars) : ParseText(c)
          \/ \E n \in 0..Mantissa + 4 : Convert(n)
    \/ WriteJson \/ ReadJson
    \/ jStage = "read" /\ \E s \in Objects({Tree("null", <<>>)}) : JsonMerge(s)

JsSpec == JsInit /\ [][JsNext]_jsVars

----------------------------------------------------------------------------
\* Keys of a tree that is an object, and its member under one.
KeysOf(v) == {v.kids[i].k : i \in DOMAIN v.kids}
Get(v, k) == (CHOOSE i \in DOMAIN v.kids : v.kids[i].k = k /\ \A j \in DOMAIN v.kids : v.kids[j].k = k => j <= i)

(***************************************************************************)
(* A value that was written reads back the same, with any nesting of       *)
(* arrays and objects; an object read from text has every key once, with   *)
(* the value that came last; a merge ends with the source's value under    *)
(* the source's keys; an integer up to 2^53 survives, and only those do    *)
(* for sure.  No node is left allocated after a call that succeeds, nor    *)
(* after one that fails on a value without members: nodes are lost only    *)
(* where an inner value failed.                                            *)
(***************************************************************************)
JsonFaithful ==
    /\ jStage = "read" /\ jText.t /= "object" => jValue = jText
    /\ jStage = "read" /\ jText.t = "object" =>
          /\ KeysOf(jValue) = KeysOf(jText) /\ Len(jValue.kids) = Cardinality(KeysOf(jText))
          /\ \A k \in KeysOf(jText) : jValue.kids[Get(jValue, k)].v = jText.kids[Get(jText, k)].v
    /\ jStage = "merged" =>
          \A k \in KeysOf(jText) : jValue.kids[Get(jValue, k)].v = jText.kids[Get(jText, k)].v
    /\ jNumber.in <= Mantissa => jNumber.out = jNumber.in
    /\ jLive > 0 => jErr /= "ok" /\ jValue.t \in {"array", "object"} /\ jValue.kids /= <<>>
=============================================================================
