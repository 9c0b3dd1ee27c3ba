--------------------------------- MODULE Toml ---------------------------------
(***************************************************************************)
(* TOML documents (fd_toml).  A TomlParser owns the memory of one pod; a   *)
(* TomlPod borrows the parser, reads the pod and deletes it when dropped.  *)
(* A pod is a function from paths to entries.  A query with a sentinel     *)
(* gets the sentinel back from the C pod when the path has no entry of the *)
(* type asked for, and tells that from a stored sentinel by asking whether *)
(* the path has an entry of any type.  The C parser and pod are external.  *)
(***************************************************************************)
EXTENDS Integers, Sequences, SequencesExt, FiniteSets

CONSTANTS
    TPaths,     \* the paths of a document
    PodMax,     \* entries that fit in the pod
    PathMax     \* the bytes of a path that fit CStrBuf

ASSUME TomlAssumption == PodMax \in Nat /\ PathMax \in Nat

Sentinel == -1
TomlLongs == {Sentinel, 0, 7}
TomlTexts == {"text", "badutf8"}
TomlEntry == [type : {"long"}, long : TomlLongs, text : {""}]
             \cup [type : {"cstr"}, long : {0}, text : TomlTexts]
             \cup [type : {"subpod"}, long : {0}, text : {""}]

VARIABLES
    pod,      \* the entries of the pod in the parser's memory
    podLive,  \* the pod is there: fd_pod_new without fd_pod_delete
    podHeld,  \* a TomlPod exists
    parsed    \* the Result of the last parse

tomlVars == <<pod, podLive, podHeld, parsed>>

TomlInit == pod = <<>> /\ podLive = FALSE /\ podHeld = FALSE /\ parsed = "none"

\* translate_error.
TranslateError(code) ==
    CASE code = "ERR_POD" -> "PodFull"       [] code = "ERR_SCRATCH" -> "ScratchFull"
      [] code = "ERR_KEY" -> "KeyTooLong"    [] code = "ERR_DUP" -> "DuplicateKey"
      [] code = "ERR_RANGE" -> "Overflow"    [] OTHER -> "ParseFailure"

\* The entries of a document, in order, as fd_toml_parse inserts them: how far it comes.
CParse(doc) ==
    IF \E i, j \in 1..Len(doc) : i < j /\ doc[i].path = doc[j].path THEN "ERR_DUP"
    ELSE IF Len(doc) > PodMax THEN "ERR_POD"
    ELSE "SUCCESS"

\* TomlParser::parse: the memory is cleared, the pod made and filled; a parse that fails
\* deletes it again.
ParseToml(doc) ==
    /\ ~podHeld
    /\ LET code == CParse(doc)
       IN  IF code # "SUCCESS"
           THEN parsed' = TranslateError(code) /\ podLive' = FALSE /\ pod' = <<>> /\ podHeld' = FALSE
           ELSE /\ parsed' = "ok" /\ podLive' = TRUE /\ podHeld' = TRUE
                /\ pod' = [p \in {doc[i].path : i \in 1..Len(doc)} |->
                             doc[CHOOSE i \in 1..Len(doc) : doc[i].path = p].entry]

\* Drop of a TomlPod.
DropPod ==
    /\ podHeld
    /\ podHeld' = FALSE /\ podLive' = FALSE /\ pod' = <<>>
    /\ UNCHANGED parsed

----------------------------------------------------------------------------
None == <<>>
Some(v) == <<v>>

\* make_cstr_on_stack: a path that does not fit is None; one with a NUL byte ends there,
\* so that the C pod is asked for the part before it.
CPath(path) == IF path.len >= PathMax THEN None ELSE Some(path.cname)

PathExists(path) == CPath(path) # None /\ CPath(path)[1] \in DOMAIN pod

\* fd_pod_query_*: the value of an entry of the type, the sentinel otherwise.
CHas(name, type) == name \in DOMAIN pod /\ pod[name].type = type
CQueryLong(name, sentinel) == IF CHas(name, "long") THEN pod[name].long ELSE sentinel

\* query_long, query_ulong, query_float and query_int (query_bool maps the last).
QueryLong(path) ==
    IF CPath(path) = None THEN None
    ELSE LET val == CQueryLong(CPath(path)[1], Sentinel)
         IN  IF val = Sentinel /\ ~PathExists(path) THEN None ELSE Some(val)

\* query_cstr: a null pointer and bytes that are not UTF-8 are None.
QueryCstr(path) ==
    IF CPath(path) = None THEN None
    ELSE IF ~CHas(CPath(path)[1], "cstr") \/ pod[CPath(path)[1]].text = "badutf8" THEN None
    ELSE Some(pod[CPath(path)[1]].text)

QuerySubpod(path) == CPath(path) # None /\ CHas(CPath(path)[1], "subpod")

PodLen == Cardinality(DOMAIN pod)

TomlNext ==
    \/ \E doc \in SeqOf([path : TPaths, entry : TomlEntry], PodMax + 1) : ParseToml(doc)
    \/ DropPod

TomlSpec == TomlInit /\ [][TomlNext]_tomlVars

----------------------------------------------------------------------------
TomlTypeOK == podLive \in BOOLEAN /\ podHeld \in BOOLEAN /\ DOMAIN pod \subseteq TPaths

\* Paths as a caller writes them: of a document, too long, and with a NUL byte in them.
Asked == [cname : TPaths \cup {"absent"}, len : {1, PathMax}]

(***************************************************************************)
(* The pod lives as long as the TomlPod that reads it, and a failed parse  *)
(* leaves none.  A value that was stored is found, the sentinel included;  *)
(* a path with no entry gives nothing, and neither does one that is too    *)
(* long; a path with an entry of another type gives the sentinel as if it  *)
(* had been stored.                                                        *)
(***************************************************************************)
TomlFaithful ==
    /\ podLive = podHeld
    /\ podHeld => \A path \in Asked :
         LET here == path.len < PathMax /\ path.cname \in DOMAIN pod
         IN  /\ QueryLong(path) =
                  IF ~here THEN None
                  ELSE IF pod[path.cname].type = "long" THEN Some(pod[path.cname].long)
                  ELSE Some(Sentinel)
             /\ QueryCstr(path) # None <=> (here /\ pod[path.cname].type = "cstr"
                                                 /\ pod[path.cname].text # "badutf8")
             /\ QuerySubpod(path) <=> (here /\ pod[path.cname].type = "subpod")
    /\ podHeld => PodLen <= PodMax
=============================================================================
