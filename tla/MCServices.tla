----------------------------- MODULE MCServices -----------------------------
(***************************************************************************)
(* The services and codecs, with JSON, the helpers on numbers, and the     *)
(* build that produces the libraries under all of them, each with its own  *)
(* small instance.  They share no state in the repository: a behaviour is  *)
(* about the component in focus.                                           *)
(***************************************************************************)
EXTENDS Services, Json, JsonScan, Build

MCJKeys == <<"a", "b">>
MCScanKeys == {<<"a">>, <<"b", "q">>}                 \* a, and an escaped quote
MCScanLeaves == {<<"q", "b", "q", "q">>, <<"-", "1", ".", "2">>, <<"t", "u">>}
MCZFrames ==
  {[packed |-> 2, content |-> 3, window |-> 1], [packed |-> 3, content |-> 1, window |-> 2]}

Components ==
  {"http", "quic", "grpc", "xdp", "tile", "tpool", "log", "tracing", "json", "scan",
   "txn", "base64", "zstd", "nanopb", "toml", "shred", "ed25519", "env", "numeric", "build"}

MCInit ==
  /\ focus \in Components
  /\ SvInit /\ JsInit /\ JscInit /\ NuInit /\ BdInit

MCNext ==
  /\ SvNext
  /\ IF focus = "json"    THEN JsNext   ELSE UNCHANGED jsVars
  /\ IF focus = "scan"    THEN JscNext  ELSE UNCHANGED jscVars
  /\ IF focus = "numeric" THEN NuNext   ELSE UNCHANGED nuVars
  /\ IF focus = "build"   THEN BdNext   ELSE UNCHANGED bdVars

servicesVars == <<svVars, jsVars, jscVars, nuVars, bdVars>>

\* A thread that is inside init or decompress_all goes on; nothing else is assumed.
MCSpec == MCInit /\ [][MCNext]_servicesVars /\ LgFairness /\ ZFairness

(***************************************************************************)
(* A JSON tree survives the way to the C library and back, a lookup in the *)
(* text finds the node the text was written from or fails, and the helpers *)
(* on words, addresses and lists give the numbers they are documented for. *)
(***************************************************************************)
ScansFaithful ==
  /\ focus = "json"    => JsonFaithful
  /\ focus = "scan"    => JscTypeOK /\ LookupsFindTheNode /\ AccessorsRead
  /\ focus = "numeric" => NuTypeOK /\ NumbersExact
  /\ focus = "build"   => BdTypeOK

\* Calls that wait or loop come to an end: an init that another thread's init holds up
\* (SystemLogBuilder::init), and the read loop of decompress_all, whatever the stream
\* takes and writes in a round.
CallsEnd == InitReturns /\ UnpackEnds
=============================================================================
