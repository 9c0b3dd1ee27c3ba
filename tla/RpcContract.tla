---------------------------- MODULE RpcContract ----------------------------
(***************************************************************************)
(* What a caller of SolanaRpcClient may rely on: a call that begins ends,  *)
(* unless the server draws out a chunked body for ever; meanwhile the      *)
(* server may process its request any number of times, for a lost          *)
(* connection and a 429 make the client write it again; a call that        *)
(* succeeds with its own answer was processed at least once; and only on a *)
(* tainted connection, one an earlier call gave up reading from, may it    *)
(* succeed with the answer to another call.                                *)
(***************************************************************************)
EXTENDS Naturals

VARIABLES phase, execs, answer, tainted, drawn

cvars == <<phase, execs, answer, tainted, drawn>>

Init == phase = "idle" /\ execs = 0 /\ answer = "none" /\ tainted = FALSE /\ drawn = FALSE

Begin ==
  /\ phase = "idle"
  /\ phase' = "busy"
  /\ execs' = 0
  /\ answer' = "none"
  /\ UNCHANGED <<tainted, drawn>>

\* The server processes a request of the call, possibly after the call has ended.
Process ==
  /\ execs' = execs + 1
  /\ UNCHANGED <<phase, answer, tainted, drawn>>

\* A response is read on, into its chunks or out of them.  A retry: it is given
\* up, or a new connection replaces the old one.
Retry ==
  /\ phase = "busy"
  /\ tainted' \in BOOLEAN
  /\ drawn' \in BOOLEAN
  /\ UNCHANGED <<phase, execs, answer>>

Finish ==
  /\ phase = "busy"
  /\ phase' = "idle"
  /\ drawn' = FALSE
  /\ \/ answer' = "failed"
     \/ answer' = "ours" /\ execs > 0
     \/ answer' = "stale" /\ tainted
  /\ tainted' \in BOOLEAN
  /\ tainted => tainted'
  /\ UNCHANGED execs

Next == Begin \/ Process \/ Retry \/ Finish

\* Nothing ends a body whose chunks keep coming.
Spec == Init /\ [][Next]_cvars /\ WF_cvars(~drawn /\ Finish)
=============================================================================
