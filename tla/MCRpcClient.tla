---------------------------- MODULE MCRpcClient ----------------------------
(***************************************************************************)
(* The client with a bound on the id at which a public call may begin: a   *)
(* call once begun runs to its end.                                        *)
(***************************************************************************)
EXTENDS RpcClient

CONSTANT MaxStart

MCNext == Next /\ (pc = "idle" /\ pc' = "send" => next_id <= MaxStart)

MCSpec == Init /\ [][MCNext]_vars /\ Fairness
=============================================================================
