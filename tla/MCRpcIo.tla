------------------------------ MODULE MCRpcIo ------------------------------
(***************************************************************************)
(* Bounds for the connection on its own: MaxSent requests and MaxStream    *)
(* response units on one connection.                                       *)
(***************************************************************************)
EXTENDS RpcIo

CONSTANTS MaxSent, MaxStream

MCNext == Next /\ Len(sent') <= MaxSent /\ Len(stream') <= MaxStream

MCSpec == Init /\ [][MCNext]_ioVars
=============================================================================
