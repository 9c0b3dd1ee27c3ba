----------------------------- MODULE MCTxnBuilder -----------------------------
(***************************************************************************)
(* A builder with a table of three accounts and room for two instructions, *)
(* of which at most MaxFailed calls fail.                                  *)
(***************************************************************************)
EXTENDS TxnBuilder

CONSTANTS MaxFailed, Payer, Prog, Other

Meta1(k, f) == [pubkey |-> k, flags |-> f]

\* Programs with and without accounts and data, an account with each set of
\* permissions, a program that is an account too, and lists too long for the
\* buffers.
MCInstructions ==
  [program_id: {Prog}, accounts: {<<>>}, data: {<<"x">>}]
    \cup [program_id: {Prog},
          accounts: {<<Meta1(Other, f)>> : f \in SUBSET Permissions}, data: {<<"y", "z">>}]
    \cup [program_id: {Other},
          accounts: {<<Meta1(Prog, {"writable"}), Meta1(Other, {})>>}, data: {<<>>}]
    \cup [program_id: {Prog}, accounts: {[i \in 1..Mtu |-> Meta1(Payer, {})]}, data: {<<>>}]
    \cup [program_id: {Prog}, accounts: {<<Meta1(Other, {"signer"})>>},
          data: {[i \in 1..Mtu + 1 |-> "w"]}]

\* The blockhash comes first: no other call reads it.
MCNext ==
  /\ Next
  /\ blockhash'
  /\ Len(failed') <= MaxFailed
MCSpec == Init /\ [][MCNext]_vars
=============================================================================
