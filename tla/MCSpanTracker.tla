---------------------------- MODULE MCSpanTracker ----------------------------
(***************************************************************************)
(* The span tracker with at most MaxDepth spans entered on a thread, and   *)
(* at most MaxStack entries left on its stack: spans left out of order     *)
(* leave entries behind, without bound.                                    *)
(***************************************************************************)
EXTENDS SpanTracker, TLC

CONSTANTS MaxDepth, MaxStack

MCNext ==
  /\ Next
  /\ \A t \in Threads :
       Len(entered'[t]) > Len(entered[t]) =>
         Len(entered[t]) < MaxDepth /\ Len(StackOf(t)) < MaxStack

\* Threads and span ids are only compared.
Symmetry == Permutations(Threads) \cup Permutations(Spans)

MCSpec == Init /\ [][MCNext]_vars /\ Fairness
=============================================================================
