-------------------------------- MODULE Xdp ---------------------------------
(***************************************************************************)
(* The AF_XDP sender (fd_rpc, xdp.rs).  send_udp writes a frame into the   *)
(* shared memory, puts its address in the TX ring and moves on to the next *)
(* of 4 * Depth frames.                                                    *)
(*                                                                         *)
(* The kernel is external: it takes a descriptor from the TX ring only     *)
(* when it can reserve an entry of the completion ring for it, reads the   *)
(* frame when it transmits it and then puts its address in the completion  *)
(* ring.  The code in xdp.rs never reads the completion ring.              *)
(***************************************************************************)
EXTENDS Integers, FiniteSets

CONSTANTS
  Depth,      \* ring_depth, a power of two
  Payloads,   \* what is sent
  RingMod     \* 2^32, the modulus of the producer and consumer counters

ASSUME XdpAssumption ==
  /\ Depth \in Nat \ {0} /\ RingMod \in Nat \ {0}
  /\ Depth < RingMod /\ RingMod % Depth = 0

VARIABLES
  xdp,        \* "none", "up" or "dropped"
  kernelObjs, \* kernel objects the value owns: the socket, the map, the program link
  leaked,     \* kernel objects a failed new left behind
  umem,       \* frame -> its contents
  txIdx,      \* tx_frame_idx
  txRing,     \* slot -> [addr, want]; want is history: what the sender put there
  prod, cons, \* the counters of the TX ring
  inFlight,   \* descriptors the kernel has taken and not transmitted
  completed,  \* entries of the completion ring
  sent,       \* history: descriptors transmitted, with the contents that went out
  xdpRet

xdpVars == <<xdp, kernelObjs, leaked, umem, txIdx, txRing, prod, cons, inFlight, completed, sent, xdpRet>>

Frames == 0..(4 * Depth - 1)
BlankFrame  == "blank"
Contents == Payloads \cup {BlankFrame}
Descs  == [addr: Frames, want: Contents]
Queued == (prod - cons) % RingMod

XdpTypeOK ==
  /\ xdp \in {"none", "up", "dropped"}
  /\ kernelObjs \subseteq {"xsk", "map", "link"} /\ leaked \subseteq {"xsk", "map", "link"}
  /\ umem \in [Frames -> Contents] /\ txIdx \in Frames
  /\ txRing \in [0..(Depth - 1) -> Descs]
  /\ prod \in 0..(RingMod - 1) /\ cons \in 0..(RingMod - 1)
  /\ inFlight \subseteq Descs /\ completed \in Nat
  /\ sent \subseteq [want: Contents, out: Contents]

XdpInit ==
  /\ xdp = "none" /\ kernelObjs = {} /\ leaked = {}
  /\ umem = [f \in Frames |-> BlankFrame] /\ txIdx = 0
  /\ txRing = [i \in 0..(Depth - 1) |-> [addr |-> 0, want |-> BlankFrame]]
  /\ \E start \in {0, RingMod - 1} : prod = start /\ cons = start
  /\ inFlight = {} /\ completed = 0 /\ sent = {} /\ xdpRet = "none"

-----------------------------------------------------------------------------
\* XdpConnection::new.  A step that fails returns at once: what the earlier steps
\* opened stays open.
XdpNew ==
  /\ xdp = "none"
  /\ \/ xdpRet' = "InitFailed" /\ UNCHANGED <<xdp, kernelObjs, leaked>>
     \/ xdpRet' = "InstallFailed" /\ leaked' = leaked \cup {"xsk"} /\ UNCHANGED <<xdp, kernelObjs>>
     \/ /\ xdpRet' = "ActivateFailed" /\ leaked' = leaked \cup {"xsk", "map", "link"}
        /\ UNCHANGED <<xdp, kernelObjs>>
     \/ xdpRet' = "Ok" /\ xdp' = "up" /\ kernelObjs' = {"xsk", "map", "link"} /\ UNCHANGED leaked
  /\ UNCHANGED <<umem, txIdx, txRing, prod, cons, inFlight, completed, sent>>

\* Mutant: the ring is found full one entry late.
MutSendUdpLate(p, fits) ==
  /\ xdp = "up" /\ fits
  /\ umem' = [umem EXCEPT ![txIdx] = p]
  /\ IF Queued > Depth
       THEN xdpRet' = "TxFull" /\ UNCHANGED <<txRing, prod, txIdx>>
       ELSE /\ txRing' = [txRing EXCEPT ![prod % Depth] = [addr |-> txIdx, want |-> p]]
            /\ prod' = (prod + 1) % RingMod /\ txIdx' = (txIdx + 1) % (4 * Depth)
            /\ xdpRet' = "Ok"
  /\ UNCHANGED <<xdp, kernelObjs, leaked, cons, inFlight, completed, sent>>

\* send_udp: the frame is written first, also when the ring turns out to be full.
SendUdp(p, fits) ==
  /\ xdp = "up"
  /\ IF ~fits
       THEN xdpRet' = "FrameTooLarge" /\ UNCHANGED <<umem, txRing, prod, txIdx>>
       ELSE /\ umem' = [umem EXCEPT ![txIdx] = p]
            /\ IF Queued >= Depth
                 THEN xdpRet' = "TxFull" /\ UNCHANGED <<txRing, prod, txIdx>>
                 ELSE /\ txRing' = [txRing EXCEPT ![prod % Depth] = [addr |-> txIdx, want |-> p]]
                      /\ prod' = (prod + 1) % RingMod
                      /\ txIdx' = (txIdx + 1) % (4 * Depth)
                      /\ xdpRet' = "Ok"
  /\ UNCHANGED <<xdp, kernelObjs, leaked, cons, inFlight, completed, sent>>

KernelTake ==
  /\ xdp = "up" /\ Queued > 0
  /\ Cardinality(inFlight) + completed < Depth
  /\ inFlight' = inFlight \cup {txRing[cons % Depth]}
  /\ cons' = (cons + 1) % RingMod
  /\ UNCHANGED <<xdp, kernelObjs, leaked, umem, txIdx, txRing, prod, completed, sent, xdpRet>>

KernelTransmit(d) ==
  /\ d \in inFlight
  /\ inFlight' = inFlight \ {d}
  /\ completed' = completed + 1
  /\ sent' = sent \cup {[want |-> d.want, out |-> umem[d.addr]]}
  /\ UNCHANGED <<xdp, kernelObjs, leaked, umem, txIdx, txRing, prod, cons, xdpRet>>

\* Drop: deactivate, close the link and the map, delete the socket.
XdpDrop ==
  /\ xdp = "up"
  /\ xdp' = "dropped" /\ kernelObjs' = {} /\ inFlight' = {}
  /\ UNCHANGED <<leaked, umem, txIdx, txRing, prod, cons, completed, sent, xdpRet>>

XdpNext ==
  \/ XdpNew \/ KernelTake \/ XdpDrop
  \/ \E p \in Payloads, fits \in BOOLEAN : SendUdp(p, fits)
  \/ \E d \in inFlight : KernelTransmit(d)

XdpSpec == XdpInit /\ [][XdpNext]_xdpVars

-----------------------------------------------------------------------------
\* Every frame goes out with the contents its send_udp gave it: the slot that is written
\* next, before the ring is known to have room, is never one that waits in the ring or
\* that the kernel still reads.
FramesIntact == \A s \in sent : s.want = s.out

\* The TX ring never holds more than Depth descriptors, and as nobody empties the
\* completion ring, Depth frames are all that is ever transmitted: with the ring behind
\* it, 2 * Depth sends succeed in the life of a connection.
CompletionsRunOut ==
  /\ Queued <= Depth
  /\ Cardinality(inFlight) + completed <= Depth
  /\ xdp = "up" => txIdx = Queued + Cardinality(inFlight) + completed
=============================================================================
