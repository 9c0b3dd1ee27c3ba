------------------------------- MODULE RpcIo -------------------------------
(***************************************************************************)
(* One connection of the RPC client: the C state machine fd_rpc_io.c, the  *)
(* Rust wrapper io.rs, the two ring buffers, and the peer at the other end *)
(* of the socket.                                                          *)
(*                                                                         *)
(* A byte stream is its log and the offsets into it, as fd_h2_rbuf_t keeps *)
(* lo_off / hi_off: sent is all that was ever pushed for transmission on   *)
(* this connection, of which the first txlo units have left the TX ring;   *)
(* stream is all the peer ever wrote, of which the first rxhi units have   *)
(* entered the RX ring and the first rxlo have been popped from it.  What  *)
(* lies between Len(stream) and rxhi is in flight.                         *)
(***************************************************************************)
EXTENDS Integers, Sequences, FiniteSets

CONSTANTS
  HasOpenSSL,   \* the FD_HAS_OPENSSL build flag
  UseTls,       \* the use_tls argument of every connect
  RxCap, TxCap, \* ring capacities, in units
  TxUnits,      \* what the client writes
  RxUnits       \* what the peer writes

ASSUME FlagsAssumption == HasOpenSSL \in BOOLEAN /\ UseTls \in BOOLEAN
ASSUME CapAssumption   == RxCap \in Nat \ {0} /\ TxCap \in Nat \ {0}

VARIABLES
  io,      \* the fd_rpc_io_t: state, sock_fd, ssl, ssl_ctx, ssl_hs_done; os is
           \* the set of operating-system objects created for it and not released
  sent, txlo,
  stream, rxhi, rxlo,
  flags,   \* what the last fd_rpc_io_pump returned
  peer     \* the remote end: not there yet, open, closed (FIN), reset (RST)

rings  == <<sent, txlo, stream, rxhi, rxlo>>
ioVars == <<io, sent, txlo, stream, rxhi, rxlo, flags, peer>>

States    == {"DISCONNECTED", "CONNECTING", "TLS_HANDSHAKE", "READY", "ERROR"}
PumpFlags == {"CONNECTED", "RX_DATA", "TX_DRAIN", "ERROR", "CLOSED"}
OsObjects == {"fd", "ssl", "ssl_ctx"}
IoRecords == [state: States, sock_fd: BOOLEAN, ssl: BOOLEAN, ssl_ctx: BOOLEAN,
              ssl_hs_done: BOOLEAN, os: SUBSET OsObjects]

RxUsed == rxhi - rxlo
TxUsed == Len(sent) - txlo
TxFree == TxCap - TxUsed

NewIo == [state |-> "DISCONNECTED", sock_fd |-> FALSE, ssl |-> FALSE,
          ssl_ctx |-> FALSE, ssl_hs_done |-> FALSE, os |-> {}]

-----------------------------------------------------------------------------
(* fd_rpc_io_connect: each early return is one outcome.  os lists what the *)
(* path created minus what it released before it returned.                 *)

Tls == UseTls /\ HasOpenSSL

ConnectSocketFails(c)  == [c EXCEPT !.state = "ERROR"]
ConnectRefused(c)      == [c EXCEPT !.state = "ERROR", !.os = (@ \cup {"fd"}) \ {"fd"}]
ConnectNoSslCtx(c)     == [c EXCEPT !.state = "ERROR", !.sock_fd = FALSE,
                                    !.os = (@ \cup {"fd"}) \ {"fd"}]
MutConnectNoSsl(c) ==   \* the SSL_CTX is not freed
  [c EXCEPT !.state = "ERROR", !.sock_fd = FALSE, !.ssl_ctx = FALSE,
            !.os = (@ \cup {"fd", "ssl_ctx"}) \ {"fd"}]
ConnectNoSsl(c)        == [c EXCEPT !.state = "ERROR", !.sock_fd = FALSE, !.ssl_ctx = FALSE,
                                    !.os = (@ \cup {"fd", "ssl_ctx"}) \ {"ssl_ctx", "fd"}]
ConnectTls(c, next)    == [c EXCEPT !.state = next, !.sock_fd = TRUE, !.ssl_ctx = TRUE,
                                    !.ssl = TRUE, !.ssl_hs_done = FALSE,
                                    !.os = @ \cup {"fd", "ssl_ctx", "ssl"}]
ConnectPlain(c, next)  == [c EXCEPT !.state = next, !.sock_fd = TRUE, !.os = @ \cup {"fd"}]

MutConnectOk(c) ==   \* no state check
  IF Tls THEN {ConnectTls(c, "TLS_HANDSHAKE"), ConnectTls(c, "CONNECTING")}
  ELSE {ConnectPlain(c, "READY"), ConnectPlain(c, "CONNECTING")}

\* The io structs a successful fd_rpc_io_connect (rc = 0) can leave behind:
\* connect(2) completes at once or is EINPROGRESS.
ConnectOk(c) ==
  IF c.state # "DISCONNECTED" THEN {}
  ELSE IF Tls THEN {ConnectTls(c, "TLS_HANDSHAKE"), ConnectTls(c, "CONNECTING")}
  ELSE {ConnectPlain(c, "READY"), ConnectPlain(c, "CONNECTING")}

\* The ones a failed call (rc = -1) can.
ConnectFail(c) ==
  IF c.state # "DISCONNECTED" THEN {c}
  ELSE {ConnectSocketFails(c), ConnectRefused(c)}
         \cup (IF Tls THEN {ConnectNoSslCtx(c), ConnectNoSsl(c)} ELSE {})

\* fd_rpc_io_close, which Connection::drop calls.
CloseIo(c) ==
  [c EXCEPT !.state = "DISCONNECTED", !.ssl = FALSE, !.ssl_ctx = FALSE, !.sock_fd = FALSE,
            !.os = @ \ ((IF c.ssl THEN {"ssl"} ELSE {})
                        \cup (IF c.ssl_ctx THEN {"ssl_ctx"} ELSE {})
                        \cup (IF c.sock_fd THEN {"fd"} ELSE {}))]

-----------------------------------------------------------------------------
(* The state machine behind fd_rpc_io_pump.                                *)

MutPumpConnecting ==   \* the handshake is skipped
  /\ io.state = "CONNECTING"
  /\ io' = [io EXCEPT !.state = "READY"]
  /\ flags' = {"CONNECTED"}
  /\ UNCHANGED <<rings, peer>>

PumpConnecting ==
  /\ io.state = "CONNECTING"
  /\ UNCHANGED <<rings, peer>>
  /\ \/ /\ flags' = {}
        /\ UNCHANGED io
     \/ /\ io' = [io EXCEPT !.state = "ERROR"]
        /\ flags' = {"ERROR"}
     \/ /\ io' = [io EXCEPT !.state = IF io.ssl THEN "TLS_HANDSHAKE" ELSE "READY"]
        /\ flags' = {"CONNECTED"}

PumpTls ==
  /\ io.state = "TLS_HANDSHAKE"
  /\ UNCHANGED <<rings, peer>>
  /\ \/ /\ flags' = {}
        /\ UNCHANGED io
     \/ /\ ~io.ssl_hs_done
        /\ io' = [io EXCEPT !.state = "ERROR"]
        /\ flags' = {"ERROR"}
     \/ /\ ~io.ssl_hs_done
        /\ io' = [io EXCEPT !.state = "READY", !.ssl_hs_done = TRUE]
        /\ flags' = {"CONNECTED"}

RxAtEnd == peer = "closed" /\ rxhi = Len(stream)

MutRxReach == {h \in rxhi..Len(stream) : h - rxlo <= RxCap + 1}   \* off by one

\* How far a read can advance rxhi: what has arrived, as far as the ring has room.
RxReach == {h \in rxhi..Len(stream) : h - rxlo <= RxCap}

MutPumpRxFails ==   \* the failed read is not reported
  /\ io.state = "READY"
  /\ RxUsed < RxCap
  /\ RxAtEnd \/ peer = "reset"
  /\ flags' = {}
  /\ io' = [io EXCEPT !.state = "ERROR"]
  /\ UNCHANGED <<rings, peer>>

\* The socket read of pump_ready fails: end of stream or a reset.  A full ring
\* is not read at all, so neither is noticed.
PumpRxFails ==
  /\ io.state = "READY"
  /\ RxUsed < RxCap
  /\ \/ RxAtEnd /\ flags' = IF io.ssl THEN {"ERROR", "CLOSED"} ELSE {"CLOSED"}
     \/ peer = "reset" /\ flags' = IF io.ssl THEN {"ERROR", "CLOSED"} ELSE {"ERROR"}
  /\ io' = [io EXCEPT !.state = "ERROR"]
  /\ UNCHANGED <<rings, peer>>

\* The read and then the write succeed, each moving as much as it can or less.
PumpMoves ==
  /\ io.state = "READY"
  /\ ~(RxUsed < RxCap /\ (RxAtEnd \/ peer = "reset"))
  /\ \E h \in RxReach, l \in txlo..Len(sent) :
       /\ rxhi' = h
       /\ txlo' = l
       /\ flags' = IF io.ssl
                   THEN (IF h > rxhi THEN {"RX_DATA"} ELSE {})
                          \cup (IF l > txlo THEN {"TX_DRAIN"} ELSE {})
                   ELSE (IF h > rxlo THEN {"RX_DATA"} ELSE {})
                          \cup (IF Len(sent) - l < TxCap THEN {"TX_DRAIN"} ELSE {})
  /\ UNCHANGED <<io, sent, stream, rxlo, peer>>

\* The read succeeds and sendmsg fails (plain sockets only: the TLS path
\* ignores a failed write).  The units read stay in the RX ring.
PumpTxFails ==
  /\ io.state = "READY"
  /\ ~io.ssl
  /\ ~(RxUsed < RxCap /\ (RxAtEnd \/ peer = "reset"))
  /\ peer \in {"closed", "reset"}
  /\ TxUsed > 0
  /\ rxhi' \in RxReach
  /\ io' = [io EXCEPT !.state = "ERROR"]
  /\ flags' = {"ERROR"}
  /\ UNCHANGED <<sent, txlo, stream, rxlo, peer>>

PumpReady == PumpRxFails \/ PumpMoves \/ PumpTxFails

MutPumpDefault ==   \* the state is returned instead of the flags
  /\ io.state \in {"ERROR", "DISCONNECTED"}
  /\ flags' = {io.state}
  /\ UNCHANGED <<io, rings, peer>>

\* In ERROR and DISCONNECTED fd_rpc_io_pump does nothing and returns 0.
PumpDefault ==
  /\ io.state \in {"ERROR", "DISCONNECTED"}
  /\ flags' = {}
  /\ UNCHANGED <<io, rings, peer>>

Pump == PumpConnecting \/ PumpTls \/ PumpReady \/ PumpDefault

-----------------------------------------------------------------------------
(* The rest of io.rs.                                                      *)

\* Connection::connect on the connection as it is.
Connect ==
  /\ \/ io' \in ConnectOk(io) /\ peer' = "open"
     \/ io' \in ConnectFail(io) /\ UNCHANGED peer
  /\ UNCHANGED <<rings, flags>>

\* The connection is dropped (Connection::drop closes it) and c stands for a
\* new one, with empty rings and its own socket.  What close did not release
\* outlives the struct that named it.
Successor(c) == [c EXCEPT !.os = @ \cup CloseIo(io).os]

MutReplace(c, p) ==   \* the TX ring keeps its offset
  /\ io' = Successor(c)
  /\ peer' = p
  /\ sent' = <<>> /\ txlo' = txlo
  /\ stream' = <<>> /\ rxhi' = 0 /\ rxlo' = 0
  /\ flags' = {}

Replace(c, p) ==
  /\ io' = Successor(c)
  /\ peer' = p
  /\ sent' = <<>> /\ txlo' = 0
  /\ stream' = <<>> /\ rxhi' = 0 /\ rxlo' = 0
  /\ flags' = {}

\* Connection::tx_push; the only caller has checked that there is room.
TxPush(u) ==
  /\ TxFree > 0
  /\ sent' = Append(sent, u)
  /\ UNCHANGED <<io, txlo, stream, rxhi, rxlo, flags, peer>>

\* Connection::rx_pop into a buffer with room for m units.
RxPopLen(m) == IF RxUsed <= m THEN RxUsed ELSE m

RxPop(m) ==
  /\ rxlo' = rxlo + RxPopLen(m)
  /\ UNCHANGED <<io, sent, txlo, stream, rxhi, flags, peer>>

-----------------------------------------------------------------------------
(* The peer.                                                               *)

PeerWrite(us) ==
  /\ peer = "open"
  /\ stream' = stream \o us
  /\ UNCHANGED <<io, sent, txlo, rxhi, rxlo, flags, peer>>

PeerGone ==
  /\ peer = "open"
  /\ peer' \in {"closed", "reset"}
  /\ UNCHANGED <<io, rings, flags>>

-----------------------------------------------------------------------------
Init ==
  /\ io = NewIo
  /\ sent = <<>> /\ txlo = 0
  /\ stream = <<>> /\ rxhi = 0 /\ rxlo = 0
  /\ flags = {}
  /\ peer = "none"

Client ==
  \/ Connect
  \/ Pump
  \/ \E u \in TxUnits : TxPush(u)
  \/ \E m \in 1..RxCap : RxPop(m)
  \/ Replace(NewIo, "none")
  \/ \E c \in ConnectOk(NewIo) : Replace(c, "open")

Peer ==
  \/ \E us \in UNION {[1..n -> RxUnits] : n \in 1..RxCap + 1} : PeerWrite(us)
  \/ PeerGone

Next == Client \/ Peer

Spec == Init /\ [][Next]_ioVars

-----------------------------------------------------------------------------
(* Properties.                                                             *)

\* Every variable has its type.
TypeOK ==
  /\ io \in IoRecords
  /\ sent \in Seq(TxUnits) /\ stream \in Seq(RxUnits)
  /\ txlo \in Nat /\ rxhi \in Nat /\ rxlo \in Nat
  /\ flags \in SUBSET PumpFlags
  /\ peer \in {"none", "open", "closed", "reset"}

\* The offsets of both rings stay in order and neither ring ever holds more
\* than its buffer: reads stop at a full ring and pops at an empty one.
RingsInBounds ==
  /\ txlo <= Len(sent) /\ TxUsed <= TxCap
  /\ rxlo <= rxhi /\ rxhi <= Len(stream) /\ RxUsed <= RxCap

\* On every path through fd_rpc_io_connect and fd_rpc_io_close, the failing
\* ones included, the struct names exactly the operating-system objects that
\* are alive: closing it leaks nothing and frees nothing twice.
ResourcesOwned ==
  io.os = {o \in OsObjects : \/ o = "fd" /\ io.sock_fd
                             \/ o = "ssl" /\ io.ssl
                             \/ o = "ssl_ctx" /\ io.ssl_ctx}

\* A state that can touch the wire has a socket, and with TLS requested and
\* built in, READY is reached only through a finished handshake: no request
\* byte leaves in the clear.
ReadyIsUsable ==
  /\ io.state \in {"CONNECTING", "TLS_HANDSHAKE", "READY"} => io.sock_fd
  /\ io.state = "TLS_HANDSHAKE" => io.ssl
  /\ io.state = "READY" /\ Tls => io.ssl /\ io.ssl_hs_done

\* Nothing has left the TX ring of a connection whose handshake is not over.
NothingSentBeforeReady ==
  io.state \in {"DISCONNECTED", "CONNECTING", "TLS_HANDSHAKE"} => txlo = 0

\* The pump that moves a connection to ERROR says so in the flags it returns.
\* It is the only chance to learn it: every later pump returns no flag.
ErrorReported ==
  [][io.state \in {"CONNECTING", "TLS_HANDSHAKE", "READY"} /\ io'.state = "ERROR"
       => flags' \cap {"ERROR", "CLOSED"} # {}]_ioVars

\* A failed connection never comes back: only dropping it leaves ERROR.
ErrorIsFinal ==
  [][io.state = "ERROR" /\ io'.state # "ERROR" => sent' = <<>> /\ stream' = <<>>]_ioVars
=============================================================================
