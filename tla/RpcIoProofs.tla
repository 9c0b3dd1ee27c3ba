---------------------------- MODULE RpcIoProofs ----------------------------
(***************************************************************************)
(* For every ring size, with and without TLS, the connection's invariants  *)
(* hold.  TypeOK is inductive.  The facts about the io struct are          *)
(* inductive once its state says which of its fields are set: GoodIo, a    *)
(* predicate on any struct, so that the struct a reconnect builds can be   *)
(* treated like the one at hand.                                           *)
(***************************************************************************)
EXTENDS RpcIo, TLAPS

USE FlagsAssumption, CapAssumption

\* A struct built by NewIo, or by connecting it, has its type.
LEMMA NewIoType == NewIo \in IoRecords
  BY DEF NewIo, IoRecords, States, OsObjects

LEMMA ConnectType ==
  ASSUME NEW c \in IoRecords,
         NEW d \in ConnectOk(c) \cup ConnectFail(c)
  PROVE  d \in IoRecords
<1> USE DEF IoRecords, States, OsObjects
<1>1. ConnectSocketFails(c) \in IoRecords /\ ConnectRefused(c) \in IoRecords
  BY DEF ConnectSocketFails, ConnectRefused
<1>2. ConnectNoSslCtx(c) \in IoRecords /\ ConnectNoSsl(c) \in IoRecords
  BY DEF ConnectNoSslCtx, ConnectNoSsl
<1>3. \A next \in States : ConnectTls(c, next) \in IoRecords /\ ConnectPlain(c, next) \in IoRecords
  BY DEF ConnectTls, ConnectPlain
<1>4. ConnectOk(c) \subseteq IoRecords
  BY <1>3 DEF ConnectOk
<1>5. ConnectFail(c) \subseteq IoRecords
  BY <1>1, <1>2 DEF ConnectFail
<1> QED BY <1>4, <1>5

LEMMA SuccessorType ==
  ASSUME io \in IoRecords, NEW c \in IoRecords
  PROVE  Successor(c) \in IoRecords
<1>1. CloseIo(io).os \subseteq OsObjects
  BY DEF CloseIo, IoRecords
<1> QED BY <1>1 DEF Successor, IoRecords

\* Every variable keeps its type, whatever the ring sizes and the units are.
THEOREM TypeCorrect == Spec => []TypeOK
<1>1. Init => TypeOK
  BY NewIoType DEF Init, TypeOK, PumpFlags
<1>2. TypeOK /\ [Next]_ioVars => TypeOK'
  <2> SUFFICES ASSUME TypeOK, [Next]_ioVars PROVE TypeOK'
    OBVIOUS
  <2>1. CASE Connect
    BY <2>1, ConnectType DEF Connect, TypeOK, rings
  <2>2. CASE Pump
    <3>1. io' \in IoRecords
      <4> USE DEF TypeOK, IoRecords, States, OsObjects
      <4>1. CASE PumpConnecting
        BY <4>1 DEF PumpConnecting
      <4>2. CASE PumpTls
        <5>1. \/ io' = io
              \/ io' = [io EXCEPT !.state = "ERROR"]
              \/ io' = [io EXCEPT !.state = "READY", !.ssl_hs_done = TRUE]
          BY <4>2, Zenon DEF PumpTls
        <5>2. io \in IoRecords
          BY DEF TypeOK
        <5>3. [io EXCEPT !.state = "ERROR"] \in IoRecords
          BY <5>2
        <5>4. [io EXCEPT !.state = "READY", !.ssl_hs_done = TRUE] \in IoRecords
          BY <5>2
        <5> QED BY <5>1, <5>2, <5>3, <5>4, Zenon
      <4>3. CASE PumpReady
        BY <4>3 DEF PumpReady, PumpRxFails, PumpMoves, PumpTxFails
      <4>4. CASE PumpDefault
        BY <4>4 DEF PumpDefault
      <4> QED BY <2>2, <4>1, <4>2, <4>3, <4>4 DEF Pump
    <3>2. flags' \in SUBSET PumpFlags
      BY <2>2 DEF TypeOK, Pump, PumpConnecting, PumpTls, PumpReady, PumpRxFails, PumpMoves,
                  PumpTxFails, PumpDefault, PumpFlags, rings
    <3>3. /\ sent' \in Seq(TxUnits) /\ stream' \in Seq(RxUnits)
          /\ txlo' \in Nat /\ rxhi' \in Nat /\ rxlo' \in Nat
          /\ peer' \in {"none", "open", "closed", "reset"}
      BY <2>2 DEF TypeOK, Pump, PumpConnecting, PumpTls, PumpReady, PumpRxFails, PumpMoves,
                  PumpTxFails, PumpDefault, RxReach, rings
    <3> QED BY <3>1, <3>2, <3>3 DEF TypeOK
  <2>3. ASSUME NEW u \in TxUnits, TxPush(u) PROVE TypeOK'
    BY <2>3 DEF TxPush, TypeOK
  <2>4. ASSUME NEW m \in 1..RxCap, RxPop(m) PROVE TypeOK'
    <3>1. rxlo + RxPopLen(m) \in Nat \/ rxhi < rxlo
      BY DEF RxPopLen, RxUsed, TypeOK
    <3> QED BY <2>4, <3>1 DEF RxPop, TypeOK, RxPopLen, RxUsed
  <2>5. CASE Replace(NewIo, "none")
    BY <2>5, NewIoType, SuccessorType DEF Replace, TypeOK, PumpFlags
  <2>6. ASSUME NEW c \in ConnectOk(NewIo), Replace(c, "open") PROVE TypeOK'
    BY <2>6, NewIoType, ConnectType, SuccessorType DEF Replace, TypeOK, PumpFlags
  <2>7. ASSUME NEW us \in UNION {[1..n -> RxUnits] : n \in 1..RxCap + 1}, PeerWrite(us)
        PROVE TypeOK'
    <3>1. us \in Seq(RxUnits)
      OBVIOUS
    <3> QED BY <2>7, <3>1 DEF PeerWrite, TypeOK
  <2>8. CASE PeerGone
    BY <2>8 DEF PeerGone, TypeOK, rings
  <2>9. CASE UNCHANGED ioVars
    BY <2>9 DEF ioVars, TypeOK
  <2> QED BY <2>1, <2>2, <2>3, <2>4, <2>5, <2>6, <2>7, <2>8, <2>9 DEF Next, Client, Peer
<1> QED BY <1>1, <1>2, PTL DEF Spec

-----------------------------------------------------------------------------
\* The part of IoInv about the struct alone, as a predicate on any struct.
GoodIo(c) ==
  /\ c.os = {o \in OsObjects : \/ o = "fd" /\ c.sock_fd
                               \/ o = "ssl" /\ c.ssl
                               \/ o = "ssl_ctx" /\ c.ssl_ctx}
  /\ c.state = "DISCONNECTED" => ~c.sock_fd /\ ~c.ssl /\ ~c.ssl_ctx
  /\ c.state \in {"CONNECTING", "TLS_HANDSHAKE", "READY"} => c.sock_fd /\ (Tls <=> c.ssl)
  /\ c.state = "TLS_HANDSHAKE" => c.ssl
  /\ c.state \in {"CONNECTING", "TLS_HANDSHAKE"} => ~c.ssl_hs_done
  /\ c.state = "READY" /\ Tls => c.ssl_hs_done

\* A new struct is good, and every path through fd_rpc_io_connect keeps it good.
LEMMA NewIoGood == GoodIo(NewIo)
  BY DEF GoodIo, NewIo, OsObjects

\* Closing a good struct releases all it owns: its successor starts with no more.
LEMMA SuccessorGood ==
  ASSUME io \in IoRecords, GoodIo(io), NEW c \in IoRecords
  PROVE  Successor(c) = c
<1>1. CloseIo(io).os = {}
  BY DEF CloseIo, GoodIo, IoRecords, OsObjects
<1>2. c.os \cup {} = c.os
  OBVIOUS
<1> QED BY <1>1, <1>2 DEF Successor, IoRecords

LEMMA ConnectGood ==
  ASSUME NEW c \in IoRecords, GoodIo(c), c.ssl_hs_done = FALSE \/ c.state # "DISCONNECTED",
         NEW d \in ConnectOk(c) \cup ConnectFail(c)
  PROVE  GoodIo(d)
<1>1. CASE c.state # "DISCONNECTED"
  BY <1>1 DEF ConnectOk, ConnectFail
<1>2. CASE c.state = "DISCONNECTED"
  <2> USE DEF IoRecords, States, OsObjects
  <2>0. ~c.sock_fd /\ ~c.ssl /\ ~c.ssl_ctx /\ ~c.ssl_hs_done /\ c.os = {}
    BY <1>2 DEF GoodIo
  <2>1. GoodIo(ConnectSocketFails(c)) /\ GoodIo(ConnectRefused(c))
    BY <2>0 DEF GoodIo, ConnectSocketFails, ConnectRefused
  <2>2. GoodIo(ConnectNoSslCtx(c)) /\ GoodIo(ConnectNoSsl(c))
    BY <2>0 DEF GoodIo, ConnectNoSslCtx, ConnectNoSsl
  <2>3. Tls => GoodIo(ConnectTls(c, "TLS_HANDSHAKE")) /\ GoodIo(ConnectTls(c, "CONNECTING"))
    BY <2>0 DEF GoodIo, ConnectTls
  <2>4. ~Tls => GoodIo(ConnectPlain(c, "READY")) /\ GoodIo(ConnectPlain(c, "CONNECTING"))
    BY <2>0 DEF GoodIo, ConnectPlain
  <2> QED BY <1>2, <2>1, <2>2, <2>3, <2>4 DEF ConnectOk, ConnectFail
<1> QED BY <1>1, <1>2

\* What IoInv says of the struct in the state, and of the ring offsets.
IoInd ==
  /\ TypeOK
  /\ GoodIo(io)
  /\ io.state = "DISCONNECTED" => ~io.ssl_hs_done
  /\ RingsInBounds
  /\ NothingSentBeforeReady

LEMMA IoIndStep == IoInd /\ TypeOK' /\ [Next]_ioVars => IoInd'
<1> SUFFICES ASSUME IoInd, TypeOK', [Next]_ioVars PROVE IoInd'
  OBVIOUS
<1> USE DEF IoInd
<1>1. CASE Connect
  <2>1. GoodIo(io') /\ (io'.state = "DISCONNECTED" => ~io'.ssl_hs_done)
    <3>1. io' \in ConnectOk(io) \cup ConnectFail(io)
      BY <1>1 DEF Connect
    <3>2. GoodIo(io')
      BY <3>1, ConnectGood DEF TypeOK, IoRecords
    <3>3. io'.state # "DISCONNECTED"
      BY <3>1 DEF ConnectOk, ConnectFail, ConnectTls, ConnectPlain, ConnectSocketFails,
                  ConnectRefused, ConnectNoSslCtx, ConnectNoSsl, TypeOK, IoRecords
    <3> QED BY <3>2, <3>3
  <2>2. RingsInBounds'
    BY <1>1 DEF Connect, rings, RingsInBounds, TxUsed, RxUsed
  <2>3. NothingSentBeforeReady'
    <3>1. CASE io.state = "DISCONNECTED"
      BY <1>1, <3>1 DEF Connect, rings, NothingSentBeforeReady
    <3>2. CASE io.state # "DISCONNECTED"
      BY <1>1, <3>2 DEF Connect, ConnectOk, ConnectFail, rings, NothingSentBeforeReady
    <3> QED BY <3>1, <3>2
  <2> QED BY <2>1, <2>2, <2>3
<1>2. CASE Pump
  <2>1. GoodIo(io') /\ (io'.state = "DISCONNECTED" => ~io'.ssl_hs_done)
    <3> USE DEF GoodIo, TypeOK, IoRecords, States, OsObjects, rings
    <3>1. CASE PumpConnecting
      BY <3>1 DEF PumpConnecting
    <3>2. CASE PumpTls
      <4>1. CASE io' = io
        BY <4>1
      <4>2. CASE io' = [io EXCEPT !.state = "ERROR"]
        BY <4>2
      <4>3. CASE io' = [io EXCEPT !.state = "READY", !.ssl_hs_done = TRUE]
        <5>1. /\ io'.state = "READY" /\ io'.ssl_hs_done = TRUE
              /\ io'.sock_fd = io.sock_fd /\ io'.ssl = io.ssl /\ io'.ssl_ctx = io.ssl_ctx
              /\ io'.os = io.os
          BY <4>3
        <5>2. io.sock_fd /\ (Tls <=> io.ssl)
          BY <3>2 DEF PumpTls
        <5> QED BY <5>1, <5>2
      <4> QED BY <3>2, <4>1, <4>2, <4>3 DEF PumpTls
    <3>3. CASE PumpReady
      BY <3>3 DEF PumpReady, PumpRxFails, PumpMoves, PumpTxFails
    <3>4. CASE PumpDefault
      BY <3>4 DEF PumpDefault
    <3> QED BY <1>2, <3>1, <3>2, <3>3, <3>4 DEF Pump
  <2>2. RingsInBounds'
    <3> USE DEF TypeOK, RingsInBounds, TxUsed, RxUsed, rings
    <3>1. CASE PumpMoves
      BY <3>1 DEF PumpMoves, RxReach
    <3>2. CASE PumpTxFails
      BY <3>2 DEF PumpTxFails, RxReach
    <3>3. CASE PumpConnecting \/ PumpTls \/ PumpRxFails \/ PumpDefault
      BY <3>3 DEF PumpConnecting, PumpTls, PumpRxFails, PumpDefault
    <3> QED BY <1>2, <3>1, <3>2, <3>3 DEF Pump, PumpReady
  <2>3. NothingSentBeforeReady'
    BY <1>2 DEF TypeOK, NothingSentBeforeReady, Pump, PumpConnecting, PumpTls, PumpReady,
                PumpRxFails, PumpMoves, PumpTxFails, PumpDefault, rings, IoRecords, States
  <2> QED BY <2>1, <2>2, <2>3
<1>3. ASSUME NEW u \in TxUnits, TxPush(u) PROVE IoInd'
  BY <1>3 DEF TxPush, TypeOK, RingsInBounds, TxUsed, TxFree, RxUsed, NothingSentBeforeReady
<1>4. ASSUME NEW m \in 1..RxCap, RxPop(m) PROVE IoInd'
  BY <1>4 DEF RxPop, RxPopLen, TypeOK, RingsInBounds, TxUsed, RxUsed, NothingSentBeforeReady
<1>5. CASE Replace(NewIo, "none")
  <2>1. io' = NewIo
    BY <1>5, NewIoType, SuccessorGood DEF Replace, TypeOK
  <2>2. RingsInBounds' /\ NothingSentBeforeReady'
    BY <1>5 DEF Replace, RingsInBounds, TxUsed, RxUsed, NothingSentBeforeReady
  <2>3. io'.state = "DISCONNECTED" => ~io'.ssl_hs_done
    BY <2>1 DEF NewIo
  <2> QED BY <2>1, <2>2, <2>3, NewIoGood
<1>6. ASSUME NEW c \in ConnectOk(NewIo), Replace(c, "open") PROVE IoInd'
  <2>1. GoodIo(c)
    BY NewIoGood, NewIoType, ConnectGood DEF NewIo
  <2>2. c.state # "DISCONNECTED"
    BY DEF ConnectOk, ConnectTls, ConnectPlain, NewIo
  <2>3. io' = c
    BY <1>6, NewIoType, ConnectType, SuccessorGood DEF Replace, TypeOK
  <2> QED BY <1>6, <2>1, <2>2, <2>3
          DEF Replace, RingsInBounds, TxUsed, RxUsed, NothingSentBeforeReady
<1>7. ASSUME NEW us \in UNION {[1..n -> RxUnits] : n \in 1..RxCap + 1}, PeerWrite(us)
      PROVE IoInd'
  <2>1. us \in Seq(RxUnits)
    OBVIOUS
  <2>2. Len(stream') >= Len(stream)
    BY <1>7, <2>1 DEF PeerWrite, TypeOK
  <2> QED BY <1>7, <2>2 DEF PeerWrite, TypeOK, RingsInBounds, TxUsed, RxUsed, NothingSentBeforeReady
<1>8. CASE PeerGone
  BY <1>8 DEF PeerGone, rings, RingsInBounds, TxUsed, RxUsed, NothingSentBeforeReady
<1>9. CASE UNCHANGED ioVars
  BY <1>9 DEF ioVars, RingsInBounds, TxUsed, RxUsed, NothingSentBeforeReady
<1> QED BY <1>1, <1>2, <1>3, <1>4, <1>5, <1>6, <1>7, <1>8, <1>9 DEF Next, Client, Peer

LEMMA IoIndInvariant == Spec => []IoInd
<1>1. Init => IoInd
  <2>1. Init => TypeOK
    BY NewIoType DEF Init, TypeOK, PumpFlags
  <2> QED BY <2>1, NewIoGood DEF Init, IoInd, NewIo, RingsInBounds, TxUsed, RxUsed,
                                NothingSentBeforeReady
<1> QED BY <1>1, TypeCorrect, IoIndStep, PTL DEF Spec

\* The struct always names exactly the live operating-system objects: whatever
\* path connect took, close (Connection::drop) leaks nothing.
THEOREM ResourcesAlwaysOwned == Spec => []ResourcesOwned
<1>1. IoInd => ResourcesOwned
  BY DEF IoInd, GoodIo, ResourcesOwned
<1> QED BY <1>1, IoIndInvariant, PTL

\* READY means a socket and, when TLS is asked for and built in, a finished
\* handshake: no path through connect and pump skips it.
THEOREM ReadyAlwaysUsable == Spec => []ReadyIsUsable
<1>1. IoInd => ReadyIsUsable
  BY DEF IoInd, GoodIo, ReadyIsUsable
<1> QED BY <1>1, IoIndInvariant, PTL

\* Before the handshake is over nothing leaves the TX ring.
THEOREM HandshakeFirst == Spec => []NothingSentBeforeReady
<1>1. IoInd => NothingSentBeforeReady
  BY DEF IoInd
<1> QED BY <1>1, IoIndInvariant, PTL

\* Neither ring ever overflows or is popped past its end.
THEOREM RingsAlwaysInBounds == Spec => []RingsInBounds
<1>1. IoInd => RingsInBounds
  BY DEF IoInd
<1> QED BY <1>1, IoIndInvariant, PTL

\* A pump that enters ERROR reports it.
THEOREM ErrorsReported == Spec => ErrorReported
<1>1. TypeOK /\ [Next]_ioVars =>
        [io.state \in {"CONNECTING", "TLS_HANDSHAKE", "READY"} /\ io'.state = "ERROR"
           => flags' \cap {"ERROR", "CLOSED"} # {}]_ioVars
  <2> SUFFICES ASSUME TypeOK, Next, io.state \in {"CONNECTING", "TLS_HANDSHAKE", "READY"},
                      io'.state = "ERROR"
               PROVE  flags' \cap {"ERROR", "CLOSED"} # {}
    OBVIOUS
  <2>1. CASE Connect
    BY <2>1 DEF Connect, ConnectOk, ConnectFail
  <2>2. CASE Pump
    BY <2>2 DEF TypeOK, Pump, PumpConnecting, PumpTls, PumpReady, PumpRxFails, PumpMoves,
                PumpTxFails, PumpDefault, IoRecords, States
  <2>3. ASSUME NEW c \in ConnectOk(NewIo), Replace(c, "open") PROVE FALSE
    <3>1. c.state # "ERROR"
      BY DEF ConnectOk, ConnectTls, ConnectPlain, NewIo
    <3>2. c \in IoRecords
      BY NewIoType, ConnectType
    <3>3. io'.state = c.state
      BY <2>3, <3>2 DEF Replace, Successor, IoRecords
    <3> QED BY <3>1, <3>3
  <2> QED BY <2>1, <2>2, <2>3
          DEF Next, Client, Peer, TxPush, RxPop, Replace, Successor, NewIo, PeerWrite, PeerGone
<1> QED BY <1>1, TypeCorrect, PTL DEF Spec, ErrorReported

\* Only dropping a failed connection leaves ERROR, and the one that takes its
\* place starts with empty rings: no pump and no second connect revives it.
THEOREM ErrorsFinal == Spec => ErrorIsFinal
<1>1. TypeOK /\ [Next]_ioVars =>
        [io.state = "ERROR" /\ io'.state # "ERROR" => sent' = <<>> /\ stream' = <<>>]_ioVars
  <2> SUFFICES ASSUME TypeOK, Next, io.state = "ERROR", io'.state # "ERROR"
               PROVE  sent' = <<>> /\ stream' = <<>>
    OBVIOUS
  <2>1. CASE Connect
    BY <2>1 DEF Connect, ConnectOk, ConnectFail
  <2>2. CASE Pump
    BY <2>2 DEF Pump, PumpConnecting, PumpTls, PumpReady, PumpRxFails, PumpMoves,
                PumpTxFails, PumpDefault
  <2>3. CASE Replace(NewIo, "none") \/ \E c \in ConnectOk(NewIo) : Replace(c, "open")
    BY <2>3 DEF Replace
  <2> QED BY <2>1, <2>2, <2>3 DEF Next, Client, Peer, TxPush, RxPop, PeerWrite, PeerGone
<1> QED BY <1>1, TypeCorrect, PTL DEF Spec, ErrorIsFinal
=============================================================================
