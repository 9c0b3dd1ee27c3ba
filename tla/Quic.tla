-------------------------------- MODULE Quic --------------------------------
(***************************************************************************)
(* The QUIC endpoint wrapper (fd_quic): a Quic value owns the memory of    *)
(* the endpoint; QuicHandle, ActiveQuic, Connection and the network        *)
(* context given to the library are bare pointers whose lifetimes no type  *)
(* ties to it.  A QuicServer binds, accepts and is dropped; a QuicClient   *)
(* connects, and its connections may outlive it.                           *)
(*                                                                         *)
(* The fd_quic_* functions are external.  fd_quic_init either starts the   *)
(* endpoint, with no connections, or fails before it touches it;           *)
(* fd_quic_fini stops it and ends its connections; while it is started,    *)
(* process_packet and service create connections (conn_new_cb), end them   *)
(* (conn_final_cb, which does nothing) and send through the aio object     *)
(* that was set last.                                                      *)
(***************************************************************************)
EXTENDS Integers, Sequences, FiniteSets

CONSTANTS
  QConns,     \* the connection slots of the endpoint
  NetCtxs     \* NetworkContext boxes (bounds the number of successful set-ups)

ASSUME QuicAssumption == IsFiniteSet(QConns) /\ IsFiniteSet(NetCtxs)

VARIABLES
  owner,      \* "none", "client", "server" or "dropped": the value that holds the Quic
  quicMem,    \* "none", "alive" or "freed"
  started,    \* the endpoint is between fd_quic_init and fd_quic_fini
  aioCtx,     \* ctx of the aio object: "null" or a NetworkContext
  ctxLive,    \* NetworkContext boxes alive, with their backend
  srvCtx,     \* QuicServer.network_context: "null" or a NetworkContext
  srvActive,  \* QuicServer.active_quic is Some
  clientConns,\* QuicConnection values of the client, each with an ActiveQuic of its own
  live,       \* connections of the endpoint that exist
  tracked,    \* ConnectionTracker.new_connections
  accepted,   \* connections returned by accept, still held by the caller
  stuck,      \* accept waits for the socket mutex that it holds itself
  heard,      \* the callbacks lead to the ConnectionTracker of the server's active_quic
  rebindFailed, \* history: init has failed in a bind of a server that was bound
  outlived,   \* history: the owner was dropped before pointers into its endpoint
  touched,    \* history: what the library was called on that was not there
  quicRet

quicVars == <<owner, quicMem, started, aioCtx, ctxLive, srvCtx, srvActive, clientConns,
              live, tracked, accepted, stuck, heard, rebindFailed, outlived, touched, quicRet>>

Null == "null"
Backends == {"udp", "xdp"}

QuicTypeOK ==
  /\ owner \in {"none", "client", "server", "dropped"}
  /\ quicMem \in {"none", "alive", "freed"}
  /\ started \in BOOLEAN /\ srvActive \in BOOLEAN /\ stuck \in BOOLEAN
  /\ aioCtx \in NetCtxs \cup {Null} /\ srvCtx \in NetCtxs \cup {Null}
  /\ \A x \in ctxLive : x \in NetCtxs \X Backends
  /\ clientConns \subseteq QConns /\ live \subseteq QConns /\ accepted \subseteq QConns
  /\ tracked \in Seq(QConns)
  /\ heard \in BOOLEAN /\ rebindFailed \in BOOLEAN /\ outlived \in BOOLEAN
  /\ touched \subseteq {"endpoint", "context", "null"}

QuicInit ==
  /\ owner = "none" /\ quicMem = "none" /\ started = FALSE /\ aioCtx = Null
  /\ ctxLive = {} /\ srvCtx = Null /\ srvActive = FALSE
  /\ clientConns = {} /\ live = {} /\ tracked = <<>> /\ accepted = {}
  /\ stuck = FALSE /\ heard = FALSE
  /\ rebindFailed = FALSE /\ outlived = FALSE /\ touched = {} /\ quicRet = "none"

Backend(x) == (CHOOSE y \in ctxLive : y[1] = x)[2]
CtxIds == {x[1] : x \in ctxLive}

\* Elements of a set in some order: the order in which the callbacks ran.
Orders(S) == {s \in [1..Cardinality(S) -> S] : \A i, j \in DOMAIN s : i # j => s[i] # s[j]}

\* QuicHandle::init up to fd_quic_init: the endpoint is configured and given the network
\* context its packets go to, whether it then starts or not.
HandContext(x) == aioCtx' = x

\* _send_via_aio_be under accept.  It locks the mutex of the socket, which accept holds
\* when the context is the one accept took the socket from; through a context that is
\* freed it reads whatever is there, and waits or not.
SendViaAio(sends, waits) ==
  /\ waits => sends
  /\ sends /\ aioCtx = srvCtx => waits
  /\ stuck' = waits
  /\ touched' = touched \cup (IF sends /\ aioCtx \notin CtxIds THEN {"context"} ELSE {})

\* A call of the library on the endpoint, which may have been freed.
OnEndpoint == touched' = touched \cup (IF quicMem = "freed" THEN {"endpoint"} ELSE {})

\* Drop for ActiveQuic: fd_quic_fini.
StopEndpoint == started' = FALSE /\ live' = {}

serverVars == <<srvCtx, srvActive, ctxLive, heard, rebindFailed>>

-----------------------------------------------------------------------------
\* Quic::new inside QuicClient::new or QuicServer::new; on failure nothing is kept.
QuicNew(role) ==
  /\ owner = "none"
  /\ \/ quicRet' \in {"ConfigError", "AllocationFailed", "Internal"} /\ UNCHANGED <<owner, quicMem>>
     \/ owner' = role /\ quicMem' = "alive" /\ quicRet' = "Ok"
  /\ UNCHANGED <<started, aioCtx, serverVars, clientConns, live, tracked, accepted, stuck,
                 outlived, touched>>

\* QuicClient::connect: join, init with no network context, fd_quic_connect.  Each
\* connection gets an ActiveQuic of its own over the one endpoint; when the last step
\* fails, the ActiveQuic is dropped again.
ClientConnect ==
  /\ owner = "client"
  /\ \/ quicRet' = "Internal"                                         \* join failed
        /\ UNCHANGED <<started, aioCtx, clientConns, live>>
     \/ quicRet' = "Internal" /\ HandContext(Null)                       \* init failed
        /\ UNCHANGED <<started, clientConns, live>>
     \/ quicRet' = "ConnectionFailed" /\ HandContext(Null)
        /\ StopEndpoint /\ UNCHANGED clientConns
     \/ \E c \in QConns \ clientConns :
          /\ quicRet' = "Ok" /\ HandContext(Null)
          /\ started' = TRUE /\ live' = {c}
          /\ clientConns' = clientConns \cup {c}
  /\ UNCHANGED <<owner, quicMem, serverVars, tracked, accepted, stuck, outlived, touched>>

\* Dropping a QuicConnection of a client drops its ActiveQuic: fd_quic_fini, on the
\* endpoint of a client that may be gone.
DropClientConn(c) ==
  /\ c \in clientConns
  /\ clientConns' = clientConns \ {c}
  /\ StopEndpoint /\ OnEndpoint
  /\ UNCHANGED <<owner, quicMem, aioCtx, serverVars, tracked, accepted, stuck, outlived, quicRet>>

\* try_setup_xdp or, where it fails, setup_udp; then join and init, which gives the
\* library the new context and, for its callbacks, a new ConnectionTracker, and only then
\* calls fd_quic_init.  When that fails the context is freed and the tracker lost, while
\* a server that was bound keeps its old ones.  On success the previous context is
\* dropped and then the previous ActiveQuic, which stops the endpoint that the new one
\* has just started.
Bind(b) ==
  /\ owner = "server" /\ ~stuck
  /\ \/ quicRet' = "Internal"                              \* no backend, or join failed
        /\ UNCHANGED <<started, aioCtx, serverVars, live, tracked>>
     \/ \E x \in NetCtxs \ CtxIds :
          /\ quicRet' = "Internal" /\ HandContext(x)
          /\ heard' = FALSE
          /\ rebindFailed' = (rebindFailed \/ srvActive)
          /\ UNCHANGED <<started, ctxLive, srvCtx, srvActive, live, tracked>>
     \/ \E x \in NetCtxs \ CtxIds :
          /\ quicRet' = "Ok" /\ HandContext(x)
          /\ ctxLive' = {y \in ctxLive : y[1] # srvCtx} \cup {<<x, b>>}
          /\ srvCtx' = x /\ srvActive' = TRUE
          /\ started' = ~srvActive
          /\ live' = {} /\ tracked' = <<>> /\ heard' = TRUE
          /\ UNCHANGED rebindFailed
  /\ UNCHANGED <<owner, quicMem, clientConns, accepted, stuck, outlived, touched>>

\* conn_new_cb for the connections made in one call: into the server's tracker, or into
\* one that nobody drains.
Announced(order) == IF heard THEN tracked \o order ELSE tracked

\* accept.  UDP: one datagram is given to the endpoint and the endpoint is serviced, with
\* the mutex of the socket held; the packets this makes the endpoint send go to
\* _send_via_aio_be, which may lock the same mutex.  The new connections are drained, the
\* first is returned and the others are forgotten.
AcceptUdp ==
  /\ owner = "server" /\ ~stuck /\ srvCtx # Null /\ srvActive
  /\ Backend(srvCtx) = "udp"
  /\ \/ quicRet' \in {"None", "Io"} /\ UNCHANGED <<live, tracked, accepted, stuck, touched>>
     \/ \E new \in SUBSET (QConns \ live), ended \in SUBSET live, sends, waits \in BOOLEAN :
          /\ ~started => new = {} /\ ended = {} /\ ~sends
          /\ live' = (live \ ended) \cup new
          /\ SendViaAio(sends, waits)
          /\ \E order \in Orders(new) :
               LET fetched == Announced(order)
               IN  IF waits
                     THEN tracked' = fetched /\ UNCHANGED <<accepted, quicRet>>
                     ELSE /\ tracked' = <<>>
                          /\ quicRet' = IF fetched = <<>> THEN "None" ELSE "Ok"
                          /\ accepted' = IF fetched = <<>> THEN accepted
                                         ELSE accepted \cup {Head(fetched)}
  /\ UNCHANGED <<owner, quicMem, started, aioCtx, serverVars, clientConns, outlived>>

\* With the XDP backend accept only services the endpoint, which receives nothing.
AcceptXdp ==
  /\ owner = "server" /\ ~stuck /\ srvCtx # Null /\ srvActive
  /\ Backend(srvCtx) = "xdp"
  /\ quicRet' = "None"
  /\ \E ended \in SUBSET live : live' = live \ ended
  /\ UNCHANGED <<owner, quicMem, started, aioCtx, serverVars, clientConns, tracked, accepted,
                 stuck, outlived, touched>>

AcceptUnbound ==
  /\ owner = "server" /\ ~stuck /\ srvCtx = Null
  /\ quicRet' = "InvalidState"
  /\ UNCHANGED <<owner, quicMem, started, aioCtx, serverVars, clientConns, live, tracked,
                 accepted, stuck, outlived, touched>>

\* An accepted QuicConnection carries an ActiveQuic with a null endpoint: dropping it
\* gives fd_quic_fini null, which that function refuses.
DropAccepted(c) ==
  /\ c \in accepted /\ accepted' = accepted \ {c}
  /\ UNCHANGED <<owner, quicMem, started, aioCtx, serverVars, clientConns, live, tracked,
                 stuck, outlived, touched, quicRet>>

\* open_stream, is_active and close go through the pointer to the connection, whatever
\* became of its endpoint.
UseConn(c) ==
  /\ c \in clientConns \cup accepted
  /\ \E ended \in SUBSET live : live' = live \ ended
  /\ OnEndpoint
  /\ UNCHANGED <<owner, quicMem, started, aioCtx, serverVars, clientConns, tracked, accepted,
                 stuck, outlived, quicRet>>

\* service and process_packet of a QuicConnection go through its ActiveQuic: a client's
\* drives the endpoint, that of an accepted connection hands the library null.
DriveConn(c) ==
  /\ \/ c \in clientConns /\ OnEndpoint
        /\ \E ended \in SUBSET live : live' = live \ ended
     \/ c \in accepted /\ touched' = touched \cup {"null"} /\ UNCHANGED live
  /\ UNCHANGED <<owner, quicMem, started, aioCtx, serverVars, clientConns, tracked, accepted,
                 stuck, outlived, quicRet>>

DropClient ==
  /\ owner = "client"
  /\ owner' = "dropped" /\ quicMem' = "freed"
  /\ outlived' = (clientConns # {})
  /\ UNCHANGED <<started, aioCtx, serverVars, clientConns, live, tracked, accepted, stuck,
                 touched, quicRet>>

\* The fields of QuicServer are dropped in the order of their declaration: the Quic and
\* its memory, then the network context, then the ActiveQuic, which calls fd_quic_fini.
DropServerQuic ==
  /\ owner = "server" /\ ~stuck
  /\ owner' = "dropped" /\ quicMem' = "freed"
  /\ ctxLive' = {y \in ctxLive : y[1] # srvCtx} /\ srvCtx' = Null
  /\ srvActive' = FALSE /\ StopEndpoint
  /\ outlived' = (srvActive \/ accepted # {})
  /\ touched' = touched \cup (IF srvActive THEN {"endpoint"} ELSE {})
  /\ UNCHANGED <<aioCtx, heard, rebindFailed, clientConns, tracked, accepted, stuck, quicRet>>

QuicNext ==
  \/ \E role \in {"client", "server"} : QuicNew(role)
  \/ ClientConnect \/ DropClient
  \/ \E c \in QConns : DropClientConn(c) \/ DropAccepted(c) \/ UseConn(c) \/ DriveConn(c)
  \/ \E b \in Backends : Bind(b)
  \/ AcceptUdp \/ AcceptXdp \/ AcceptUnbound \/ DropServerQuic

QuicSpec == QuicInit /\ [][QuicNext]_quicVars

-----------------------------------------------------------------------------
\* A pointer is followed to freed memory only where its owner was dropped first: an
\* endpoint that never had a pointer outlive it (a client whose connections went before
\* it, a server that was never bound) is not touched once it is freed, and none is while
\* its owner is there.  The other two ways to a dead pointer are a server whose later bind
\* failed (the context) and service or process_packet on an accepted connection (null),
\* never on a client's.
PointersHold ==
  /\ "endpoint" \in touched => outlived /\ owner = "dropped"
  /\ "context" \in touched => rebindFailed
  /\ "null" \in touched => owner # "client" /\ clientConns = {}

\* An endpoint that runs has a value that will stop it, in memory that is still there
\* unless a client was dropped before its connections: no path of connect or bind
\* leaves a started endpoint without an ActiveQuic.
StartedIsOwned ==
  started => /\ srvActive \/ clientConns # {}
             /\ quicMem = "alive" \/ clientConns # {}

\* The library sends through the context of the server, which is alive, exactly as long
\* as it announces new connections to the tracker that accept drains: both are of the
\* bind that succeeded last, and both are gone when init fails in a later one.  What was
\* announced is drained by the call it was announced in, so that accept never hands out
\* a connection of an earlier call.
ServerWired ==
  /\ srvActive => srvCtx \in CtxIds /\ (heard <=> aioCtx = srvCtx)
  /\ started /\ srvActive /\ ~heard => rebindFailed
  /\ tracked # <<>> => stuck
=============================================================================
