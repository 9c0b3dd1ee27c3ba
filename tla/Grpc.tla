-------------------------------- MODULE Grpc --------------------------------
(***************************************************************************)
(* The gRPC client wrapper (fd_grpc).  A request takes one of the pooled   *)
(* streams of the C client; what the caller holds of it is a StreamHandle, *)
(* a bare pointer to the stream, which nothing ties to the request.  The C *)
(* client (external) gives the stream back to its pool when the response   *)
(* ends, a deadline expires, the connection dies or the client is reset.   *)
(***************************************************************************)
EXTENDS Integers, FiniteSets

CONSTANTS
  Streams,    \* the streams of the pool (FD_GRPC_CLIENT_MAX_STREAMS)
  Requests    \* request ids the application uses, each once

NoRequest == "none"

ASSUME GrpcAssumption ==
  IsFiniteSet(Streams) /\ IsFiniteSet(Requests) /\ NoRequest \notin Requests

VARIABLES
  client,     \* "none", "up" or "dropped"
  connected,
  stream,     \* C client: stream -> the request it serves, or NoRequest
  deadline,   \* C client: stream -> the request whose handle set its deadline
  handles,    \* StreamHandles the caller holds: [stream, request]
  unused,     \* request ids not used so far
  ended,      \* requests whose end (rx_end or rx_timeout) was reported
  staleUse,   \* history: a deadline was set through a handle whose request was over
  grpcRet

grpcVars == <<client, connected, stream, deadline, handles, unused, ended, staleUse, grpcRet>>

GrpcTypeOK ==
  /\ client \in {"none", "up", "dropped"} /\ connected \in BOOLEAN
  /\ stream \in [Streams -> Requests \cup {NoRequest}]
  /\ deadline \in [Streams -> Requests \cup {NoRequest}]
  /\ handles \subseteq [stream: Streams, request: Requests]
  /\ unused \subseteq Requests /\ ended \subseteq Requests /\ staleUse \in BOOLEAN

GrpcInit ==
  /\ client = "none" /\ connected = FALSE
  /\ stream = [s \in Streams |-> NoRequest] /\ deadline = [s \in Streams |-> NoRequest]
  /\ handles = {} /\ unused = Requests /\ ended = {}
  /\ staleUse = FALSE /\ grpcRet = "none"

-----------------------------------------------------------------------------
\* Client::new.  On failure the callback context is taken back.
GrpcNew ==
  /\ client = "none"
  /\ \/ grpcRet' \in {"InvalidArgument", "InternalError"} /\ UNCHANGED client
     \/ client' = "up" /\ grpcRet' = "Ok"
  /\ UNCHANGED <<connected, stream, deadline, handles, unused, ended, staleUse>>

\* set_authority and set_version: a length check and a call.
SetName ==
  /\ client = "up"
  /\ grpcRet' \in {"InvalidArgument", "Ok"}
  /\ UNCHANGED <<client, connected, stream, deadline, handles, unused, ended, staleUse>>

\* conn_established (C client).
ConnEstablished ==
  /\ client = "up" /\ ~connected
  /\ connected' = TRUE
  /\ UNCHANGED <<client, stream, deadline, handles, unused, ended, staleUse, grpcRet>>

\* request_start: the path is checked, then the library gives a stream or null.
RequestStart(s, r) ==
  /\ client = "up" /\ r \in unused
  /\ connected /\ stream[s] = NoRequest
  /\ stream' = [stream EXCEPT ![s] = r]
  /\ deadline' = [deadline EXCEPT ![s] = NoRequest]
  /\ handles' = handles \cup {[stream |-> s, request |-> r]}
  /\ unused' = unused \ {r}
  /\ grpcRet' = "Ok"
  /\ UNCHANGED <<client, connected, ended, staleUse>>

RequestRefused ==
  /\ client = "up"
  /\ \/ grpcRet' = "InvalidArgument"
     \/ (~connected \/ \A s \in Streams : stream[s] # NoRequest) /\ grpcRet' = "RequestBlocked"
  /\ UNCHANGED <<client, connected, stream, deadline, handles, unused, ended, staleUse>>

\* set_deadline, set_header_deadline, set_response_deadline: whatever the stream of the
\* handle serves now gets the deadline.
SetDeadline(h) ==
  /\ client = "up" /\ h \in handles
  /\ deadline' = [deadline EXCEPT ![h.stream] = h.request]
  /\ staleUse' = (staleUse \/ stream[h.stream] # h.request)
  /\ grpcRet' = "Ok"
  /\ UNCHANGED <<client, connected, stream, handles, unused, ended>>

DropHandle(h) ==
  /\ h \in handles /\ handles' = handles \ {h}
  /\ UNCHANGED <<client, connected, stream, deadline, unused, ended, staleUse, grpcRet>>

-----------------------------------------------------------------------------
\* The trampolines that end a request, after which the C client reuses its stream.  The
\* others (tx_complete, rx_start, rx_msg, ping_ack) hand on what they are given and
\* change nothing here.
Finish(s, cb) ==
  /\ client = "up" /\ stream[s] # NoRequest
  /\ cb = "rx_timeout" => deadline[s] # NoRequest
  /\ ended' = ended \cup {stream[s]}
  /\ stream' = [stream EXCEPT ![s] = NoRequest]
  /\ UNCHANGED <<client, connected, deadline, handles, unused, staleUse, grpcRet>>

\* conn_dead, or the caller's reset: every stream goes back to the pool, and no
\* callback is made for the requests they served.
ConnLost ==
  /\ client = "up"
  /\ connected' = FALSE
  /\ stream' = [s \in Streams |-> NoRequest]
  /\ UNCHANGED <<client, deadline, handles, unused, ended, staleUse,
                 grpcRet>>

DropGrpcClient ==
  /\ client = "up"
  /\ client' = "dropped" /\ connected' = FALSE
  /\ stream' = [s \in Streams |-> NoRequest]
  /\ UNCHANGED <<deadline, handles, unused, ended, staleUse, grpcRet>>

GrpcNext ==
  \/ GrpcNew \/ SetName \/ ConnEstablished \/ RequestRefused \/ ConnLost \/ DropGrpcClient
  \/ \E s \in Streams :
       \/ \E r \in Requests : RequestStart(s, r)
       \/ \E cb \in {"rx_end", "rx_timeout"} : Finish(s, cb)
  \/ \E h \in handles : SetDeadline(h) \/ DropHandle(h)

GrpcSpec == GrpcInit /\ [][GrpcNext]_grpcVars

-----------------------------------------------------------------------------
\* A request's deadline is its own: as long as no handle is used after its request is
\* over, the deadline of a stream was set through the handle of the request it serves,
\* and a request times out only when its caller gave it a deadline, although the pool
\* hands the same stream to one request after another.
DeadlineIsOwn ==
  ~staleUse => \A s \in Streams :
                 stream[s] # NoRequest => deadline[s] \in {stream[s], NoRequest}

\* Whatever handles are used, the deadline of a request in flight is on no stream but its
\* own: the deadline another request may time out by is that of one that is over.
DeadlineAtHome ==
  \A s, t \in Streams : stream[s] # NoRequest /\ deadline[t] = stream[s] => t = s

\* A handle whose request is still in flight points to the stream that serves it, and
\* no two requests in flight share a stream; a request whose end was reported is not in
\* flight.
HandleFindsItsStream ==
  /\ \A s \in Streams : stream[s] \notin ended \cup unused
  /\ \A h \in handles : (\E s \in Streams : stream[s] = h.request) => stream[h.stream] = h.request
  /\ \A s, t \in Streams : s # t /\ stream[s] # NoRequest => stream[s] # stream[t]
=============================================================================
