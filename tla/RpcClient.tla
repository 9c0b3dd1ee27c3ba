----------------------------- MODULE RpcClient -----------------------------
(***************************************************************************)
(* The Solana JSON-RPC client: SolanaRpcClient (solana.rs) over the HTTP   *)
(* reader and writer (http.rs) over one connection (RpcIo), with the       *)
(* server and the network as the environment.                              *)
(*                                                                         *)
(* What the client writes is a request, named by its JSON-RPC id (by its   *)
(* first id for a batch).  What the server writes is a response of HdrLen  *)
(* header units and BodyLen body units, cut anywhere by the network.  One  *)
(* step of the client is one pump, or one pop-and-parse, of the loops in   *)
(* read_response: the server and the clock move in between.  A chunked     *)
(* body may also be drawn out by chunks beyond its BodyLen units.          *)
(***************************************************************************)
EXTENDS Integers, Sequences, FiniteSets

CONSTANTS
  HasOpenSSL, UseTls, RxCap, TxCap,
  HdrLen, BodyLen,   \* units of a response
  ScratchLen,        \* RESPONSE_BUF_SZ, the initial scratch length
  MinHeadroom,       \* MIN_HEADROOM of the chunked reader
  MaxScratch,        \* bound of the model: memory for the doublings of a trickle
  MaxRetries,        \* MAX_RETRIES_429
  BatchLen,          \* ids a batch takes
  Frames,            \* framings the server uses
  Timeouts           \* values set_timeout_ns is called with

ASSUME LenAssumption ==
  /\ HdrLen \in Nat \ {0} /\ BodyLen \in Nat \ {0}
  /\ ScratchLen \in Nat \ {0} /\ MinHeadroom \in Nat \ {0} /\ MaxScratch \in Nat
  /\ MaxRetries \in Nat /\ BatchLen \in Nat \ {0}
ASSUME FramesAssumption == Frames \subseteq {"len", "chunked", "none"}
ASSUME TimeoutsAssumption == Timeouts \subseteq {"finite", "negative"}

VARIABLES
  io, sent, txlo, stream, rxhi, rxlo, flags, peer,  \* the connection
  served,    \* how many requests of this connection the server has answered
  orphans,   \* requests an abandoned connection delivered unanswered
  pc,        \* where the client's thread is
  timeout,   \* timeout_ns
  expired,   \* the deadline of the current loop has passed
  next_id,
  op, attempt, again,  \* the public call, its 429 attempt, after a reconnect
  cur,       \* id of the request whose response is being read
  base,      \* stream offset at which this read_response began (scratch[0])
  scratch,   \* scratch.len()
  out,       \* what the last public call returned
  (* history, read by no client step *)
  callStart, \* next_id when the public call began
  execs,     \* times the server processed a request of this call
  clean      \* every read on this connection so far consumed its whole response

conn    == <<io, sent, txlo, stream, rxhi, rxlo, flags, peer>>
env     == <<served, orphans>>
request == <<op, attempt, again, callStart>>
reading == <<cur, base, scratch, clean>>
vars    == <<conn, env, pc, timeout, expired, next_id, request, reading, out, execs>>

Kinds  == {"result", "error", "busy"}   \* 200 with a result, 200 with an error object, 429
Total  == HdrLen + BodyLen
Tokens == [id: Nat, part: 1..Total, kind: Kinds, frame: Frames]

Response(i, k, f) ==
  [p \in 1..Total |-> [id |-> i, part |-> p, kind |-> k, frame |-> f]]

Io == INSTANCE RpcIo WITH TxUnits <- Nat, RxUnits <- Tokens

None == [tag |-> "none"]

\* The units of the current response in scratch, and its header once parsed.
Filled == rxlo - base
Header == stream[base + 1]

Broken(fl) == fl \cap {"ERROR", "CLOSED"} # {}

-----------------------------------------------------------------------------
(* Leaving a public call.                                                  *)

Return(o) ==
  /\ out' = o
  /\ pc' = "idle"

Fail(e) == Return([tag |-> "err", why |-> e])

\* read_response failed: whatever of the response is still to come stays on
\* the connection.
FailRead(e) ==
  /\ Fail(e)
  /\ clean' = FALSE
  /\ UNCHANGED <<cur, base>>

-----------------------------------------------------------------------------
(* connect, reconnect and wait_ready.                                      *)

\* SolanaRpcClient::connect up to wait_ready.
ConnectClient ==
  /\ pc = "start"
  /\ \/ /\ \E c \in Io!ConnectOk(Io!NewIo) : Io!Replace(c, "open")
        /\ served' = 0
        /\ pc' = "connecting"
        /\ UNCHANGED out
     \/ /\ out' = [tag |-> "err", why |-> "connect"]
        /\ pc' = "failed"
        /\ UNCHANGED <<conn, served>>
  /\ UNCHANGED <<orphans, timeout, expired, next_id, request, reading, execs>>

\* One turn of wait_ready: pump, then look at the state, the flags, the clock.
WaitReady ==
  /\ pc \in {"connecting", "reconnecting"}
  /\ Io!Pump
  /\ \/ /\ io'.state = "READY"
        /\ pc' = IF pc = "connecting" THEN "idle" ELSE "send"
        /\ UNCHANGED out
     \/ /\ io'.state # "READY"
        /\ Broken(flags') \/ expired
        /\ out' = [tag |-> "err", why |-> IF Broken(flags') THEN "ConnectionNotReady" ELSE "Timeout"]
        /\ pc' = IF pc = "connecting" THEN "failed" ELSE "idle"
     \/ /\ io'.state # "READY"
        /\ ~Broken(flags') /\ ~expired
        /\ UNCHANGED <<pc, out>>
  /\ UNCHANGED <<env, timeout, expired, next_id, request, reading, execs>>

MutReconnect ==   \* the second ConnectionClosed of an attempt reconnects too
  /\ pc = "reconnect"
  /\ \E c \in Io!ConnectOk(Io!NewIo) : Io!Replace(c, "open")
  /\ served' = 0
  /\ clean' = TRUE
  /\ expired' = (timeout = "negative")
  /\ pc' = "reconnecting"
  /\ UNCHANGED <<orphans, timeout, next_id, request, cur, base, scratch, out, execs>>

\* reconnect up to wait_ready.  When connect fails the ? leaves the old
\* connection in place; otherwise the assignment drops it, and the requests
\* that had left its TX ring may still reach the server.
Reconnect ==
  /\ pc = "reconnect"
  /\ \/ /\ \E c \in Io!ConnectOk(Io!NewIo) : Io!Replace(c, "open")
        /\ orphans' = orphans \cup {sent[i] : i \in served + 1..txlo}
        /\ served' = 0
        /\ clean' = TRUE
        /\ again' = TRUE
        /\ expired' = (timeout = "negative")
        /\ pc' = "reconnecting"
        /\ UNCHANGED <<out, cur, base, scratch>>
     \/ /\ FailRead("connect")
        /\ UNCHANGED <<conn, env, again, expired, scratch>>
  /\ UNCHANGED <<timeout, next_id, op, attempt, callStart, execs>>

-----------------------------------------------------------------------------
(* The public calls.                                                       *)

\* call() (every get_* method and send_transaction) or batch() begins.
StartCall(o) ==
  /\ pc = "idle"
  /\ op' = o /\ attempt' = 0 /\ again' = FALSE
  /\ callStart' = next_id
  /\ execs' = 0
  /\ out' = None
  /\ pc' = "send"
  /\ UNCHANGED <<conn, env, timeout, expired, next_id, reading>>

SetTimeout(t) ==
  /\ pc = "idle"
  /\ timeout' = t
  /\ UNCHANGED <<conn, env, pc, expired, next_id, request, reading, out, execs>>

Ids == IF op = "call" THEN 1 ELSE BatchLen

MutSendRequest ==   \* the request is found too large once it is in the TX ring
  /\ pc = "send"
  /\ Io!TxPush(next_id)
  /\ next_id' = next_id + Ids
  /\ \/ /\ cur' = next_id
        /\ base' = rxlo
        /\ expired' = FALSE
        /\ pc' = "pumpHdr"
        /\ UNCHANGED <<scratch, clean, out>>
     \/ Fail("RequestTooLarge") /\ UNCHANGED <<expired, reading>>
  /\ UNCHANGED <<env, timeout, request, execs>>

\* The front half of send_and_recv and of batch: take the ids, serialize,
\* write_request.  A request too large for its buffer, for the header buffer or
\* for what is free in the TX ring is refused, its ids spent.
SendRequest ==
  /\ pc = "send"
  /\ \/ /\ Io!TxPush(next_id)
        /\ next_id' = next_id + Ids
        /\ cur' = next_id
        /\ base' = rxlo
        /\ expired' = FALSE
        /\ pc' = "pumpHdr"
        /\ UNCHANGED <<scratch, clean, out>>
     \/ /\ next_id' = next_id + Ids
        /\ Fail("RequestTooLarge")
        /\ UNCHANGED <<conn, expired, reading>>
     \/ /\ \E n \in 1..Ids : next_id' = next_id + n
        /\ Fail("SerializeTooLarge")
        /\ UNCHANGED <<conn, expired, reading>>
  /\ UNCHANGED <<env, timeout, request, execs>>

MutPumpRead ==   \* the flags are not looked at
  /\ pc \in {"pumpHdr", "pumpBody", "pumpChunk"}
  /\ Io!Pump
  /\ pc' = CASE pc = "pumpHdr" -> "popHdr"
             [] pc = "pumpBody" -> "popBody"
             [] pc = "pumpChunk" -> "popChunk"
  /\ UNCHANGED <<env, timeout, expired, next_id, request, reading, out, execs>>

\* The pump of each of the three read loops.  call() answers the first
\* ConnectionClosed of an attempt with a reconnect; batch() and a second one
\* return it.
PumpRead ==
  /\ pc \in {"pumpHdr", "pumpBody", "pumpChunk"}
  /\ Io!Pump
  /\ \/ /\ ~Broken(flags')
        /\ pc' = CASE pc = "pumpHdr" -> "popHdr"
                   [] pc = "pumpBody" -> "popBody"
                   [] pc = "pumpChunk" -> "popChunk"
        /\ UNCHANGED <<reading, out>>
     \/ /\ Broken(flags') /\ op = "call" /\ ~again
        /\ pc' = "reconnect"
        /\ UNCHANGED <<reading, out>>
     \/ /\ Broken(flags') /\ (op = "batch" \/ again)
        /\ FailRead("ConnectionClosed")
        /\ UNCHANGED scratch
  /\ UNCHANGED <<env, timeout, expired, next_id, request, execs>>

MutComplete(h, filled, len) ==   \* the status is not checked
  /\ clean' = (clean /\ filled >= Total)
  /\ scratch' = len
  /\ UNCHANGED <<cur, base>>
  /\ Return([tag |-> "ok", id |-> h.id, whole |-> TRUE, frame |-> h.frame, clean |-> clean])

\* read_response returns Ok: the status check of send_and_recv, the 429 and
\* Ok arms of call(), JsonRpcResponse::parse.  Units read past the end of
\* this response are lost with scratch.
Complete(h, filled, len) ==
  /\ clean' = (clean /\ filled >= Total)
  /\ scratch' = len
  /\ UNCHANGED <<cur, base>>
  /\ LET whole == /\ filled >= Total
                  /\ \A p \in 1..Total : stream[base + p] = [h EXCEPT !.part = p]
         ok    == [tag |-> "ok", id |-> h.id, whole |-> whole, frame |-> h.frame,
                   clean |-> clean]
     IN \/ /\ h.kind = "busy" /\ op = "call" /\ attempt < MaxRetries
           /\ pc' = "backoff"
           /\ UNCHANGED out
        \/ /\ h.kind = "busy" /\ (op = "batch" \/ attempt = MaxRetries)
           /\ Fail("BadStatus")
        \/ /\ h.kind = "result" \/ (h.kind = "error" /\ op = "batch")
           /\ Return(ok)
        \/ /\ op = "call"
           /\ h.kind = "error" \/ (h.kind = "result" /\ ~whole)
           /\ Fail("JsonRpc")

MutNothingRead(loop) ==   \* the deadline makes the client write its request again
  /\ pc' = IF timeout = "finite" /\ expired THEN "send" ELSE loop
  /\ UNCHANGED <<out, cur, base, clean>>

MutDeadline(loop) ==   \* the deadline is not looked at
  /\ pc' = loop
  /\ UNCHANGED <<out, cur, base, clean>>

\* Nothing to pop: the deadline is looked at, and only here.
NothingRead(loop) ==
  \/ /\ timeout = "finite" /\ expired
     /\ FailRead("ResponseIncomplete")
  \/ /\ ~(timeout = "finite" /\ expired)
     /\ pc' = loop
     /\ UNCHANGED <<out, cur, base, clean>>

\* The header loop after its pump.  A buffer that starts with a header's
\* first unit parses once the header is all there.  One that starts inside an
\* older response never parses: phr_parse_response calls it malformed, or
\* incomplete while too little of it is there to tell.
PopHeader ==
  /\ pc = "popHdr"
  /\ Io!RxPop(scratch - Filled)
  /\ LET n      == Io!RxPopLen(scratch - Filled)
         filled == Filled + n
         Incomplete == \/ filled >= scratch /\ FailRead("ResponseTooLarge")
                       \/ /\ filled < scratch
                          /\ pc' = "pumpHdr"
                          /\ UNCHANGED <<out, cur, base, clean>>
     IN \/ /\ n = 0
           /\ NothingRead("pumpHdr")
           /\ UNCHANGED scratch
        \/ /\ n > 0 /\ Header.part # 1
           /\ FailRead("ResponseMalformed")
           /\ UNCHANGED scratch
        \/ /\ n > 0 /\ (Header.part # 1 \/ filled < HdrLen)
           /\ Incomplete
           /\ UNCHANGED scratch
        \/ /\ n > 0 /\ Header.part = 1 /\ filled >= HdrLen
           /\ Header.frame = "none" \/ filled >= Total
           /\ Complete(Header, filled,
                       IF Header.frame = "len" /\ Total > scratch THEN Total ELSE scratch)
        \/ /\ n > 0 /\ Header.part = 1 /\ filled >= HdrLen /\ filled < Total
           /\ Header.frame # "none"
           /\ pc' = IF Header.frame = "len" THEN "pumpBody" ELSE "pumpChunk"
           /\ scratch' = IF Header.frame = "len" /\ Total > scratch THEN Total ELSE scratch
           /\ UNCHANGED <<out, cur, base, clean>>
  /\ UNCHANGED <<env, timeout, expired, next_id, request, execs>>

MutPopRest(loop, len) ==   \* the last unit of the body is not waited for
  /\ Io!RxPop(len - Filled)
  /\ LET n      == Io!RxPopLen(len - Filled)
         filled == Filled + n
     IN \/ /\ filled < Total - 1
           /\ pc' = loop
           /\ scratch' = len
           /\ UNCHANGED <<out, cur, base, clean>>
        \/ filled >= Total - 1 /\ Complete(Header, filled, len)
  /\ UNCHANGED <<env, timeout, expired, next_id, request, execs>>

\* A body loop after its pump: pop what fits, go on until the response is all
\* there.  len is the length of scratch by then.
PopRest(loop, len) ==
  /\ Io!RxPop(len - Filled)
  /\ LET n      == Io!RxPopLen(len - Filled)
         filled == Filled + n
     IN \/ /\ n = 0
           /\ NothingRead(loop)
           /\ scratch' = len
        \/ n > 0 /\ filled >= Total /\ Complete(Header, filled, len)
        \/ /\ n > 0 /\ filled < Total
           /\ pc' = loop
           /\ scratch' = len
           /\ UNCHANGED <<out, cur, base, clean>>
  /\ UNCHANGED <<env, timeout, expired, next_id, request, execs>>

PopBody == pc = "popBody" /\ PopRest("pumpBody", scratch)

PopChunk ==
  /\ pc = "popChunk"
  /\ PopRest("pumpChunk", IF scratch - Filled < MinHeadroom THEN scratch * 2 ELSE scratch)

\* The chunked loop pops one more chunk than the body's units, which the server
\* put before the rest: bytes have come, so the deadline is not looked at, and
\* scratch is doubled when it runs low.  The bytes are not counted, they only
\* bring the next doubling nearer.
PopTrickle ==
  /\ pc = "popChunk" /\ peer = "open"
  /\ rxlo = rxhi /\ Filled < Total
  /\ pc' = "pumpChunk"
  /\ \/ UNCHANGED scratch
     \/ scratch * 2 <= MaxScratch /\ scratch' = scratch * 2
  /\ UNCHANGED <<conn, env, timeout, expired, next_id, request, cur, base, clean, out, execs>>

\* The sleep after a 429, and the next attempt.
Backoff ==
  /\ pc = "backoff"
  /\ attempt' = attempt + 1
  /\ again' = FALSE
  /\ pc' = "send"
  /\ UNCHANGED <<conn, env, timeout, expired, next_id, op, callStart, reading, out, execs>>

Client ==
  \/ ConnectClient \/ WaitReady \/ Reconnect
  \/ SendRequest \/ PumpRead \/ PopHeader \/ PopBody \/ PopChunk
  \/ PopTrickle \/ Backoff

-----------------------------------------------------------------------------
(* The environment.                                                        *)

Executed(i, k) == IF i >= callStart /\ k # "busy" THEN execs + 1 ELSE execs

\* The server answers the requests of a connection in the order they arrive.
Serve(k, f) ==
  /\ served < txlo
  /\ Io!PeerWrite(Response(sent[served + 1], k, f))
  /\ served' = served + 1
  /\ execs' = Executed(sent[served + 1], k)
  /\ UNCHANGED <<orphans, pc, timeout, expired, next_id, request, reading, out>>

\* A request of a dropped connection reaches the server after all, or is lost.
ServeOrphan(i) ==
  /\ i \in orphans
  /\ orphans' = orphans \ {i}
  /\ execs' \in {execs, Executed(i, "result")}
  /\ UNCHANGED <<conn, served, pc, timeout, expired, next_id, request, reading, out>>

ServerGone ==
  /\ Io!PeerGone
  /\ UNCHANGED <<env, pc, timeout, expired, next_id, request, reading, out, execs>>

\* The clock passes the deadline of the loop the client is in.
Expire ==
  /\ pc \in {"connecting", "reconnecting", "pumpHdr", "popHdr", "pumpBody", "popBody",
             "pumpChunk", "popChunk"}
  /\ ~expired
  /\ expired' = TRUE
  /\ UNCHANGED <<conn, env, pc, timeout, next_id, request, reading, out, execs>>

-----------------------------------------------------------------------------
Init ==
  /\ Io!Init
  /\ served = 0 /\ orphans = {}
  /\ pc = "start"
  /\ timeout = "finite" /\ expired = FALSE
  /\ next_id = 1
  /\ op = "call" /\ attempt = 0 /\ again = FALSE /\ callStart = 1
  /\ cur = 0 /\ base = 0 /\ scratch = ScratchLen
  /\ out = None
  /\ execs = 0 /\ clean = TRUE

Next ==
  \/ Client
  \/ \E o \in {"call", "batch"} : StartCall(o)
  \/ \E t \in Timeouts : SetTimeout(t)
  \/ \E k \in Kinds, f \in Frames : Serve(k, f)
  \/ \E i \in orphans : ServeOrphan(i)
  \/ ServerGone
  \/ Expire

\* The client's loops run on; the clock advances.  Nothing is assumed of the
\* server, the network or the application.
Fairness == WF_vars(Client) /\ WF_vars(Expire)

Spec == Init /\ [][Next]_vars /\ Fairness

-----------------------------------------------------------------------------
(* Properties.                                                             *)

Idle == pc \in {"start", "idle", "failed"}

\* Every variable has its type.
TypeOK ==
  /\ Io!TypeOK
  /\ served \in Nat /\ orphans \subseteq Nat
  /\ pc \in {"start", "connecting", "failed", "idle", "send", "reconnect", "reconnecting",
             "backoff", "pumpHdr", "popHdr", "pumpBody", "popBody", "pumpChunk", "popChunk"}
  /\ timeout \in {"finite", "negative"} /\ expired \in BOOLEAN
  /\ next_id \in Nat /\ callStart \in Nat /\ cur \in Nat
  /\ op \in {"call", "batch"} /\ attempt \in 0..MaxRetries /\ again \in BOOLEAN
  /\ base \in Nat /\ scratch \in Nat /\ execs \in Nat /\ clean \in BOOLEAN
  /\ out.tag \in {"none", "err", "ok"}

\* A successful call returns the answer to its own request, and the server has
\* processed that request, provided every earlier read on this connection
\* consumed its response.  Nothing compares the id of a response with the id of
\* the request, so this rests on the two streams of a connection staying in step.
AnswerIsOurs ==
  out.tag = "ok" /\ out.clean =>
    /\ out.id = cur
    /\ execs >= 1

\* A body delimited by its length or by chunks is one response's, from its first
\* unit to its last, even when it answers an older request.
BodyIntact == out.tag = "ok" /\ out.frame # "none" => out.whole

\* Between calls a connection on which every read was whole carries nothing:
\* no request left in the TX ring or unanswered, no byte in flight, none in the
\* RX ring.
CleanMeansDrained ==
  clean /\ pc \in {"idle", "send", "backoff"} =>
    /\ served = Len(sent)
    /\ rxlo = Len(stream)

\* Retries and reconnects together write at most two requests per attempt.
SendsBounded ==
  op = "call" /\ ~Idle => next_id - callStart <= 2 * (MaxRetries + 1)

\* While the streams are in step, at most one copy of the current request waits
\* for the server on this connection: a 429 or a reconnect comes first.
OneLiveCopy ==
  clean => Cardinality({i \in served + 1..Len(sent) : sent[i] >= callStart}) <= 1

\* A connection that has failed gives no answer, except leftovers in its RX ring
\* of a response that an earlier call gave up on.
DeadConnectionIsSilent ==
  out.tag = "ok" /\ io.state = "ERROR" => ~out.clean

InChunks == pc \in {"pumpChunk", "popChunk"}

\* The client keeps the contract of RpcContract.
Contract ==
  INSTANCE RpcContract WITH
    phase   <- IF pc \in {"start", "connecting", "failed", "idle"} THEN "idle" ELSE "busy",
    answer  <- CASE out.tag = "none" \/ pc = "failed" -> "none"
                 [] out.tag = "err" /\ pc # "failed"  -> "failed"
                 [] out.tag = "ok" -> IF out.id = cur THEN "ours" ELSE "stale",
    tainted <- ~clean,
    drawn   <- InChunks

ContractKept == Contract!Spec

\* With a finite timeout a call returns, whatever the server does, or it is held
\* in the loop of a chunked body by a server that sends chunk after chunk and no
\* last one: the only loop of the client that the deadline does not end.
CallsReturn ==
  /\ ~Idle /\ timeout = "finite" ~> Idle \/ []InChunks
  /\ <>[](InChunks /\ timeout = "finite") => []<><<PopTrickle>>_vars
=============================================================================
