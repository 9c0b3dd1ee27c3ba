----------------------------- MODULE HttpServer -----------------------------
(***************************************************************************)
(* The HTTP server wrapper (fd_http): the C server calls back into Rust    *)
(* from fd_http_server_poll, and the answers it is given point into memory *)
(* that Rust allocated.  That memory belongs to pending_cleanups, a map    *)
(* from connection to the memory of its last response.                     *)
(*                                                                         *)
(* The C server is external: it is single threaded, reuses connection ids, *)
(* reads one request of a connection, sends the whole response and only    *)
(* then reads the next one (keep-alive) or closes; it may close any        *)
(* connection at any time (peer, timeout, eviction).                       *)
(***************************************************************************)
EXTENDS Integers, FiniteSets

CONSTANTS
  Conns,      \* connection ids: 0 .. max_connection_cnt - 1
  Blocks,     \* the heap blocks a response body or a header string may take
  CountMod    \* 2^64, the modulus of connection_count

ASSUME HttpAssumption ==
  /\ IsFiniteSet(Conns) /\ CountMod \in Nat
  /\ Cardinality(Conns) < CountMod

VARIABLES
  server,     \* "none", "up" (a Server value exists) or "dropped"
  ctxAlive,   \* the boxed CallbackContext exists
  connCount,  \* CallbackContext.connection_count
  isListening,
  cleanups,   \* pending_cleanups: connection -> the blocks its entry frees, {} without one
  heap,       \* the blocks allocated for responses
  conn,       \* C server: connection -> "closed", "reading" or "sending"
  reads,      \* C server: the blocks the response being sent points to
  httpRet     \* what the last method returned, or the last callback reported

httpVars == <<server, ctxAlive, connCount, isListening, cleanups, heap, conn, reads, httpRet>>

CloseReason == {"Ok", "PeerClose", "Timeout", "Error"}
HttpError   == {"InvalidParameter", "AllocationFailed", "SocketError"}

\* ConnectionCloseReason::from_raw, by the class of the raw code.
RawReasons == {"OK", "PEER_RESET", "TOO_SLOW", "negative", "positive"}
FromRaw(raw) ==
  CASE raw = "OK"         -> "Ok"
    [] raw = "PEER_RESET" -> "PeerClose"
    [] raw = "TOO_SLOW"   -> "Timeout"
    [] raw = "negative"   -> "Error"
    [] raw = "positive"   -> "unknown"

Open == {c \in Conns : conn[c] # "closed"}

HttpTypeOK ==
  /\ server \in {"none", "up", "dropped"}
  /\ ctxAlive \in BOOLEAN /\ isListening \in BOOLEAN
  /\ connCount \in 0..(CountMod - 1)
  /\ cleanups \in [Conns -> SUBSET Blocks]
  /\ heap \subseteq Blocks
  /\ conn \in [Conns -> {"closed", "reading", "sending"}]
  /\ reads \in [Conns -> SUBSET Blocks]

HttpInit ==
  /\ server = "none" /\ ctxAlive = FALSE /\ connCount = 0 /\ isListening = FALSE
  /\ cleanups = [c \in Conns |-> {}] /\ heap = {}
  /\ conn = [c \in Conns |-> "closed"] /\ reads = [c \in Conns |-> {}]
  /\ httpRet = "none"

-----------------------------------------------------------------------------
(* Server::new.  The context is boxed before the C server is made; when    *)
(* fd_http_server_new or _join answers null it is taken back.              *)

NewServer ==
  /\ server = "none"
  /\ \/ httpRet' = "InvalidParameter" /\ UNCHANGED <<server, ctxAlive>>      \* footprint 0
     \/ httpRet' = "AllocationFailed" /\ UNCHANGED <<server, ctxAlive>>      \* new or join null
     \/ server' = "up" /\ ctxAlive' = TRUE /\ httpRet' = "Ok"
  /\ UNCHANGED <<connCount, isListening, cleanups, heap, conn, reads>>

Listen ==
  /\ server = "up"
  /\ \/ httpRet' = "SocketError" /\ UNCHANGED isListening
     \/ isListening' = TRUE /\ httpRet' = "Ok"
  /\ UNCHANGED <<server, ctxAlive, connCount, cleanups, heap, conn, reads>>

-----------------------------------------------------------------------------
(* poll: every callback the C server makes is a step.                      *)

OpenTrampoline(c) ==
  /\ server = "up" /\ isListening
  /\ conn[c] = "closed"
  /\ conn' = [conn EXCEPT ![c] = "reading"]
  /\ connCount' = (connCount + 1) % CountMod
  /\ UNCHANGED <<server, ctxAlive, isListening, cleanups, heap, reads, httpRet>>

\* Mutant: the entry that is replaced is not freed.
MutConvertResponse(c, mem) ==
  /\ mem \subseteq Blocks \ heap
  /\ cleanups' = [cleanups EXCEPT ![c] = mem]
  /\ heap' = heap \cup mem

\* convert_response_to_c: the response is given the blocks in mem (its body when it is
\* not empty, and one string per known header); inserting its cleanup drops the one the
\* connection had.
ConvertResponse(c, mem) ==
  /\ mem \subseteq Blocks \ heap
  /\ cleanups' = [cleanups EXCEPT ![c] = mem]
  /\ heap' = (heap \cup mem) \ cleanups[c]

\* request_trampoline: method, path, headers and body are taken from the C request and
\* the callback answers.
RequestTrampoline(c, mem) ==
  /\ server = "up"
  /\ conn[c] = "reading"
  /\ ConvertResponse(c, mem)
  /\ conn' = [conn EXCEPT ![c] = "sending"]
  /\ reads' = [reads EXCEPT ![c] = mem]
  /\ UNCHANGED <<server, ctxAlive, connCount, isListening, httpRet>>

\* The last byte of the response is out and the connection is kept alive (C server).
ResponseSent(c) ==
  /\ server = "up"
  /\ conn[c] = "sending"
  /\ conn' = [conn EXCEPT ![c] = "reading"]
  /\ reads' = [reads EXCEPT ![c] = {}]
  /\ UNCHANGED <<server, ctxAlive, connCount, isListening, cleanups, heap, httpRet>>

CloseTrampoline(c, raw) ==
  /\ server = "up"
  /\ conn[c] # "closed"
  /\ conn' = [conn EXCEPT ![c] = "closed"]
  /\ reads' = [reads EXCEPT ![c] = {}]
  /\ connCount' = (connCount - 1) % CountMod
  /\ cleanups' = [cleanups EXCEPT ![c] = {}]
  /\ heap' = heap \ cleanups[c]
  /\ httpRet' = IF FromRaw(raw) \in CloseReason THEN FromRaw(raw) ELSE httpRet
  /\ UNCHANGED <<server, ctxAlive, isListening>>

\* Drop for Server: the context and every cleanup in its map; the C server is neither
\* left nor deleted, and what it had open stays open.
DropServer ==
  /\ server = "up"
  /\ server' = "dropped" /\ ctxAlive' = FALSE
  /\ heap' = heap \ UNION {cleanups[c] : c \in Conns}
  /\ cleanups' = [c \in Conns |-> {}]
  /\ UNCHANGED <<connCount, isListening, conn, reads, httpRet>>

HttpNext ==
  \/ NewServer \/ Listen \/ DropServer
  \/ \E c \in Conns :
       \/ OpenTrampoline(c) \/ ResponseSent(c)
       \/ \E mem \in SUBSET Blocks : RequestTrampoline(c, mem)
       \/ \E raw \in RawReasons : CloseTrampoline(c, raw)

HttpSpec == HttpInit /\ [][HttpNext]_httpVars

-----------------------------------------------------------------------------
\* The memory a response being sent points to is allocated until the last byte is out,
\* although the map that owns it has one entry per connection and the next response
\* replaces it.  (A dropped server is not polled any more.)
ResponseMemoryAlive == server = "up" => \A c \in Conns : reads[c] \subseteq heap

\* Every block has exactly one owner, an entry of an open connection: nothing is freed
\* twice, a closed connection and a dropped server leave nothing behind.
ResponseMemoryOwned ==
  /\ heap = UNION {cleanups[c] : c \in Conns}
  /\ \A c, d \in Conns : c # d => cleanups[c] \cap cleanups[d] = {}
  /\ \A c \in Conns : cleanups[c] # {} => ctxAlive /\ conn[c] # "closed"

\* connection_count is the number of open connections; it never wraps below zero.
CountIsOpen == server = "up" => connCount = Cardinality(Open)

\* What the server wrapper owes the C server and its caller.
HttpSound == ResponseMemoryAlive /\ ResponseMemoryOwned /\ CountIsOpen
=============================================================================
