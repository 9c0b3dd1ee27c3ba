-------------------------- MODULE RpcClientProofs --------------------------
(***************************************************************************)
(* For every response length, buffer size and number of retries: a call    *)
(* writes at most two requests per attempt, and a connection whose reads   *)
(* all were whole pairs every answer with its own request.                 *)
(*                                                                         *)
(* The pairing is an invariant about offsets.  On a clean connection the   *)
(* client is either between requests, and then the server has answered     *)
(* all that was sent and the client has read all that was answered; or it  *)
(* reads the answer to the last request sent, and then that answer is      *)
(* either not there yet, the stream ending where the read began, or it is  *)
(* exactly the rest of the stream.                                         *)
(*                                                                         *)
(* Three more parts build on it: a connection that failed answers nothing, *)
(* a body with a delimiter is one response's, and the steps of the client  *)
(* are steps of RpcContract.                                               *)
(***************************************************************************)
EXTENDS RpcClient, SequenceTheorems, FiniteSetTheorems, TLAPS

USE LenAssumption, FramesAssumption, TimeoutsAssumption

Reading  == {"pumpHdr", "popHdr", "pumpBody", "popBody", "pumpChunk", "popChunk"}
AfterHdr == {"pumpBody", "popBody", "pumpChunk", "popChunk"}
Between  == {"start", "connecting", "reconnecting", "failed", "idle", "send", "backoff"}

-----------------------------------------------------------------------------
(* The bound on the requests of a call.                                    *)

CallType ==
  /\ pc \in Between \cup Reading \cup {"reconnect"}
  /\ op \in {"call", "batch"}
  /\ attempt \in 0..MaxRetries
  /\ again \in BOOLEAN
  /\ next_id \in Nat /\ callStart \in Nat

Sends == next_id - callStart

\* How many requests call() can have written by the time it is at pc.
SendsSoFar ==
  op = "call" =>
    /\ pc \in {"start", "connecting"} => Sends = 0
    /\ pc = "send" => Sends <= 2 * attempt + (IF again THEN 1 ELSE 0)
    /\ pc \in Reading => Sends <= 2 * attempt + (IF again THEN 2 ELSE 1)
    /\ pc = "reconnect" => Sends <= 2 * attempt + 1
    /\ pc = "reconnecting" => again /\ Sends <= 2 * attempt + 1
    /\ pc = "backoff" => attempt < MaxRetries /\ Sends <= 2 * attempt + 2

CallInv ==
  /\ CallType
  /\ SendsSoFar
  /\ pc = "backoff" => op = "call"
  /\ pc \in {"reconnect", "reconnecting"} => op = "call"
  /\ pc = "reconnect" => ~again

\* Steps of the environment and of the connection leave the call alone.
LEMMA CallFrame ==
  ASSUME CallInv, UNCHANGED <<pc, next_id, op, attempt, again, callStart>>
  PROVE  CallInv'
  BY DEF CallInv, CallType, SendsSoFar, Sends

LEMMA CallStep == CallInv /\ [Next]_vars => CallInv'
<1> SUFFICES ASSUME CallInv, [Next]_vars PROVE CallInv'
  OBVIOUS
<1> USE DEF CallInv, CallType, SendsSoFar, Sends, Between, Reading, request, reading
<1>1. CASE ConnectClient
  BY <1>1 DEF ConnectClient
<1>2. CASE WaitReady
  BY <1>2 DEF WaitReady
<1>3. CASE Reconnect
  BY <1>3 DEF Reconnect, FailRead, Fail, Return
<1>4. CASE SendRequest
  <2>1. CASE pc' = "pumpHdr" /\ next_id' = next_id + Ids
    BY <1>4, <2>1 DEF SendRequest, Ids
  <2>2. CASE pc' = "idle"
    BY <1>4, <2>2 DEF SendRequest, Ids
  <2> QED BY <1>4, <2>1, <2>2 DEF SendRequest, Fail, Return
<1>5. CASE PumpRead
  BY <1>5 DEF PumpRead, FailRead, Fail, Return
<1>6. CASE PopHeader
  BY <1>6 DEF PopHeader, Complete, NothingRead, FailRead, Fail, Return
<1>7. CASE PopBody
  BY <1>7 DEF PopBody, PopRest, Complete, NothingRead, FailRead, Fail, Return
<1>8. CASE PopChunk
  BY <1>8 DEF PopChunk, PopRest, Complete, NothingRead, FailRead, Fail, Return
<1>9. CASE Backoff
  <2>1. /\ pc' = "send" /\ op' = "call" /\ attempt' = attempt + 1 /\ again' = FALSE
        /\ next_id' = next_id /\ callStart' = callStart
    BY <1>9 DEF Backoff
  <2>2. attempt < MaxRetries /\ next_id - callStart <= 2 * attempt + 2
    BY <1>9 DEF Backoff
  <2>3. attempt' \in 0..MaxRetries
    BY <2>1, <2>2
  <2>4. next_id' - callStart' <= 2 * attempt' + (IF again' THEN 1 ELSE 0)
    BY <2>1, <2>2
  <2> QED BY <2>1, <2>3, <2>4
<1>10. ASSUME NEW o \in {"call", "batch"}, StartCall(o) PROVE CallInv'
  <2>1. /\ pc' = "send" /\ op' = o /\ attempt' = 0 /\ again' = FALSE
        /\ next_id' = next_id /\ callStart' = next_id
    BY <1>10 DEF StartCall
  <2>2. attempt' \in 0..MaxRetries
    BY <2>1
  <2>3. next_id' - callStart' <= 2 * attempt' + (IF again' THEN 1 ELSE 0)
    BY <2>1
  <2> QED BY <2>1, <2>2, <2>3
<1>11. CASE \/ \E t \in Timeouts : SetTimeout(t)
            \/ \E k \in Kinds, f \in Frames : Serve(k, f)
            \/ \E i \in orphans : ServeOrphan(i)
            \/ ServerGone \/ Expire
            \/ UNCHANGED vars
  BY <1>11, CallFrame DEF SetTimeout, Serve, ServeOrphan, ServerGone, Expire, vars
<1>12. CASE PopTrickle
  BY <1>12 DEF PopTrickle
<1> QED BY <1>1, <1>2, <1>3, <1>4, <1>5, <1>6, <1>7, <1>8, <1>9, <1>10, <1>11, <1>12
        DEF Next, Client

\* A call writes at most two requests per attempt, and makes at most
\* MAX_RETRIES_429 + 1 attempts, however connections fail and the server
\* pushes back.
THEOREM SendsAlwaysBounded == Spec => []SendsBounded
<1>1. Init => CallInv
  <2> SUFFICES ASSUME Init PROVE CallInv
    OBVIOUS
  <2>1. 0 \in 0..MaxRetries /\ 1 - 1 = 0
    OBVIOUS
  <2> QED BY <2>1 DEF Init, CallInv, CallType, SendsSoFar, Sends, Between, Reading
<1>2. CallInv => SendsBounded
  BY DEF CallInv, CallType, SendsSoFar, Sends, SendsBounded, Idle, Between, Reading
<1> QED BY <1>1, <1>2, CallStep, PTL DEF Spec

-----------------------------------------------------------------------------
(* The pairing of answers with requests.                                   *)

\* The types the pairing rests on.
StreamType ==
  /\ sent \in Seq(Nat) /\ stream \in Seq(Tokens)
  /\ served \in Nat /\ txlo \in Nat /\ rxlo \in Nat /\ rxhi \in Nat /\ base \in Nat
  /\ scratch \in Nat /\ cur \in Nat /\ next_id \in Nat /\ callStart \in Nat /\ execs \in Nat
  /\ clean \in BOOLEAN
  /\ pc \in Between \cup Reading \cup {"reconnect"}

\* The offsets are in order, and the buffer read_response slices is never
\* indexed past its end.
Offsets ==
  /\ served <= txlo /\ txlo <= Len(sent)
  /\ rxlo <= rxhi /\ rxhi <= Len(stream)
  /\ callStart <= next_id
  /\ pc \in Reading => base <= rxlo /\ rxlo - base <= scratch
  /\ pc \in AfterHdr => base < rxlo /\ rxlo - base < Total

\* The answer to the last request sent is the rest of the stream.
AnswerHere ==
  /\ served = Len(sent)
  /\ Len(stream) = base + Total
  /\ \A p \in 1..Total : stream[base + p].id = cur /\ stream[base + p].part = p
  /\ stream[base + 1].kind # "busy" => execs >= 1

\* It is not there yet.
AnswerToCome ==
  /\ served = Len(sent) - 1
  /\ Len(stream) = base

InStep ==
  clean =>
    /\ pc \in Between => served = Len(sent) /\ rxlo = Len(stream)
    /\ pc \in Reading \cup {"reconnect"} =>
         /\ sent # <<>> /\ sent[Len(sent)] = cur /\ callStart <= cur
         /\ AnswerHere \/ AnswerToCome

\* The outcome of the last call is kept until the next one begins.
OutcomeInv ==
  /\ pc # "idle" => out.tag # "ok"
  /\ AnswerIsOurs

PairInv == StreamType /\ Offsets /\ InStep /\ OutcomeInv

\* What a pump does to the offsets.
LEMMA PumpEffect ==
  ASSUME StreamType, Offsets, Io!Pump
  PROVE  /\ sent' = sent /\ stream' = stream /\ rxlo' = rxlo
         /\ rxhi' \in Nat /\ rxlo <= rxhi' /\ rxhi' <= Len(stream)
         /\ txlo' \in Nat /\ txlo <= txlo' /\ txlo' <= Len(sent)
<1> USE DEF StreamType, Offsets, Io!rings
<1>1. CASE Io!PumpMoves
  BY <1>1 DEF Io!PumpMoves, Io!RxReach
<1>2. CASE Io!PumpTxFails
  <2>1. rxhi' \in rxhi..Len(stream)
    BY <1>2 DEF Io!PumpTxFails, Io!RxReach
  <2>2. UNCHANGED <<sent, txlo, stream, rxlo>>
    BY <1>2 DEF Io!PumpTxFails
  <2> QED BY <2>1, <2>2
<1>3. CASE Io!PumpConnecting \/ Io!PumpTls \/ Io!PumpRxFails \/ Io!PumpDefault
  <2>1. UNCHANGED <<sent, txlo, stream, rxlo, rxhi>>
    BY <1>3 DEF Io!PumpConnecting, Io!PumpTls, Io!PumpRxFails, Io!PumpDefault
  <2> QED BY <2>1
<1> QED BY <1>1, <1>2, <1>3 DEF Io!Pump, Io!PumpReady

\* What a pop into a buffer of m units does.
LEMMA PopEffect ==
  ASSUME StreamType, Offsets, NEW m \in Nat, Io!RxPop(m)
  PROVE  /\ sent' = sent /\ stream' = stream /\ txlo' = txlo /\ rxhi' = rxhi
         /\ Io!RxPopLen(m) \in 0..m
         /\ rxlo' = rxlo + Io!RxPopLen(m) /\ rxlo' \in Nat /\ rxlo' <= rxhi
  BY DEF StreamType, Offsets, Io!RxPop, Io!RxPopLen, Io!RxUsed

\* A response is a sequence of Total units.
LEMMA ResponseType ==
  ASSUME NEW i \in Nat, NEW k \in Kinds, NEW f \in Frames
  PROVE  /\ Response(i, k, f) \in Seq(Tokens)
         /\ Len(Response(i, k, f)) = Total
         /\ \A p \in 1..Total : Response(i, k, f)[p] = [id |-> i, part |-> p, kind |-> k, frame |-> f]
  BY DEF Response, Tokens, Total

\* Where the units of the second of two concatenated sequences are.
LEMMA AfterConcat ==
  ASSUME NEW S, NEW s \in Seq(S), NEW t \in Seq(S)
  PROVE  /\ s \o t \in Seq(S) /\ Len(s \o t) = Len(s) + Len(t)
         /\ \A p \in 1..Len(t) : (s \o t)[Len(s) + p] = t[p]
  OBVIOUS

LEMMA BeforeConcat ==
  ASSUME NEW S, NEW s \in Seq(S), NEW t \in Seq(S)
  PROVE  \A p \in 1..Len(s) : (s \o t)[p] = s[p]
  OBVIOUS

\* The pairing is about these variables; a step that changes none keeps it.
LEMMA PairFrame ==
  ASSUME PairInv,
         UNCHANGED <<sent, txlo, stream, rxhi, rxlo, served, pc, next_id, callStart, reading,
                     out, execs>>
  PROVE  PairInv'
<1> USE DEF PairInv, reading
<1>1. StreamType' /\ Offsets'
  BY DEF StreamType, Offsets
<1>2. InStep'
  BY DEF InStep, AnswerHere, AnswerToCome
<1>3. OutcomeInv'
  BY DEF OutcomeInv, AnswerIsOurs
<1> QED BY <1>1, <1>2, <1>3

\* A pump while the client stays in the same half of its loop.
LEMMA PumpKeepsPairing ==
  ASSUME PairInv, Io!Pump, UNCHANGED <<served, next_id, callStart, reading, execs>>,
         out' = out \/ ((pc' # "idle" \/ ~clean \/ pc \in Between) /\ out'.tag # "ok"),
         \/ pc \in Between /\ pc' \in Between
         \/ pc \in {"pumpHdr", "popHdr"} /\ pc' \in {"pumpHdr", "popHdr"}
         \/ pc \in AfterHdr /\ pc' \in AfterHdr
         \/ pc \in Reading /\ pc' = "reconnect",
         pc' # "idle" => out'.tag # "ok"
  PROVE  PairInv'
<1>1. /\ sent' = sent /\ stream' = stream /\ rxlo' = rxlo
      /\ rxhi' \in Nat /\ rxlo <= rxhi' /\ rxhi' <= Len(stream)
      /\ txlo' \in Nat /\ txlo <= txlo' /\ txlo' <= Len(sent)
  BY PumpEffect DEF PairInv
<1> USE DEF PairInv, reading
<1>2. StreamType'
  BY <1>1 DEF StreamType, Between, Reading, AfterHdr
<1>3. Offsets'
  BY <1>1 DEF StreamType, Offsets, Between, Reading, AfterHdr
<1>4. InStep'
  BY <1>1 DEF InStep, AnswerHere, AnswerToCome, Between, Reading, AfterHdr
<1>5. OutcomeInv'
  BY DEF OutcomeInv, AnswerIsOurs
<1> QED BY <1>2, <1>3, <1>4, <1>5

\* The last step of a read: what Complete leaves behind.
LEMMA CompleteKeepsPairing ==
  ASSUME PairInv, pc \in Reading, NEW n \in Nat, NEW len \in Nat,
         sent' = sent, stream' = stream, txlo' = txlo, rxhi' = rxhi,
         UNCHANGED <<served, next_id, callStart, execs>>,
         rxlo' = rxlo + n, rxlo' <= rxhi, rxlo' > base,
         Complete(Header, Filled + n, len)
  PROVE  PairInv'
<1> USE DEF PairInv
<1>0. /\ clean' = (clean /\ Filled + n >= Total) /\ scratch' = len /\ cur' = cur /\ base' = base
      /\ pc' \in {"idle", "backoff"}
      /\ pc' # "idle" => out' = out
      /\ out'.tag = "ok" => out' = out \/ (out'.id = Header.id /\ out'.clean = clean
                                             /\ Header.kind # "busy")
  BY DEF Complete, Fail, Return
<1>1. Filled = rxlo - base /\ Filled \in Nat /\ Total \in Nat
  BY DEF Filled, StreamType, Offsets, Total
<1>2. StreamType'
  BY <1>0 DEF StreamType, Between, Reading
<1>3. Offsets'
  BY <1>0, <1>1 DEF StreamType, Offsets, Between, Reading, AfterHdr
<1>4. clean => AnswerHere
  BY DEF InStep, AnswerToCome, StreamType, Offsets
<1>5. InStep'
  <2> SUFFICES ASSUME clean' PROVE served' = Len(sent') /\ rxlo' = Len(stream')
    BY <1>0 DEF InStep, Between, Reading
  <2>1. clean /\ Filled + n >= Total
    BY <1>0
  <2> QED BY <1>1, <1>4, <2>1 DEF AnswerHere, StreamType, Offsets
<1>6. OutcomeInv'
  <2>1. out.tag # "ok"
    BY DEF OutcomeInv, Reading
  <2>2. out'.tag = "ok" /\ out'.clean => out'.id = cur /\ execs >= 1
    <3> SUFFICES ASSUME out'.tag = "ok", out'.clean PROVE out'.id = cur /\ execs >= 1
      OBVIOUS
    <3>1. clean /\ out'.id = Header.id /\ Header.kind # "busy"
      BY <1>0, <2>1
    <3>2. 1 \in 1..Total
      BY DEF Total
    <3> QED BY <1>4, <3>1, <3>2 DEF AnswerHere, Header
  <2> QED BY <1>0, <2>1, <2>2 DEF OutcomeInv, AnswerIsOurs
<1> QED BY <1>2, <1>3, <1>5, <1>6

\* A read that goes on, or is given up.
LEMMA ReadOnKeepsPairing ==
  ASSUME PairInv, pc \in Reading, NEW n \in Nat, scratch' \in Nat,
         sent' = sent, stream' = stream, txlo' = txlo, rxhi' = rxhi,
         UNCHANGED <<served, next_id, callStart, execs, cur, base>>,
         rxlo' = rxlo + n, rxlo' <= rxhi, Filled + n <= scratch',
         \/ pc' = "idle" /\ clean' = FALSE /\ out'.tag = "err"
         \/ pc' \in Reading /\ clean' = clean /\ out' = out,
         pc' \in AfterHdr => Filled + n > 0 /\ Filled + n < Total
  PROVE  PairInv'
<1> USE DEF PairInv
<1>1. Filled = rxlo - base /\ Filled \in Nat /\ Total \in Nat
  BY DEF Filled, StreamType, Offsets, Total
<1>2. StreamType'
  <2>1. clean' \in BOOLEAN /\ pc' \in Between \cup Reading
    BY DEF StreamType, Between
  <2>2. rxlo' \in Nat
    BY DEF StreamType
  <2> QED BY <2>1, <2>2 DEF StreamType
<1>3. Offsets'
  BY <1>1 DEF StreamType, Offsets, Between, Reading, AfterHdr
<1>4. InStep'
  <2> SUFFICES ASSUME clean', pc' \in Reading, clean PROVE (AnswerHere \/ AnswerToCome)'
    BY DEF InStep, Between, Reading
  <2>1. AnswerHere => AnswerHere'
    BY DEF AnswerHere
  <2>2. AnswerToCome => AnswerToCome'
    BY DEF AnswerToCome
  <2> QED BY <2>1, <2>2 DEF InStep
<1>5. OutcomeInv'
  BY DEF OutcomeInv, AnswerIsOurs, Reading
<1> QED BY <1>2, <1>3, <1>4, <1>5

\* A connection just made: both streams are empty.
LEMMA FreshKeepsPairing ==
  ASSUME PairInv, NEW c, Io!Replace(c, "open"), served' = 0, clean' \in BOOLEAN,
         pc' \in {"connecting", "reconnecting"}, pc # "idle",
         UNCHANGED <<next_id, callStart, execs, cur, base, scratch, out>>
  PROVE  PairInv'
<1>1. sent' = <<>> /\ txlo' = 0 /\ stream' = <<>> /\ rxhi' = 0 /\ rxlo' = 0
  BY DEF Io!Replace
<1> USE DEF PairInv
<1>2. StreamType' /\ Offsets'
  BY <1>1 DEF StreamType, Offsets, Between, Reading, AfterHdr
<1>3. InStep'
  BY <1>1 DEF InStep, Between, Reading
<1>4. OutcomeInv'
  BY DEF OutcomeInv, AnswerIsOurs
<1> QED BY <1>2, <1>3, <1>4

LEMMA PopRestKeepsPairing ==
  ASSUME PairInv, pc \in AfterHdr, NEW loop \in AfterHdr, NEW len \in Nat, len >= scratch,
         PopRest(loop, len)
  PROVE  PairInv'
<1> USE DEF PairInv
<1> DEFINE n == Io!RxPopLen(len - Filled)
<1>0. pc \in Reading /\ Filled = rxlo - base /\ Filled \in Nat /\ len - Filled \in Nat
      /\ Filled > 0 /\ Filled < Total /\ Total \in Nat
  BY DEF AfterHdr, Reading, Filled, StreamType, Offsets, Total
<1>1. /\ sent' = sent /\ stream' = stream /\ txlo' = txlo /\ rxhi' = rxhi
      /\ n \in 0..(len - Filled)
      /\ rxlo' = rxlo + n /\ rxlo' \in Nat /\ rxlo' <= rxhi
  BY <1>0, PopEffect DEF PopRest
<1>2. UNCHANGED <<served, next_id, callStart, execs>>
  BY DEF PopRest, env, request
<1> HIDE DEF n
<1>3. \/ n = 0 /\ NothingRead(loop) /\ scratch' = len
      \/ n > 0 /\ Filled + n >= Total /\ Complete(Header, Filled + n, len)
      \/ /\ n > 0 /\ Filled + n < Total /\ pc' = loop /\ scratch' = len
         /\ UNCHANGED <<out, cur, base, clean>>
  BY DEF PopRest, n
<1>4. CASE n > 0 /\ Filled + n >= Total /\ Complete(Header, Filled + n, len)
  <2>1. rxlo' > base /\ n \in Nat
    BY <1>0, <1>1, <1>4 DEF StreamType
  <2> QED BY <1>0, <1>1, <1>2, <1>4, <2>1, CompleteKeepsPairing
<1>5. CASE \/ n = 0 /\ NothingRead(loop) /\ scratch' = len
           \/ /\ n > 0 /\ Filled + n < Total /\ pc' = loop /\ scratch' = len
              /\ UNCHANGED <<out, cur, base, clean>>
  <2>1. /\ UNCHANGED <<cur, base>> /\ scratch' = len
        /\ \/ pc' = "idle" /\ clean' = FALSE /\ out'.tag = "err"
           \/ pc' = loop /\ clean' = clean /\ out' = out
        /\ pc' = loop => Filled + n < Total
    BY <1>0, <1>5 DEF NothingRead, FailRead, Fail, Return
  <2>2. n \in Nat /\ Filled + n <= len /\ Filled + n > 0
    BY <1>0, <1>1
  <2>3. loop \in Reading /\ "idle" \notin AfterHdr
    BY DEF AfterHdr, Reading
  <2> QED BY <1>0, <1>1, <1>2, <2>1, <2>2, <2>3, ReadOnKeepsPairing
<1> QED BY <1>3, <1>4, <1>5

LEMMA PopHeaderKeepsPairing == PairInv /\ PopHeader => PairInv'
<1> SUFFICES ASSUME PairInv, PopHeader PROVE PairInv'
  OBVIOUS
<1> USE DEF PairInv
<1> DEFINE n == Io!RxPopLen(scratch - Filled)
<1>0. pc = "popHdr" /\ pc \in Reading /\ Filled = rxlo - base /\ Filled \in Nat
      /\ scratch - Filled \in Nat /\ Total \in Nat /\ HdrLen \in Nat /\ HdrLen > 0
      /\ scratch \in Nat
  BY DEF PopHeader, Reading, Filled, StreamType, Offsets, Total
<1>1. /\ sent' = sent /\ stream' = stream /\ txlo' = txlo /\ rxhi' = rxhi
      /\ n \in 0..(scratch - Filled)
      /\ rxlo' = rxlo + n /\ rxlo' \in Nat /\ rxlo' <= rxhi
  BY <1>0, PopEffect DEF PopHeader
<1>2. UNCHANGED <<served, next_id, callStart, execs>>
  BY DEF PopHeader, env, request
<1> HIDE DEF n
<1>3. CASE /\ n > 0 /\ Filled + n >= HdrLen
           /\ Complete(Header, Filled + n,
                       IF Header.frame = "len" /\ Total > scratch THEN Total ELSE scratch)
  <2>1. rxlo' > base /\ n \in Nat
    BY <1>0, <1>1, <1>3 DEF StreamType
  <2>2. (IF Header.frame = "len" /\ Total > scratch THEN Total ELSE scratch) \in Nat
    BY <1>0
  <2> QED BY <1>0, <1>1, <1>2, <1>3, <2>1, <2>2, CompleteKeepsPairing
<1>4. CASE /\ UNCHANGED <<cur, base>>
           /\ scratch' \in Nat /\ scratch' >= scratch
           /\ \/ pc' = "idle" /\ clean' = FALSE /\ out'.tag = "err"
              \/ pc' = "pumpHdr" /\ clean' = clean /\ out' = out
              \/ /\ pc' \in {"pumpBody", "pumpChunk"} /\ clean' = clean /\ out' = out
                 /\ Filled + n >= HdrLen /\ Filled + n < Total
  <2>1. n \in Nat /\ Filled + n <= scratch'
    BY <1>0, <1>1, <1>4
  <2>2. pc' \in AfterHdr => Filled + n > 0 /\ Filled + n < Total
    BY <1>0, <1>1, <1>4 DEF AfterHdr
  <2>3. \/ pc' = "idle" /\ clean' = FALSE /\ out'.tag = "err"
        \/ pc' \in Reading /\ clean' = clean /\ out' = out
    BY <1>4 DEF Reading
  <2> QED BY <1>0, <1>1, <1>2, <1>4, <2>1, <2>2, <2>3, ReadOnKeepsPairing
<1>5. \/ n = 0 /\ NothingRead("pumpHdr") /\ UNCHANGED scratch
      \/ FailRead("ResponseMalformed") /\ UNCHANGED scratch
      \/ FailRead("ResponseTooLarge") /\ UNCHANGED scratch
      \/ pc' = "pumpHdr" /\ UNCHANGED <<out, cur, base, clean>> /\ UNCHANGED scratch
      \/ /\ n > 0 /\ Filled + n >= HdrLen
         /\ Complete(Header, Filled + n,
                     IF Header.frame = "len" /\ Total > scratch THEN Total ELSE scratch)
      \/ /\ n > 0 /\ Filled + n >= HdrLen /\ Filled + n < Total
         /\ pc' \in {"pumpBody", "pumpChunk"}
         /\ scratch' = IF Header.frame = "len" /\ Total > scratch THEN Total ELSE scratch
         /\ UNCHANGED <<out, cur, base, clean>>
  BY DEF PopHeader, n
<1>6. (IF Header.frame = "len" /\ Total > scratch THEN Total ELSE scratch) >= scratch
      /\ (IF Header.frame = "len" /\ Total > scratch THEN Total ELSE scratch) \in Nat
  BY <1>0
<1>7. CASE n = 0 /\ NothingRead("pumpHdr") /\ UNCHANGED scratch
  <2>1. scratch' = scratch /\ scratch' \in Nat /\ scratch' >= scratch
    BY <1>0, <1>7
  <2>2. /\ UNCHANGED <<cur, base>>
        /\ \/ pc' = "idle" /\ clean' = FALSE /\ out'.tag = "err"
           \/ pc' = "pumpHdr" /\ clean' = clean /\ out' = out
    BY <1>7 DEF NothingRead, FailRead, Fail, Return
  <2> QED BY <1>4, <2>1, <2>2
<1>8. CASE \/ FailRead("ResponseMalformed") /\ UNCHANGED scratch
           \/ FailRead("ResponseTooLarge") /\ UNCHANGED scratch
  <2>1. scratch' = scratch /\ scratch' \in Nat /\ scratch' >= scratch
    BY <1>0, <1>8
  <2>2. UNCHANGED <<cur, base>> /\ pc' = "idle" /\ clean' = FALSE /\ out'.tag = "err"
    BY <1>8 DEF FailRead, Fail, Return
  <2> QED BY <1>4, <2>1, <2>2
<1>9. CASE pc' = "pumpHdr" /\ UNCHANGED <<out, cur, base, clean>> /\ UNCHANGED scratch
  BY <1>0, <1>4, <1>9
<1>10. CASE /\ n > 0 /\ Filled + n >= HdrLen /\ Filled + n < Total
            /\ pc' \in {"pumpBody", "pumpChunk"}
            /\ scratch' = IF Header.frame = "len" /\ Total > scratch THEN Total ELSE scratch
            /\ UNCHANGED <<out, cur, base, clean>>
  BY <1>4, <1>6, <1>10
<1> QED BY <1>3, <1>5, <1>7, <1>8, <1>9, <1>10

LEMMA PairStep == PairInv /\ CallType /\ [Next]_vars => PairInv'
<1> SUFFICES ASSUME PairInv, CallType, [Next]_vars PROVE PairInv'
  OBVIOUS
<1> USE DEF request, env
<1>1. CASE ConnectClient
  <2>1. ASSUME NEW c, Io!Replace(c, "open"), pc' = "connecting", served' = 0, UNCHANGED out
        PROVE  PairInv'
    BY <1>1, <2>1, FreshKeepsPairing DEF ConnectClient, PairInv, StreamType, reading
  <2>2. CASE UNCHANGED <<conn, served>> /\ pc' = "failed" /\ out'.tag = "err"
    BY <1>1, <2>2 DEF ConnectClient, conn, reading, PairInv, StreamType, Offsets, InStep,
       OutcomeInv, AnswerIsOurs, Between, Reading, AfterHdr
  <2> QED BY <1>1, <2>1, <2>2 DEF ConnectClient
<1>2. CASE WaitReady
  <2>1. /\ pc \in Between /\ pc' \in Between /\ pc # "idle"
        /\ out' = out \/ out'.tag = "err"
    BY <1>2 DEF WaitReady, Between
  <2>2. out.tag # "ok"
    BY <2>1 DEF PairInv, OutcomeInv
  <2> QED BY <1>2, <2>1, <2>2, PumpKeepsPairing DEF WaitReady
<1>3. CASE Reconnect
  <2>1. ASSUME NEW c, Io!Replace(c, "open"), pc' = "reconnecting", served' = 0, clean' = TRUE,
               UNCHANGED <<out, cur, base, scratch>>
        PROVE  PairInv'
    BY <1>3, <2>1, FreshKeepsPairing DEF Reconnect
  <2>2. CASE FailRead("connect") /\ UNCHANGED <<conn, env, scratch>>
    BY <1>3, <2>2 DEF Reconnect, FailRead, Fail, Return, conn, PairInv, StreamType, Offsets,
       InStep, OutcomeInv, AnswerIsOurs, Between, Reading, AfterHdr
  <2> QED BY <1>3, <2>1, <2>2 DEF Reconnect
<1>4. CASE SendRequest
  <2>0. Ids \in Nat /\ Ids > 0 /\ pc = "send" /\ UNCHANGED <<served, callStart, execs>>
    BY <1>4 DEF SendRequest, Ids
  <2>1. CASE /\ Io!TxPush(next_id) /\ next_id' = next_id + Ids /\ cur' = next_id /\ base' = rxlo
             /\ pc' = "pumpHdr" /\ UNCHANGED <<scratch, clean, out>>
    <3>1. /\ sent' = Append(sent, next_id)
          /\ UNCHANGED <<txlo, stream, rxhi, rxlo>>
      BY <2>1 DEF Io!TxPush
    <3>2. /\ Len(sent') = Len(sent) + 1 /\ sent' \in Seq(Nat) /\ sent'[Len(sent')] = next_id
          /\ sent' # <<>>
      <4>1. sent \in Seq(Nat) /\ next_id \in Nat
        BY DEF PairInv, StreamType
      <4> QED BY <3>1, <4>1, AppendProperties
    <3>3. StreamType'
      BY <2>0, <2>1, <3>1, <3>2 DEF PairInv, StreamType, Between, Reading
    <3>4. Offsets'
      BY <2>0, <2>1, <3>1, <3>2 DEF PairInv, StreamType, Offsets, Between, Reading, AfterHdr
    <3>5. InStep'
      <4> SUFFICES ASSUME clean
                   PROVE  sent'[Len(sent')] = cur' /\ callStart' <= cur' /\ AnswerToCome'
        BY <2>1, <3>2 DEF InStep, Between, Reading
      <4>1. served = Len(sent) /\ rxlo = Len(stream)
        BY <2>0 DEF PairInv, InStep, Between
      <4> QED BY <2>0, <2>1, <3>1, <3>2, <4>1 DEF PairInv, StreamType, Offsets, AnswerToCome
    <3>6. OutcomeInv'
      BY <2>0, <2>1 DEF PairInv, OutcomeInv, AnswerIsOurs
    <3> QED BY <3>3, <3>4, <3>5, <3>6 DEF PairInv
  <2>2. CASE /\ UNCHANGED <<conn, expired, reading>> /\ pc' = "idle" /\ out'.tag = "err"
             /\ next_id' \in Nat /\ next_id' >= next_id
    <3> USE <2>0, <2>2 DEF conn, reading, PairInv
    <3>1. StreamType' /\ Offsets'
      BY DEF StreamType, Offsets, Between, Reading, AfterHdr
    <3>2. InStep'
      BY DEF InStep, Between, Reading
    <3>3. OutcomeInv'
      BY DEF OutcomeInv, AnswerIsOurs
    <3> QED BY <3>1, <3>2, <3>3
  <2>3. next_id \in Nat
    BY DEF PairInv, StreamType
  <2> QED BY <1>4, <2>0, <2>1, <2>2, <2>3 DEF SendRequest, Fail, Return
<1>5. CASE PumpRead
  <2>1. pc \in {"pumpHdr", "pumpBody", "pumpChunk"} /\ Io!Pump
        /\ UNCHANGED <<served, next_id, callStart, execs>>
    BY <1>5 DEF PumpRead
  <2>2. out.tag # "ok"
    BY <2>1 DEF PairInv, OutcomeInv
  <2>3. CASE pc' = "reconnect" /\ UNCHANGED <<reading, out>>
    BY <2>1, <2>2, <2>3, PumpKeepsPairing DEF Reading
  <2>4. CASE ~Broken(flags') /\ UNCHANGED <<reading, out>>
    <3>1. \/ pc = "pumpHdr" /\ pc' = "popHdr"
          \/ pc = "pumpBody" /\ pc' = "popBody"
          \/ pc = "pumpChunk" /\ pc' = "popChunk"
      BY <1>5, <2>4 DEF PumpRead
    <3> QED BY <2>1, <2>2, <2>4, <3>1, PumpKeepsPairing DEF AfterHdr
  <2>5. CASE FailRead("ConnectionClosed") /\ UNCHANGED scratch
    <3>1. /\ sent' = sent /\ stream' = stream /\ rxlo' = rxlo
          /\ rxhi' \in Nat /\ rxlo <= rxhi' /\ rxhi' <= Len(stream)
          /\ txlo' \in Nat /\ txlo <= txlo' /\ txlo' <= Len(sent)
      BY <2>1, PumpEffect DEF PairInv
    <3>2. /\ pc' = "idle" /\ clean' = FALSE /\ out'.tag = "err" /\ UNCHANGED <<cur, base, scratch>>
      BY <2>5 DEF FailRead, Fail, Return
    <3>3. StreamType'
      BY <2>1, <3>1, <3>2 DEF PairInv, StreamType, Between
    <3>4. Offsets'
      BY <2>1, <3>1, <3>2 DEF PairInv, StreamType, Offsets, Reading, AfterHdr
    <3> QED BY <3>2, <3>3, <3>4 DEF PairInv, InStep, OutcomeInv, AnswerIsOurs
  <2> QED BY <1>5, <2>3, <2>4, <2>5 DEF PumpRead
<1>6. CASE PopHeader
  BY <1>6, PopHeaderKeepsPairing
<1>7. CASE PopBody
  BY <1>7, PopRestKeepsPairing DEF PopBody, AfterHdr, PairInv, StreamType
<1>8. CASE PopChunk
  <2> DEFINE len == IF scratch - Filled < MinHeadroom THEN scratch * 2 ELSE scratch
  <2>1. len \in Nat /\ len >= scratch
    BY DEF PairInv, StreamType
  <2>2. pc \in AfterHdr /\ PopRest("pumpChunk", len)
    BY <1>8 DEF PopChunk, AfterHdr
  <2> HIDE DEF len
  <2> QED BY <2>1, <2>2, PopRestKeepsPairing DEF AfterHdr
<1>9. CASE Backoff
  <2>1. /\ UNCHANGED <<sent, txlo, stream, rxhi, rxlo, served, next_id, callStart, reading, out, execs>>
        /\ pc = "backoff" /\ pc' = "send"
    BY <1>9 DEF Backoff, conn
  <2> USE DEF PairInv, reading
  <2>2. StreamType' /\ Offsets'
    <3>1. StreamType'
      BY <2>1 DEF StreamType, Between
    <3>2. Offsets'
      BY <2>1 DEF Offsets, Reading, AfterHdr
    <3> QED BY <3>1, <3>2
  <2>3. InStep'
    BY <2>1 DEF InStep, Between, Reading
  <2>4. OutcomeInv'
    BY <2>1 DEF OutcomeInv, AnswerIsOurs
  <2> QED BY <2>2, <2>3, <2>4
<1>10. ASSUME NEW o \in {"call", "batch"}, StartCall(o) PROVE PairInv'
  <2>1. /\ UNCHANGED <<sent, txlo, stream, rxhi, rxlo, served, next_id, reading>>
        /\ callStart' = next_id /\ execs' = 0 /\ out' = None
        /\ pc = "idle" /\ pc' = "send"
    BY <1>10 DEF StartCall, conn
  <2> USE DEF PairInv, reading
  <2>2. StreamType' /\ Offsets'
    BY <2>1 DEF StreamType, Offsets, Between, Reading, AfterHdr
  <2>3. InStep'
    BY <2>1 DEF InStep, Between, Reading
  <2>4. OutcomeInv'
    BY <2>1 DEF OutcomeInv, AnswerIsOurs, None
  <2> QED BY <2>2, <2>3, <2>4
<1>11. ASSUME NEW k \in Kinds, NEW f \in Frames, Serve(k, f) PROVE PairInv'
  <2> DEFINE i == sent[served + 1]
             r == Response(i, k, f)
  <2>0. /\ stream' = stream \o r /\ served < txlo /\ served' = served + 1
        /\ execs' = Executed(i, k)
        /\ UNCHANGED <<sent, txlo, rxhi, rxlo, pc, next_id, callStart, reading, out>>
    BY <1>11 DEF Serve, Io!PeerWrite
  <2>1. i \in Nat
    BY <2>0 DEF PairInv, StreamType, Offsets
  <2>2. r \in Seq(Tokens) /\ Len(r) = Total /\ Total \in Nat /\ Total > 0
    BY <2>1, ResponseType DEF Total
  <2>3. \A p \in 1..Total : r[p].id = i /\ r[p].part = p /\ r[p].kind = k
    <3>1. \A p \in 1..Total : r[p] = [id |-> i, part |-> p, kind |-> k, frame |-> f]
      BY <2>1, ResponseType
    <3>2. ASSUME NEW p \in 1..Total PROVE r[p].id = i /\ r[p].part = p /\ r[p].kind = k
      <4> HIDE DEF r, i
      <4>1. r[p] = [id |-> i, part |-> p, kind |-> k, frame |-> f]
        BY <3>1
      <4> QED BY ONLY <4>1
    <3> QED BY <3>2
  <2> HIDE DEF r
  <2>4. /\ stream' \in Seq(Tokens) /\ Len(stream') = Len(stream) + Total
        /\ \A p \in 1..Total : stream'[Len(stream) + p] = r[p]
    <3>1. stream \in Seq(Tokens)
      BY DEF PairInv, StreamType
    <3>2. /\ stream \o r \in Seq(Tokens) /\ Len(stream \o r) = Len(stream) + Len(r)
          /\ \A p \in 1..Len(r) : (stream \o r)[Len(stream) + p] = r[p]
      BY <2>2, <3>1, AfterConcat
    <3> QED BY ONLY <2>0, <2>2, <3>2
  <2>5. execs' \in Nat /\ execs' >= execs /\ (callStart <= i /\ k # "busy" => execs' >= 1)
    BY <2>0, <2>1 DEF Executed, PairInv, StreamType
  <2>6. StreamType' /\ Offsets'
    <3>0. /\ StreamType /\ Offsets /\ served' = served + 1 /\ served < txlo
          /\ UNCHANGED <<sent, txlo, rxhi, rxlo, pc, next_id, callStart, out>>
          /\ UNCHANGED <<cur, base, scratch, clean>>
      BY <2>0 DEF PairInv, reading
    <3>1. StreamType'
      BY ONLY <2>4, <2>5, <3>0 DEF StreamType
    <3>2. Offsets'
      <4>1. /\ served \in Nat /\ txlo \in Nat /\ rxhi \in Nat /\ Len(stream) \in Nat
            /\ Total \in Nat
        BY ONLY <2>2, <3>0 DEF StreamType
      <4>2. rxhi <= Len(stream')
        BY ONLY <2>4, <3>0, <4>1 DEF Offsets
      <4>3. served' <= txlo
        BY ONLY <3>0, <4>1
      <4> QED BY ONLY <3>0, <4>2, <4>3 DEF Offsets
    <3> QED BY <3>1, <3>2
  <2>7. InStep'
    <3> SUFFICES ASSUME clean
                 PROVE  /\ pc \notin Between
                        /\ AnswerHere' /\ sent # <<>> /\ sent[Len(sent)] = cur
                        /\ callStart <= cur
      BY <2>0 DEF InStep, reading
    <3>1. pc \notin Between
      BY <2>0 DEF PairInv, InStep, StreamType, Offsets
    <3>2. pc \in Reading \cup {"reconnect"}
      BY <3>1 DEF PairInv, StreamType
    <3>3. AnswerHere' /\ sent # <<>> /\ sent[Len(sent)] = cur /\ callStart <= cur
      <4>1. served = Len(sent) - 1 /\ Len(stream) = base
        BY <2>0, <3>2 DEF PairInv, InStep, StreamType, Offsets, AnswerHere, AnswerToCome
      <4>2. i = cur /\ sent # <<>> /\ sent[Len(sent)] = cur /\ callStart <= cur
        BY <3>2, <4>1 DEF PairInv, InStep, StreamType
      <4>3. base' = base /\ cur' = cur /\ base \in Nat
        BY <2>0 DEF reading, PairInv, StreamType
      <4>4. \A p \in 1..Total : stream'[base + p].id = cur /\ stream'[base + p].part = p
                                  /\ stream'[base + p].kind = k
        BY <2>3, <2>4, <4>1, <4>2
      <4>5. stream'[base + 1].kind = k
        BY <2>2, <4>4
      <4>6. served' = Len(sent') /\ Len(stream') = base' + Total
        BY <2>0, <2>4, <4>1, <4>3 DEF PairInv, StreamType
      <4>7. stream'[base' + 1].kind # "busy" => execs' >= 1
        BY <2>5, <4>2, <4>3, <4>5
      <4>8. AnswerHere'
        BY <4>3, <4>4, <4>6, <4>7 DEF AnswerHere
      <4> QED BY <4>2, <4>8
    <3> QED BY <3>1, <3>3
  <2>8. OutcomeInv'
    BY <2>0, <2>5 DEF PairInv, StreamType, OutcomeInv, AnswerIsOurs, reading
  <2> QED BY <2>6, <2>7, <2>8 DEF PairInv
<1>12. ASSUME NEW i \in orphans, ServeOrphan(i) PROVE PairInv'
  <2>1. /\ UNCHANGED <<sent, txlo, stream, rxhi, rxlo, served, pc, next_id, callStart, reading, out>>
        /\ execs' \in Nat /\ execs' >= execs
    BY <1>12 DEF ServeOrphan, Executed, conn, PairInv, StreamType
  <2> USE DEF PairInv, reading
  <2>2. StreamType' /\ Offsets'
    BY <2>1 DEF StreamType, Offsets
  <2>3. InStep'
    BY <2>1 DEF StreamType, InStep, AnswerHere, AnswerToCome
  <2>4. OutcomeInv'
    BY <2>1 DEF StreamType, OutcomeInv, AnswerIsOurs
  <2> QED BY <2>2, <2>3, <2>4
<1>13. CASE (\E t \in Timeouts : SetTimeout(t)) \/ ServerGone \/ Expire \/ UNCHANGED vars
  BY <1>13, PairFrame DEF SetTimeout, ServerGone, Io!PeerGone, Io!rings, Expire, vars, conn
<1>14. CASE PopTrickle
  <2>1. /\ UNCHANGED <<conn, env, next_id, callStart, execs, out, cur, base, clean>>
        /\ pc = "popChunk" /\ pc' = "pumpChunk" /\ scratch' \in {scratch, scratch * 2}
    BY <1>14 DEF PopTrickle, request
  <2>2. scratch \in Nat /\ scratch' \in Nat /\ scratch' >= scratch
    BY <2>1 DEF PairInv, StreamType
  <2> USE DEF PairInv
  <2>3. StreamType' /\ Offsets'
    BY <2>1, <2>2 DEF conn, env, StreamType, Offsets, Between, Reading, AfterHdr
  <2>4. InStep'
    BY <2>1 DEF conn, env, InStep, AnswerHere, AnswerToCome, Between, Reading
  <2>5. OutcomeInv'
    BY <2>1 DEF OutcomeInv, AnswerIsOurs, Reading
  <2> QED BY <2>3, <2>4, <2>5
<1> QED BY <1>1, <1>2, <1>3, <1>4, <1>5, <1>6, <1>7, <1>8, <1>9, <1>10, <1>11, <1>12, <1>13,
        <1>14 DEF Next, Client

LEMMA InitPairs == Init => PairInv /\ CallInv
<1> SUFFICES ASSUME Init PROVE PairInv /\ CallInv
  OBVIOUS
<1>1. 0 \in 0..MaxRetries /\ 1 - 1 = 0
  OBVIOUS
<1>2. CallInv
  BY <1>1 DEF Init, CallInv, CallType, SendsSoFar, Sends, Between, Reading
<1>3. StreamType /\ Offsets
  BY DEF Init, Io!Init, StreamType, Offsets, Between, Reading, AfterHdr
<1>4. InStep /\ OutcomeInv
  BY DEF Init, Io!Init, InStep, OutcomeInv, AnswerIsOurs, None, Between, Reading
<1> QED BY <1>2, <1>3, <1>4 DEF PairInv

LEMMA PairInvariant == Spec => []PairInv
<1>1. CallInv => CallType
  BY DEF CallInv
<1> QED BY <1>1, InitPairs, CallStep, PairStep, PTL DEF Spec

\* For every buffer size, response length, framing and number of retries, and
\* every order in which the server, the network and the clock act: a call that
\* succeeds on a connection all of whose reads were whole returns the answer to
\* its own request.
THEOREM AnswersPaired == Spec => []AnswerIsOurs
<1>1. PairInv => AnswerIsOurs
  BY DEF PairInv, OutcomeInv
<1> QED BY <1>1, PairInvariant, PTL

\* Between calls such a connection is drained.
THEOREM CleanDrained == Spec => []CleanMeansDrained
<1>1. PairInv => CleanMeansDrained
  BY DEF PairInv, InStep, CleanMeansDrained, Between
<1> QED BY <1>1, PairInvariant, PTL

\* And while the streams are in step, a second copy of a request is never written
\* beside one that still waits for the server: it is on another connection, or it
\* follows the answer to the first.
THEOREM OneCopyLives == Spec => []OneLiveCopy
<1>1. PairInv => OneLiveCopy
  <2> SUFFICES ASSUME PairInv, clean
               PROVE  Cardinality({i \in served + 1..Len(sent) : sent[i] >= callStart}) <= 1
    BY DEF OneLiveCopy
  <2> DEFINE live == {i \in served + 1..Len(sent) : sent[i] >= callStart}
  <2>1. served \in Nat /\ Len(sent) \in Nat /\ Len(sent) - 1 <= served
    BY DEF PairInv, StreamType, InStep, AnswerHere, AnswerToCome
  <2>2. live \subseteq {Len(sent)}
    BY <2>1
  <2>3. IsFiniteSet({Len(sent)}) /\ Cardinality({Len(sent)}) = 1
    BY FS_Singleton
  <2>4. Cardinality(live) <= Cardinality({Len(sent)})
    BY <2>2, <2>3, FS_Subset
  <2> QED BY <2>3, <2>4
<1> QED BY <1>1, PairInvariant, PTL

-----------------------------------------------------------------------------
\* The two ways a pop can end: it completes the response, all of it or as much as
\* a framing without an end gives, or the read goes on or is given up.
Completes(n, len) ==
  /\ rxlo' = rxlo + n /\ rxlo + n <= rxhi /\ rxlo + n > base
  /\ Header.frame = "none" \/ Filled + n >= Total
  /\ pc \in AfterHdr \/ Header.part = 1
  /\ Complete(Header, Filled + n, len)

ReadsOn ==
  /\ UNCHANGED <<cur, base>>
  /\ \/ pc' = "idle" /\ clean' = FALSE /\ out'.tag = "err"
     \/ pc' \in Reading /\ clean' = clean /\ out' = out
  /\ pc' \in AfterHdr => pc \in AfterHdr \/ Header.part = 1

LEMMA PopRestCases ==
  ASSUME PairInv, pc \in AfterHdr, NEW loop \in AfterHdr, NEW len \in Nat, len >= scratch,
         PopRest(loop, len)
  PROVE  /\ UNCHANGED <<io, sent, stream, txlo, rxhi, env, timeout, next_id, request, execs>>
         /\ (\E n \in Nat : Completes(n, len)) \/ ReadsOn
<1> DEFINE n == Io!RxPopLen(len - Filled)
<1>0. Filled = rxlo - base /\ Filled \in Nat /\ len - Filled \in Nat /\ Filled > 0
  BY DEF PairInv, AfterHdr, Reading, Filled, StreamType, Offsets
<1>1. n \in 0..(len - Filled) /\ rxlo' = rxlo + n /\ rxlo' <= rxhi
  BY <1>0, PopEffect DEF PopRest, PairInv
<1>2. UNCHANGED <<io, sent, stream, txlo, rxhi, env, timeout, next_id, request, execs>>
  BY DEF PopRest, Io!RxPop
<1> HIDE DEF n
<1>3. \/ n = 0 /\ NothingRead(loop)
      \/ Filled + n >= Total /\ Complete(Header, Filled + n, len)
      \/ pc' = loop /\ UNCHANGED <<out, cur, base, clean>>
  BY DEF PopRest, n
<1>4. CASE Filled + n >= Total /\ Complete(Header, Filled + n, len)
  <2>1. n \in Nat /\ rxlo + n > base
    BY <1>0, <1>1 DEF PairInv, StreamType
  <2>2. Completes(n, len)
    BY <1>1, <1>4, <2>1 DEF Completes, AfterHdr
  <2> QED BY <1>2, <2>1, <2>2
<1>5. CASE (n = 0 /\ NothingRead(loop)) \/ (pc' = loop /\ UNCHANGED <<out, cur, base, clean>>)
  BY <1>2, <1>5 DEF ReadsOn, NothingRead, FailRead, Fail, Return, AfterHdr, Reading
<1> QED BY <1>3, <1>4, <1>5

LEMMA PopHeaderCases ==
  ASSUME PairInv, PopHeader
  PROVE  /\ UNCHANGED <<io, sent, stream, txlo, rxhi, env, timeout, next_id, request, execs>>
         /\ (\E n \in Nat, len \in Nat : Completes(n, len)) \/ ReadsOn
<1> DEFINE n == Io!RxPopLen(scratch - Filled)
           len == IF Header.frame = "len" /\ Total > scratch THEN Total ELSE scratch
<1>0. /\ pc = "popHdr" /\ Filled = rxlo - base /\ Filled \in Nat /\ scratch - Filled \in Nat
      /\ Total \in Nat /\ scratch \in Nat /\ len \in Nat
  BY DEF PairInv, PopHeader, Reading, Filled, StreamType, Offsets, Total
<1>1. n \in 0..(scratch - Filled) /\ rxlo' = rxlo + n /\ rxlo' <= rxhi
  BY <1>0, PopEffect DEF PopHeader, PairInv
<1>2. UNCHANGED <<io, sent, stream, txlo, rxhi, env, timeout, next_id, request, execs>>
  BY DEF PopHeader, Io!RxPop
<1>3. \/ n = 0 /\ NothingRead("pumpHdr")
      \/ FailRead("ResponseMalformed") \/ FailRead("ResponseTooLarge")
      \/ pc' = "pumpHdr" /\ UNCHANGED <<out, cur, base, clean>>
      \/ /\ n > 0 /\ Header.part = 1
         /\ Header.frame = "none" \/ Filled + n >= Total
         /\ Complete(Header, Filled + n, len)
      \/ /\ Header.part = 1 /\ pc' \in {"pumpBody", "pumpChunk"}
         /\ UNCHANGED <<out, cur, base, clean>>
  BY DEF PopHeader
<1> HIDE DEF n, len
<1>4. CASE /\ n > 0 /\ Header.part = 1
           /\ Header.frame = "none" \/ Filled + n >= Total
           /\ Complete(Header, Filled + n, len)
  <2>1. n \in Nat /\ rxlo + n > base
    BY <1>0, <1>1, <1>4 DEF PairInv, StreamType
  <2>2. Completes(n, len)
    BY <1>1, <1>4, <2>1 DEF Completes
  <2> QED BY <1>0, <1>2, <2>1, <2>2
<1>5. CASE \/ n = 0 /\ NothingRead("pumpHdr")
           \/ FailRead("ResponseMalformed") \/ FailRead("ResponseTooLarge")
           \/ pc' = "pumpHdr" /\ UNCHANGED <<out, cur, base, clean>>
           \/ /\ Header.part = 1 /\ pc' \in {"pumpBody", "pumpChunk"}
              /\ UNCHANGED <<out, cur, base, clean>>
  BY <1>2, <1>5 DEF ReadsOn, NothingRead, FailRead, Fail, Return, AfterHdr, Reading
<1> QED BY <1>3, <1>4, <1>5

LEMMA PopCases ==
  ASSUME PairInv, PopHeader \/ PopBody \/ PopChunk \/ PopTrickle
  PROVE  /\ pc \in Reading
         /\ UNCHANGED <<io, sent, stream, txlo, rxhi, env, timeout, next_id, request, execs>>
         /\ (\E n \in Nat, len \in Nat : Completes(n, len)) \/ ReadsOn
<1>1. CASE PopHeader
  BY <1>1, PopHeaderCases DEF PopHeader, Reading
<1>2. CASE PopBody
  <2>1. pc \in AfterHdr /\ pc \in Reading /\ scratch \in Nat /\ PopRest("pumpBody", scratch)
    BY <1>2 DEF PopBody, AfterHdr, Reading, PairInv, StreamType
  <2> QED BY <2>1, PopRestCases DEF AfterHdr
<1>3. CASE PopChunk
  <2> DEFINE l == IF scratch - Filled < MinHeadroom THEN scratch * 2 ELSE scratch
  <2>1. l \in Nat /\ l >= scratch
    BY DEF PairInv, StreamType
  <2>2. pc \in AfterHdr /\ pc \in Reading /\ PopRest("pumpChunk", l)
    BY <1>3 DEF PopChunk, AfterHdr, Reading
  <2> HIDE DEF l
  <2> QED BY <2>1, <2>2, PopRestCases DEF AfterHdr
<1>4. CASE PopTrickle
  <2>1. /\ UNCHANGED <<conn, env, timeout, next_id, request, execs, out, cur, base, clean>>
        /\ pc = "popChunk" /\ pc' = "pumpChunk"
    BY <1>4 DEF PopTrickle
  <2> QED BY <2>1 DEF ReadsOn, conn, Reading, AfterHdr
<1> QED BY <1>1, <1>2, <1>3, <1>4

-----------------------------------------------------------------------------
(* A connection that failed answers nothing.  What makes it so: requests   *)
(* leave the TX ring only in READY, and a read that meets a failure on a   *)
(* connection that was READY spoils it (or replaces it).  So a clean       *)
(* connection in any other state never had anything for the server.        *)

Silence ==
  /\ pc \in {"start", "connecting", "reconnecting"} => sent = <<>>
  /\ clean /\ io.state # "READY" /\ pc # "reconnect" => txlo = 0
  /\ DeadConnectionIsSilent

\* What a pump does to the state of the connection and to the TX ring.
LEMMA PumpState ==
  ASSUME io \in Io!IoRecords, Io!Pump
  PROVE  /\ io.state # "READY" => txlo' = txlo
         /\ io.state = "READY" /\ io'.state # "READY" => Broken(flags')
<1> USE DEF Io!IoRecords, Io!States, Io!rings
<1>1. CASE Io!PumpConnecting
  BY <1>1 DEF Io!PumpConnecting
<1>2. CASE Io!PumpTls
  BY <1>2 DEF Io!PumpTls
<1>3. CASE Io!PumpReady
  <2>1. CASE Io!PumpRxFails
    BY <2>1 DEF Io!PumpRxFails, Broken
  <2>2. CASE Io!PumpMoves
    BY <2>2 DEF Io!PumpMoves
  <2>3. CASE Io!PumpTxFails
    BY <2>3 DEF Io!PumpTxFails, Broken
  <2> QED BY <1>3, <2>1, <2>2, <2>3 DEF Io!PumpReady
<1>4. CASE Io!PumpDefault
  BY <1>4 DEF Io!PumpDefault
<1> QED BY <1>1, <1>2, <1>3, <1>4 DEF Io!Pump

\* The struct of a connection just made, and the struct a pump leaves, have their type.
LEMMA FreshIoType ==
  ASSUME io \in Io!IoRecords, NEW c \in Io!ConnectOk(Io!NewIo)
  PROVE  Io!Successor(c) \in Io!IoRecords
<1> USE DEF Io!IoRecords, Io!States, Io!OsObjects
<1>1. Io!NewIo \in Io!IoRecords
  BY DEF Io!NewIo
<1>2. \A next \in Io!States :
        Io!ConnectTls(Io!NewIo, next) \in Io!IoRecords /\ Io!ConnectPlain(Io!NewIo, next) \in Io!IoRecords
  BY <1>1 DEF Io!ConnectTls, Io!ConnectPlain
<1>3. c \in Io!IoRecords
  BY <1>2 DEF Io!ConnectOk
<1>4. Io!CloseIo(io).os \subseteq Io!OsObjects
  BY DEF Io!CloseIo
<1> QED BY <1>3, <1>4 DEF Io!Successor

LEMMA PumpIoType ==
  ASSUME io \in Io!IoRecords, Io!Pump
  PROVE  io' \in Io!IoRecords
<1>1. \/ io' = io
      \/ \E st \in Io!States : io' = [io EXCEPT !.state = st]
      \/ io' = [io EXCEPT !.state = "READY", !.ssl_hs_done = TRUE]
  BY DEF Io!Pump, Io!PumpConnecting, Io!PumpTls, Io!PumpReady, Io!PumpRxFails, Io!PumpMoves,
         Io!PumpTxFails, Io!PumpDefault, Io!States
<1>2. ASSUME NEW st \in Io!States PROVE [io EXCEPT !.state = st] \in Io!IoRecords
  BY <1>2 DEF Io!IoRecords
<1>3. [io EXCEPT !.state = "READY", !.ssl_hs_done = TRUE] \in Io!IoRecords
  BY DEF Io!IoRecords, Io!States
<1> QED BY <1>1, <1>2, <1>3, Zenon

SilenceInv == io \in Io!IoRecords /\ Silence

\* Only these variables matter, and outside the READY state only steps that push
\* or pump could break it.
LEMMA SilenceFrame ==
  ASSUME SilenceInv, UNCHANGED <<io, sent, txlo, pc, clean, out>>
  PROVE  SilenceInv'
  BY DEF SilenceInv, Silence, DeadConnectionIsSilent

\* The end of a read leaves the connection alone, and an answer read off a clean
\* connection is one the server sent over it.
LEMMA CompleteKeepsSilence ==
  ASSUME PairInv, SilenceInv, pc \in Reading, NEW n \in Nat, NEW len,
         UNCHANGED <<io, sent, txlo>>, rxlo + n <= rxhi, rxlo + n > base,
         Complete(Header, Filled + n, len)
  PROVE  SilenceInv'
<1>0. /\ clean' = (clean /\ Filled + n >= Total)
      /\ pc' \in {"idle", "backoff"}
      /\ out'.tag = "ok" => out' = out \/ out'.clean = clean
  BY DEF Complete, Fail, Return
<1>1. out.tag # "ok"
  BY DEF PairInv, OutcomeInv, Reading
<1>2. clean => AnswerHere
  BY DEF PairInv, InStep, AnswerToCome, StreamType, Offsets
<1>3. clean => txlo > 0
  BY <1>2 DEF PairInv, InStep, AnswerHere, StreamType, Offsets
<1>4. clean => io.state = "READY"
  BY <1>3 DEF SilenceInv, Silence, Reading
<1> QED BY <1>0, <1>1, <1>4 DEF SilenceInv, Silence, DeadConnectionIsSilent

\* A read that goes on, or is given up.
LEMMA ReadOnKeepsSilence ==
  ASSUME SilenceInv, pc \in Reading, out.tag # "ok", UNCHANGED <<io, sent, txlo>>,
         \/ pc' = "idle" /\ clean' = FALSE /\ out'.tag = "err"
         \/ pc' \in Reading /\ clean' = clean /\ out' = out
  PROVE  SilenceInv'
  BY DEF SilenceInv, Silence, DeadConnectionIsSilent, Reading

LEMMA SilenceStep == SilenceInv /\ PairInv /\ [Next]_vars => SilenceInv'
<1> SUFFICES ASSUME SilenceInv, PairInv, [Next]_vars PROVE SilenceInv'
  OBVIOUS
<1> USE DEF request, env
<1>0. sent \in Seq(Nat) /\ txlo \in Nat /\ txlo <= Len(sent) /\ (pc # "idle" => out.tag # "ok")
  BY DEF PairInv, StreamType, Offsets, OutcomeInv
<1>1. ASSUME NEW c \in Io!ConnectOk(Io!NewIo), Io!Replace(c, "open"), pc # "idle", pc' # "idle",
             UNCHANGED out
      PROVE  SilenceInv'
  <2>1. io' \in Io!IoRecords /\ sent' = <<>> /\ txlo' = 0
    BY <1>1, FreshIoType DEF Io!Replace, SilenceInv
  <2> QED BY <1>0, <1>1, <2>1 DEF SilenceInv, Silence, DeadConnectionIsSilent
<1>2. CASE ConnectClient
  <2>1. CASE UNCHANGED <<conn, served>> /\ out'.tag = "err" /\ pc' = "failed"
    BY <1>2, <2>1 DEF ConnectClient, conn, reading, SilenceInv, Silence, DeadConnectionIsSilent
  <2> QED BY <1>1, <1>2, <2>1 DEF ConnectClient
<1>3. CASE WaitReady
  <2>1. io' \in Io!IoRecords /\ sent' = sent /\ txlo' \in Nat /\ txlo' <= Len(sent)
    BY <1>3, PumpIoType, PumpEffect DEF WaitReady, SilenceInv, PairInv
  <2>2. sent = <<>> /\ pc # "idle" /\ (out' = out \/ out'.tag = "err")
    BY <1>3 DEF WaitReady, SilenceInv, Silence
  <2> QED BY <1>0, <2>1, <2>2 DEF SilenceInv, Silence, DeadConnectionIsSilent
<1>4. CASE Reconnect
  <2>1. CASE FailRead("connect") /\ UNCHANGED conn
    BY <2>1 DEF FailRead, Fail, Return, conn, SilenceInv, Silence, DeadConnectionIsSilent
  <2> QED BY <1>1, <1>4, <2>1 DEF Reconnect
<1>5. CASE SendRequest
  <2>1. CASE Io!TxPush(next_id) /\ pc' = "pumpHdr" /\ UNCHANGED <<clean, out>>
    BY <1>0, <1>5, <2>1 DEF SendRequest, Io!TxPush, SilenceInv, Silence, DeadConnectionIsSilent
  <2>2. CASE UNCHANGED <<conn, reading>> /\ out'.tag = "err" /\ pc' = "idle"
    BY <1>5, <2>2 DEF SendRequest, conn, reading, SilenceInv, Silence, DeadConnectionIsSilent
  <2> QED BY <1>5, <2>1, <2>2 DEF SendRequest, Fail, Return
<1>6. CASE PumpRead
  <2>1. io' \in Io!IoRecords /\ sent' = sent
        /\ (io.state # "READY" => txlo' = txlo)
        /\ (io.state = "READY" /\ io'.state # "READY" => Broken(flags'))
    BY <1>6, PumpIoType, PumpEffect, PumpState DEF PumpRead, SilenceInv, PairInv
  <2>2. pc \in Reading /\ out.tag # "ok"
    BY <1>0, <1>6 DEF PumpRead, Reading
  <2>3. \/ pc' \in Reading /\ ~Broken(flags') /\ UNCHANGED <<clean, out>>
        \/ pc' = "reconnect" /\ UNCHANGED <<clean, out>>
        \/ clean' = FALSE /\ out'.tag = "err" /\ pc' = "idle"
    BY <1>6 DEF PumpRead, reading, FailRead, Fail, Return, Reading
  <2> QED BY <2>1, <2>2, <2>3 DEF SilenceInv, Silence, DeadConnectionIsSilent, Reading
<1>7. CASE PopHeader \/ PopBody \/ PopChunk \/ PopTrickle
  <2>1. pc \in Reading /\ UNCHANGED <<io, sent, txlo>>
        /\ ((\E n \in Nat, len \in Nat : Completes(n, len)) \/ ReadsOn)
    BY <1>7, PopCases
  <2>2. ASSUME NEW n \in Nat, NEW len \in Nat, Completes(n, len) PROVE SilenceInv'
    BY <2>1, <2>2, CompleteKeepsSilence DEF Completes
  <2>3. CASE ReadsOn
    <3>1. out.tag # "ok"
      BY <1>0, <2>1 DEF Reading
    <3> QED BY <2>1, <2>3, <3>1, ReadOnKeepsSilence DEF ReadsOn
  <2> QED BY <2>1, <2>2, <2>3
<1>8. CASE Backoff
  BY <1>8 DEF Backoff, conn, reading, SilenceInv, Silence, DeadConnectionIsSilent
<1>9. ASSUME NEW o \in {"call", "batch"}, StartCall(o) PROVE SilenceInv'
  BY <1>9 DEF StartCall, conn, reading, None, SilenceInv, Silence, DeadConnectionIsSilent
<1>10. CASE \/ \E t \in Timeouts : SetTimeout(t)
            \/ \E k \in Kinds, f \in Frames : Serve(k, f)
            \/ \E i \in orphans : ServeOrphan(i)
            \/ ServerGone \/ Expire \/ UNCHANGED vars
  BY <1>10, SilenceFrame DEF SetTimeout, Serve, Io!PeerWrite, ServeOrphan, ServerGone, Io!PeerGone,
     Io!rings, Expire, vars, conn, reading
<1> QED BY <1>2, <1>3, <1>4, <1>5, <1>6, <1>7, <1>8, <1>9, <1>10 DEF Next, Client

\* A call never succeeds, on a connection whose reads were all whole, once the
\* connection has failed: fd_rpc_io_pump returns no flag on it, and there is
\* nothing in its RX ring to be taken for an answer.
THEOREM DeadConnectionsSilent == Spec => []DeadConnectionIsSilent
<1>1. Init => SilenceInv
  BY DEF Init, Io!Init, Io!NewIo, Io!IoRecords, Io!States, Io!OsObjects, None, SilenceInv, Silence,
         DeadConnectionIsSilent
<1>2. SilenceInv => DeadConnectionIsSilent
  BY DEF SilenceInv, Silence
<1> QED BY <1>1, <1>2, SilenceStep, PairInvariant, PTL DEF Spec

-----------------------------------------------------------------------------
(* What the peer wrote is whole responses, one after the other, so a body  *)
(* that begins at a header and has its length is one response's.           *)

WholeResponses ==
  \A i \in 1..Len(stream) : stream[i].part = 1 =>
    /\ i + Total <= Len(stream) + 1
    /\ \A p \in 1..Total : stream[i + p - 1] = [stream[i] EXCEPT !.part = p]

BodyInv ==
  /\ WholeResponses
  /\ pc \in AfterHdr => Header.part = 1
  /\ BodyIntact

\* One more response leaves the stream one of whole responses.
LEMMA ServeKeepsWhole ==
  ASSUME PairInv, WholeResponses, NEW k \in Kinds, NEW f \in Frames, Serve(k, f)
  PROVE  WholeResponses' /\ \A i \in 1..Len(stream) : stream'[i] = stream[i]
<1> DEFINE j == sent[served + 1]
           r == Response(j, k, f)
<1>0. stream' = stream \o r /\ stream \in Seq(Tokens) /\ Total \in Nat /\ Total > 0
  BY DEF Serve, Io!PeerWrite, PairInv, StreamType, Total
<1>6. j \in Nat
  BY DEF Serve, PairInv, StreamType, Offsets
<1>1. r \in Seq(Tokens) /\ Len(r) = Total
  BY <1>6, ResponseType
<1>2. \A p \in 1..Total : r[p] = [id |-> j, part |-> p, kind |-> k, frame |-> f]
  BY <1>6, ResponseType
<1> HIDE DEF r, j
<1>3. /\ stream \o r \in Seq(Tokens) /\ Len(stream \o r) = Len(stream) + Len(r)
      /\ \A p \in 1..Len(r) : (stream \o r)[Len(stream) + p] = r[p]
  BY <1>0, <1>1, AfterConcat
<1>7. \A p \in 1..Len(stream) : (stream \o r)[p] = stream[p]
  BY <1>0, <1>1, BeforeConcat
<1>4. /\ Len(stream) \in Nat /\ Len(stream') = Len(stream) + Total /\ stream' \in Seq(Tokens)
      /\ \A i \in 1..Len(stream) : stream'[i] = stream[i]
      /\ \A p \in 1..Total : stream'[Len(stream) + p] = r[p]
  BY ONLY <1>0, <1>1, <1>3, <1>7, LenProperties
<1>5. ASSUME NEW i \in 1..Len(stream'), stream'[i].part = 1
      PROVE  /\ i + Total <= Len(stream') + 1
             /\ \A p \in 1..Total : stream'[i + p - 1] = [stream'[i] EXCEPT !.part = p]
  <2>0. Len(stream) \in Nat /\ Total \in Nat /\ i \in 1..(Len(stream) + Total)
    BY <1>0, <1>4
  <2>1. CASE i <= Len(stream)
    <3>1. i \in 1..Len(stream) /\ stream[i].part = 1
      BY <1>4, <1>5, <2>0, <2>1
    <3>2. /\ i + Total <= Len(stream) + 1
          /\ \A p \in 1..Total : stream[i + p - 1] = [stream[i] EXCEPT !.part = p]
      BY <3>1 DEF WholeResponses
    <3>3. \A p \in 1..Total : i + p - 1 \in 1..Len(stream)
      <4>1. i \in Nat /\ i >= 1 /\ i + Total <= Len(stream) + 1
        BY <3>1, <3>2
      <4> QED BY ONLY <2>0, <4>1
    <3>4. \A p \in 1..Total : stream'[i + p - 1] = stream[i + p - 1] /\ stream'[i] = stream[i]
      BY <1>4, <3>1, <3>3
    <3>5. i + Total <= Len(stream') + 1
      <4>1. i + Total <= Len(stream) + 1 /\ Len(stream') = Len(stream) + Total
        BY ONLY <1>4, <3>2
      <4>2. Len(stream) \in Nat /\ Total \in Nat /\ i \in Nat
        BY ONLY <2>0
      <4> QED BY ONLY <4>1, <4>2
    <3> QED BY ONLY <3>2, <3>4, <3>5
  <2>2. CASE i > Len(stream)
    <3>1. PICK q \in 1..Total : i = Len(stream) + q
      <4>1. i - Len(stream) \in 1..Total /\ i = Len(stream) + (i - Len(stream))
        BY <2>0, <2>2
      <4> QED BY <4>1
    <3>2. stream'[i] = [id |-> j, part |-> q, kind |-> k, frame |-> f]
      BY <1>2, <1>4, <3>1
    <3>3. q = 1
      BY <1>5, <3>2
    <3>4. \A p \in 1..Total : i + p - 1 = Len(stream) + p
      BY <2>0, <3>1, <3>3
    <3>5. ASSUME NEW p \in 1..Total PROVE stream'[i + p - 1] = [stream'[i] EXCEPT !.part = p]
      <4>1. stream'[i + p - 1] = [id |-> j, part |-> p, kind |-> k, frame |-> f]
        BY <1>2, <1>4, <3>4
      <4>2. [stream'[i] EXCEPT !.part = p] = [id |-> j, part |-> p, kind |-> k, frame |-> f]
        BY ONLY <3>2
      <4> QED BY <4>1, <4>2
    <3>6. i + Total <= Len(stream') + 1
      BY <1>4, <2>0, <3>1, <3>3
    <3> QED BY ONLY <3>5, <3>6
  <2> QED BY ONLY <2>0, <2>1, <2>2
<1> QED BY <1>4, <1>5 DEF WholeResponses

\* A response that Complete takes off such a stream is whole.
LEMMA CompleteKeepsBody ==
  ASSUME PairInv, BodyInv, pc \in Reading, NEW n \in Nat, NEW len \in Nat,
         UNCHANGED <<stream, rxhi>>, Completes(n, len)
  PROVE  BodyInv'
<1> DEFINE whole == /\ Filled + n >= Total
                    /\ \A p \in 1..Total : stream[base + p] = [Header EXCEPT !.part = p]
<1> DEFINE ok == [tag |-> "ok", id |-> Header.id, whole |-> whole, frame |-> Header.frame,
                  clean |-> clean]
<1>0. /\ pc' \in {"idle", "backoff"} /\ base' = base
      /\ out' = out \/ out' = [tag |-> "err", why |-> "BadStatus"]
         \/ out' = [tag |-> "err", why |-> "JsonRpc"] \/ out' = ok
  <2>1. Complete(Header, Filled + n, len)
    BY DEF Completes
  <2>2. /\ UNCHANGED <<cur, base>>
        /\ \/ pc' = "backoff" /\ UNCHANGED out
           \/ Fail("BadStatus") \/ Return(ok) \/ Fail("JsonRpc")
    BY <2>1, Zenon DEF Complete
  <2> HIDE DEF ok
  <2> QED BY <2>2 DEF Fail, Return
<1>1. out.tag # "ok"
  BY DEF PairInv, OutcomeInv, Reading
<1>2. Header.part = 1
  <2>1. CASE pc \in AfterHdr
    BY <2>1 DEF BodyInv
  <2> QED BY <2>1 DEF Completes
<1>3. base \in Nat /\ base + 1 \in 1..Len(stream)
  BY DEF PairInv, StreamType, Offsets, Completes
<1>4. \A p \in 1..Total : stream[base + p] = [Header EXCEPT !.part = p]
  <2>1. \A p \in 1..Total : stream[(base + 1) + p - 1] = [stream[base + 1] EXCEPT !.part = p]
    BY <1>2, <1>3 DEF BodyInv, WholeResponses, Header
  <2>2. \A p \in 1..Total : (base + 1) + p - 1 = base + p
    BY <1>3 DEF Total
  <2> QED BY <2>1, <2>2 DEF Header
<1>5. Header.frame = "none" \/ whole
  BY <1>4 DEF Completes
<1> HIDE DEF whole
<1>6. BodyIntact'
  BY <1>0, <1>1, <1>5 DEF BodyIntact
<1> QED BY <1>0, <1>6 DEF BodyInv, WholeResponses, AfterHdr

\* Steps that leave the stream and the outcome alone and do not pass the header.
LEMMA BodyFrame ==
  ASSUME BodyInv, stream' = stream,
         out' = out \/ out'.tag # "ok",
         pc' \in AfterHdr => base' = base /\ (pc \in AfterHdr \/ Header.part = 1)
  PROVE  BodyInv'
  BY DEF BodyInv, WholeResponses, BodyIntact, Header

LEMMA BodyStep == BodyInv /\ PairInv /\ [Next]_vars => BodyInv'
<1> SUFFICES ASSUME BodyInv, PairInv, [Next]_vars PROVE BodyInv'
  OBVIOUS
<1> USE DEF request, env, AfterHdr
<1>1. ASSUME NEW c, Io!Replace(c, "open"), pc' \notin AfterHdr, UNCHANGED out
      PROVE  BodyInv'
  <2>1. stream' = <<>>
    BY <1>1 DEF Io!Replace
  <2> QED BY <1>1, <2>1 DEF BodyInv, WholeResponses, BodyIntact
<1>2. CASE ConnectClient
  <2>1. CASE UNCHANGED <<conn, served>> /\ out'.tag = "err" /\ pc' = "failed"
    BY <2>1, BodyFrame DEF conn
  <2> QED BY <1>1, <1>2, <2>1 DEF ConnectClient
<1>3. CASE WaitReady
  <2>1. stream' = stream
    BY <1>3, PumpEffect DEF WaitReady, PairInv
  <2> QED BY <1>3, <2>1, BodyFrame DEF WaitReady
<1>4. CASE Reconnect
  <2>1. CASE FailRead("connect") /\ UNCHANGED conn
    BY <2>1, BodyFrame DEF FailRead, Fail, Return, conn
  <2> QED BY <1>1, <1>4, <2>1 DEF Reconnect
<1>5. CASE SendRequest
  BY <1>5, BodyFrame DEF SendRequest, Io!TxPush, Fail, Return, conn
<1>6. CASE PumpRead
  <2>1. stream' = stream
    BY <1>6, PumpEffect DEF PumpRead, PairInv
  <2> QED BY <1>6, <2>1, BodyFrame DEF PumpRead, reading, FailRead, Fail, Return
<1>7. CASE PopHeader \/ PopBody \/ PopChunk \/ PopTrickle
  <2>1. pc \in Reading /\ UNCHANGED <<stream, rxhi>>
        /\ ((\E n \in Nat, len \in Nat : Completes(n, len)) \/ ReadsOn)
    BY <1>7, PopCases
  <2>2. ASSUME NEW n \in Nat, NEW len \in Nat, Completes(n, len) PROVE BodyInv'
    BY <2>1, <2>2, CompleteKeepsBody
  <2>3. CASE ReadsOn
    BY <2>1, <2>3, BodyFrame DEF ReadsOn
  <2> QED BY <2>1, <2>2, <2>3
<1>8. CASE Backoff \/ \E o \in {"call", "batch"} : StartCall(o)
  BY <1>8, BodyFrame DEF Backoff, StartCall, None, conn
<1>9. ASSUME NEW k \in Kinds, NEW f \in Frames, Serve(k, f) PROVE BodyInv'
  <2>1. WholeResponses' /\ \A i \in 1..Len(stream) : stream'[i] = stream[i]
    BY <1>9, ServeKeepsWhole DEF BodyInv
  <2>2. UNCHANGED <<pc, base, out>>
    BY <1>9 DEF Serve, reading
  <2>3. pc \in AfterHdr => base + 1 \in 1..Len(stream)
    BY DEF PairInv, StreamType, Offsets, Reading
  <2>4. pc' \in AfterHdr => Header'.part = 1
    BY <2>1, <2>2, <2>3 DEF BodyInv, Header
  <2> QED BY <2>1, <2>2, <2>4 DEF BodyInv, BodyIntact
<1>10. CASE \/ \E t \in Timeouts : SetTimeout(t)
            \/ \E i \in orphans : ServeOrphan(i)
            \/ ServerGone \/ Expire \/ UNCHANGED vars
  BY <1>10, BodyFrame DEF SetTimeout, ServeOrphan, ServerGone, Io!PeerGone, Io!rings, Expire, vars,
     conn, reading
<1> QED BY <1>2, <1>3, <1>4, <1>5, <1>6, <1>7, <1>8, <1>9, <1>10 DEF Next, Client

\* A call that returns a body delimited by its length or by chunks returns one
\* response, whole, whatever the network cut it into, however small the scratch
\* buffer is to begin with, and also when the answer is to another request.
THEOREM BodiesIntact == Spec => []BodyIntact
<1>1. Init => BodyInv
  BY DEF Init, Io!Init, None, BodyInv, WholeResponses, BodyIntact, AfterHdr
<1>2. BodyInv => BodyIntact
  BY DEF BodyInv
<1> QED BY <1>1, <1>2, BodyStep, PairInvariant, PTL DEF Spec

-----------------------------------------------------------------------------
(* The client implements the safety part of RpcContract.  What the pairing *)
(* does not say: an answer of this call can only be in the stream if the   *)
(* server processed a request of it, also when the streams are out of      *)
(* step.                                                                   *)

Processed ==
  /\ \A i \in 1..Len(sent) : sent[i] < next_id
  /\ \A i \in 1..Len(stream) :
       /\ stream[i].id < next_id
       /\ stream[i].id >= callStart /\ stream[i].kind # "busy" => execs >= 1
  /\ pc \in Reading \cup {"reconnect"} => callStart <= cur

\* A call under way has no outcome.
NoOutcomeYet == pc \notin {"idle", "failed"} => out.tag = "none"

ContractInv == Processed /\ NoOutcomeYet

\* The id of every unit in the stream is a number.
LEMMA StreamIds ==
  ASSUME PairInv
  PROVE  \A i \in 1..Len(stream) : stream[i].id \in Nat
<1> SUFFICES ASSUME NEW i \in 1..Len(stream) PROVE stream[i].id \in Nat
  OBVIOUS
<1>1. stream \in Seq(Tokens)
  BY DEF PairInv, StreamType
<1>2. stream[i] \in Tokens
  BY <1>1, ElementOfSeq
<1> QED BY <1>2 DEF Tokens

LEMMA ProcessedFrame ==
  ASSUME Processed, PairInv, execs' = execs,
         UNCHANGED <<sent, stream, callStart>>, next_id' \in Nat, next_id <= next_id',
         pc' \in Reading \cup {"reconnect"} =>
            pc \in Reading \cup {"reconnect"} /\ UNCHANGED cur
  PROVE  Processed'
<1>1. \A i \in 1..Len(sent) : sent[i] \in Nat
  BY DEF PairInv, StreamType
<1>2. \A i \in 1..Len(stream) : stream[i].id \in Nat
  BY StreamIds
<1>3. next_id \in Nat
  BY DEF PairInv, StreamType
<1>4. \A i \in 1..Len(sent) : sent[i] < next_id'
  BY <1>1, <1>3 DEF Processed
<1>5. \A i \in 1..Len(stream) : stream[i].id < next_id'
  BY <1>2, <1>3 DEF Processed
<1> QED BY <1>4, <1>5 DEF Processed

LEMMA ProcessedStep == Processed /\ PairInv /\ CallInv /\ [Next]_vars => Processed'
<1> SUFFICES ASSUME Processed, PairInv, CallInv, [Next]_vars PROVE Processed'
  OBVIOUS
<1> USE DEF request, env, Reading
<1>0. next_id \in Nat
  BY DEF PairInv, StreamType
<1>1. ASSUME NEW c, Io!Replace(c, "open"), pc' \in {"connecting", "reconnecting"}
      PROVE  Processed'
  <2>1. sent' = <<>> /\ stream' = <<>>
    BY <1>1 DEF Io!Replace
  <2> QED BY <1>1, <2>1 DEF Processed
<1>2. CASE ConnectClient
  <2>1. CASE UNCHANGED <<conn, served>> /\ pc' = "failed"
    BY <1>0, <1>2, <2>1, ProcessedFrame DEF ConnectClient, conn
  <2> QED BY <1>1, <1>2, <2>1 DEF ConnectClient
<1>3. CASE WaitReady
  <2>1. sent' = sent /\ stream' = stream
    BY <1>3, PumpEffect DEF WaitReady, PairInv
  <2> QED BY <1>0, <1>3, <2>1, ProcessedFrame DEF WaitReady
<1>4. CASE Reconnect
  <2>1. CASE FailRead("connect") /\ UNCHANGED conn
    BY <1>0, <1>4, <2>1, ProcessedFrame DEF Reconnect, FailRead, Fail, Return, conn
  <2> QED BY <1>1, <1>4, <2>1 DEF Reconnect
<1>5. CASE SendRequest
  <2>0. Ids \in Nat /\ Ids > 0 /\ UNCHANGED <<callStart, execs>>
    BY <1>5 DEF SendRequest, Ids
  <2>1. CASE /\ Io!TxPush(next_id) /\ next_id' = next_id + Ids /\ cur' = next_id
             /\ pc' = "pumpHdr"
    <3>1. sent' = Append(sent, next_id) /\ stream' = stream /\ sent \in Seq(Nat)
      BY <2>1 DEF Io!TxPush, PairInv, StreamType
    <3>2. /\ \A i \in 1..Len(sent') : sent'[i] \in Nat /\ sent'[i] <= next_id
      BY <1>0, <3>1 DEF Processed
    <3>3. \A i \in 1..Len(sent') : sent'[i] < next_id'
      BY <1>0, <2>0, <2>1, <3>2
    <3>4. \A i \in 1..Len(stream) : stream[i].id \in Nat
      BY StreamIds
    <3>5. \A i \in 1..Len(stream) : stream[i].id < next_id'
      BY <1>0, <2>0, <2>1, <3>4 DEF Processed
    <3>6. callStart' <= cur'
      BY <2>0, <2>1 DEF PairInv, Offsets
    <3> QED BY <2>0, <3>1, <3>3, <3>5, <3>6 DEF Processed
  <2>2. CASE UNCHANGED conn /\ pc' = "idle" /\ next_id' \in Nat /\ next_id' >= next_id
    BY <1>0, <2>0, <2>2, ProcessedFrame DEF conn
  <2> QED BY <1>0, <1>5, <2>0, <2>1, <2>2 DEF SendRequest, Fail, Return
<1>6. CASE PumpRead
  <2>1. sent' = sent /\ stream' = stream
    BY <1>6, PumpEffect DEF PumpRead, PairInv
  <2> QED BY <1>0, <1>6, <2>1, ProcessedFrame DEF PumpRead, reading, FailRead, Fail, Return
<1>7. CASE PopHeader \/ PopBody \/ PopChunk \/ PopTrickle
  <2>1. /\ pc \in Reading /\ UNCHANGED <<sent, stream, next_id, callStart, execs>>
        /\ ((\E n \in Nat, len \in Nat : Completes(n, len)) \/ ReadsOn)
    BY <1>7, PopCases
  <2>2. UNCHANGED cur /\ pc' # "reconnect"
    BY <2>1 DEF Completes, Complete, Fail, Return, ReadsOn
  <2> QED BY <1>0, <2>1, <2>2, ProcessedFrame
<1>8. CASE Backoff
  BY <1>0, <1>8, ProcessedFrame DEF Backoff, conn
<1>9. ASSUME NEW o \in {"call", "batch"}, StartCall(o) PROVE Processed'
  <2>1. UNCHANGED <<sent, stream, next_id>> /\ callStart' = next_id /\ pc' = "send"
    BY <1>9 DEF StartCall, conn
  <2>2. \A i \in 1..Len(stream) : stream[i].id \in Nat
    BY StreamIds
  <2>3. \A i \in 1..Len(stream) : stream[i].id < next_id /\ ~(stream[i].id >= next_id)
    BY <1>0, <2>2 DEF Processed
  <2> QED BY <2>1, <2>3 DEF Processed
<1>10. ASSUME NEW k \in Kinds, NEW f \in Frames, Serve(k, f) PROVE Processed'
  <2> DEFINE j == sent[served + 1]
             r == Response(j, k, f)
  <2>0. /\ stream' = stream \o r /\ execs' = Executed(j, k)
        /\ UNCHANGED <<sent, pc, next_id, callStart, cur>>
    BY <1>10 DEF Serve, Io!PeerWrite, reading
  <2>1. j \in Nat /\ j < next_id
    BY <1>10 DEF Serve, PairInv, StreamType, Offsets, Processed
  <2>2. r \in Seq(Tokens) /\ Len(r) = Total
    BY <2>1, ResponseType
  <2>3. \A p \in 1..Total : r[p] = [id |-> j, part |-> p, kind |-> k, frame |-> f]
    BY <2>1, ResponseType
  <2> HIDE DEF r, j
  <2>4. ASSUME NEW p \in 1..Total PROVE r[p].id = j /\ r[p].kind = k
    <3>1. r[p] = [id |-> j, part |-> p, kind |-> k, frame |-> f]
      BY <2>3
    <3> QED BY ONLY <3>1
  <2>5. stream \in Seq(Tokens) /\ Total \in Nat /\ execs \in Nat /\ callStart \in Nat
    BY DEF PairInv, StreamType, Total
  <2>6. execs' >= execs /\ execs' \in Nat /\ (callStart <= j /\ k # "busy" => execs' >= 1)
    BY <2>0, <2>1, <2>5 DEF Executed
  <2>7. ASSUME NEW i \in 1..Len(stream')
        PROVE  /\ stream'[i].id < next_id
               /\ stream'[i].id >= callStart /\ stream'[i].kind # "busy" => execs' >= 1
    <3>1. i \in 1..(Len(stream) + Total) /\ Len(stream) \in Nat
      BY <2>0, <2>2, <2>5
    <3>2. CASE i <= Len(stream)
      <4>1. i \in 1..Len(stream) /\ stream'[i] = stream[i]
        BY <2>0, <2>2, <2>5, <3>1, <3>2
      <4> QED BY <2>5, <2>6, <4>1 DEF Processed
    <3>3. CASE i > Len(stream)
      <4>1. i - Len(stream) \in 1..Total /\ stream'[i] = r[i - Len(stream)]
        BY <2>0, <2>2, <2>5, <3>1, <3>3
      <4>2. stream'[i].id = j /\ stream'[i].kind = k
        BY <2>4, <4>1
      <4> QED BY <2>1, <2>5, <2>6, <4>2
    <3> QED BY <3>1, <3>2, <3>3
  <2> QED BY <2>0, <2>7 DEF Processed
<1>11. ASSUME NEW i \in orphans, ServeOrphan(i) PROVE Processed'
  <2>1. UNCHANGED <<sent, stream, pc, next_id, callStart, cur>> /\ execs' >= execs
        /\ execs \in Nat /\ execs' \in Nat
    BY <1>11 DEF ServeOrphan, Executed, conn, reading, PairInv, StreamType
  <2> QED BY <2>1 DEF Processed
<1>12. CASE \/ \E t \in Timeouts : SetTimeout(t)
            \/ ServerGone \/ Expire \/ UNCHANGED vars
  BY <1>0, <1>12, ProcessedFrame DEF SetTimeout, ServerGone, Io!PeerGone, Io!rings, Expire, vars,
     conn, reading
<1> QED BY <1>2, <1>3, <1>4, <1>5, <1>6, <1>7, <1>8, <1>9, <1>10, <1>11, <1>12 DEF Next, Client

\* Steps of the contract in the client's terms.
Phase  == IF pc \in {"start", "connecting", "failed", "idle"} THEN "idle" ELSE "busy"
Answer == CASE out.tag = "none" \/ pc = "failed" -> "none"
            [] out.tag = "err" /\ pc # "failed"  -> "failed"
            [] out.tag = "ok" -> IF out.id = cur THEN "ours" ELSE "stale"

LEMMA ContractStutters ==
  ASSUME clean \in BOOLEAN, UNCHANGED <<Phase, execs, Answer, clean, InChunks>>
  PROVE  UNCHANGED Contract!cvars
  BY DEF Contract!cvars, Phase, Answer

LEMMA ContractBegins ==
  ASSUME clean \in BOOLEAN, Phase = "idle", Phase' = "busy", execs' = 0, Answer' = "none",
         UNCHANGED <<clean, InChunks>>
  PROVE  Contract!Begin
  BY DEF Contract!Begin, Phase, Answer

LEMMA ContractProcesses ==
  ASSUME clean \in BOOLEAN, execs' = execs + 1, UNCHANGED <<Phase, Answer, clean, InChunks>>
  PROVE  Contract!Process
  BY DEF Contract!Process, Phase, Answer

LEMMA ContractRetries ==
  ASSUME Phase = "busy", clean' \in BOOLEAN, UNCHANGED <<Phase, execs, Answer>>
  PROVE  Contract!Retry
<1>1. InChunks' \in BOOLEAN
  BY DEF InChunks
<1> QED BY <1>1 DEF Contract!Retry, Phase, Answer

LEMMA ContractFinishes ==
  ASSUME Phase = "busy", Phase' = "idle", clean' \in BOOLEAN, UNCHANGED execs,
         \/ Answer' = "failed"
         \/ Answer' = "ours" /\ execs > 0
         \/ Answer' = "stale" /\ ~clean,
         ~clean => ~clean'
  PROVE  Contract!Finish
<1>1. InChunks' = FALSE
  BY DEF Phase, InChunks
<1> QED BY <1>1 DEF Contract!Finish, Phase, Answer

\* The client's call ends with an error.
LEMMA FailFinishes ==
  ASSUME Phase = "busy", clean \in BOOLEAN, clean' \in BOOLEAN, ~clean => ~clean', UNCHANGED execs,
         pc' = "idle", out'.tag = "err"
  PROVE  Contract!Finish
<1>1. Phase' = "idle" /\ Answer' = "failed"
  BY DEF Phase, Answer
<1> QED BY <1>1, ContractFinishes

\* A busy client stays busy: a stutter, or a Retry when clean changes.
LEMMA BusyRetries ==
  ASSUME NoOutcomeYet, clean \in BOOLEAN, clean' \in BOOLEAN, UNCHANGED <<execs, out>>,
         Phase = "busy", Phase' = "busy"
  PROVE  Contract!Retry
<1>1. out.tag = "none"
  BY DEF NoOutcomeYet, Phase
<1>2. Answer = "none" /\ Answer' = "none"
  BY <1>1 DEF Answer
<1> QED BY <1>2, ContractRetries

\* The response that a call ends with is its own, and was processed, or the
\* connection was tainted before.
LEMMA CompleteRefines ==
  ASSUME ContractInv, PairInv, pc \in Reading, NEW n \in Nat, NEW len \in Nat,
         UNCHANGED <<stream, rxhi, execs>>, Completes(n, len)
  PROVE  Contract!Finish \/ Contract!Retry
<1>0. clean \in BOOLEAN /\ clean' \in BOOLEAN /\ (~clean => ~clean') /\ cur' = cur /\ Phase = "busy"
  BY DEF PairInv, StreamType, Completes, Complete, Phase, Reading
<1>1. \/ pc' = "backoff" /\ UNCHANGED out
      \/ pc' = "idle" /\ out'.tag = "err"
      \/ /\ pc' = "idle" /\ out'.tag = "ok" /\ out'.id = Header.id /\ Header.kind # "busy"
  BY DEF Completes, Complete, Fail, Return
<1>2. CASE pc' = "backoff" /\ UNCHANGED out
  <2>1. Phase' = "busy"
    BY <1>2 DEF Phase
  <2> QED BY <1>0, <1>2, <2>1, BusyRetries DEF ContractInv
<1>3. CASE pc' = "idle" /\ out'.tag = "err"
  BY <1>0, <1>3, FailFinishes
<1>4. CASE pc' = "idle" /\ out'.tag = "ok" /\ out'.id = Header.id /\ Header.kind # "busy"
  <2>1. base + 1 \in 1..Len(stream) /\ execs \in Nat /\ cur \in Nat /\ callStart \in Nat
    BY DEF PairInv, StreamType, Offsets, Completes
  <2>2. Header.id = cur => execs > 0
    <3> SUFFICES ASSUME Header.id = cur PROVE execs > 0
      OBVIOUS
    <3>1. callStart <= cur
      BY DEF ContractInv, Processed
    <3> QED BY <1>4, <2>1, <3>1 DEF ContractInv, Processed, Header
  <2>3. clean => Header.id = cur
    <3>1. clean => AnswerHere
      BY DEF PairInv, InStep, AnswerToCome, StreamType, Offsets, Completes
    <3>2. 1 \in 1..Total
      BY DEF Total
    <3> QED BY <3>1, <3>2 DEF AnswerHere, Header
  <2>4. Phase' = "idle" /\ Answer' = (IF Header.id = cur THEN "ours" ELSE "stale")
    BY <1>0, <1>4 DEF Phase, Answer
  <2> QED BY <1>0, <2>2, <2>3, <2>4, ContractFinishes
<1> QED BY <1>1, <1>2, <1>3, <1>4

LEMMA ContractStep ==
  ContractInv /\ PairInv /\ [Next]_vars => [Contract!Next]_(Contract!cvars)
<1> SUFFICES ASSUME ContractInv, PairInv, [Next]_vars
             PROVE  Contract!Next \/ UNCHANGED Contract!cvars
  OBVIOUS
<1> USE DEF request, env, Contract!Next
<1>0. clean \in BOOLEAN /\ NoOutcomeYet /\ (pc \notin {"idle", "failed"} => out.tag = "none")
      /\ execs \in Nat
  BY DEF PairInv, StreamType, ContractInv, NoOutcomeYet
<1>1. CASE ConnectClient
  <2>1. UNCHANGED <<Phase, execs, Answer, clean, InChunks>>
    BY <1>0, <1>1 DEF ConnectClient, reading, Phase, Answer, InChunks
  <2> QED BY <1>0, <2>1, ContractStutters
<1>2. CASE WaitReady
  <2>1. UNCHANGED <<execs, clean>>
    BY <1>2 DEF WaitReady, reading
  <2>2. CASE pc = "connecting"
    <3>1. UNCHANGED <<Phase, Answer, InChunks>>
      BY <1>0, <1>2, <2>2 DEF WaitReady, reading, Phase, Answer, InChunks
    <3> QED BY <1>0, <2>1, <3>1, ContractStutters
  <2>3. CASE pc = "reconnecting" /\ pc' = "idle"
    BY <1>0, <1>2, <2>1, <2>3, FailFinishes DEF WaitReady, Phase
  <2>4. CASE pc = "reconnecting" /\ pc' # "idle"
    BY <1>0, <1>2, <2>1, <2>4, BusyRetries DEF WaitReady, Phase
  <2> QED BY <1>2, <2>2, <2>3, <2>4 DEF WaitReady
<1>3. CASE Reconnect
  <2>1. CASE FailRead("connect")
    BY <1>0, <1>3, <2>1, FailFinishes DEF Reconnect, FailRead, Fail, Return, Phase
  <2>2. CASE clean' = TRUE /\ pc' = "reconnecting" /\ UNCHANGED out
    BY <1>0, <1>3, <2>2, BusyRetries DEF Reconnect, Phase
  <2> QED BY <1>3, <2>1, <2>2 DEF Reconnect
<1>4. CASE SendRequest
  <2>1. UNCHANGED <<execs, clean>> /\ Phase = "busy"
    BY <1>4 DEF SendRequest, reading, Phase
  <2>2. CASE pc' = "pumpHdr" /\ UNCHANGED out
    BY <1>0, <2>1, <2>2, BusyRetries DEF Phase
  <2>3. CASE pc' = "idle" /\ out'.tag = "err"
    BY <1>0, <2>1, <2>3, FailFinishes
  <2> QED BY <1>4, <2>2, <2>3 DEF SendRequest, Fail, Return
<1>5. CASE PumpRead
  <2>1. UNCHANGED execs /\ Phase = "busy"
    BY <1>5 DEF PumpRead, Phase
  <2>2. CASE UNCHANGED <<reading, out>>
    <3>1. Phase' = "busy"
      BY <1>0, <1>5, <2>2 DEF PumpRead, Phase, FailRead, Fail, Return, reading
    <3> QED BY <1>0, <2>1, <2>2, <3>1, BusyRetries DEF reading
  <2>3. CASE FailRead("ConnectionClosed")
    BY <1>0, <2>1, <2>3, FailFinishes DEF FailRead, Fail, Return
  <2> QED BY <1>5, <2>2, <2>3 DEF PumpRead
<1>6. CASE PopHeader \/ PopBody \/ PopChunk \/ PopTrickle
  <2>1. pc \in Reading /\ UNCHANGED <<stream, rxhi, execs>>
        /\ ((\E n \in Nat, len \in Nat : Completes(n, len)) \/ ReadsOn)
    BY <1>6, PopCases
  <2>2. ASSUME NEW n \in Nat, NEW len \in Nat, Completes(n, len) PROVE Contract!Next
    BY <2>1, <2>2, CompleteRefines
  <2>3. Phase = "busy"
    BY <2>1 DEF Phase, Reading
  <2>4. CASE pc' = "idle" /\ clean' = FALSE /\ out'.tag = "err"
    BY <1>0, <2>1, <2>3, <2>4, FailFinishes
  <2>5. CASE pc' \in Reading /\ clean' = clean /\ out' = out
    BY <1>0, <2>1, <2>3, <2>5, BusyRetries DEF Phase, Reading
  <2> QED BY <2>1, <2>2, <2>4, <2>5 DEF ReadsOn
<1>7. CASE Backoff
  <2>1. UNCHANGED <<execs, out, clean>> /\ Phase = "busy" /\ Phase' = "busy"
    BY <1>7 DEF Backoff, reading, Phase
  <2> QED BY <1>0, <2>1, BusyRetries
<1>8. ASSUME NEW o \in {"call", "batch"}, StartCall(o) PROVE Contract!Next
  <2>1. Phase = "idle" /\ Phase' = "busy" /\ execs' = 0 /\ Answer' = "none"
        /\ UNCHANGED <<clean, InChunks>>
    BY <1>8 DEF StartCall, reading, Phase, Answer, None, InChunks
  <2> QED BY <1>0, <2>1, ContractBegins
<1>9. ASSUME UNCHANGED <<pc, out, reading>>, execs' = execs \/ execs' = execs + 1
      PROVE  Contract!Next \/ UNCHANGED Contract!cvars
  <2>1. UNCHANGED <<Phase, Answer, clean, InChunks>>
    BY <1>9 DEF reading, Phase, Answer, InChunks
  <2> QED BY <1>0, <1>9, <2>1, ContractStutters, ContractProcesses
<1>10. CASE \/ \E k \in Kinds, f \in Frames : Serve(k, f)
            \/ \E i \in orphans : ServeOrphan(i)
  BY <1>9, <1>10 DEF Serve, ServeOrphan, Executed
<1>11. CASE \/ \E t \in Timeouts : SetTimeout(t)
            \/ ServerGone \/ Expire \/ UNCHANGED vars
  BY <1>9, <1>11 DEF SetTimeout, ServerGone, Expire, vars
<1> QED BY <1>1, <1>2, <1>3, <1>4, <1>5, <1>6, <1>7, <1>8, <1>10, <1>11 DEF Next, Client

\* A call has no outcome until it ends.
LEMMA NoOutcomeStep == NoOutcomeYet /\ [Next]_vars => NoOutcomeYet'
<1> SUFFICES ASSUME NoOutcomeYet, [Next]_vars PROVE NoOutcomeYet'
  OBVIOUS
<1> USE DEF NoOutcomeYet, request, reading
<1>1. CASE ConnectClient \/ WaitReady \/ Reconnect
  BY <1>1 DEF ConnectClient, WaitReady, Reconnect, FailRead, Fail, Return
<1>2. CASE SendRequest \/ PumpRead \/ Backoff
  BY <1>2 DEF SendRequest, PumpRead, Backoff, FailRead, Fail, Return
<1>3. CASE PopHeader
  BY <1>3 DEF PopHeader, Complete, NothingRead, FailRead, Fail, Return
<1>4. CASE PopBody \/ PopChunk
  BY <1>4 DEF PopBody, PopChunk, PopRest, Complete, NothingRead, FailRead, Fail, Return
<1>5. CASE \E o \in {"call", "batch"} : StartCall(o)
  BY <1>5 DEF StartCall, None
<1>6. CASE \/ \E t \in Timeouts : SetTimeout(t)
           \/ \E k \in Kinds, f \in Frames : Serve(k, f)
           \/ \E i \in orphans : ServeOrphan(i)
           \/ ServerGone \/ Expire \/ UNCHANGED vars
  BY <1>6 DEF SetTimeout, Serve, ServeOrphan, ServerGone, Expire, vars
<1>7. CASE PopTrickle
  BY <1>7 DEF PopTrickle
<1> QED BY <1>1, <1>2, <1>3, <1>4, <1>5, <1>6, <1>7 DEF Next, Client

\* Every behaviour of the client is one the contract allows: a call that succeeds
\* with its own answer was processed, and only a connection that an earlier read
\* had left out of step can make a call succeed with another one's answer.  (That
\* a call ends, the fairness of the contract, is checked by TLC.)
THEOREM ContractImplemented == Spec => Contract!Init /\ [][Contract!Next]_(Contract!cvars)
<1>1. Init => ContractInv /\ PairInv /\ CallInv
  <2> SUFFICES ASSUME Init PROVE ContractInv /\ PairInv /\ CallInv
    OBVIOUS
  <2>1. PairInv /\ CallInv
    BY InitPairs
  <2>2. ContractInv
    BY DEF Init, Io!Init, None, ContractInv, Processed, NoOutcomeYet, Reading
  <2> QED BY <2>1, <2>2
<1>2. Init => Contract!Init
  BY DEF Init, Contract!Init, None, InChunks
<1>3. CallInv => CallType
  BY DEF CallInv
<1> QED BY <1>1, <1>2, <1>3, CallStep, PairStep, ProcessedStep, NoOutcomeStep, ContractStep, PTL
        DEF Spec, ContractInv
=============================================================================
