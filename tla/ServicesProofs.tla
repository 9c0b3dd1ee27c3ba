--------------------------- MODULE ServicesProofs ---------------------------
(***************************************************************************)
(* Proofs about the components of Services, for every value of their       *)
(* constants.  They share no state: each part has its own invariant and    *)
(* its own theorems, and the last part puts them together.                 *)
(***************************************************************************)
EXTENDS Services, Build, FiniteSetTheorems, SequenceTheorems, TLAPS

-----------------------------------------------------------------------------
(***************************************************************************)
(* Proofs about the HTTP server wrapper, for any number of connections and *)
(* of heap blocks.  HttpSound is not inductive: that the memory a response *)
(* is read from is allocated follows from its belonging to the cleanup of  *)
(* its own connection (Reading), and the count of connections has to hold  *)
(* whatever became of the server (Counted).                                *)
(***************************************************************************)

\* The C server reads only what the cleanup of the same connection will free.
Reading == server # "dropped" => \A c \in Conns : reads[c] \subseteq cleanups[c]

Counted == connCount = Cardinality(Open)

\* A server that is up has its callback context (Server::new, Drop for Server).
UpHasContext == server = "up" => ctxAlive

HttpInv ==
  HttpTypeOK /\ ResponseMemoryOwned /\ Reading /\ Counted /\ UpHasContext

-----------------------------------------------------------------------------
\* The open connections are finitely many and fewer than the modulus of the counter.
LEMMA OpenCount ==
  IsFiniteSet(Open) /\ Cardinality(Open) \in Nat /\ Cardinality(Open) < CountMod
  <1>1. IsFiniteSet(Conns) /\ Open \subseteq Conns
    BY HttpAssumption DEF Open
  <1>2. IsFiniteSet(Open) /\ Cardinality(Open) <= Cardinality(Conns)
    BY <1>1, FS_Subset
  <1>3. Cardinality(Open) \in Nat /\ Cardinality(Conns) \in Nat
    BY <1>1, <1>2, FS_CardinalityType
  <1> QED BY <1>2, <1>3, HttpAssumption

\* One more connection: connection_count is incremented and does not wrap.
LEMMA CountUp ==
  ASSUME HttpTypeOK, Counted, NEW c \in Conns, conn[c] = "closed",
         conn' = [conn EXCEPT ![c] = "reading"], connCount' = (connCount + 1) % CountMod
  PROVE  Counted' /\ connCount' \in 0..(CountMod - 1)
  <1>1. Open' = Open \cup {c} /\ c \notin Open
    BY DEF Open, HttpTypeOK
  <1>2. Cardinality(Open') = Cardinality(Open) + 1
    BY <1>1, OpenCount, FS_AddElement
  <1>3. IsFiniteSet(Conns) /\ Open' \subseteq Conns
    BY HttpAssumption DEF Open
  <1>4. Cardinality(Open') < CountMod
    <2>1. Cardinality(Open') <= Cardinality(Conns)
      BY <1>3, FS_Subset
    <2>2. Cardinality(Conns) \in Nat
      BY <1>3, FS_CardinalityType
    <2> QED BY <1>2, <2>1, <2>2, OpenCount, HttpAssumption
  <1>5. connCount \in Nat /\ connCount + 1 < CountMod
    BY <1>2, <1>4, OpenCount DEF Counted
  <1>6. (connCount + 1) % CountMod = connCount + 1
    BY <1>5, HttpAssumption
  <1> QED BY <1>2, <1>5, <1>6, HttpAssumption DEF Counted

\* One connection fewer: the counter is above zero when it is decremented.
LEMMA CountDown ==
  ASSUME HttpTypeOK, Counted, NEW c \in Conns, conn[c] # "closed",
         conn' = [conn EXCEPT ![c] = "closed"], connCount' = (connCount - 1) % CountMod
  PROVE  Counted' /\ connCount' \in 0..(CountMod - 1)
  <1>1. Open' = Open \ {c} /\ c \in Open
    BY DEF Open, HttpTypeOK
  <1>2. Cardinality(Open') = Cardinality(Open) - 1
    BY <1>1, OpenCount, FS_RemoveElement
  <1>3. Cardinality(Open) # 0
    BY <1>1, OpenCount, FS_EmptySet
  <1>4. connCount \in Nat /\ connCount - 1 \in Nat /\ connCount - 1 < CountMod
    BY <1>3, OpenCount, HttpAssumption DEF Counted
  <1>5. (connCount - 1) % CountMod = connCount - 1
    BY <1>4, HttpAssumption
  <1> QED BY <1>2, <1>4, <1>5, HttpAssumption DEF Counted

-----------------------------------------------------------------------------
LEMMA HttpInitInv == HttpInit => HttpInv
  <1> SUFFICES ASSUME HttpInit PROVE HttpInv
    OBVIOUS
  <1>1. Open = {}
    BY DEF HttpInit, Open
  <1>2. Counted
    BY <1>1, FS_EmptySet DEF HttpInit, Counted
  <1>3. connCount \in 0..(CountMod - 1)
    <2>1. Cardinality(Conns) \in Nat
      BY HttpAssumption, FS_CardinalityType
    <2> QED BY <2>1, HttpAssumption DEF HttpInit
  <1>4. HttpTypeOK
    BY <1>3 DEF HttpInit, HttpTypeOK
  <1>5. ResponseMemoryOwned
    BY DEF HttpInit, ResponseMemoryOwned
  <1>6. Reading /\ UpHasContext
    BY DEF HttpInit, Reading, UpHasContext
  <1> QED BY <1>2, <1>4, <1>5, <1>6 DEF HttpInv

\* A step that leaves the connections, their memory and the counter alone.
LEMMA QuietStep ==
  ASSUME HttpInv, UNCHANGED <<connCount, cleanups, heap, conn, reads>>,
         server' \in {"none", "up", "dropped"}, ctxAlive' \in BOOLEAN,
         isListening' \in BOOLEAN, ctxAlive => ctxAlive', server' = "up" => ctxAlive',
         server = "dropped" => server' = "dropped"
  PROVE  HttpInv'
  <1> USE DEF HttpInv
  <1>1. HttpTypeOK' BY DEF HttpTypeOK
  <1>2. ResponseMemoryOwned' BY DEF ResponseMemoryOwned
  <1>3. Reading' /\ UpHasContext' BY DEF Reading, UpHasContext
  <1>4. Counted' BY DEF Counted, Open
  <1> QED BY <1>1, <1>2, <1>3, <1>4

LEMMA RequestStep ==
  ASSUME HttpInv, NEW c \in Conns, NEW mem \in SUBSET Blocks, RequestTrampoline(c, mem)
  PROVE  HttpInv'
  <1> USE DEF HttpInv
  <1>1. /\ server = "up" /\ conn[c] = "reading" /\ mem \subseteq Blocks \ heap
        /\ cleanups' = [cleanups EXCEPT ![c] = mem]
        /\ heap' = (heap \cup mem) \ cleanups[c]
        /\ conn' = [conn EXCEPT ![c] = "sending"]
        /\ reads' = [reads EXCEPT ![c] = mem]
        /\ UNCHANGED <<server, ctxAlive, connCount, isListening>>
    BY DEF RequestTrampoline, ConvertResponse
  <1>2. HttpTypeOK'
    BY <1>1 DEF HttpTypeOK
  <1>3. /\ cleanups'[c] = mem
        /\ \A d \in Conns : d # c => cleanups'[d] = cleanups[d]
    BY <1>1 DEF HttpTypeOK
  <1>4. \A d \in Conns : cleanups[d] \subseteq heap
    BY DEF ResponseMemoryOwned
  <1>5. heap' = UNION {cleanups'[d] : d \in Conns}
    BY <1>1, <1>3, <1>4 DEF ResponseMemoryOwned
  <1>6. \A d, e \in Conns : d # e => cleanups'[d] \cap cleanups'[e] = {}
    BY <1>1, <1>3, <1>4 DEF ResponseMemoryOwned
  <1>7. \A d \in Conns : cleanups'[d] # {} => ctxAlive' /\ conn'[d] # "closed"
    BY <1>1, <1>3 DEF ResponseMemoryOwned, UpHasContext, HttpTypeOK
  <1>8. Reading' /\ UpHasContext'
    BY <1>1, <1>3 DEF Reading, UpHasContext, HttpTypeOK
  <1>9. Open' = Open
    BY <1>1 DEF Open, HttpTypeOK
  <1> QED BY <1>1, <1>2, <1>5, <1>6, <1>7, <1>8, <1>9 DEF ResponseMemoryOwned, Counted

LEMMA CloseStep ==
  ASSUME HttpInv, NEW c \in Conns, NEW raw \in RawReasons, CloseTrampoline(c, raw)
  PROVE  HttpInv'
  <1> USE DEF HttpInv
  <1>1. /\ server = "up" /\ conn[c] # "closed"
        /\ conn' = [conn EXCEPT ![c] = "closed"]
        /\ reads' = [reads EXCEPT ![c] = {}]
        /\ connCount' = (connCount - 1) % CountMod
        /\ cleanups' = [cleanups EXCEPT ![c] = {}]
        /\ heap' = heap \ cleanups[c]
        /\ UNCHANGED <<server, ctxAlive, isListening>>
    BY DEF CloseTrampoline
  <1>2. Counted' /\ connCount' \in 0..(CountMod - 1)
    BY <1>1, CountDown
  <1>3. HttpTypeOK'
    BY <1>1, <1>2 DEF HttpTypeOK
  <1>4. /\ cleanups'[c] = {}
        /\ \A d \in Conns : d # c => cleanups'[d] = cleanups[d]
    BY <1>1 DEF HttpTypeOK
  <1>5. ResponseMemoryOwned'
    <2>1. heap' = UNION {cleanups'[d] : d \in Conns}
      BY <1>1, <1>4 DEF ResponseMemoryOwned
    <2>2. \A d, e \in Conns : d # e => cleanups'[d] \cap cleanups'[e] = {}
      BY <1>4 DEF ResponseMemoryOwned
    <2>3. \A d \in Conns : cleanups'[d] # {} => ctxAlive' /\ conn'[d] # "closed"
      BY <1>1, <1>4 DEF ResponseMemoryOwned, HttpTypeOK
    <2> QED BY <2>1, <2>2, <2>3 DEF ResponseMemoryOwned
  <1>6. Reading' /\ UpHasContext'
    BY <1>1, <1>4 DEF Reading, UpHasContext, HttpTypeOK
  <1> QED BY <1>2, <1>3, <1>5, <1>6

LEMMA HttpStep ==
  ASSUME HttpInv, [HttpNext]_httpVars
  PROVE  HttpInv'
  <1> USE DEF HttpInv
  <1>1. CASE NewServer
    BY <1>1, QuietStep DEF NewServer, HttpTypeOK, UpHasContext
  <1>2. CASE Listen
    BY <1>2, QuietStep DEF Listen, HttpTypeOK, UpHasContext
  <1>3. CASE DropServer
    <2>1. /\ cleanups' = [c \in Conns |-> {}] /\ heap' = {}
          /\ server' = "dropped" /\ UNCHANGED <<connCount, isListening, conn, reads>>
          /\ ctxAlive' = FALSE
      BY <1>3 DEF DropServer, ResponseMemoryOwned
    <2>2. HttpTypeOK' BY <2>1 DEF HttpTypeOK
    <2>3. ResponseMemoryOwned' BY <2>1 DEF ResponseMemoryOwned
    <2>4. Reading' /\ UpHasContext' BY <2>1 DEF Reading, UpHasContext
    <2>5. Counted' BY <2>1 DEF Counted, Open
    <2> QED BY <2>2, <2>3, <2>4, <2>5
  <1>4. ASSUME NEW c \in Conns, OpenTrampoline(c) PROVE HttpInv'
    <2>1. /\ server = "up" /\ conn[c] = "closed"
          /\ conn' = [conn EXCEPT ![c] = "reading"]
          /\ connCount' = (connCount + 1) % CountMod
          /\ UNCHANGED <<server, ctxAlive, isListening, cleanups, heap, reads>>
      BY <1>4 DEF OpenTrampoline
    <2>2. Counted' /\ connCount' \in 0..(CountMod - 1)
      BY <2>1, CountUp
    <2>3. HttpTypeOK' BY <2>1, <2>2 DEF HttpTypeOK
    <2>4. ResponseMemoryOwned' BY <2>1 DEF ResponseMemoryOwned, HttpTypeOK
    <2>5. Reading' /\ UpHasContext' BY <2>1 DEF Reading, UpHasContext
    <2> QED BY <2>2, <2>3, <2>4, <2>5
  <1>5. ASSUME NEW c \in Conns, ResponseSent(c) PROVE HttpInv'
    <2>1. /\ server = "up" /\ conn[c] = "sending"
          /\ conn' = [conn EXCEPT ![c] = "reading"]
          /\ reads' = [reads EXCEPT ![c] = {}]
          /\ UNCHANGED <<server, ctxAlive, connCount, isListening, cleanups, heap>>
      BY <1>5 DEF ResponseSent
    <2>2. HttpTypeOK' BY <2>1 DEF HttpTypeOK
    <2>3. ResponseMemoryOwned' BY <2>1 DEF ResponseMemoryOwned, HttpTypeOK
    <2>4. Reading' /\ UpHasContext' BY <2>1 DEF Reading, UpHasContext, HttpTypeOK
    <2>5. Open' = Open BY <2>1 DEF Open, HttpTypeOK
    <2> QED BY <2>1, <2>2, <2>3, <2>4, <2>5 DEF Counted
  <1>6. ASSUME NEW c \in Conns, NEW mem \in SUBSET Blocks, RequestTrampoline(c, mem)
        PROVE  HttpInv'
    BY <1>6, RequestStep
  <1>7. ASSUME NEW c \in Conns, NEW raw \in RawReasons, CloseTrampoline(c, raw)
        PROVE  HttpInv'
    BY <1>7, CloseStep
  <1>8. CASE UNCHANGED httpVars
    BY <1>8, QuietStep DEF httpVars, HttpTypeOK, UpHasContext
  <1> QED BY <1>1, <1>2, <1>3, <1>4, <1>5, <1>6, <1>7, <1>8 DEF HttpNext

-----------------------------------------------------------------------------
\* The inductive invariant of the server wrapper.
THEOREM HttpInvariant == HttpSpec => []HttpInv
  <1>1. HttpInit => HttpInv
    BY HttpInitInv
  <1>2. HttpInv /\ [HttpNext]_httpVars => HttpInv'
    BY HttpStep
  <1> QED BY <1>1, <1>2, PTL DEF HttpSpec

\* However many connections open, are answered and close in whatever order, and whenever
\* the Server is dropped (fd_http request_trampoline, close_trampoline, Drop): the memory
\* of a response being sent is allocated, every block has one owner and is freed with it,
\* and connection_count is the number of open connections.
THEOREM HttpAlwaysSound == HttpSpec => []HttpSound
  <1>1. HttpInv => HttpSound
    <2> SUFFICES ASSUME HttpInv PROVE HttpSound
      OBVIOUS
    <2>1. ResponseMemoryAlive
      BY DEF HttpInv, ResponseMemoryAlive, Reading, ResponseMemoryOwned
    <2>2. ResponseMemoryOwned /\ CountIsOpen
      BY DEF HttpInv, Counted, CountIsOpen
    <2> QED BY <2>1, <2>2 DEF HttpSound
  <1> QED BY <1>1, HttpInvariant, PTL

-----------------------------------------------------------------------------
(***************************************************************************)
(* Proofs about the initialisation of the logger, for any set of threads.  *)
(* OneBoot is not inductive: it does not say what is stored while a thread *)
(* is inside the Once, nor that a thread inside it is one that called      *)
(* init.  Stage says what each state of the Once implies.                  *)
(***************************************************************************)

Configs == [level: LevelsUsed \cup {DefaultLevel}, file: BOOLEAN, nul: BOOLEAN]

DirectResults == {NoResult, "ok", "NulError", "InvalidFd"}

LogShape ==
    /\ boots \in [once : Nat, direct : Nat, ret : DirectResults]
    /\ once \in LThreads \cup {"new", "done"}
    /\ builder \in [LThreads -> Configs]
    /\ initState \in [LThreads -> {"building", "calling", "returned"}]
    /\ outcome \in [LThreads -> {NoResult, "ok", "NulError"}]

\* What the Once and the stored result say of the boots there have been.
Stage ==
    /\ once # "done" =>
          /\ boots.once = 0
          /\ \A t \in LThreads : initState[t] = "returned" => ~builder[t].file
    /\ once \in LThreads => initState[once] = "calling"
    /\ once = "done" =>
          /\ onceResult \in {"ok", "NulError"}
          /\ boots.once = IF onceResult = "ok" THEN 1 ELSE 0
          /\ onceResult = "ok" => logfile # "none"
          /\ \A t \in LThreads : initState[t] = "returned" /\ builder[t].file
                                    => outcome[t] = onceResult

LogInv == LogShape /\ Stage

-----------------------------------------------------------------------------
LEMMA LogInitInv == LgInit => LogInv
  <1> SUFFICES ASSUME LgInit PROVE LogInv
    OBVIOUS
  <1>1. EmptyConfig \in Configs
    BY DEF EmptyConfig, Configs
  <1>2. LogShape
    BY <1>1 DEF LgInit, LogShape, DirectResults
  <1>3. Stage
    BY LogAssumption DEF LgInit, Stage
  <1> QED BY <1>2, <1>3 DEF LogInv

LEMMA BootOnceStep ==
  ASSUME LogInv, NEW t \in LThreads, BootOnce(t)
  PROVE  LogInv'
  <1> DEFINE r == BootResult(builder[t])
  <1>1. /\ initState[t] = "calling" /\ once = t /\ once' = "done" /\ onceResult' = r
        /\ UNCHANGED <<builder, initState, outcome>>
        /\ r \in {"ok", "NulError"}
    BY DEF BootOnce, BootResult
  <1>2. t \notin {"new", "done", "none"}
    BY LogAssumption
  <1>3. boots.once = 0 /\ \A u \in LThreads : initState[u] = "returned" => ~builder[u].file
    BY <1>1, <1>2 DEF LogInv, Stage
  <1>4. CASE r = "ok"
    <2>1. logfile' = t /\ boots' = [boots EXCEPT !.once = @ + 1]
      BY <1>4 DEF BootOnce
    <2>2. boots' \in [once : Nat, direct : Nat, ret : DirectResults] /\ boots'.once = 1
      BY <1>3, <2>1 DEF LogInv, LogShape
    <2>3. LogShape'
      BY <1>1, <2>2 DEF LogInv, LogShape
    <2>4. Stage'
      BY <1>1, <1>2, <1>3, <1>4, <2>1, <2>2, LogAssumption DEF Stage
    <2> QED BY <2>3, <2>4 DEF LogInv
  <1>5. CASE r # "ok"
    <2>1. UNCHANGED <<logfile, boots>>
      BY <1>5 DEF BootOnce
    <2>2. LogShape'
      BY <1>1, <2>1 DEF LogInv, LogShape
    <2>3. Stage'
      BY <1>1, <1>2, <1>3, <1>5, <2>1, LogAssumption DEF Stage
    <2> QED BY <2>2, <2>3 DEF LogInv
  <1> QED BY <1>4, <1>5

LEMMA LogStep ==
  ASSUME LogInv, [LgNext]_lgVars
  PROVE  LogInv'
  <1> USE LogAssumption
  <1>1. ASSUME NEW l \in LevelsUsed, Emit(l) PROVE LogInv'
    BY <1>1 DEF LogInv, LogShape, Stage, Emit
  <1>2. ASSUME NEW t \in LThreads, CallInit(t) PROVE LogInv'
    <2>1. LogShape'
      BY <1>2 DEF CallInit, LogInv, LogShape
    <2>2. Stage'
      BY <1>2 DEF CallInit, LogInv, LogShape, Stage
    <2> QED BY <2>1, <2>2 DEF LogInv
  <1>3. ASSUME NEW t \in LThreads, EnterOnce(t) PROVE LogInv'
    BY <1>3 DEF EnterOnce, LogInv, LogShape, Stage
  <1>4. ASSUME NEW t \in LThreads, BootOnce(t) PROVE LogInv'
    BY <1>4, BootOnceStep
  <1>5. ASSUME NEW t \in LThreads, ReturnInit(t) PROVE LogInv'
    <2>1. /\ initState[t] = "calling" /\ once = "done"
          /\ initState' = [initState EXCEPT ![t] = "returned"]
          /\ outcome' = [outcome EXCEPT ![t] = onceResult]
          /\ UNCHANGED <<boots, once, onceResult, builder, logfile>>
      BY <1>5 DEF ReturnInit
    <2>2. onceResult \in {"ok", "NulError"}
      BY <2>1 DEF LogInv, Stage
    <2>3. LogShape'
      BY <2>1, <2>2 DEF LogInv, LogShape
    <2>4. Stage'
      BY <2>1, <2>2 DEF LogInv, LogShape, Stage
    <2> QED BY <2>3, <2>4 DEF LogInv
  <1>6. ASSUME NEW t \in LThreads, NEW l \in LevelsUsed, WithLevel(t, l) PROVE LogInv'
    <2>1. /\ initState[t] = "building"
          /\ builder' = [builder EXCEPT ![t].level = l]
          /\ UNCHANGED <<logfile, boots, once, onceResult, initState, outcome>>
      BY <1>6 DEF WithLevel
    <2>2. LogShape'
      BY <2>1 DEF LogInv, LogShape, Configs
    <2>3. \A u \in LThreads : initState[u] = "returned" => builder'[u].file = builder[u].file
      BY <2>1 DEF LogInv, LogShape
    <2>4. Stage'
      BY <2>1, <2>3 DEF LogInv, Stage
    <2> QED BY <2>2, <2>4 DEF LogInv
  <1>7. ASSUME NEW t \in LThreads, NEW nul \in BOOLEAN, WithFile(t, nul) PROVE LogInv'
    <2>1. /\ initState[t] = "building"
          /\ builder' = [builder EXCEPT ![t].file = TRUE, ![t].nul = nul]
          /\ UNCHANGED <<logfile, boots, once, onceResult, initState, outcome>>
      BY <1>7 DEF WithFile
    <2>a. builder \in [LThreads -> Configs]
      BY DEF LogInv, LogShape
    <2>b. [builder[t] EXCEPT !.file = TRUE, !.nul = nul] \in Configs
      <3>1. builder[t] \in Configs
        BY <2>a
      <3> QED BY <3>1 DEF Configs
    <2>c. builder' = [builder EXCEPT ![t] = [builder[t] EXCEPT !.file = TRUE, !.nul = nul]]
      BY <2>1, <2>a
    <2>d. builder' \in [LThreads -> Configs]
      BY <2>a, <2>b, <2>c
    <2>2. LogShape'
      BY <2>1, <2>d DEF LogInv, LogShape
    <2>3. \A u \in LThreads : initState[u] = "returned" => builder'[u].file = builder[u].file
      BY <2>1 DEF LogInv, LogShape
    <2>4. Stage'
      BY <2>1, <2>3 DEF LogInv, Stage
    <2> QED BY <2>2, <2>4 DEF LogInv
  <1>8. ASSUME NEW t \in LThreads, NEW named \in {"path", "nul", "negative"},
               BootDirect(t, named)
        PROVE  LogInv'
    <2> DEFINE r == DirectResult(named)
    <2>4. r \in DirectResults
      BY DEF DirectResult, DirectResults, BootResult
    <2>1. /\ UNCHANGED <<once, onceResult, builder, initState, outcome>>
          /\ \/ logfile' = logfile /\ boots' = [boots EXCEPT !.ret = r]
             \/ logfile' = t /\ boots' = [once |-> boots.once, direct |-> 1, ret |-> r]
      BY <1>8 DEF BootDirect
    <2> HIDE DEF r
    <2>5. boots \in [once : Nat, direct : Nat, ret : DirectResults]
      BY DEF LogInv, LogShape
    <2>6. boots' \in [once : Nat, direct : Nat, ret : DirectResults] /\ boots'.once = boots.once
      BY <2>1, <2>4, <2>5
    <2>2. LogShape' /\ boots'.once = boots.once
      BY <2>1, <2>6 DEF LogInv, LogShape
    <2>7. /\ UNCHANGED <<once, onceResult, builder, initState, outcome>>
          /\ logfile # "none" => logfile' # "none"
      BY <2>1
    <2>8. Stage
      BY DEF LogInv
    <2>3. Stage'
      BY ONLY <2>2, <2>7, <2>8 DEF Stage
    <2> QED BY <2>2, <2>3 DEF LogInv
  <1>9. CASE UNCHANGED lgVars
    BY <1>9 DEF lgVars, LogInv, LogShape, Stage
  <1> QED BY <1>1, <1>2, <1>3, <1>4, <1>5, <1>6, <1>7, <1>8, <1>9 DEF LgNext

-----------------------------------------------------------------------------
\* LgSpec without its fairness, which safety does not need.
LogSafety == LgInit /\ [][LgNext]_lgVars

\* The inductive invariant of the initialisation.
THEOREM LogInvariant == LogSafety => []LogInv
  <1>1. LgInit => LogInv
    BY LogInitInv
  <1>2. LogInv /\ [LgNext]_lgVars => LogInv'
    BY LogStep
  <1> QED BY <1>1, <1>2, PTL DEF LogSafety

\* However many threads call SystemLogBuilder::init at the same time, with whatever
\* configurations, and whatever boots are made beside it: init boots the logger once,
\* and every init that returns reports the outcome of that boot.
THEOREM LoggerBootsOnce == LogSafety => []OneBoot
  <1>1. LogInv => OneBoot
    <2> SUFFICES ASSUME LogInv PROVE OneBoot
      OBVIOUS
    <2>1. boots.once <= 1
      BY DEF LogInv, Stage
    <2>2. once = "done" => onceResult # NoResult
      BY DEF LogInv, Stage, NoResult
    <2>3. ASSUME NEW t \in LThreads, initState[t] = "returned", builder[t].file
          PROVE  /\ outcome[t] = onceResult
                 /\ outcome[t] = "ok" => boots.once = 1 /\ logfile # "none"
      BY <2>3 DEF LogInv, Stage
    <2> QED BY <2>1, <2>2, <2>3 DEF OneBoot
  <1> QED BY <1>1, LogInvariant, PTL

-----------------------------------------------------------------------------
(***************************************************************************)
(* Proofs about tiles, for any number of them.  TilesSound is not          *)
(* inductive: that nobody waits in a circle follows from the executions,   *)
(* whose graph (from the holder to the tile) is without circles because a  *)
(* task is only given to a tile that is idle, and an idle tile holds none. *)
(***************************************************************************)

\* Who holds an execution runs; a tile has at most one; the tiles that have
\* one are busy and not forgotten; busy tiles have one or are forgotten.
Held ==
  /\ \A e \in execs : /\ tile[e.holder] = "running"
                      /\ e.tile # 0 /\ tile[e.tile] # "idle" /\ e.tile \notin forgotten
  /\ \A e, f \in execs : e.tile = f.tile => e = f
  /\ \A t \in Tiles \ {0} : tile[t] # "idle" => t \in forgotten \/ \E e \in execs : e.tile = t
  /\ \A t \in forgotten : tile[t] # "idle"

\* Who waits holds an execution of the tile it waits for.
WaitsForHeld ==
  \A t \in Tiles : waits[t] # NoTile => \E e \in execs : e.holder = t /\ e.tile = waits[t]

\* In every set of tiles there is one that holds no execution of another.
DispatchHasEnd ==
  \A S \in (SUBSET Tiles) \ {{}} :
    \E t \in S : \A e \in execs : e.holder = t => e.tile \notin S

TileInv == TileTypeOK /\ Held /\ WaitsForHeld /\ DispatchHasEnd

LEMMA TileBounds ==
  /\ 0 \in Tiles /\ NoTile \notin Tiles
  /\ \A idx : idx \in Tiles => idx < TileCnt
  BY TileAssumption DEF Tiles, NoTile

LEMMA TileInitInv == TileInit => TileInv
  <1> SUFFICES ASSUME TileInit PROVE TileInv
    OBVIOUS
  <1>1. TileTypeOK /\ Held /\ WaitsForHeld
    BY TileBounds DEF TileInit, TileTypeOK, Held, WaitsForHeld
  <1>2. DispatchHasEnd
    BY DEF TileInit, DispatchHasEnd
  <1> QED BY <1>1, <1>2 DEF TileInv

\* execute_task gives a task to an idle tile, or does nothing.
LEMMA ExecuteStep ==
  ASSUME TileInv, NEW i \in Tiles, NEW idx \in 0..TileCnt, ExecuteTask(i, idx)
  PROVE  TileInv'
  <1>1. CASE UNCHANGED <<tile, execs, waits, forgotten>>
    BY <1>1 DEF TileInv, TileTypeOK, Held, WaitsForHeld, DispatchHasEnd
  <1>2. CASE /\ idx \in Tiles \ {0, i} /\ tile[idx] = "idle" /\ Free(i)
             /\ tile' = [tile EXCEPT ![idx] = "running"]
             /\ execs' = execs \cup {[holder |-> i, tile |-> idx]}
             /\ UNCHANGED <<waits, forgotten>>
    <2> DEFINE n == [holder |-> i, tile |-> idx]
    <2>1. n.holder = i /\ n.tile = idx /\ execs' = execs \cup {n} /\ n \in [holder: Tiles, tile: Tiles]
      BY <1>2
    <2> HIDE DEF n
    <2>2. TileTypeOK'
      BY <1>2, <2>1 DEF TileInv, TileTypeOK
    <2>3. /\ \A t \in Tiles : t # idx => tile'[t] = tile[t]
          /\ tile'[idx] = "running" /\ tile[i] = "running"
          /\ execs \subseteq [holder: Tiles, tile: Tiles] /\ forgotten \subseteq Tiles
      BY <1>2 DEF TileInv, TileTypeOK, Free
    <2>4. \A e \in execs : e.holder # idx /\ e.tile # idx
      BY <1>2 DEF TileInv, Held
    <2>5. Held'
      <3>1. \A e \in execs' : /\ tile'[e.holder] = "running" /\ e.tile # 0 /\ tile'[e.tile] # "idle"
                              /\ e.tile \notin forgotten'
        <4>1. ASSUME NEW e \in execs
              PROVE  /\ tile'[e.holder] = "running" /\ e.tile # 0 /\ tile'[e.tile] # "idle"
                     /\ e.tile \notin forgotten'
          BY <1>2, <2>3, <2>4 DEF TileInv, Held
        <4>2. /\ tile'[n.holder] = "running" /\ n.tile # 0 /\ tile'[n.tile] # "idle"
              /\ n.tile \notin forgotten'
          BY <1>2, <2>1, <2>3 DEF TileInv, Held
        <4> QED BY <2>1, <4>1, <4>2
      <3>2. \A e, f \in execs' : e.tile = f.tile => e = f
        BY <2>1, <2>4 DEF TileInv, Held
      <3>3. \A t \in Tiles \ {0} : tile'[t] # "idle" => t \in forgotten' \/ \E e \in execs' : e.tile = t
        BY <1>2, <2>1, <2>3 DEF TileInv, Held
      <3>4. \A t \in forgotten' : tile'[t] # "idle"
        BY <1>2, <2>3 DEF TileInv, Held
      <3> QED BY <3>1, <3>2, <3>3, <3>4 DEF Held
    <2>6. WaitsForHeld'
      BY <1>2, <2>1 DEF TileInv, WaitsForHeld
    <2>7. DispatchHasEnd'
      <3> SUFFICES ASSUME NEW S \in (SUBSET Tiles) \ {{}}
                   PROVE  \E t \in S : \A e \in execs' : e.holder = t => e.tile \notin S
        BY DEF DispatchHasEnd
      <3>1. CASE idx \in S
        <4>1. \A e \in execs' : e.holder # idx
          BY <1>2, <2>1, <2>4
        <4> QED BY <3>1, <4>1
      <3>2. CASE idx \notin S
        BY <2>1, <3>2 DEF TileInv, DispatchHasEnd
      <3> QED BY <3>1, <3>2
    <2> QED BY <2>2, <2>5, <2>6, <2>7 DEF TileInv
  <1> QED BY <1>1, <1>2 DEF ExecuteTask

\* An execution goes, and the tile it stood for becomes idle or is forgotten.
LEMMA ExecutionGoes ==
  ASSUME TileInv, NEW e \in execs, execs' = execs \ {e},
         \/ /\ tile[e.tile] = "done" /\ tile' = [tile EXCEPT ![e.tile] = "idle"]
            /\ UNCHANGED forgotten
         \/ UNCHANGED tile /\ forgotten' = forgotten \cup {e.tile},
         waits' \in [Tiles -> Tiles \cup {NoTile}],
         waits'[e.holder] = NoTile,
         \A t \in Tiles : t # e.holder => waits'[t] = waits[t]
  PROVE  TileInv'
  <1>1. e.tile \in Tiles /\ e.holder \in Tiles /\ e.tile # 0
    BY DEF TileInv, TileTypeOK, Held
  <1>2. TileTypeOK'
    BY <1>1 DEF TileInv, TileTypeOK
  <1>3. \A f \in execs' : f \in execs /\ f.tile # e.tile /\ f.tile \in Tiles /\ f.holder \in Tiles
    BY DEF TileInv, Held, TileTypeOK
  <1>4. Held'
    <2>1. CASE /\ tile[e.tile] = "done" /\ tile' = [tile EXCEPT ![e.tile] = "idle"]
               /\ UNCHANGED forgotten
      <3>1. tile'[e.tile] = "idle" /\ \A t \in Tiles : t # e.tile => tile'[t] = tile[t]
        BY <1>1, <2>1 DEF TileInv, TileTypeOK
      <3>2. \A f \in execs : f.holder # e.tile
        BY <2>1 DEF TileInv, Held
      <3>3. \A f \in execs' : /\ tile'[f.holder] = "running" /\ f.tile # 0 /\ tile'[f.tile] # "idle"
                              /\ f.tile \notin forgotten'
        BY <1>3, <2>1, <3>1, <3>2 DEF TileInv, Held
      <3>4. \A t \in Tiles \ {0} : tile'[t] # "idle" => t \in forgotten' \/ \E f \in execs' : f.tile = t
        BY <2>1, <3>1 DEF TileInv, Held
      <3>5. \A t \in forgotten' : tile'[t] # "idle"
        BY <2>1, <3>1 DEF TileInv, Held, TileTypeOK
      <3> QED BY <1>3, <3>3, <3>4, <3>5 DEF TileInv, Held
    <2>2. CASE UNCHANGED tile /\ forgotten' = forgotten \cup {e.tile}
      BY <1>3, <2>2 DEF TileInv, Held
    <2> QED BY <2>1, <2>2
  <1>5. WaitsForHeld'
    BY DEF TileInv, WaitsForHeld
  <1>6. DispatchHasEnd'
    BY DEF TileInv, DispatchHasEnd
  <1> QED BY <1>2, <1>4, <1>5, <1>6 DEF TileInv

LEMMA TileStep ==
  ASSUME TileInv, TileNext
  PROVE  TileInv'
  <1>0. NoTile \notin Tiles
    BY TileBounds
  <1>1. ASSUME NEW t \in Tiles, TaskReturns(t) PROVE TileInv'
    <2>1. /\ t # 0 /\ tile[t] = "running" /\ (\A e \in execs : e.holder # t)
          /\ tile' = [tile EXCEPT ![t] = "done"] /\ UNCHANGED <<waits, execs, forgotten>>
      BY <1>1 DEF TaskReturns, Free
    <2>2. \A u \in Tiles : tile'[u] = IF u = t THEN "done" ELSE tile[u]
      BY <2>1 DEF TileInv, TileTypeOK
    <2>3. \A u \in Tiles : (tile'[u] = "idle" <=> tile[u] = "idle")
      BY <2>1, <2>2
    <2>4. TileTypeOK' /\ execs \subseteq [holder: Tiles, tile: Tiles] /\ forgotten \subseteq Tiles
      BY <2>1 DEF TileInv, TileTypeOK
    <2>5. Held'
      BY <2>1, <2>2, <2>3, <2>4 DEF TileInv, Held
    <2>6. WaitsForHeld' /\ DispatchHasEnd'
      BY <2>1 DEF TileInv, WaitsForHeld, DispatchHasEnd
    <2> QED BY <2>4, <2>5, <2>6 DEF TileInv
  <1>2. ASSUME NEW e \in execs, WaitBegin(e) PROVE TileInv'
    <2>1. /\ e.holder \in Tiles /\ e.tile \in Tiles /\ waits' = [waits EXCEPT ![e.holder] = e.tile]
          /\ UNCHANGED <<tile, execs, forgotten>>
      BY <1>2 DEF WaitBegin, TileInv, TileTypeOK
    <2>2. \A t \in Tiles : waits'[t] = IF t = e.holder THEN e.tile ELSE waits[t]
      BY <2>1 DEF TileInv, TileTypeOK
    <2>3. TileTypeOK' /\ Held' /\ DispatchHasEnd'
      BY <2>1 DEF TileInv, TileTypeOK, Held, DispatchHasEnd
    <2>4. WaitsForHeld'
      BY <2>1, <2>2 DEF TileInv, WaitsForHeld
    <2> QED BY <2>3, <2>4 DEF TileInv
  <1>3. ASSUME NEW e \in execs, WaitEnd(e) PROVE TileInv'
    <2>1. /\ e.holder \in Tiles /\ tile[e.tile] = "done" /\ execs' = execs \ {e}
          /\ waits' = [waits EXCEPT ![e.holder] = NoTile]
          /\ tile' = [tile EXCEPT ![e.tile] = "idle"] /\ UNCHANGED forgotten
      BY <1>3 DEF WaitEnd, TileInv, TileTypeOK
    <2>2. /\ waits' \in [Tiles -> Tiles \cup {NoTile}] /\ waits'[e.holder] = NoTile
          /\ \A t \in Tiles : t # e.holder => waits'[t] = waits[t]
      BY <2>1 DEF TileInv, TileTypeOK
    <2> QED BY <2>1, <2>2, ExecutionGoes
  <1>4. ASSUME NEW e \in execs, TryResult(e) PROVE TileInv'
    <2>1. /\ execs' = execs \ {e} /\ waits[e.holder] = NoTile /\ UNCHANGED waits
          /\ \/ /\ tile[e.tile] = "done" /\ tile' = [tile EXCEPT ![e.tile] = "idle"]
                /\ UNCHANGED forgotten
             \/ UNCHANGED tile /\ forgotten' = forgotten \cup {e.tile}
      BY <1>4 DEF TryResult, Free
    <2>2. waits' \in [Tiles -> Tiles \cup {NoTile}]
      BY <2>1 DEF TileInv, TileTypeOK
    <2> QED BY <2>1, <2>2, ExecutionGoes
  <1> QED BY <1>1, <1>2, <1>3, <1>4, ExecuteStep DEF TileNext

\* What is known of the executions of tiles: the invariant, step by step.
THEOREM TileInvariant == TileSpec => []TileInv
  <1>1. TileInv /\ [TileNext]_tileVars => TileInv'
    <2>1. ASSUME TileInv, UNCHANGED tileVars PROVE TileInv'
      BY <2>1 DEF tileVars, TileInv, TileTypeOK, Held, WaitsForHeld, DispatchHasEnd
    <2> QED BY <2>1, TileStep
  <1> QED BY <1>1, TileInitInv, PTL DEF TileSpec

\* TilesSound: a busy tile has exactly one TaskExecution or was lost by try_result, a task
\* waits for a tile that is its own to make idle, and tasks never wait in a circle,
\* whatever the number of tiles and the order of the calls.
THEOREM TilesAlwaysSound == TileSpec => []TilesSound
  <1>1. ASSUME TileInv PROVE BusyIsHeld
    <2> DEFINE held(t) == {e \in execs : e.tile = t}
    <2> SUFFICES ASSUME NEW t \in Tiles \ {0}
                 PROVE  \/ tile[t] = "idle" /\ held(t) = {} /\ t \notin forgotten
                        \/ tile[t] # "idle" /\ Cardinality(held(t)) = 1 /\ t \notin forgotten
                        \/ tile[t] # "idle" /\ held(t) = {} /\ t \in forgotten
      BY DEF BusyIsHeld
    <2>1. CASE tile[t] = "idle"
      BY <1>1, <2>1 DEF TileInv, Held
    <2>2. CASE tile[t] # "idle" /\ t \in forgotten
      BY <1>1, <2>2 DEF TileInv, Held
    <2>3. CASE tile[t] # "idle" /\ t \notin forgotten
      <3>1. PICK e \in execs : e.tile = t
        BY <1>1, <2>3 DEF TileInv, Held
      <3>2. held(t) = {e}
        BY <1>1, <3>1 DEF TileInv, Held
      <3>3. Cardinality(held(t)) = 1
        BY <3>2, FS_Singleton
      <3> QED BY <2>3, <3>3
    <2> QED BY <2>1, <2>2, <2>3
  <1>4. ASSUME TileInv PROVE WaitsForItsOwn
    <2> SUFFICES ASSUME NEW t \in Tiles, waits[t] # NoTile
                 PROVE  /\ [holder |-> t, tile |-> waits[t]] \in execs
                        /\ tile[waits[t]] # "idle" /\ waits[t] \notin forgotten
                        /\ \A u \in Tiles : u # t => waits[u] # waits[t]
      BY DEF WaitsForItsOwn
    <2>1. PICK e \in execs : e.holder = t /\ e.tile = waits[t]
      BY <1>4 DEF TileInv, WaitsForHeld
    <2>2. e = [holder |-> t, tile |-> waits[t]]
      BY <1>4, <2>1 DEF TileInv, TileTypeOK
    <2>3. tile[waits[t]] # "idle" /\ waits[t] \notin forgotten
      BY <1>4, <2>1 DEF TileInv, Held
    <2>4. ASSUME NEW u \in Tiles, u # t, waits[u] = waits[t] PROVE FALSE
      <3>1. PICK f \in execs : f.holder = u /\ f.tile = waits[u]
        BY <1>4, <2>4 DEF TileInv, WaitsForHeld
      <3>2. f = e
        BY <1>4, <2>1, <2>4, <3>1 DEF TileInv, Held
      <3> QED BY <2>1, <2>4, <3>1, <3>2
    <2> QED BY <2>1, <2>2, <2>3, <2>4
  <1>2. ASSUME TileInv PROVE NoCircularWait
    <2> SUFFICES ASSUME NEW S \in (SUBSET Tiles) \ {{}} PROVE \E t \in S : waits[t] \notin S
      BY DEF NoCircularWait
    <2>1. PICK t \in S : \A e \in execs : e.holder = t => e.tile \notin S
      BY <1>2 DEF TileInv, DispatchHasEnd
    <2>2. CASE waits[t] = NoTile
      BY <2>1, <2>2, TileBounds
    <2>3. CASE waits[t] # NoTile
      BY <1>2, <2>1, <2>3 DEF TileInv, WaitsForHeld
    <2> QED BY <2>1, <2>2, <2>3
  <1>3. TileInv => TilesSound
    BY <1>1, <1>2, <1>4 DEF TilesSound
  <1> QED BY <1>3, TileInvariant, PTL

-----------------------------------------------------------------------------
(***************************************************************************)
(* The parts of a range.  Before(w) counts the blocks before the part of   *)
(* worker w: the parts fit because worker w + 1 starts at the block where  *)
(* worker w stops, and Before(workers) is all of them.                     *)
(***************************************************************************)

LEMMA DivMod ==
  ASSUME NEW a \in Nat, NEW b \in Nat \ {0}
  PROVE  /\ a \div b \in Nat /\ a % b \in 0..b-1
         /\ a = b * (a \div b) + (a % b)
  OBVIOUS

LEMMA TimesNat ==
  ASSUME NEW a \in Nat, NEW b \in Nat
  PROVE  a * b \in Nat
  OBVIOUS

LEMMA TimesSum ==
  ASSUME NEW a \in Int, NEW b \in Int, NEW c \in Int
  PROVE  c * (a + b) = c * a + c * b
  OBVIOUS

LEMMA TimesLess ==
  ASSUME NEW a \in Nat, NEW b \in Nat, NEW c \in Nat, a <= b
  PROVE  c * a <= c * b
  <1>1. PICK d \in Nat : b = a + d
    <2>1. b - a \in Nat /\ b = a + (b - a)
      OBVIOUS
    <2> QED BY <2>1
  <1>2. c * b = c * a + c * d
    BY <1>1, TimesSum
  <1>3. c * d \in Nat /\ c * a \in Nat
    BY TimesNat
  <1> QED BY <1>2, <1>3

\* The blocks before the part of worker w.
Before(q, x, w) == q * w + Least(w, x)

LEMMA BeforeIs ==
  ASSUME NEW q \in Nat, NEW W \in Nat \ {0}, NEW x \in 0..W-1
  PROVE  /\ Before(q, x, 0) = 0
         /\ Before(q, x, W) = W * q + x
         /\ \A w \in 0..W : Before(q, x, w) \in Nat /\ Before(q, x, w) <= W * q + x
         /\ \A w \in 0..W-1 : Before(q, x, w + 1) = Before(q, x, w) + (q + (IF w < x THEN 1 ELSE 0))
  <1>1. q * 0 = 0 /\ Least(0, x) = 0
    BY DEF Least
  <1>2. q * W = W * q /\ Least(W, x) = x
    BY DEF Least
  <1>3. ASSUME NEW w \in 0..W
        PROVE  Before(q, x, w) \in Nat /\ Before(q, x, w) <= W * q + x
    <2>1. w \in Nat /\ w <= W /\ Least(w, x) \in Nat /\ Least(w, x) <= x
      BY DEF Least
    <2>2. q * w \in Nat /\ q * W \in Nat
      BY <2>1, TimesNat
    <2>3. q * w <= q * W
      BY <2>1, TimesLess
    <2>4. Before(q, x, w) = q * w + Least(w, x)
      BY DEF Before
    <2> QED BY <1>2, <2>1, <2>2, <2>3, <2>4
  <1>4. ASSUME NEW w \in 0..W-1
        PROVE  Before(q, x, w + 1) = Before(q, x, w) + (q + (IF w < x THEN 1 ELSE 0))
    <2>1. q * (w + 1) = q * w + q * 1 /\ q * 1 = q
      BY TimesSum
    <2>2. q * w \in Nat
      BY TimesNat
    <2>3. Least(w + 1, x) = Least(w, x) + (IF w < x THEN 1 ELSE 0) /\ Least(w, x) \in Nat
      BY DEF Least
    <2>4. Before(q, x, w + 1) = q * (w + 1) + Least(w + 1, x) /\ Before(q, x, w) = q * w + Least(w, x)
      BY DEF Before
    <2> QED BY <2>1, <2>2, <2>3, <2>4
  <1> QED BY <1>1, <1>2, <1>3, <1>4 DEF Before

\* One part: where it starts, where it stops, and that the last one stops at the end.
ShareFits(s, e, L, W, q, x, w) ==
  /\ q \in Nat /\ x \in 0..W-1
  /\ s + L * Before(q, x, w) \in Nat /\ s + L * Before(q, x, w + 1) <= e
  /\ PartitionRange(s, e, L, w, W) =
       <<s + L * Before(q, x, w), IF w = W - 1 THEN e ELSE s + L * Before(q, x, w + 1)>>
  /\ L * Before(q, x, w) <= L * Before(q, x, w + 1)

LEMMA ShareIs ==
  ASSUME NEW s \in Nat, NEW e \in Nat, s < e, NEW L \in Nat \ {0}, NEW W \in Nat \ {0},
         NEW q, NEW x, q = ((e - s) \div L) \div W, x = ((e - s) \div L) % W,
         NEW w \in 0..W-1
  PROVE  ShareFits(s, e, L, W, q, x, w)
  <1>1. PICK n \in Nat : n = e - s
    <2>1. e - s \in Nat
      OBVIOUS
    <2> QED BY <2>1
  <1>2. PICK b \in Nat, r \in 0..L-1 : b = n \div L /\ r = n % L /\ n = L * b + r
    BY DivMod
  <1>3. b = (e - s) \div L /\ r = (e - s) % L
    BY <1>1, <1>2
  <1>4. q \in Nat /\ x \in 0..W-1 /\ b = W * q + x
    BY <1>3, DivMod
  <1>5. /\ Before(q, x, W) = b
        /\ \A v \in 0..W : Before(q, x, v) \in Nat /\ Before(q, x, v) <= b
        /\ Before(q, x, w + 1) = Before(q, x, w) + (q + (IF w < x THEN 1 ELSE 0))
    <2>1. /\ Before(q, x, W) = W * q + x
          /\ \A v \in 0..W : Before(q, x, v) \in Nat /\ Before(q, x, v) <= W * q + x
          /\ \A v \in 0..W-1 : Before(q, x, v + 1) = Before(q, x, v) + (q + (IF v < x THEN 1 ELSE 0))
      <3>1. q \in Nat /\ x \in 0..W-1 /\ W \in Nat \ {0}
        BY <1>4
      <3> QED BY ONLY <3>1, BeforeIs, Zenon
    <2>2. W * q + x = b
      BY <1>4
    <2> QED BY <2>1, <2>2
  <1>6. PICK k \in Nat : k = Before(q, x, w) /\ k <= b
    <2>1. w \in 0..W
      OBVIOUS
    <2> QED BY <1>5, <2>1
  <1>7. PICK m \in Nat : m = Before(q, x, w + 1) /\ m <= b
    <2>1. w + 1 \in 0..W
      OBVIOUS
    <2> QED BY <1>5, <2>1
  <1>8. PICK d \in Nat : d = q + (IF w < x THEN 1 ELSE 0) /\ m = k + d
    BY <1>4, <1>5, <1>6, <1>7
  <1>9. L * m = L * k + L * d /\ L * k \in Nat /\ L * d \in Nat /\ L * m \in Nat
    BY <1>8, TimesSum, TimesNat
  <1>10. L * m <= L * b /\ L * b \in Nat
    BY <1>7, TimesLess, TimesNat
  <1>11. s + L * m <= e /\ L * b + r = e - s
    BY <1>1, <1>2, <1>9, <1>10
  <1>12. w = W - 1 => L * m = L * b
    <2>1. w = W - 1 => w + 1 = W
      OBVIOUS
    <2> QED BY <1>5, <1>7, <2>1
  <1>13. PartitionRange(s, e, L, w, W) =
           <<s + L * k, Least(s + L * k + L * d + (IF w = W - 1 THEN r ELSE 0), e)>>
    <2>1. ~(w >= W \/ s >= e \/ L = 0)
      OBVIOUS
    <2>2. k = q * w + Least(w, x)
      BY <1>6 DEF Before
    <2> QED BY <1>3, <1>8, <2>1, <2>2 DEF PartitionRange
  <1>14. Least(s + L * k + L * d + (IF w = W - 1 THEN r ELSE 0), e) = IF w = W - 1 THEN e ELSE s + L * m
    <2>1. CASE w = W - 1
      <3>1. s + L * k + L * d + r = e
        BY <1>9, <1>11, <1>12, <2>1
      <3> QED BY <2>1, <3>1 DEF Least
    <2>2. CASE w # W - 1
      <3>1. s + L * k + L * d + 0 = s + L * m
        BY <1>9
      <3> QED BY <1>11, <2>2, <3>1 DEF Least
    <2> QED BY <2>1, <2>2
  <1> QED BY <1>4, <1>6, <1>7, <1>9, <1>11, <1>13, <1>14 DEF ShareFits

\* What the workers got is what partition_range returns for the range that was split.
Shared ==
  /\ work \in [start: Nat, end: Nat, lanes: Nat, workers: Nat]
  /\ shares = [i \in 1..work.workers |->
                 PartitionRange(work.start, work.end, work.lanes, i - 1, work.workers)]

LEMMA SharedExact == Shared => SharesExact
  <1> SUFFICES ASSUME Shared PROVE SharesExact
    OBVIOUS
  <1>1. PICK s \in Nat, e \in Nat, L \in Nat, W \in Nat :
           s = work.start /\ e = work.end /\ L = work.lanes /\ W = work.workers
    BY DEF Shared
  <1>2. \A i \in 1..W : shares[i] = PartitionRange(s, e, L, i - 1, W)
    BY <1>1 DEF Shared
  <1>3. CASE s < e /\ L > 0 /\ W > 0
    <2>1. L \in Nat \ {0} /\ W \in Nat \ {0}
      BY <1>3
    <2>a. PICK q : q = ((e - s) \div L) \div W
      OBVIOUS
    <2>b. PICK x : x = ((e - s) \div L) % W
      OBVIOUS
    <2>c. ASSUME NEW w \in 0..W-1 PROVE ShareFits(s, e, L, W, q, x, w)
      <3>1. s \in Nat /\ e \in Nat /\ s < e /\ L \in Nat \ {0} /\ W \in Nat \ {0} /\ w \in 0..W-1
        BY <1>3, <2>1
      <3> QED BY ONLY <3>1, <2>a, <2>b, ShareIs, Zenon
    <2>2. \A w \in 0..W-1 :
             /\ q \in Nat /\ x \in 0..W-1
             /\ s + L * Before(q, x, w) \in Nat /\ s + L * Before(q, x, w + 1) <= e
             /\ PartitionRange(s, e, L, w, W) =
                  <<s + L * Before(q, x, w), IF w = W - 1 THEN e ELSE s + L * Before(q, x, w + 1)>>
             /\ L * Before(q, x, w) <= L * Before(q, x, w + 1)
      BY <2>c DEF ShareFits
    <2>3. 0 \in 0..W-1 /\ 1 \in 1..W /\ W \in 1..W /\ W - 1 \in 0..W-1 /\ 1 - 1 = 0
      BY <2>1
    <2>4. Before(q, x, 0) = 0 /\ L * 0 = 0
      BY <2>1, <2>2, <2>3, BeforeIs
    <2>5. shares[1] = PartitionRange(s, e, L, 0, W)
      BY <1>2, <2>3
    <2>6. shares[1][1] = s
      BY <2>2, <2>3, <2>4, <2>5
    <2>7. shares[W][2] = e
      BY <1>2, <2>2, <2>3
    <2>8. ASSUME NEW i \in 1..W
          PROVE  shares[i][1] <= shares[i][2] /\ (i < W => shares[i][2] = shares[i + 1][1])
      <3>1. PICK w \in 0..W-1 : w = i - 1 /\ (w = W - 1 <=> i = W) /\ w + 1 = i
        BY <2>1
      <3>2. /\ shares[i] = <<s + L * Before(q, x, w), IF w = W - 1 THEN e ELSE s + L * Before(q, x, w + 1)>>
            /\ s + L * Before(q, x, w) \in Nat /\ s + L * Before(q, x, w + 1) <= e
            /\ L * Before(q, x, w) <= L * Before(q, x, w + 1)
        BY <1>2, <2>2, <3>1
      <3>3. q \in Nat /\ x \in 0..W-1
        BY <2>2, <2>3
      <3>4. Before(q, x, w) \in Nat /\ Before(q, x, w + 1) \in Nat
        <4>1. w \in 0..W /\ w + 1 \in 0..W
          BY <2>1
        <4> QED BY <2>1, <3>3, <4>1, BeforeIs
      <3>5. L * Before(q, x, w) \in Nat /\ L * Before(q, x, w + 1) \in Nat
        BY <3>4, TimesNat
      <3>6. shares[i][1] <= shares[i][2]
        BY <3>2, <3>5
      <3>7. ASSUME i < W PROVE shares[i][2] = shares[i + 1][1]
        <4>1. PICK v \in 0..W-1 : v = i /\ v = w + 1 /\ w # W - 1
          BY <2>1, <3>1, <3>7
        <4>2. i + 1 \in 1..W /\ (i + 1) - 1 = v
          BY <2>1, <3>7, <4>1
        <4>3. shares[i + 1] = PartitionRange(s, e, L, v, W)
          BY <1>2, <4>2
        <4>4. shares[i + 1][1] = s + L * Before(q, x, v)
          BY <2>2, <4>3
        <4>5. shares[i][2] = s + L * Before(q, x, w + 1)
          BY <3>2, <4>1
        <4> QED BY <4>1, <4>4, <4>5
      <3> QED BY <3>6, <3>7
    <2> QED BY <1>1, <1>3, <2>6, <2>7, <2>8 DEF SharesExact
  <1>4. CASE ~(s < e /\ L > 0 /\ W > 0)
    <2>1. ASSUME NEW i \in 1..W PROVE shares[i] = <<s, s>>
      <3>1. i - 1 >= W \/ s >= e \/ L = 0
        BY <1>4
      <3> QED BY <1>2, <3>1 DEF PartitionRange
    <2> QED BY <1>1, <1>4, <2>1 DEF SharesExact
  <1> QED BY <1>3, <1>4

\* SharesExact: however many tasks, lanes and workers there are, the parts partition_range
\* gives the workers follow one another, from the start of the range to its end.
THEOREM SharesAlwaysExact == TpSpec => []SharesExact
  <1>1. TpInit => Shared
    BY DEF TpInit, NoWork, Shared
  <1>2. ASSUME Shared, [TpNext]_tpVars PROVE Shared'
    <2>1. CASE UNCHANGED <<work, shares>>
      BY <1>2, <2>1 DEF Shared
    <2>2. ASSUME NEW start \in 0..TaskMax, NEW end \in 0..TaskMax, NEW lanes \in 0..LaneMax,
                 NEW workers \in 0..WorkerMax, Split(start, end, lanes, workers)
          PROVE  Shared'
      <3>1. start \in Nat /\ end \in Nat /\ lanes \in Nat /\ workers \in Nat
        BY TpoolAssumption
      <3> QED BY <2>2, <3>1 DEF Split, Shared
    <2> QED BY <1>2, <2>1, <2>2 DEF TpNext, NewPool, DropPool, tpVars
  <1>3. Shared /\ [TpNext]_tpVars => Shared'
    BY <1>2
  <1> QED BY <1>1, <1>3, SharedExact, PTL DEF TpSpec

-----------------------------------------------------------------------------
(***************************************************************************)
(* The gRPC client.  The properties rest on the life of a request id: it   *)
(* is unused, then in flight, then over, and only an id that was used has  *)
(* a handle.                                                               *)
(***************************************************************************)

UsedOnce ==
  /\ ended \cap unused = {}
  /\ \A h \in handles : h.request \notin unused
  /\ \A s \in Streams : deadline[s] \notin unused

GrpcInv == GrpcTypeOK /\ DeadlineIsOwn /\ DeadlineAtHome /\ HandleFindsItsStream /\ UsedOnce

LEMMA GrpcStarts ==
  ASSUME GrpcInv, NEW s \in Streams, NEW r \in Requests, RequestStart(s, r)
  PROVE  GrpcInv'
  <1> DEFINE g == [stream |-> s, request |-> r]
  <1>1. g.stream = s /\ g.request = r /\ g \in [stream: Streams, request: Requests]
    OBVIOUS
  <1>2. /\ r \in unused /\ stream[s] = NoRequest /\ handles' = handles \cup {g}
        /\ unused' = unused \ {r} /\ UNCHANGED <<client, connected, ended, staleUse>>
        /\ stream' = [stream EXCEPT ![s] = r] /\ deadline' = [deadline EXCEPT ![s] = NoRequest]
    BY DEF RequestStart
  <1> HIDE DEF g
  <1>3. /\ stream \in [Streams -> Requests \cup {NoRequest}]
        /\ deadline \in [Streams -> Requests \cup {NoRequest}]
        /\ \A h \in handles : h.stream \in Streams /\ h.request \in Requests
        /\ NoRequest \notin Requests
    BY GrpcAssumption DEF GrpcInv, GrpcTypeOK
  <1>4. /\ stream'[s] = r /\ deadline'[s] = NoRequest
        /\ \A t \in Streams : t # s => stream'[t] = stream[t] /\ deadline'[t] = deadline[t]
    BY <1>2, <1>3
  <1>5. GrpcTypeOK'
    BY <1>1, <1>2, <1>3 DEF GrpcInv, GrpcTypeOK
  <1>6. DeadlineIsOwn'
    BY <1>2, <1>4 DEF GrpcInv, DeadlineIsOwn
  <1>7. UsedOnce'
    <2>1. \A h \in handles : h.request \notin unused
      BY DEF GrpcInv, UsedOnce
    <2>2. ended \cap unused = {} /\ \A t \in Streams : deadline[t] \notin unused
      BY DEF GrpcInv, UsedOnce
    <2>3. NoRequest \notin unused
      BY <1>3 DEF GrpcInv, GrpcTypeOK
    <2>4. \A h \in handles' : h.request \notin unused'
      BY <1>1, <1>2, <2>1
    <2>5. ended' \cap unused' = {}
      BY <1>2, <2>2
    <2>6. \A t \in Streams : deadline'[t] \notin unused'
      BY <1>2, <1>4, <2>2, <2>3
    <2> QED BY <2>4, <2>5, <2>6 DEF UsedOnce
  <1>14. DeadlineAtHome'
    <2>1. \A t \in Streams : deadline[t] # r
      BY <1>2 DEF GrpcInv, UsedOnce
    <2>2. \A t, u \in Streams : stream[t] # NoRequest /\ deadline[u] = stream[t] => u = t
      BY DEF GrpcInv, DeadlineAtHome
    <2>3. ASSUME NEW t \in Streams, NEW u \in Streams,
                 stream'[t] # NoRequest, deadline'[u] = stream'[t]
          PROVE  u = t
      <3>1. u # s
        BY <1>4, <2>3
      <3>2. deadline'[u] = deadline[u]
        BY <1>4, <3>1
      <3>3. t # s
        BY <1>4, <2>1, <2>3, <3>2
      <3> QED BY <1>4, <2>2, <2>3, <3>2, <3>3
    <2> QED BY <2>3 DEF DeadlineAtHome
  <1>8. \A t \in Streams : stream[t] \notin ended \cup unused
    BY DEF GrpcInv, HandleFindsItsStream
  <1>9. r \notin ended
    BY <1>2 DEF GrpcInv, UsedOnce
  <1>10. \A t \in Streams : stream'[t] \notin ended' \cup unused'
    BY <1>2, <1>4, <1>8, <1>9
  <1>11. ASSUME NEW h \in handles', NEW t \in Streams, stream'[t] = h.request
         PROVE  stream'[h.stream] = h.request
    <2>1. CASE h = g
      BY <1>1, <1>4, <2>1
    <2>2. CASE h \in handles
      <3>1. h.request # r /\ h.request # NoRequest
        BY <1>2, <1>3, <2>2 DEF GrpcInv, UsedOnce
      <3>2. t # s /\ stream[t] = h.request
        BY <1>4, <1>11, <3>1
      <3>3. stream[h.stream] = h.request
        BY <2>2, <3>2 DEF GrpcInv, HandleFindsItsStream
      <3>4. h.stream # s
        BY <1>2, <3>1, <3>3
      <3> QED BY <1>3, <1>4, <2>2, <3>3, <3>4
    <2> QED BY <1>2, <2>1, <2>2
  <1>12. ASSUME NEW t \in Streams, NEW u \in Streams, t # u, stream'[t] # NoRequest
         PROVE  stream'[t] # stream'[u]
    <2>1. \A v \in Streams : stream[v] # r
      BY <1>2, <1>8
    <2>2. \A v, w \in Streams : v # w /\ stream[v] # NoRequest => stream[v] # stream[w]
      BY DEF GrpcInv, HandleFindsItsStream
    <2> QED BY <1>4, <1>12, <2>1, <2>2
  <1>13. HandleFindsItsStream'
    BY <1>10, <1>11, <1>12 DEF HandleFindsItsStream
  <1> QED BY <1>5, <1>6, <1>7, <1>13, <1>14 DEF GrpcInv

LEMMA GrpcFinishes ==
  ASSUME GrpcInv, NEW s \in Streams, NEW cb, Finish(s, cb)
  PROVE  GrpcInv'
  <1>1. /\ stream[s] # NoRequest /\ ended' = ended \cup {stream[s]}
        /\ stream' = [stream EXCEPT ![s] = NoRequest]
        /\ UNCHANGED <<client, connected, deadline, handles, unused, staleUse>>
    BY DEF Finish
  <1>2. stream \in [Streams -> Requests \cup {NoRequest}] /\ NoRequest \notin Requests
    BY GrpcAssumption DEF GrpcInv, GrpcTypeOK
  <1>3. stream'[s] = NoRequest /\ \A t \in Streams : t # s => stream'[t] = stream[t]
    BY <1>1, <1>2
  <1>4. stream[s] \in Requests
    BY <1>1, <1>2
  <1>5. GrpcTypeOK'
    BY <1>1, <1>2, <1>4 DEF GrpcInv, GrpcTypeOK
  <1>6. DeadlineIsOwn'
    BY <1>1, <1>3 DEF GrpcInv, DeadlineIsOwn
  <1>7. /\ \A t \in Streams : stream[t] \notin ended \cup unused
        /\ \A t, u \in Streams : t # u /\ stream[t] # NoRequest => stream[t] # stream[u]
        /\ \A h \in handles : (\E t \in Streams : stream[t] = h.request) => stream[h.stream] = h.request
    BY DEF GrpcInv, HandleFindsItsStream
  <1>8. UsedOnce'
    BY <1>1, <1>7 DEF GrpcInv, UsedOnce
  <1>14. DeadlineAtHome'
    BY <1>1, <1>3 DEF GrpcInv, DeadlineAtHome
  <1>9. \A t \in Streams : stream'[t] \notin ended' \cup unused'
    <2>1. NoRequest \notin ended \cup unused
      BY <1>2 DEF GrpcInv, GrpcTypeOK
    <2> QED BY <1>1, <1>3, <1>7, <2>1
  <1>10. \A h \in handles : h.stream \in Streams /\ h.request \in Requests
    BY DEF GrpcInv, GrpcTypeOK
  <1>11. ASSUME NEW h \in handles, NEW t \in Streams, stream'[t] = h.request
         PROVE  stream'[h.stream] = h.request
    <2>1. t # s /\ stream[t] = h.request
      BY <1>2, <1>3, <1>10, <1>11
    <2>2. stream[h.stream] = h.request
      BY <1>7, <2>1
    <2>3. h.stream # s
      BY <1>1, <1>7, <2>1, <2>2
    <2> QED BY <1>3, <1>10, <2>2, <2>3
  <1>12. \A t, u \in Streams : t # u /\ stream'[t] # NoRequest => stream'[t] # stream'[u]
    BY <1>3, <1>7
  <1>13. HandleFindsItsStream'
    BY <1>1, <1>9, <1>11, <1>12 DEF HandleFindsItsStream
  <1> QED BY <1>5, <1>6, <1>8, <1>13, <1>14 DEF GrpcInv

LEMMA GrpcStep == GrpcInv /\ GrpcNext => GrpcInv'
  <1> SUFFICES ASSUME GrpcInv, GrpcNext PROVE GrpcInv'
    OBVIOUS
  <1> USE DEF GrpcInv, GrpcTypeOK, DeadlineIsOwn, DeadlineAtHome, HandleFindsItsStream, UsedOnce
  <1>1. CASE GrpcNew \/ SetName \/ ConnEstablished \/ RequestRefused
    BY <1>1 DEF GrpcNew, SetName, ConnEstablished, RequestRefused
  <1>2. CASE ConnLost \/ DropGrpcClient
    <2>1. /\ stream' = [s \in Streams |-> NoRequest] /\ client' \in {client, "dropped"} /\ connected' = FALSE
          /\ UNCHANGED <<deadline, handles, unused, ended, staleUse>>
      BY <1>2 DEF ConnLost, DropGrpcClient
    <2>2. \A s \in Streams : stream'[s] = NoRequest
      BY <2>1
    <2>3. NoRequest \notin ended \cup unused /\ \A h \in handles : h.request # NoRequest
      BY GrpcAssumption
    <2>4. GrpcTypeOK'
      BY <2>1
    <2>5. DeadlineIsOwn' /\ DeadlineAtHome' /\ UsedOnce'
      BY <2>1, <2>2
    <2>6. HandleFindsItsStream'
      BY <2>1, <2>2, <2>3
    <2> QED BY <2>4, <2>5, <2>6
  <1>3. ASSUME NEW h \in handles, SetDeadline(h) PROVE GrpcInv'
    <2>1. /\ deadline' = [deadline EXCEPT ![h.stream] = h.request]
          /\ staleUse' = (staleUse \/ stream[h.stream] # h.request)
          /\ UNCHANGED <<client, connected, stream, handles, unused, ended>>
      BY <1>3 DEF SetDeadline
    <2>2. h.stream \in Streams /\ h.request \in Requests
      OBVIOUS
    <2>3. GrpcTypeOK'
      BY <2>1, <2>2
    <2>4. DeadlineIsOwn'
      BY <2>1, <2>2
    <2>5. HandleFindsItsStream'
      BY <2>1
    <2>6. deadline'[h.stream] = h.request /\ \A t \in Streams : t # h.stream => deadline'[t] = deadline[t]
      BY <2>1, <2>2
    <2>7. UsedOnce'
      BY <2>1, <2>6
    <2>8. ASSUME NEW s \in Streams, NEW t \in Streams,
                 stream[s] # NoRequest, deadline'[t] = stream[s]
          PROVE  t = s
      <3>1. CASE t # h.stream
        BY <2>6, <2>8, <3>1
      <3>2. CASE t = h.stream
        <4>1. stream[s] = h.request
          BY <2>6, <2>8, <3>2
        <4>2. stream[h.stream] = h.request
          BY <4>1
        <4> QED BY <2>2, <2>8, <3>2, <4>1, <4>2
      <3> QED BY <3>1, <3>2
    <2>9. DeadlineAtHome'
      BY <2>1, <2>8
    <2> QED BY <2>3, <2>4, <2>5, <2>7, <2>9
  <1>4. ASSUME NEW h \in handles, DropHandle(h) PROVE GrpcInv'
    BY <1>4 DEF DropHandle
  <1> QED BY <1>1, <1>2, <1>3, <1>4, GrpcStarts, GrpcFinishes DEF GrpcNext

\* DeadlineIsOwn, DeadlineAtHome and HandleFindsItsStream, for any pool of streams and any
\* requests.
THEOREM GrpcAlwaysSound ==
  GrpcSpec => [](GrpcTypeOK /\ DeadlineIsOwn /\ DeadlineAtHome /\ HandleFindsItsStream)
  <1>1. GrpcInit => GrpcInv
    <2> SUFFICES ASSUME GrpcInit PROVE GrpcInv
      OBVIOUS
    <2>1. GrpcTypeOK /\ DeadlineIsOwn /\ DeadlineAtHome
      BY DEF GrpcInit, GrpcTypeOK, DeadlineIsOwn, DeadlineAtHome
    <2>3. UsedOnce
      BY GrpcAssumption DEF GrpcInit, UsedOnce
    <2>2. HandleFindsItsStream
      BY GrpcAssumption DEF GrpcInit, HandleFindsItsStream
    <2> QED BY <2>1, <2>2, <2>3 DEF GrpcInv
  <1>2. GrpcInv /\ UNCHANGED grpcVars => GrpcInv'
    BY DEF grpcVars, GrpcInv, GrpcTypeOK, DeadlineIsOwn, DeadlineAtHome, HandleFindsItsStream,
           UsedOnce
  <1>3. GrpcInv => GrpcTypeOK /\ DeadlineIsOwn /\ DeadlineAtHome /\ HandleFindsItsStream
    BY DEF GrpcInv
  <1> QED BY <1>1, <1>2, <1>3, GrpcStep, PTL DEF GrpcSpec

-----------------------------------------------------------------------------
(***************************************************************************)
(* The AF_XDP sender.  Frames are used in order and, as nobody empties the *)
(* completion ring, none is used twice: of the frames below txIdx, the     *)
(* first Base are with the kernel or transmitted and the others wait in    *)
(* the ring, in order.  The counters of the ring wrap at RingMod, a        *)
(* multiple of Depth, and the slots at Depth.                              *)
(***************************************************************************)

\* A remainder is the only number below the modulus that differs by a multiple of it.
LEMMA RemainderIs ==
  ASSUME NEW c \in Nat \ {0}, NEW a \in Nat, NEW k \in Nat, NEW r \in 0..c-1, a = c * k + r
  PROVE  a % c = r
  <1>1. PICK q \in Nat, x \in 0..c-1 : q = a \div c /\ x = a % c /\ a = c * q + x
    BY DivMod
  <1>2. c * k \in Nat /\ c * q \in Nat /\ c * 1 = c
    BY TimesNat
  <1>3. ~(k + 1 <= q)
    <2> SUFFICES ASSUME k + 1 <= q PROVE FALSE
      OBVIOUS
    <2>1. k + 1 \in Nat /\ c * (k + 1) <= c * q
      BY TimesLess
    <2>2. c * (k + 1) = c * k + c * 1
      BY TimesSum
    <2> QED BY <1>1, <1>2, <2>1, <2>2
  <1>4. ~(q + 1 <= k)
    <2> SUFFICES ASSUME q + 1 <= k PROVE FALSE
      OBVIOUS
    <2>1. q + 1 \in Nat /\ c * (q + 1) <= c * k
      BY TimesLess
    <2>2. c * (q + 1) = c * q + c * 1
      BY TimesSum
    <2> QED BY <1>1, <1>2, <2>1, <2>2
  <1>5. q = k
    BY <1>3, <1>4
  <1> QED BY <1>1, <1>2, <1>5

\* Slots d apart, with 0 < d < c, are different.
LEMMA SlotsApart ==
  ASSUME NEW c \in Nat \ {0}, NEW a \in Nat, NEW d \in 1..c-1
  PROVE  a % c # (a + d) % c
  <1>1. PICK q \in Nat, x \in 0..c-1 : x = a % c /\ a = c * q + x
    BY DivMod
  <1>2. c * q \in Nat /\ c * (q + 1) = c * q + c * 1 /\ c * 1 = c
    BY TimesNat, TimesSum
  <1>3. CASE x + d < c
    <2>1. PICK r \in 0..c-1 : r = x + d
      BY <1>3
    <2>2. PICK b \in Nat : b = a + d /\ b = c * q + r
      BY <1>1, <1>2, <2>1
    <2>3. b % c = r
      BY <2>2, RemainderIs
    <2> QED BY <1>1, <2>1, <2>2, <2>3
  <1>4. CASE ~(x + d < c)
    <2>1. PICK r \in 0..c-1 : r = x + d - c
      BY <1>4
    <2>2. PICK m \in Nat : m = q + 1
      OBVIOUS
    <2>3. PICK b \in Nat : b = a + d /\ b = c * m + r
      BY <1>1, <1>2, <2>1, <2>2
    <2>4. b % c = r
      BY <2>3, RemainderIs
    <2> QED BY <1>1, <2>1, <2>3, <2>4
  <1> QED BY <1>3, <1>4

LEMMA QuotientAnd ==
  ASSUME NEW a \in Nat, NEW c \in Nat \ {0}
  PROVE  \E q \in Nat, x \in 0..c-1 : x = a % c /\ a = c * q + x
  BY DivMod

\* A counter that wraps at a multiple of the number of slots keeps its slot.
LEMMA SlotKept ==
  ASSUME NEW c \in Nat \ {0}, NEW M \in Nat \ {0}, M % c = 0, NEW a \in Nat
  PROVE  (a + M) % c = a % c
  <1>1. PICK q \in Nat, x \in 0..c-1 : x = a % c /\ a = c * q + x
    BY ONLY a \in Nat, c \in Nat \ {0}, QuotientAnd, Zenon
  <1>2. PICK m \in Nat : M = c * m
    <2>0. M \in Nat
      OBVIOUS
    <2>1. PICK m \in Nat, y \in 0..c-1 : y = M % c /\ M = c * m + y
      BY ONLY <2>0, c \in Nat \ {0}, QuotientAnd, Zenon
    <2>2. c * m \in Nat
      BY TimesNat
    <2>3. M = c * m
      BY <2>1, <2>2
    <2> QED BY <2>3
  <1>3. c * (q + m) = c * q + c * m /\ c * q \in Nat /\ c * m \in Nat
    BY TimesNat, TimesSum
  <1>4. PICK k \in Nat : k = q + m
    OBVIOUS
  <1>5. PICK b \in Nat : b = a + M /\ b = c * k + x
    BY <1>1, <1>2, <1>3, <1>4
  <1>6. b % c = x
    BY <1>5, RemainderIs
  <1> QED BY <1>1, <1>5, <1>6

\* The distance between two counters that wrap at M.
LEMMA DistanceIs ==
  ASSUME NEW M \in Nat \ {0}, NEW p \in 0..M-1, NEW q \in 0..M-1
  PROVE  (p - q) % M = (IF p >= q THEN p - q ELSE p - q + M)
  <1>1. CASE p >= q
    <2>1. p - q \in 0..M-1
      BY <1>1
    <2> QED BY <1>1, <2>1
  <1>2. CASE ~(p >= q)
    <2>1. p - q + M \in 0..M-1 /\ p - q = (-1) * M + (p - q + M)
      BY <1>2
    <2> QED BY <1>2, <2>1
  <1> QED BY <1>1, <1>2

LEMMA NextIs ==
  ASSUME NEW M \in Nat \ {0}, NEW p \in 0..M-1
  PROVE  (p + 1) % M = (IF p + 1 = M THEN 0 ELSE p + 1)
  <1>1. CASE p + 1 = M
    BY <1>1
  <1>2. CASE p + 1 # M
    <2>1. p + 1 \in 0..M-1
      BY <1>2
    <2> QED BY <1>2, <2>1
  <1> QED BY <1>1, <1>2

\* The frames that are with the kernel or transmitted.
Base == Cardinality(inFlight) + completed
Slot(k) == txRing[(cons + k) % Depth]

RingInOrder ==
  \A k \in 0..(Queued - 1) : Slot(k).addr = Base + k /\ umem[Base + k] = Slot(k).want

FlightIntact == \A d \in inFlight : d.addr < Base /\ umem[d.addr] = d.want

XdpInv ==
  /\ XdpTypeOK /\ FramesIntact /\ IsFiniteSet(inFlight)
  /\ Queued <= Depth /\ Base <= Depth
  /\ xdp # "dropped" => txIdx = Queued + Base /\ RingInOrder /\ FlightIntact
  /\ xdp = "dropped" => inFlight = {}

LEMMA XdpNumbers ==
  ASSUME XdpInv
  PROVE  /\ Depth \in Nat \ {0} /\ RingMod \in Nat \ {0} /\ Depth < RingMod /\ RingMod % Depth = 0
         /\ prod \in 0..(RingMod - 1) /\ cons \in 0..(RingMod - 1)
         /\ Queued = (IF prod >= cons THEN prod - cons ELSE prod - cons + RingMod)
         /\ Queued \in 0..Depth /\ Cardinality(inFlight) \in Nat /\ completed \in Nat
         /\ Base \in 0..Depth /\ Queued <= Depth
  <1>1. /\ Depth \in Nat \ {0} /\ RingMod \in Nat \ {0} /\ Depth < RingMod /\ RingMod % Depth = 0
    BY XdpAssumption
  <1>2. prod \in 0..(RingMod - 1) /\ cons \in 0..(RingMod - 1) /\ completed \in Nat
    BY DEF XdpInv, XdpTypeOK
  <1>3. PICK p \in 0..(RingMod - 1), q \in 0..(RingMod - 1) : p = prod /\ q = cons
    BY <1>2
  <1>4. (p - q) % RingMod = (IF p >= q THEN p - q ELSE p - q + RingMod)
    BY <1>1, DistanceIs
  <1>5. Queued = (IF prod >= cons THEN prod - cons ELSE prod - cons + RingMod)
    BY <1>3, <1>4 DEF Queued
  <1>6. Cardinality(inFlight) \in Nat
    BY FS_CardinalityType DEF XdpInv
  <1>7. Queued <= Depth /\ Base <= Depth
    BY DEF XdpInv
  <1>8. Queued \in 0..Depth
    BY <1>1, <1>2, <1>5, <1>7
  <1>9. Base \in 0..Depth
    BY <1>1, <1>2, <1>6, <1>7 DEF Base
  <1> QED BY <1>1, <1>2, <1>5, <1>6, <1>7, <1>8, <1>9

\* The slot the next descriptor goes to follows those that are queued.
LEMMA SlotOfProd ==
  ASSUME XdpInv
  PROVE  /\ prod % Depth = (cons + Queued) % Depth
         /\ prod % Depth \in 0..(Depth - 1)
         /\ Queued < Depth => \A k \in 0..(Queued - 1) : (cons + k) % Depth # prod % Depth
  <1>0. PICK D \in Nat \ {0}, M \in Nat \ {0} : D = Depth /\ M = RingMod
    BY XdpNumbers
  <1>1. PICK p \in 0..(M - 1), q \in 0..(M - 1), n \in 0..D :
           /\ D = Depth /\ M = RingMod /\ p = prod /\ q = cons /\ n = Queued
           /\ M % D = 0 /\ n = (IF p >= q THEN p - q ELSE p - q + M)
    BY <1>0, XdpNumbers
  <1>2. p % D = (q + n) % D
    <2>1. CASE p >= q
      <3>1. q + n = p
        BY <1>1, <2>1
      <3> QED BY <3>1
    <2>2. CASE ~(p >= q)
      <3>1. q + n = p + M
        BY <1>1, <2>2
      <3>2. p \in Nat /\ M % D = 0
        BY <1>1
      <3>3. (p + M) % D = p % D
        BY ONLY <3>2, D \in Nat \ {0}, M \in Nat \ {0}, SlotKept, Zenon
      <3> QED BY <3>1, <3>3
    <2> QED BY <2>1, <2>2
  <1>3. p % D \in 0..(D - 1)
    <2>1. p \in Nat
      OBVIOUS
    <2> QED BY <2>1, DivMod
  <1>4. ASSUME n < D, NEW k \in 0..(n - 1) PROVE (q + k) % D # p % D
    <2>1. PICK a \in Nat : a = q + k
      OBVIOUS
    <2>2. PICK d \in 1..D-1 : d = n - k
      BY <1>4
    <2>3. a + d = q + n
      BY <2>1, <2>2
    <2>4. a % D # (a + d) % D
      BY SlotsApart
    <2> QED BY <1>2, <2>1, <2>3, <2>4
  <1> QED BY <1>1, <1>2, <1>3, <1>4

\* What a step of a counter does to the distance, and to the slots.
LEMMA ProdSteps ==
  ASSUME XdpInv, Queued < Depth, prod' = (prod + 1) % RingMod, cons' = cons
  PROVE  prod' \in 0..(RingMod - 1) /\ Queued' = Queued + 1
  <1>0. PICK D \in Nat \ {0}, M \in Nat \ {0} : D = Depth /\ M = RingMod
    BY XdpNumbers
  <1>1. PICK p \in 0..(M - 1), q \in 0..(M - 1) :
           /\ M = RingMod /\ D = Depth /\ D < M /\ p = prod /\ q = cons
           /\ Queued = (IF p >= q THEN p - q ELSE p - q + M)
    BY <1>0, XdpNumbers
  <1>2. (p + 1) % M = (IF p + 1 = M THEN 0 ELSE p + 1)
    BY NextIs
  <1>3. PICK s \in 0..(M - 1) : s = (p + 1) % M /\ s = (IF p + 1 = M THEN 0 ELSE p + 1)
    BY <1>2
  <1>4. (s - q) % M = (IF s >= q THEN s - q ELSE s - q + M)
    BY DistanceIs
  <1>5. Queued' = (s - q) % M /\ prod' = s
    BY <1>1, <1>3 DEF Queued
  <1>6. (IF s >= q THEN s - q ELSE s - q + M) = (IF p >= q THEN p - q ELSE p - q + M) + 1
    BY <1>1, <1>3
  <1> QED BY <1>1, <1>3, <1>4, <1>5, <1>6

LEMMA ConsSteps ==
  ASSUME XdpInv, Queued > 0, cons' = (cons + 1) % RingMod, prod' = prod
  PROVE  /\ cons' \in 0..(RingMod - 1) /\ Queued' = Queued - 1
         /\ \A k \in 0..(Queued - 2) : (cons' + k) % Depth = (cons + (k + 1)) % Depth
         /\ cons % Depth = (cons + 0) % Depth /\ cons % Depth \in 0..(Depth - 1)
  <1>0. PICK D \in Nat \ {0}, M \in Nat \ {0} : D = Depth /\ M = RingMod
    BY XdpNumbers
  <1>1. PICK p \in 0..(M - 1), q \in 0..(M - 1) :
           /\ M = RingMod /\ D = Depth /\ M % D = 0 /\ p = prod /\ q = cons
           /\ Queued = (IF p >= q THEN p - q ELSE p - q + M)
    BY <1>0, XdpNumbers
  <1>2. (q + 1) % M = (IF q + 1 = M THEN 0 ELSE q + 1)
    BY NextIs
  <1>3. PICK s \in 0..(M - 1) : s = (q + 1) % M /\ s = (IF q + 1 = M THEN 0 ELSE q + 1)
    BY <1>2
  <1>4. (p - s) % M = (IF p >= s THEN p - s ELSE p - s + M)
    BY DistanceIs
  <1>5. Queued' = (p - s) % M /\ cons' = s
    BY <1>1, <1>3 DEF Queued
  <1>6. (IF p >= s THEN p - s ELSE p - s + M) = (IF p >= q THEN p - q ELSE p - q + M) - 1
    BY <1>1, <1>3
  <1>7. ASSUME NEW k \in Nat PROVE (s + k) % D = (q + (k + 1)) % D
    <2>1. CASE q + 1 = M
      <3>1. s + k = k /\ q + (k + 1) = k + M
        BY <1>3, <2>1
      <3>2. M % D = 0
        BY <1>1
      <3>3. (k + M) % D = k % D
        BY ONLY <3>2, k \in Nat, D \in Nat \ {0}, M \in Nat \ {0}, SlotKept, Zenon
      <3> QED BY <3>1, <3>3
    <2>2. CASE q + 1 # M
      <3>1. s + k = q + (k + 1)
        BY <1>3, <2>2
      <3> QED BY <3>1
    <2> QED BY <2>1, <2>2
  <1>8. q % D \in 0..(D - 1) /\ q + 0 = q
    <2>1. q \in Nat
      OBVIOUS
    <2> QED BY <2>1, DivMod
  <1>9. \A k \in 0..(Queued - 2) : k \in Nat
    BY <1>1
  <1>10. cons' \in 0..(RingMod - 1) /\ Queued' = Queued - 1
    BY <1>1, <1>3, <1>4, <1>5, <1>6
  <1>11. \A k \in 0..(Queued - 2) : (cons' + k) % Depth = (cons + (k + 1)) % Depth
    BY <1>1, <1>5, <1>7, <1>9
  <1>12. cons % Depth = (cons + 0) % Depth /\ cons % Depth \in 0..(Depth - 1)
    BY <1>1, <1>8
  <1> QED BY <1>10, <1>11, <1>12

\* A frame is written where no frame waits or is read; a descriptor goes behind the others.
LEMMA XdpSends ==
  ASSUME XdpInv, NEW p \in Payloads, NEW fits \in BOOLEAN, SendUdp(p, fits)
  PROVE  XdpInv'
  <1>1. /\ xdp = "up" /\ UNCHANGED <<xdp, kernelObjs, leaked, cons, inFlight, completed, sent>>
    BY DEF SendUdp
  <1>2. /\ Depth \in Nat \ {0} /\ Queued \in 0..Depth /\ Base \in 0..Depth
        /\ prod \in 0..(RingMod - 1) /\ cons \in 0..(RingMod - 1)
    BY XdpNumbers
  <1>3. /\ XdpTypeOK /\ FramesIntact /\ IsFiniteSet(inFlight)
        /\ txIdx = Queued + Base /\ RingInOrder /\ FlightIntact
    BY <1>1 DEF XdpInv
  <1>4. Base' = Base
    BY <1>1 DEF Base
  <1>5. CASE ~fits
    <2>1. UNCHANGED <<umem, txRing, prod, txIdx>>
      BY <1>5 DEF SendUdp
    <2>2. Queued' = Queued /\ XdpTypeOK' /\ FramesIntact'
      BY <1>1, <1>3, <2>1 DEF Queued, XdpTypeOK, FramesIntact
    <2>3. RingInOrder' /\ FlightIntact'
      BY <1>1, <1>3, <1>4, <2>1, <2>2 DEF RingInOrder, FlightIntact, Slot
    <2> QED BY <1>1, <1>3, <1>4, <2>1, <2>2, <2>3 DEF XdpInv
  <1>6. CASE fits
    <2>1. umem' = [umem EXCEPT ![txIdx] = p] /\ umem \in [Frames -> Contents] /\ txIdx \in Frames
      BY <1>3, <1>6 DEF SendUdp, XdpTypeOK
    <2>2. umem' \in [Frames -> Contents] /\ umem'[txIdx] = p
      BY <2>1 DEF Contents
    <2>3. \A i \in Nat : i < txIdx => umem'[i] = umem[i]
      <3>1. \A i \in Nat : i < txIdx => i \in Frames /\ i # txIdx
        BY <1>2, <2>1 DEF Frames
      <3> QED BY <2>1, <3>1
    <2>4. FlightIntact'
      <3>1. ASSUME NEW d \in inFlight PROVE d.addr < Base' /\ umem'[d.addr] = d.want
        <4>1. d.addr \in Frames /\ d.addr < Base /\ umem[d.addr] = d.want
          BY <1>3 DEF FlightIntact, XdpTypeOK, Descs
        <4>2. d.addr \in Nat /\ d.addr < txIdx
          BY <1>2, <1>3, <4>1 DEF Frames
        <4> QED BY <1>4, <2>3, <4>1, <4>2
      <3> QED BY <1>1, <3>1 DEF FlightIntact
    <2>5. \A k \in 0..(Queued - 1) : Base + k \in Nat /\ Base + k < txIdx
      BY <1>2, <1>3
    <2>6. \A k \in 0..(Queued - 1) : Slot(k).addr = Base + k /\ umem'[Base + k] = Slot(k).want
      BY <1>3, <2>3, <2>5 DEF RingInOrder
    <2>7. CASE Queued >= Depth
      <3>1. UNCHANGED <<txRing, prod, txIdx>>
        BY <1>6, <2>7 DEF SendUdp
      <3>2. Queued' = Queued /\ XdpTypeOK' /\ FramesIntact'
        BY <1>1, <1>3, <2>2, <3>1 DEF Queued, XdpTypeOK, FramesIntact
      <3>3. \A k \in 0..(Queued - 1) : Slot(k)' = Slot(k)
        BY <1>1, <3>1 DEF Slot
      <3>4. RingInOrder'
        BY <1>4, <2>6, <3>2, <3>3 DEF RingInOrder, Slot
      <3> QED BY <1>1, <1>2, <1>3, <1>4, <2>4, <3>1, <3>2, <3>4 DEF XdpInv
    <2>8. CASE Queued < Depth
      <3> DEFINE e == [addr |-> txIdx, want |-> p]
      <3>1. /\ txRing' = [txRing EXCEPT ![prod % Depth] = e]
            /\ prod' = (prod + 1) % RingMod /\ txIdx' = (txIdx + 1) % (4 * Depth)
        BY <1>2, <1>6, <2>8 DEF SendUdp
      <3>2. e.addr = txIdx /\ e.want = p /\ e \in Descs
        BY <2>1 DEF Descs, Contents
      <3> HIDE DEF e
      <3>3. prod' \in 0..(RingMod - 1) /\ Queued' = Queued + 1
        BY <1>1, <2>8, <3>1, ProdSteps
      <3>4. /\ prod % Depth = (cons + Queued) % Depth /\ prod % Depth \in 0..(Depth - 1)
            /\ \A k \in 0..(Queued - 1) : (cons + k) % Depth # prod % Depth
        BY <2>8, SlotOfProd
      <3>5. txIdx' = txIdx + 1 /\ txIdx + 1 \in Frames
        <4>1. PICK x \in Nat, c \in Nat \ {0} : x = txIdx /\ c = 4 * Depth /\ x + 1 < c
          BY <1>2, <1>3, <2>8
        <4>2. x \in 0..c-1 /\ x + 1 # c
          BY <4>1
        <4>3. (x + 1) % c = x + 1
          BY <4>2, NextIs
        <4> QED BY <3>1, <4>1, <4>3 DEF Frames
      <3>6. txRing \in [0..(Depth - 1) -> Descs]
        BY <1>3 DEF XdpTypeOK
      <3>7. txRing' \in [0..(Depth - 1) -> Descs] /\ txRing'[prod % Depth] = e
        BY <3>1, <3>2, <3>4, <3>6
      <3>8. \A i : i \in 0..(Depth - 1) /\ i # prod % Depth => txRing'[i] = txRing[i]
        BY <3>1, <3>6
      <3>9. XdpTypeOK'
        BY <1>1, <1>3, <2>2, <3>3, <3>5, <3>7 DEF XdpTypeOK
      <3>10. FramesIntact'
        BY <1>1, <1>3 DEF FramesIntact
      <3>11. ASSUME NEW k \in 0..Queued
             PROVE  Slot(k)'.addr = Base + k /\ umem'[Base + k] = Slot(k)'.want
        <4>1. Slot(k)' = txRing'[(cons + k) % Depth]
          BY <1>1 DEF Slot
        <4>2. CASE k = Queued
          <5>1. Slot(k)' = e
            BY <3>4, <3>7, <4>1, <4>2
          <5>2. Base + k = txIdx
            BY <1>2, <1>3, <4>2
          <5> QED BY <2>2, <3>2, <5>1, <5>2
        <4>3. CASE k # Queued
          <5>1. k \in 0..(Queued - 1)
            BY <1>2, <4>3
          <5>2. (cons + k) % Depth \in 0..(Depth - 1)
            <6>1. cons + k \in Nat
              BY <1>2
            <6> QED BY <1>2, <6>1, DivMod
          <5>3. Slot(k)' = Slot(k)
            BY <3>4, <3>8, <4>1, <5>1, <5>2 DEF Slot
          <5> QED BY <2>6, <5>1, <5>3
        <4> QED BY <4>2, <4>3
      <3>12. RingInOrder'
        <4>1. Queued' - 1 = Queued
          BY <1>2, <3>3
        <4> QED BY <1>4, <3>11, <4>1 DEF RingInOrder, Slot
      <3>13. txIdx' = Queued' + Base' /\ Queued' <= Depth
        BY <1>2, <1>3, <1>4, <2>8, <3>3, <3>5
      <3> QED BY <1>1, <1>2, <1>3, <1>4, <2>4, <3>9, <3>10, <3>12, <3>13 DEF XdpInv
    <2> QED BY <1>2, <2>7, <2>8
  <1> QED BY <1>5, <1>6

\* The kernel takes the first descriptor of the ring, which is none of those it has.
LEMMA XdpTakes ==
  ASSUME XdpInv, KernelTake
  PROVE  XdpInv'
  <1>1. /\ xdp = "up" /\ Queued > 0 /\ Cardinality(inFlight) + completed < Depth
        /\ inFlight' = inFlight \cup {txRing[cons % Depth]} /\ cons' = (cons + 1) % RingMod
        /\ UNCHANGED <<xdp, kernelObjs, leaked, umem, txIdx, txRing, prod, completed, sent>>
    BY DEF KernelTake
  <1>2. /\ Depth \in Nat \ {0} /\ Queued \in 0..Depth /\ Base \in 0..Depth
        /\ Cardinality(inFlight) \in Nat /\ completed \in Nat
    BY XdpNumbers
  <1>3. /\ XdpTypeOK /\ FramesIntact /\ IsFiniteSet(inFlight)
        /\ txIdx = Queued + Base /\ RingInOrder /\ FlightIntact
    BY <1>1 DEF XdpInv
  <1>4. /\ cons' \in 0..(RingMod - 1) /\ Queued' = Queued - 1
        /\ \A k \in 0..(Queued - 2) : (cons' + k) % Depth = (cons + (k + 1)) % Depth
        /\ cons % Depth = (cons + 0) % Depth /\ cons % Depth \in 0..(Depth - 1)
    BY <1>1, ConsSteps
  <1>5. PICK d \in Descs : d = txRing[cons % Depth]
    BY <1>3, <1>4 DEF XdpTypeOK
  <1>6. d.addr = Base /\ umem[d.addr] = d.want
    <2>1. 0 \in 0..(Queued - 1) /\ Base + 0 = Base
      BY <1>1, <1>2
    <2>2. Slot(0) = d
      BY <1>4, <1>5 DEF Slot
    <2>3. Slot(0).addr = Base + 0 /\ umem[Base + 0] = Slot(0).want
      BY <1>3, <2>1 DEF RingInOrder
    <2> QED BY <2>1, <2>2, <2>3
  <1>7. d \notin inFlight
    BY <1>2, <1>3, <1>6 DEF FlightIntact
  <1>8. IsFiniteSet(inFlight') /\ Cardinality(inFlight') = Cardinality(inFlight) + 1
    BY <1>1, <1>3, <1>5, <1>7, FS_AddElement
  <1>9. Base' = Base + 1 /\ Base' <= Depth
    BY <1>1, <1>2, <1>8 DEF Base
  <1>10. XdpTypeOK' /\ FramesIntact'
    BY <1>1, <1>3, <1>4, <1>5 DEF XdpTypeOK, FramesIntact
  <1>11. FlightIntact'
    <2>1. ASSUME NEW x \in inFlight PROVE x.addr < Base + 1 /\ umem[x.addr] = x.want
      <3>1. x.addr \in Nat /\ x.addr < Base /\ umem[x.addr] = x.want
        BY <1>2, <1>3 DEF FlightIntact, XdpTypeOK, Descs, Frames
      <3> QED BY <1>2, <3>1
    <2>2. d.addr < Base + 1
      BY <1>2, <1>6
    <2> QED BY <1>1, <1>5, <1>6, <1>9, <2>1, <2>2 DEF FlightIntact
  <1>12. ASSUME NEW k \in 0..(Queued' - 1)
         PROVE  Slot(k)'.addr = Base' + k /\ umem'[Base' + k] = Slot(k)'.want
    <2>1. PICK j \in 0..(Queued - 1) : j = k + 1 /\ k \in 0..(Queued - 2) /\ Base' + k = Base + j
      BY <1>2, <1>4, <1>9
    <2>2. Slot(k)' = Slot(j)
      BY <1>1, <1>4, <2>1 DEF Slot
    <2>3. Slot(j).addr = Base + j /\ umem[Base + j] = Slot(j).want
      BY <1>3 DEF RingInOrder
    <2> QED BY <1>1, <2>1, <2>2, <2>3
  <1>13. RingInOrder'
    BY <1>12 DEF RingInOrder, Slot
  <1>14. txIdx' = Queued' + Base' /\ Queued' <= Depth
    BY <1>1, <1>2, <1>3, <1>4, <1>9
  <1> QED BY <1>1, <1>8, <1>9, <1>10, <1>11, <1>13, <1>14 DEF XdpInv

\* What goes out is what the frame held when it was queued.
LEMMA XdpTransmits ==
  ASSUME XdpInv, NEW d \in inFlight, KernelTransmit(d)
  PROVE  XdpInv'
  <1>1. /\ inFlight' = inFlight \ {d} /\ completed' = completed + 1
        /\ sent' = sent \cup {[want |-> d.want, out |-> umem[d.addr]]}
        /\ UNCHANGED <<xdp, kernelObjs, leaked, umem, txIdx, txRing, prod, cons>>
    BY DEF KernelTransmit
  <1>2. Cardinality(inFlight) \in Nat /\ completed \in Nat
    BY XdpNumbers
  <1>3. XdpTypeOK /\ FramesIntact /\ IsFiniteSet(inFlight) /\ Queued <= Depth /\ Base <= Depth
    BY DEF XdpInv
  <1>4. IsFiniteSet(inFlight') /\ Cardinality(inFlight') = Cardinality(inFlight) - 1
    BY <1>1, <1>3, FS_RemoveElement
  <1>5. Base' = Base
    <2>1. \A a, b \in Nat : (a - 1) + (b + 1) = a + b
      OBVIOUS
    <2> QED BY <1>1, <1>2, <1>4, <2>1 DEF Base
  <1>6. Queued' = Queued
    BY <1>1 DEF Queued
  <1>7. xdp # "dropped"
    BY DEF XdpInv
  <1>8. txIdx = Queued + Base /\ RingInOrder /\ FlightIntact
    BY <1>7 DEF XdpInv
  <1>9. umem[d.addr] = d.want /\ d.want \in Contents
    BY <1>3, <1>8 DEF FlightIntact, XdpTypeOK, Descs
  <1>10. XdpTypeOK'
    <2>1. [want |-> d.want, out |-> umem[d.addr]] \in [want: Contents, out: Contents]
      BY <1>9
    <2> QED BY <1>1, <1>2, <1>3, <2>1 DEF XdpTypeOK
  <1>11. FramesIntact'
    BY <1>1, <1>3, <1>9 DEF FramesIntact
  <1>12. RingInOrder' /\ FlightIntact'
    BY <1>1, <1>5, <1>6, <1>8 DEF RingInOrder, FlightIntact, Slot
  <1> QED BY <1>1, <1>3, <1>4, <1>5, <1>6, <1>7, <1>8, <1>10, <1>11, <1>12 DEF XdpInv

LEMMA XdpStep == XdpInv /\ XdpNext => XdpInv'
  <1> SUFFICES ASSUME XdpInv, XdpNext PROVE XdpInv'
    OBVIOUS
  <1>1. CASE XdpNew
    <2>1. /\ xdp = "none" /\ xdp' \in {"none", "up"}
          /\ kernelObjs' \subseteq {"xsk", "map", "link"} /\ leaked' \subseteq {"xsk", "map", "link"}
          /\ UNCHANGED <<umem, txIdx, txRing, prod, cons, inFlight, completed, sent>>
      BY <1>1 DEF XdpNew, XdpInv, XdpTypeOK
    <2>2. Base' = Base /\ Queued' = Queued /\ XdpTypeOK' /\ FramesIntact'
      BY <2>1 DEF Base, Queued, XdpTypeOK, FramesIntact, XdpInv
    <2>3. RingInOrder /\ FlightIntact
      BY <2>1 DEF XdpInv
    <2>4. RingInOrder' /\ FlightIntact'
      BY <2>1, <2>2, <2>3 DEF RingInOrder, FlightIntact, Slot
    <2> QED BY <2>1, <2>2, <2>4 DEF XdpInv
  <1>2. CASE XdpDrop
    <2>1. /\ xdp' = "dropped" /\ kernelObjs' = {} /\ inFlight' = {}
          /\ UNCHANGED <<leaked, umem, txIdx, txRing, prod, cons, completed, sent>>
      BY <1>2 DEF XdpDrop
    <2>2. Queued' = Queued /\ XdpTypeOK' /\ FramesIntact'
      BY <2>1 DEF Queued, XdpTypeOK, FramesIntact, XdpInv
    <2>3. IsFiniteSet(inFlight') /\ Cardinality(inFlight') = 0
      BY <2>1, FS_EmptySet
    <2>4. Cardinality(inFlight) \in Nat /\ completed \in Nat /\ Depth \in Nat /\ Base <= Depth
      BY XdpNumbers DEF XdpInv
    <2>5. Base' <= Depth
      BY <2>1, <2>3, <2>4 DEF Base
    <2> QED BY <2>1, <2>2, <2>3, <2>5 DEF XdpInv
  <1> QED BY <1>1, <1>2, XdpSends, XdpTakes, XdpTransmits DEF XdpNext

\* FramesIntact and CompletionsRunOut, for any depth, wherever the counters of the ring
\* start and wrap.
THEOREM XdpAlwaysSound == XdpSpec => [](XdpTypeOK /\ FramesIntact /\ CompletionsRunOut)
  <1>1. XdpInit => XdpInv
    <2> SUFFICES ASSUME XdpInit PROVE XdpInv
      OBVIOUS
    <2>1. /\ Depth \in Nat \ {0} /\ RingMod \in Nat \ {0}
          /\ prod = cons /\ prod \in {0, RingMod - 1}
      BY XdpAssumption DEF XdpInit
    <2>2. prod \in 0..(RingMod - 1) /\ cons \in 0..(RingMod - 1) /\ 0 \in Frames /\ 0 \in Nat
      BY <2>1 DEF Frames
    <2>3. Queued = 0
      BY <2>1, <2>2 DEF Queued
    <2>4. inFlight = {} /\ completed = 0 /\ Base = 0 /\ IsFiniteSet(inFlight)
      BY FS_EmptySet DEF XdpInit, Base
    <2>5. [addr |-> 0, want |-> BlankFrame] \in Descs /\ BlankFrame \in Contents
      BY <2>2 DEF Descs, Contents
    <2>6. XdpTypeOK /\ FramesIntact
      BY <2>2, <2>5 DEF XdpInit, XdpTypeOK, FramesIntact
    <2>7. RingInOrder /\ FlightIntact
      BY <2>3, <2>4 DEF RingInOrder, FlightIntact
    <2>8. txIdx = Queued + Base /\ Queued <= Depth /\ Base <= Depth
      BY <2>1, <2>3, <2>4 DEF XdpInit
    <2> QED BY <2>4, <2>6, <2>7, <2>8 DEF XdpInv
  <1>2. ASSUME XdpInv, UNCHANGED xdpVars PROVE XdpInv'
    <2>1. Base' = Base /\ Queued' = Queued /\ XdpTypeOK' /\ FramesIntact'
      BY <1>2 DEF xdpVars, Base, Queued, XdpTypeOK, FramesIntact, XdpInv
    <2>2. xdp # "dropped" => RingInOrder' /\ FlightIntact'
      BY <1>2, <2>1 DEF xdpVars, XdpInv, RingInOrder, FlightIntact, Slot
    <2> QED BY <1>2, <2>1, <2>2 DEF xdpVars, XdpInv
  <1>3. ASSUME XdpInv PROVE CompletionsRunOut
    <2>1. Queued \in Nat /\ Cardinality(inFlight) \in Nat /\ completed \in Nat
      BY <1>3, XdpNumbers
    <2>2. xdp = "up" => txIdx = Queued + (Cardinality(inFlight) + completed)
      BY <1>3 DEF XdpInv, Base
    <2> QED BY <1>3, <2>1, <2>2 DEF XdpInv, Base, CompletionsRunOut
  <1>4. XdpInv => XdpTypeOK /\ FramesIntact /\ CompletionsRunOut
    BY <1>3 DEF XdpInv
  <1>5. XdpInv /\ [XdpNext]_xdpVars => XdpInv'
    BY <1>2, XdpStep
  <1> QED BY <1>1, <1>4, <1>5, PTL DEF XdpSpec

-----------------------------------------------------------------------------
(***************************************************************************)
(* The QUIC endpoint.  Who holds the Quic decides what is allocated and    *)
(* which pointers there can be (HeldBy); those that are left when it is    *)
(* freed have outlived it (Outlasted).                                     *)
(***************************************************************************)

HeldBy ==
  /\ quicMem = "alive" <=> owner \in {"client", "server"}
  /\ quicMem = "freed" <=> owner = "dropped"
  /\ srvActive => owner = "server"
  /\ started => clientConns # {} \/ srvActive
  /\ accepted # {} => owner \in {"server", "dropped"} /\ clientConns = {}
  /\ owner \in {"none", "server"} => clientConns = {}
  /\ owner = "none" => touched = {}

Outlasted == owner = "dropped" /\ (clientConns # {} \/ accepted # {}) => outlived

QuicInv == QuicTypeOK /\ PointersHold /\ HeldBy /\ Outlasted /\ ServerWired

\* The order in which callbacks announced a set of connections is a sequence of them.
LEMMA OrdersTyped ==
  ASSUME NEW new \in SUBSET QConns, NEW order \in Orders(new)
  PROVE  order \in Seq(QConns)
  <1>1. IsFiniteSet(new)
    BY QuicAssumption, FS_Subset
  <1>2. Cardinality(new) \in Nat
    BY <1>1, FS_CardinalityType
  <1> QED BY <1>2 DEF Orders

LEMMA NoneTracked == <<>> \in Seq(QConns)
  OBVIOUS

LEMMA QuicBinds ==
  ASSUME QuicInv, NEW b \in Backends, Bind(b)
  PROVE  QuicInv'
  <1>1. /\ owner = "server" /\ clientConns = {} /\ quicMem = "alive" /\ ~stuck
        /\ UNCHANGED <<owner, quicMem, clientConns, accepted, stuck, outlived, touched>>
    BY DEF Bind, QuicInv, HeldBy
  <1>2. QuicTypeOK /\ PointersHold /\ HeldBy /\ Outlasted /\ ServerWired
    BY DEF QuicInv
  <1>3. CASE UNCHANGED <<started, aioCtx, serverVars, live, tracked>>
    BY <1>1, <1>2, <1>3
    DEF QuicInv, QuicTypeOK, PointersHold, HeldBy, Outlasted, ServerWired, CtxIds, serverVars
  <1>4. ASSUME NEW x \in NetCtxs \ CtxIds, HandContext(x), heard' = FALSE,
               rebindFailed' = (rebindFailed \/ srvActive),
               UNCHANGED <<started, ctxLive, srvCtx, srvActive, live, tracked>>
        PROVE  QuicInv'
    <2>1. CtxIds' = CtxIds
      BY <1>4 DEF CtxIds
    <2>2. QuicTypeOK'
      BY <1>1, <1>2, <1>4 DEF QuicTypeOK, HandContext
    <2>3. PointersHold' /\ HeldBy' /\ Outlasted'
      BY <1>1, <1>2, <1>4 DEF PointersHold, HeldBy, Outlasted
    <2>4. ServerWired'
      BY <1>1, <1>2, <1>4, <2>1 DEF ServerWired, HandContext
    <2> QED BY <2>2, <2>3, <2>4 DEF QuicInv
  <1>5. ASSUME NEW x \in NetCtxs, HandContext(x),
               ctxLive' = {y \in ctxLive : y[1] # srvCtx} \cup {<<x, b>>},
               srvCtx' = x, srvActive' = TRUE, started' = ~srvActive,
               live' = {}, tracked' = <<>>, heard' = TRUE, UNCHANGED rebindFailed
        PROVE  QuicInv'
    <2>1. <<x, b>> \in ctxLive' /\ <<x, b>>[1] = x
      BY <1>5
    <2>2. x \in CtxIds'
      BY <2>1 DEF CtxIds
    <2>3. <<x, b>> \in NetCtxs \X Backends /\ \A y \in ctxLive : y \in NetCtxs \X Backends
      BY <1>2 DEF QuicTypeOK
    <2>4. \A y \in ctxLive' : y \in NetCtxs \X Backends
      BY ONLY <1>5, <2>3, Zenon
    <2>5. QuicTypeOK'
      BY <1>1, <1>2, <1>5, <2>4, NoneTracked DEF QuicTypeOK, HandContext
    <2>6. PointersHold' /\ HeldBy' /\ Outlasted'
      BY <1>1, <1>2, <1>5 DEF PointersHold, HeldBy, Outlasted
    <2>7. ServerWired'
      BY <1>1, <1>5, <2>2 DEF ServerWired, HandContext
    <2> QED BY <2>5, <2>6, <2>7 DEF QuicInv
  <1> QED BY <1>3, <1>4, <1>5 DEF Bind

LEMMA QuicAccepts == ASSUME QuicInv, AcceptUdp PROVE QuicInv'
  <1>1. /\ owner = "server" /\ ~stuck /\ srvActive /\ clientConns = {} /\ quicMem = "alive"
        /\ UNCHANGED <<owner, quicMem, started, aioCtx, srvCtx, srvActive, ctxLive, heard,
                       rebindFailed, clientConns, outlived>>
    BY DEF AcceptUdp, serverVars, QuicInv, HeldBy
  <1>2. QuicTypeOK /\ PointersHold /\ HeldBy /\ Outlasted /\ ServerWired
    BY DEF QuicInv
  <1>3. live \subseteq QConns /\ accepted \subseteq QConns /\ tracked \in Seq(QConns)
        /\ stuck \in BOOLEAN /\ heard \in BOOLEAN /\ touched \subseteq {"endpoint", "context", "null"}
    BY <1>2 DEF QuicTypeOK
  <1>4. /\ live' \subseteq QConns /\ accepted' \subseteq QConns /\ tracked' \in Seq(QConns)
        /\ stuck' \in BOOLEAN /\ (tracked' # <<>> => stuck')
        /\ touched' = touched \/ (touched' = touched \cup {"context"} /\ rebindFailed)
    <2>1. CASE UNCHANGED <<live, tracked, accepted, stuck, touched>>
      BY <1>2, <1>3, <2>1 DEF ServerWired
    <2>2. ASSUME NEW new \in SUBSET (QConns \ live), NEW ended0 \in SUBSET live,
                 NEW sends \in BOOLEAN, NEW stays \in BOOLEAN, NEW order \in Orders(new),
                 ~started => ~sends,
                 live' = (live \ ended0) \cup new, SendViaAio(sends, stays),
                 \/ /\ stays /\ tracked' = Announced(order) /\ UNCHANGED accepted
                 \/ /\ ~stays /\ tracked' = <<>>
                    /\ accepted' = IF Announced(order) = <<>> THEN accepted
                                   ELSE accepted \cup {Head(Announced(order))}
          PROVE  /\ live' \subseteq QConns /\ accepted' \subseteq QConns /\ tracked' \in Seq(QConns)
                 /\ stuck' \in BOOLEAN /\ (tracked' # <<>> => stuck')
                 /\ touched' = touched \/ (touched' = touched \cup {"context"} /\ rebindFailed)
      <3>1. order \in Seq(QConns)
        BY OrdersTyped
      <3>2. Announced(order) \in Seq(QConns)
        BY <1>3, <3>1 DEF Announced
      <3>3. Announced(order) # <<>> => Head(Announced(order)) \in QConns
        BY ONLY <3>2, HeadTailProperties, Zenon
      <3>4. live' \subseteq QConns /\ stuck' = stays
        BY <1>3, <2>2 DEF SendViaAio
      <3>5. tracked' \in Seq(QConns)
        BY <2>2, <3>2, NoneTracked
      <3>6. accepted' \subseteq QConns
        BY <1>3, <2>2, <3>3
      <3>7. tracked' # <<>> => stuck'
        BY <2>2, <3>4
      <3>8. sends /\ aioCtx \notin CtxIds => rebindFailed
        BY <1>1, <1>2, <2>2 DEF ServerWired
      <3>9. touched' = touched \/ (touched' = touched \cup {"context"} /\ rebindFailed)
        BY <2>2, <3>8 DEF SendViaAio
      <3> QED BY <3>4, <3>5, <3>6, <3>7, <3>9
    <2> QED BY <2>1, <2>2 DEF AcceptUdp
  <1>5. QuicTypeOK'
    BY <1>1, <1>2, <1>4 DEF QuicTypeOK
  <1>6. PointersHold'
    BY <1>1, <1>2, <1>4 DEF PointersHold
  <1>7. HeldBy' /\ Outlasted'
    BY <1>1, <1>2, <1>4 DEF HeldBy, Outlasted
  <1>8. ServerWired'
    BY <1>1, <1>2, <1>4 DEF ServerWired, CtxIds
  <1> QED BY <1>5, <1>6, <1>7, <1>8 DEF QuicInv

LEMMA QuicStep == QuicInv /\ QuicNext => QuicInv'
  <1> SUFFICES ASSUME QuicInv, QuicNext PROVE QuicInv'
    OBVIOUS
  <1> USE DEF QuicInv, QuicTypeOK, PointersHold, HeldBy, Outlasted, ServerWired, CtxIds, serverVars
  <1>1. ASSUME NEW role \in {"client", "server"}, QuicNew(role) PROVE QuicInv'
    <2>1. /\ owner = "none" /\ ~srvActive /\ clientConns = {} /\ ~started /\ touched = {}
          /\ UNCHANGED <<started, aioCtx, ctxLive, srvCtx, srvActive, heard, rebindFailed,
                         clientConns, live, tracked, accepted, stuck, outlived, touched>>
      BY <1>1 DEF QuicNew
    <2>2. \/ UNCHANGED <<owner, quicMem>>
          \/ owner' = role /\ quicMem' = "alive"
      BY <1>1 DEF QuicNew
    <2>3. accepted = {}
      BY <2>1
    <2> QED BY <2>1, <2>2, <2>3
  <1>2. CASE ClientConnect
    <2>1. /\ owner = "client" /\ ~srvActive /\ accepted = {} /\ aioCtx' \in {aioCtx, Null}
          /\ UNCHANGED <<owner, quicMem, ctxLive, srvCtx, srvActive, heard, rebindFailed,
                         tracked, accepted, stuck, outlived, touched>>
      BY <1>2 DEF ClientConnect, HandContext
    <2>2. \/ UNCHANGED <<started, clientConns, live>>
          \/ started' = FALSE /\ live' = {} /\ UNCHANGED clientConns
          \/ \E c \in QConns : started' = TRUE /\ live' = {c} /\ clientConns' = clientConns \cup {c}
      BY <1>2 DEF ClientConnect, StopEndpoint
    <2>3. QuicTypeOK'
      BY <2>1, <2>2
    <2>4. started' => clientConns' # {}
      BY <2>1, <2>2
    <2>5. PointersHold' /\ HeldBy' /\ Outlasted' /\ ServerWired'
      BY <2>1, <2>4
    <2> QED BY <2>3, <2>5
  <1>3. ASSUME NEW c \in QConns, DropClientConn(c) PROVE QuicInv'
    <2>1. /\ c \in clientConns /\ clientConns' = clientConns \ {c} /\ accepted = {}
          /\ started' = FALSE /\ live' = {} /\ ~srvActive
          /\ UNCHANGED <<owner, quicMem, aioCtx, ctxLive, srvCtx, srvActive, heard, rebindFailed,
                         tracked, accepted, stuck, outlived>>
      BY <1>3 DEF DropClientConn, StopEndpoint
    <2>2. \/ touched' = touched
          \/ touched' = touched \cup {"endpoint"} /\ owner = "dropped" /\ outlived
      BY <1>3, <2>1 DEF DropClientConn, OnEndpoint
    <2>3. QuicTypeOK'
      BY <2>1, <2>2
    <2>4. PointersHold'
      BY <2>1, <2>2
    <2>5. HeldBy' /\ Outlasted' /\ ServerWired'
      BY <2>1, <2>2
    <2> QED BY <2>3, <2>4, <2>5
  <1>4. ASSUME NEW c \in QConns, DropAccepted(c) PROVE QuicInv'
    BY <1>4 DEF DropAccepted
  <1>5. ASSUME NEW c \in QConns, UseConn(c) \/ DriveConn(c) PROVE QuicInv'
    <2>1. /\ live' \subseteq live
          /\ UNCHANGED <<owner, quicMem, started, aioCtx, ctxLive, srvCtx, srvActive, heard,
                         rebindFailed, clientConns, tracked, accepted, stuck, outlived>>
      BY <1>5 DEF UseConn, DriveConn
    <2>2. \/ touched' = touched
          \/ touched' = touched \cup {"endpoint"} /\ owner = "dropped" /\ outlived
          \/ touched' = touched \cup {"null"} /\ owner \in {"server", "dropped"} /\ clientConns = {}
      BY <1>5, <2>1 DEF UseConn, DriveConn, OnEndpoint
    <2>3. QuicTypeOK'
      BY <2>1, <2>2
    <2>4. PointersHold'
      BY <2>1, <2>2
    <2>5. HeldBy' /\ Outlasted' /\ ServerWired'
      BY <2>1, <2>2
    <2> QED BY <2>3, <2>4, <2>5
  <1>6. CASE DropClient
    BY <1>6 DEF DropClient
  <1>7. CASE AcceptXdp \/ AcceptUnbound
    BY <1>7 DEF AcceptXdp, AcceptUnbound
  <1>8. CASE DropServerQuic
    <2>1. /\ owner = "server" /\ clientConns = {} /\ owner' = "dropped" /\ quicMem' = "freed"
          /\ srvCtx' = Null /\ ctxLive' \subseteq ctxLive /\ srvActive' = FALSE
          /\ started' = FALSE /\ live' = {} /\ outlived' = (srvActive \/ accepted # {})
          /\ UNCHANGED <<aioCtx, heard, rebindFailed, clientConns, tracked, accepted, stuck>>
      BY <1>8 DEF DropServerQuic, StopEndpoint
    <2>2. "endpoint" \notin touched
      BY <2>1
    <2>3. \/ touched' = touched
          \/ touched' = touched \cup {"endpoint"} /\ srvActive
      BY <1>8 DEF DropServerQuic
    <2>4. QuicTypeOK'
      BY <2>1, <2>3
    <2>5. PointersHold'
      BY <2>1, <2>2, <2>3
    <2>6. HeldBy' /\ Outlasted' /\ ServerWired'
      BY <2>1
    <2> QED BY <2>4, <2>5, <2>6
  <1> QED BY <1>1, <1>2, <1>3, <1>4, <1>5, <1>6, <1>7, <1>8, QuicBinds, QuicAccepts DEF QuicNext

\* QuicInv holds in every state: any number of connection slots and network contexts.
THEOREM QuicInvariant == QuicSpec => []QuicInv
  <1>1. QuicInit => QuicInv
    BY NoneTracked
    DEF QuicInit, QuicInv, QuicTypeOK, PointersHold, HeldBy, Outlasted, ServerWired
  <1>2. QuicInv /\ UNCHANGED quicVars => QuicInv'
    BY DEF quicVars, QuicInv, QuicTypeOK, PointersHold, HeldBy, Outlasted, ServerWired, CtxIds
  <1> QED BY <1>1, <1>2, QuicStep, PTL DEF QuicSpec

LEMMA QuicInvSound ==
  QuicInv => QuicTypeOK /\ PointersHold /\ StartedIsOwned /\ ServerWired
  BY DEF QuicInv, HeldBy, StartedIsOwned

\* Pointers reach freed memory only after they have outlived its owner, the endpoint that
\* runs has an owner that will stop it, and the context it sends through and the tracker
\* it announces connections to are those of the last bind that succeeded, until a later one
\* fails (PointersHold, StartedIsOwned, ServerWired).
THEOREM QuicAlwaysSound ==
  QuicSpec => [](QuicTypeOK /\ PointersHold /\ StartedIsOwned /\ ServerWired)
  BY QuicInvariant, QuicInvSound, PTL

-----------------------------------------------------------------------------
(***************************************************************************)
(* The tracing subscriber.  Between its two steps a thread that installs   *)
(* is the one in the cell, and a dispatcher of this crate is the one in    *)
(* the cell (Installing); the text of an event was made by the builder as  *)
(* it still is, because a builder no longer changes once the cell is set   *)
(* (TextFrom).                                                             *)
(***************************************************************************)

Installing ==
  /\ dispatch \in TrThreads => cell = dispatch
  /\ \A t \in TrThreads :
       /\ initing[t] = "out"  => cell # t /\ answer[t] = "none"
       /\ initing[t] = "cell" => cell = t /\ answer[t] = "none" /\ dispatch # t
       /\ initing[t] = "done" /\ cell = t =>
            \/ answer[t] = "Ok" /\ dispatch = t
            \/ answer[t] = "InitializationFailed" /\ dispatch = "foreign"
       /\ initing[t] = "done" /\ cell # t =>
            /\ cell # NoThread
            /\ answer[t] = IF mode[t] = "try_init" THEN "Ok" ELSE "AlreadyInitialized"

TextFrom ==
  line # NoLine =>
    cell # NoThread /\ \E s \in BOOLEAN : line.parts = Parts(tbuilder, line.fields, s)

TrInv == TrTypeOK /\ Installing /\ TextFrom

LEMMA TrSetsCell ==
  ASSUME TrInv, NEW t \in TrThreads, NEW m \in {"init", "try_init"}, SetCell(t, m)
  PROVE  TrInv'
  <1>1. /\ initing[t] = "out" /\ mode' = [mode EXCEPT ![t] = m]
        /\ UNCHANGED <<dispatch, tbuilder, line>>
    BY DEF SetCell
  <1>2. /\ initing \in [TrThreads -> {"out", "cell", "done"}] /\ answer \in [TrThreads -> Answers]
        /\ mode \in [TrThreads -> {"init", "try_init"}] /\ cell \in TrThreads \cup {NoThread}
        /\ dispatch \in TrThreads \cup {NoThread, "foreign"}
        /\ NoThread \notin TrThreads /\ cell # t /\ answer[t] = "none"
    BY <1>1, TracingAssumption DEF TrInv, TrTypeOK, Installing
  <1>3. mode'[t] = m /\ \A u \in TrThreads : u # t => mode'[u] = mode[u]
    BY <1>1, <1>2
  <1>4. CASE cell = NoThread /\ cell' = t /\ initing' = [initing EXCEPT ![t] = "cell"] /\ UNCHANGED answer
    <2>1. initing'[t] = "cell" /\ \A u \in TrThreads : u # t => initing'[u] = initing[u]
      BY <1>2, <1>4
    <2>2. dispatch \notin TrThreads /\ line = NoLine
      BY <1>2, <1>4 DEF TrInv, Installing, TextFrom
    <2>3. \A u \in TrThreads : initing[u] = "out"
      BY <1>2, <1>4 DEF TrInv, Installing
    <2>4. TrTypeOK'
      BY <1>1, <1>2, <1>4 DEF TrTypeOK
    <2>5. TextFrom'
      BY <1>1, <2>2 DEF TextFrom
    <2>6. Installing'
      BY <1>1, <1>2, <1>4, <2>1, <2>2, <2>3 DEF TrInv, Installing
    <2> QED BY <2>4, <2>5, <2>6 DEF TrInv
  <1>5. CASE /\ cell # NoThread /\ initing' = [initing EXCEPT ![t] = "done"]
             /\ Answered(t, "AlreadyInitialized") /\ UNCHANGED cell
    <2>1. answer' = [answer EXCEPT ![t] = IF m = "try_init" THEN "Ok" ELSE "AlreadyInitialized"]
      BY <1>3, <1>5 DEF Answered
    <2>2. /\ answer'[t] = IF m = "try_init" THEN "Ok" ELSE "AlreadyInitialized"
          /\ \A u \in TrThreads : u # t => answer'[u] = answer[u]
      BY <1>2, <2>1
    <2>3. initing'[t] = "done" /\ \A u \in TrThreads : u # t => initing'[u] = initing[u]
      BY <1>2, <1>5
    <2>4. TrTypeOK'
      BY <1>1, <1>2, <1>5, <2>1 DEF TrTypeOK, Answers
    <2>5. TextFrom'
      BY <1>1, <1>5 DEF TrInv, TextFrom
    <2>6. Installing'
      BY <1>1, <1>2, <1>3, <1>5, <2>2, <2>3 DEF TrInv, Installing
    <2> QED BY <2>4, <2>5, <2>6 DEF TrInv
  <1> QED BY <1>4, <1>5 DEF SetCell

LEMMA TrSetsDefault ==
  ASSUME TrInv, NEW t \in TrThreads, SetDefault(t)
  PROVE  TrInv'
  <1>1. /\ initing[t] = "cell" /\ initing' = [initing EXCEPT ![t] = "done"]
        /\ \/ dispatch = NoThread /\ dispatch' = t /\ answer' = [answer EXCEPT ![t] = "Ok"]
           \/ /\ dispatch # NoThread /\ dispatch' = dispatch
              /\ answer' = [answer EXCEPT ![t] = "InitializationFailed"]
        /\ UNCHANGED <<cell, mode, tbuilder, line>>
    BY DEF SetDefault
  <1>2. /\ initing \in [TrThreads -> {"out", "cell", "done"}] /\ answer \in [TrThreads -> Answers]
        /\ dispatch \in TrThreads \cup {NoThread, "foreign"}
        /\ NoThread \notin TrThreads /\ cell = t /\ dispatch # t /\ dispatch \notin TrThreads
    BY <1>1, TracingAssumption DEF TrInv, TrTypeOK, Installing
  <1>3. /\ initing'[t] = "done"
        /\ \A u \in TrThreads : u # t => answer'[u] = answer[u] /\ initing'[u] = initing[u]
    BY <1>1, <1>2
  <1>4. \/ dispatch = NoThread /\ dispatch' = t /\ answer'[t] = "Ok"
        \/ dispatch = "foreign" /\ dispatch' = "foreign" /\ answer'[t] = "InitializationFailed"
    BY <1>1, <1>2
  <1>5. TrTypeOK'
    BY <1>1, <1>2 DEF TrInv, TrTypeOK, Answers
  <1>6. TextFrom'
    BY <1>1, <1>2 DEF TrInv, TextFrom
  <1>7. Installing'
    BY <1>1, <1>2, <1>3, <1>4 DEF TrInv, Installing
  <1> QED BY <1>5, <1>6, <1>7 DEF TrInv

LEMMA TrStep == TrInv /\ TrNext => TrInv'
  <1> SUFFICES ASSUME TrInv, TrNext PROVE TrInv'
    OBVIOUS
  <1>1. CASE ForeignDefault
    <2>1. dispatch = NoThread /\ dispatch' = "foreign"
          /\ UNCHANGED <<cell, initing, mode, answer, tbuilder, line>>
      BY <1>1 DEF ForeignDefault
    <2>2. NoThread \notin TrThreads /\ "foreign" \notin TrThreads
      BY TracingAssumption
    <2>3. TrTypeOK' /\ TextFrom'
      BY <2>1, <2>2 DEF TrInv, TrTypeOK, TextFrom
    <2>4. Installing'
      BY <2>1, <2>2 DEF TrInv, Installing
    <2> QED BY <2>3, <2>4 DEF TrInv
  <1>2. CASE cell = NoThread /\ UNCHANGED <<cell, dispatch, initing, mode, answer, line>>
    <2>1. line = NoLine
      BY <1>2 DEF TrInv, TextFrom
    <2> QED BY <1>2, <2>1 DEF TrInv, TrTypeOK, Installing, TextFrom
  <1>3. ASSUME NEW l, NEW fs, NEW s \in BOOLEAN, OnEvent(l, fs, s)
        PROVE  TrInv'
    <2>1. /\ dispatch \in TrThreads /\ UNCHANGED <<cell, dispatch, initing, mode, answer, tbuilder>>
          /\ line' = [fields |-> fs, parts |-> Parts(tbuilder, fs, s), level |-> TracingToFd(l)]
      BY <1>3 DEF OnEvent
    <2>2. cell # NoThread
      BY <2>1, TracingAssumption DEF TrInv, Installing
    <2>3. line'.fields = fs /\ line'.parts = Parts(tbuilder, fs, s)
      BY <2>1
    <2>4. tbuilder' = tbuilder /\ cell' = cell
      BY <2>1
    <2>5. line'.parts = Parts(tbuilder', line'.fields, s)
      BY ONLY <2>3, <2>4, Zenon
    <2>6. TextFrom'
      BY <1>3, <2>2, <2>4, <2>5 DEF TextFrom
    <2> QED BY <2>1, <2>6 DEF TrInv, TrTypeOK, Installing
  <1>4. \/ \E t \in TrThreads : SetDefault(t) \/ \E m \in {"init", "try_init"} : SetCell(t, m)
        \/ ForeignDefault
        \/ cell = NoThread /\ UNCHANGED <<cell, dispatch, initing, mode, answer, line>>
        \/ \E l, fs : \E s \in BOOLEAN : OnEvent(l, fs, s)
    BY DEF TrNext, With, WithCustomField
  <1> QED BY <1>1, <1>2, <1>3, <1>4, TrSetsCell, TrSetsDefault

\* What the calls answer follows from where the installation stands.
LEMMA OutcomeTold == TrInv => InitTellsTheOutcome
  <1> SUFFICES ASSUME TrInv, NEW t \in TrThreads, answer[t] # "none"
               PROVE  /\ answer[t] = "Ok" /\ mode[t] = "init" => dispatch = t /\ cell = t
                      /\ answer[t] = "InitializationFailed" => cell = t /\ dispatch = "foreign"
                      /\ cell # t => /\ cell \in TrThreads
                                     /\ \/ initing[cell] = "cell" \/ dispatch = cell
                                        \/ answer[cell] = "InitializationFailed"
    BY DEF InitTellsTheOutcome
  <1>1. initing[t] = "done"
    BY DEF TrInv, TrTypeOK, Installing
  <1>2. CASE cell = t
    BY <1>1, <1>2 DEF TrInv, Installing
  <1>3. CASE cell # t
    <2>1. cell \in TrThreads
      BY <1>1, <1>3 DEF TrInv, TrTypeOK, Installing
    <2>2. initing[cell] \in {"cell", "done"}
      BY <2>1 DEF TrInv, TrTypeOK, Installing
    <2>3. initing[cell] = "cell" \/ dispatch = cell \/ answer[cell] = "InitializationFailed"
      BY <2>1, <2>2 DEF TrInv, Installing
    <2>4. answer[t] = IF mode[t] = "try_init" THEN "Ok" ELSE "AlreadyInitialized"
      BY <1>1, <1>3 DEF TrInv, Installing
    <2> QED BY <1>3, <2>1, <2>3, <2>4
  <1> QED BY <1>2, <1>3

\* The levels of tracing keep their order on the way to the logger, and come back.
LEMMA LevelsKept ==
  /\ \A i, j \in 1..5 : i <= j =>
       Rank(FdLevels, TracingToFd(Levels[i])) <= Rank(FdLevels, TracingToFd(Levels[j]))
  /\ \A i \in 2..5 : FdToTracing(TracingToFd(Levels[i])) = Levels[i]
  <1>1. /\ Rank(FdLevels, "Debug") = 1 /\ Rank(FdLevels, "Info") = 2
        /\ Rank(FdLevels, "Warning") = 4 /\ Rank(FdLevels, "Error") = 5
    BY DEF Rank, FdLevels
  <1>2. /\ Levels[1] = "TRACE" /\ Levels[2] = "DEBUG" /\ Levels[3] = "INFO"
        /\ Levels[4] = "WARN" /\ Levels[5] = "ERROR"
    BY DEF Levels
  <1>3. /\ TracingToFd("TRACE") = "Debug" /\ TracingToFd("DEBUG") = "Debug"
        /\ TracingToFd("INFO") = "Info" /\ TracingToFd("WARN") = "Warning"
        /\ TracingToFd("ERROR") = "Error"
    BY DEF TracingToFd
  <1>4. /\ FdToTracing("Debug") = "DEBUG" /\ FdToTracing("Info") = "INFO"
        /\ FdToTracing("Warning") = "WARN" /\ FdToTracing("Error") = "ERROR"
    BY DEF FdToTracing
  <1>5. \A i \in 1..5 : i = 1 \/ i = 2 \/ i = 3 \/ i = 4 \/ i = 5
    OBVIOUS
  <1>6. \A i, j \in 1..5 : i <= j =>
          Rank(FdLevels, TracingToFd(Levels[i])) <= Rank(FdLevels, TracingToFd(Levels[j]))
    BY <1>1, <1>2, <1>3, <1>5
  <1>7. \A i \in 2..5 : FdToTracing(TracingToFd(Levels[i])) = Levels[i]
    BY <1>2, <1>3, <1>4, <1>5
  <1> QED BY <1>6, <1>7

LEMMA TextComplete == TrInv => EventTextComplete
  <1> SUFFICES ASSUME TrInv PROVE EventTextComplete
    OBVIOUS
  <1>1. ASSUME NEW fs, NEW s \in BOOLEAN
        PROVE  LET p == Parts(tbuilder, fs, s) IN
               /\ p # {}
               /\ "message" \in fs => <<"message", "message">> \in p
               /\ tbuilder.structured /\ Cardinality(fs) > 1 =>
                    \A f \in fs \ {"message"} : <<"field", f>> \in p
    BY DEF Parts
  <1>2. ASSUME line # NoLine
        PROVE  /\ line.parts # {}
               /\ "message" \in line.fields => <<"message", "message">> \in line.parts
               /\ tbuilder.structured /\ Cardinality(line.fields) > 1 =>
                    \A f \in line.fields \ {"message"} : <<"field", f>> \in line.parts
    <2>1. PICK s \in BOOLEAN : line.parts = Parts(tbuilder, line.fields, s)
      BY <1>2 DEF TrInv, TextFrom
    <2> QED BY <1>1, <2>1
  <1> QED BY <1>2, LevelsKept DEF EventTextComplete

\* TrInv holds in every state, for any threads that initialise and any event fields.
THEOREM TrInvariant == TrSpec => []TrInv
  <1>1. TrInit => TrInv
    <2> SUFFICES ASSUME TrInit PROVE TrInv
      OBVIOUS
    <2>1. NoThread \notin TrThreads
      BY TracingAssumption
    <2> QED BY <2>1 DEF TrInit, TrInv, TrTypeOK, Answers, Installing, TextFrom
  <1>2. TrInv /\ UNCHANGED trVars => TrInv'
    BY DEF trVars, TrInv, TrTypeOK, Installing, TextFrom
  <1> QED BY <1>1, <1>2, TrStep, PTL DEF TrSpec

\* The calls that install a subscriber tell between them what became of it, and the text
\* of an event is complete (InitTellsTheOutcome, EventTextComplete), however threads race.
THEOREM TracingAlwaysSound == TrSpec => [](TrTypeOK /\ TracingSound)
  <1>1. TrInv => TrTypeOK /\ TracingSound
    BY TextComplete, OutcomeTold DEF TrInv, TracingSound
  <1> QED BY <1>1, TrInvariant, PTL

-----------------------------------------------------------------------------
(***************************************************************************)
(* The composition.  A step of Services is a step or a stutter of each of  *)
(* its components, so every behaviour of it is a behaviour of each of them *)
(* (of the log, of its safety part).                                       *)
(***************************************************************************)

LEMMA LevelsTyped == LogSafety => []LgTypeOK
  <1>1. LgInit => LogInv /\ LgTypeOK
    BY LogInitInv DEF LgInit, LgTypeOK, LogLevels, DefaultLevel
  <1>2. ASSUME LogInv, LgTypeOK, [LgNext]_lgVars PROVE LgTypeOK'
    <2>1. LogShape'
      BY <1>2, LogStep DEF LogInv
    <2>2. /\ once' \in LThreads \cup {"new", "done"}
          /\ \A t \in LThreads : outcome'[t] \in {NoResult, "ok", "NulError"}
          /\ boots'.ret \in {NoResult, "ok", "NulError", "InvalidFd"}
      BY <2>1 DEF LogShape, DirectResults
    <2>3. level \in LogLevels /\ logfile \in LThreads \cup {"none"} /\ DefaultLevel \in LogLevels
      BY <1>2 DEF LgTypeOK, LogLevels, DefaultLevel
    <2>4. \A t \in LThreads : builder[t].level \in LogLevels
      BY <1>2, <2>3, LogAssumption DEF LogInv, LogShape, Configs
    <2>5. \A l \in LevelsUsed : FromInt(l) \in LogLevels
      BY LogAssumption DEF FromInt
    <2>6. level' \in LogLevels /\ logfile' \in LThreads \cup {"none"}
      BY <1>2, <2>3, <2>4, <2>5
      DEF LgNext, lgVars, Emit, CallInit, EnterOnce, BootOnce, ReturnInit, WithLevel, WithFile,
          BootDirect
    <2> QED BY <2>2, <2>6 DEF LgTypeOK
  <1>3. LogInv /\ LgTypeOK /\ [LgNext]_lgVars => LogInv' /\ LgTypeOK'
    BY <1>2, LogStep
  <1> QED BY <1>1, <1>3, PTL DEF LogSafety

LEMMA PoolTyped == TpSpec => []TpTypeOK
  <1>1. TpInit => TpTypeOK
    <2> SUFFICES ASSUME TpInit PROVE TpTypeOK
      OBVIOUS
    <2>1. 0 \in 0..WorkerMax /\ 0 \in 0..TaskMax /\ 0 \in 0..LaneMax
      BY TpoolAssumption
    <2>2. DOMAIN shares = 1..work.workers
      BY DEF TpInit, NoWork
    <2> QED BY <2>1, <2>2 DEF TpInit, TpTypeOK, NoWork
  <1>2. ASSUME TpTypeOK, [TpNext]_tpVars PROVE TpTypeOK'
    <2>1. ASSUME NEW max \in 0..WorkerMax, NEW sleep \in BOOLEAN, NewPool(max, sleep) PROVE TpTypeOK'
      BY <1>2, <2>1 DEF NewPool, TpTypeOK, tpVars
    <2>2. CASE DropPool \/ UNCHANGED tpVars
      BY <1>2, <2>2 DEF DropPool, TpTypeOK, tpVars
    <2>3. ASSUME NEW start \in 0..TaskMax, NEW end \in 0..TaskMax, NEW lanes \in 0..LaneMax,
                 NEW workers \in 0..WorkerMax, Split(start, end, lanes, workers)
          PROVE  TpTypeOK'
      BY <1>2, <2>3 DEF Split, TpTypeOK
    <2> QED BY <1>2, <2>1, <2>2, <2>3 DEF TpNext
  <1>3. TpTypeOK /\ [TpNext]_tpVars => TpTypeOK'
    BY <1>2
  <1> QED BY <1>1, <1>3, PTL DEF TpSpec

LEMMA SvStep ==
  ASSUME [SvNext]_svVars
  PROVE  /\ [HttpNext]_httpVars /\ [QuicNext]_quicVars /\ [GrpcNext]_grpcVars
         /\ [XdpNext]_xdpVars /\ [TileNext]_tileVars /\ [TpNext]_tpVars
         /\ [LgNext]_lgVars /\ [TrNext]_trVars
  <1>1. CASE SvNext
    BY <1>1 DEF SvNext
  <1>2. CASE UNCHANGED svVars
    BY <1>2 DEF svVars
  <1> QED BY <1>1, <1>2

LEMMA SvImplements ==
  SvSpec => /\ HttpSpec /\ QuicSpec /\ GrpcSpec /\ XdpSpec
            /\ TileSpec /\ TpSpec /\ LogSafety /\ TrSpec
  BY SvStep, PTL
     DEF SvSpec, SvInit, HttpSpec, QuicSpec, GrpcSpec, XdpSpec, TileSpec, TpSpec, LogSafety, TrSpec

\* TransportsSound: what every transport promises holds throughout the composition, for any
\* connections, contexts, streams, requests, depths and ring counters.
THEOREM TransportsAlwaysSound == SvSpec => []TransportsSound
  <1>1. HttpInv => HttpTypeOK
    BY DEF HttpInv
  <1>2. /\ HttpTypeOK
        /\ QuicTypeOK /\ PointersHold /\ StartedIsOwned /\ ServerWired
        /\ GrpcTypeOK /\ DeadlineIsOwn /\ DeadlineAtHome /\ HandleFindsItsStream
        /\ XdpTypeOK /\ FramesIntact /\ CompletionsRunOut
        => TransportsSound
    BY DEF TransportsSound
  <1> QED BY <1>1, <1>2, SvImplements, HttpInvariant, QuicAlwaysSound, GrpcAlwaysSound,
             XdpAlwaysSound, PTL

\* RuntimeSound: tiles are held and do not wait in a circle, a pool and the log keep their
\* shape, threads that race to initialise the logger boot it once, and an Ok of init is about
\* the subscriber installed, throughout the composition.
THEOREM RuntimeAlwaysSound == SvSpec => []RuntimeSound
  <1>1. TileInv => TileTypeOK
    BY DEF TileInv
  <1>2. /\ TileTypeOK /\ TilesSound /\ TpTypeOK /\ LgTypeOK /\ OneBoot
        /\ TrTypeOK /\ TracingSound
        => RuntimeSound
    BY DEF RuntimeSound
  <1> QED BY <1>1, <1>2, SvImplements, TileInvariant, TilesAlwaysSound, PoolTyped, LevelsTyped,
             LoggerBootsOnce, TracingAlwaysSound, PTL

-----------------------------------------------------------------------------
(***************************************************************************)
(* The build of the *_sys crates, for every one of their scripts and any   *)
(* number of changes to the vendored files.  The order of a script's steps *)
(* is all the proof needs of it: a step that is done has left its artefact *)
(* as it should be for the files Cargo has recorded (UpToDate), which are  *)
(* the present ones but for what Cargo does not watch (Recorded).          *)
(***************************************************************************)

StepNames == {"find", "header", "bind", "cc", "wrap", "tpool"}

Has(s, x) == \E i \in 1..Len(s) : s[i] = x

Precedes(s, a, b) == \A i, j \in 1..Len(s) : s[i] = a /\ s[j] = b => i < j

Distinct(s) == \A i, j \in 1..Len(s) : s[i] = s[j] => i = j

\* The scripts that compile the wrapper after bindgen has written it.
LateWrap(r) == ~WrapsFirst(r) /\ Has(r.steps, "wrap")

\* The wrapper is given no instruction set.
BareInline(r) == r.inline.isa = "none" /\ r.inline.features \cap InstructionSets = {}

\* What holds of each of the scripts.
Orderly(r) ==
  /\ r.steps \in Seq(StepNames) /\ Distinct(r.steps)
  /\ Has(r.steps, "bind") /\ Has(r.steps, "cc")
  /\ r.listed => r.wraps /\ Precedes(r.steps, "bind", "cc") /\ ~Has(r.steps, "wrap")
  /\ Has(r.steps, "wrap") => r.wraps
  /\ WrapsFirst(r) => /\ Has(r.steps, "wrap") /\ Precedes(r.steps, "wrap", "bind")
                      /\ BareInline(r)
  /\ LateWrap(r) => Precedes(r.steps, "bind", "wrap") /\ r.inline = r.bind

LEMMA TailOf ==
  ASSUME NEW s \in Seq(StepNames), s # <<>>, Distinct(s)
  PROVE  /\ Tail(s) \in Seq(StepNames) /\ Distinct(Tail(s))
         /\ \A x : Has(Tail(s), x) <=> Has(s, x) /\ x # Head(s)
         /\ \A a, b : Precedes(s, a, b) => Precedes(Tail(s), a, b)
         /\ \A a, b : Precedes(s, a, b) /\ Head(s) = b => ~Has(s, a)
  <1>1. /\ Len(s) \in Nat \ {0} /\ Head(s) = s[1] /\ Tail(s) \in Seq(StepNames)
        /\ Len(Tail(s)) = Len(s) - 1 /\ \A i \in 1..(Len(s) - 1) : Tail(s)[i] = s[i + 1]
    OBVIOUS
  <1>2. Distinct(Tail(s))
    BY <1>1 DEF Distinct
  <1>3. ASSUME NEW x, Has(Tail(s), x) PROVE Has(s, x) /\ x # Head(s)
    <2>1. PICK i \in 1..(Len(s) - 1) : s[i + 1] = x
      BY <1>1, <1>3 DEF Has
    <2>2. i + 1 \in 1..Len(s) /\ 1 \in 1..Len(s) /\ i + 1 # 1
      BY <1>1, <2>1
    <2> QED BY <1>1, <2>1, <2>2 DEF Has, Distinct
  <1>4. ASSUME NEW x, Has(s, x), x # Head(s) PROVE Has(Tail(s), x)
    <2>1. PICK i \in 1..Len(s) : s[i] = x
      BY <1>4 DEF Has
    <2>2. i # 1 /\ i - 1 \in 1..(Len(s) - 1) /\ (i - 1) + 1 = i
      BY <1>1, <1>4, <2>1
    <2>3. Tail(s)[i - 1] = x
      BY <1>1, <2>1, <2>2
    <2> QED BY <1>1, <2>2, <2>3 DEF Has
  <1>5. ASSUME NEW a, NEW b, Precedes(s, a, b) PROVE Precedes(Tail(s), a, b)
    <2> SUFFICES ASSUME NEW i \in 1..(Len(s) - 1), NEW j \in 1..(Len(s) - 1),
                        s[i + 1] = a, s[j + 1] = b
                 PROVE  i < j
      BY <1>1 DEF Precedes
    <2>1. i + 1 \in 1..Len(s) /\ j + 1 \in 1..Len(s)
      BY <1>1
    <2>2. i + 1 < j + 1
      BY <1>5, <2>1 DEF Precedes
    <2> QED BY <2>2
  <1>6. ASSUME NEW a, NEW b, Precedes(s, a, b), Head(s) = b PROVE ~Has(s, a)
    <2>1. 1 \in 1..Len(s) /\ \A i \in 1..Len(s) : ~(i < 1)
      BY <1>1
    <2> QED BY <1>1, <1>6, <2>1 DEF Precedes, Has
  <1> QED BY <1>1, <1>2, <1>3, <1>4, <1>5, <1>6

LEMMA HeadHas == \A s \in Seq(StepNames) : s # <<>> => Has(s, Head(s))
  <1> SUFFICES ASSUME NEW s \in Seq(StepNames), s # <<>> PROVE Has(s, Head(s))
    OBVIOUS
  <1>1. Len(s) \in Nat \ {0} /\ Head(s) = s[1]
    OBVIOUS
  <1>2. 1 \in 1..Len(s)
    BY <1>1
  <1> QED BY <1>1, <1>2 DEF Has

LEMMA EmptyHas == \A x : ~Has(<<>>, x)
  BY DEF Has

\* The nine orders of steps there are.
LEMMA StepOrders ==
  /\ \A s \in {<<"find", "bind", "cc">>, <<"header", "bind", "cc">>, PipelineSteps} :
       /\ s \in Seq(StepNames) /\ Distinct(s) /\ Has(s, "bind") /\ Has(s, "cc")
       /\ Precedes(s, "bind", "cc") /\ ~Has(s, "wrap")
  /\ \A s \in {<<"cc", "bind">>, <<"cc", "header", "bind">>, <<"find", "cc", "header", "bind">>} :
       /\ s \in Seq(StepNames) /\ Distinct(s) /\ Has(s, "bind") /\ Has(s, "cc")
       /\ ~Has(s, "wrap")
  /\ LET s == <<"header", "bind", "cc", "wrap">> IN
       /\ s \in Seq(StepNames) /\ Distinct(s) /\ Has(s, "bind") /\ Has(s, "cc")
       /\ Precedes(s, "bind", "wrap")
  /\ \A s \in {WrapFirstSteps, WkspSteps} :
       /\ s \in Seq(StepNames) /\ Distinct(s) /\ Has(s, "bind") /\ Has(s, "cc")
       /\ Has(s, "wrap") /\ Precedes(s, "wrap", "bind")
  BY DEF PipelineSteps, WrapFirstSteps, WkspSteps, StepNames, Distinct, Has, Precedes

LEMMA NotWrapFirst ==
  \A s \in {WrapFirstSteps, WkspSteps} :
    s \notin {<<"find", "bind", "cc">>, <<"header", "bind", "cc">>, PipelineSteps, <<"cc", "bind">>,
              <<"cc", "header", "bind">>, <<"find", "cc", "header", "bind">>,
              <<"header", "bind", "cc", "wrap">>}
  BY DEF PipelineSteps, WrapFirstSteps, WkspSteps

LEMMA OrderlyShapes ==
  ASSUME NEW r
  PROVE  /\ r.steps \in {<<"find", "bind", "cc">>, <<"header", "bind", "cc">>, PipelineSteps}
              /\ (r.listed => r.wraps) => Orderly(r)
         /\ r.steps \in {<<"cc", "bind">>, <<"cc", "header", "bind">>,
                         <<"find", "cc", "header", "bind">>} /\ ~r.listed => Orderly(r)
         /\ r.steps = <<"header", "bind", "cc", "wrap">> /\ ~r.listed /\ r.wraps
              /\ r.inline = r.bind => Orderly(r)
         /\ WrapsFirst(r) /\ ~r.listed /\ r.wraps /\ BareInline(r) => Orderly(r)
  BY StepOrders, NotWrapFirst DEF Orderly, LateWrap, WrapsFirst

LEMMA BindFirstScripts ==
  /\ \A r \in {Ed25519Sys, NanopbSys, SbpfSys, ShredSys, TomlSys, TxnSys, ZstdSys, SvmSys, ClockSys, TmplSys, GrpcSys, HttpSys, RpcSys} : Orderly(r) /\ r.bind = r.cc
  /\ \A r \in {Base64Sys, BuildersSys} : Orderly(r)
  <1>1. Orderly(Base64Sys)
    BY OrderlyShapes DEF Base64Sys, Script, Pipeline, CcFirst, WrapFirst, Standard, Side
  <1>2. Orderly(Ed25519Sys) /\ Ed25519Sys.bind = Ed25519Sys.cc
    BY OrderlyShapes DEF Ed25519Sys, Script, Pipeline, CcFirst, WrapFirst, Standard, Side
  <1>3. Orderly(NanopbSys) /\ NanopbSys.bind = NanopbSys.cc
    BY OrderlyShapes DEF NanopbSys, Script, Pipeline, CcFirst, WrapFirst, Standard, Side
  <1>4. Orderly(SbpfSys) /\ SbpfSys.bind = SbpfSys.cc
    BY OrderlyShapes DEF SbpfSys, Script, Pipeline, CcFirst, WrapFirst, Standard, Side
  <1>5. Orderly(ShredSys) /\ ShredSys.bind = ShredSys.cc
    BY OrderlyShapes DEF ShredSys, Script, Pipeline, CcFirst, WrapFirst, Standard, Side
  <1>6. Orderly(TomlSys) /\ TomlSys.bind = TomlSys.cc
    BY OrderlyShapes DEF TomlSys, Script, Pipeline, CcFirst, WrapFirst, Standard, Side
  <1>7. Orderly(TxnSys) /\ TxnSys.bind = TxnSys.cc
    BY OrderlyShapes DEF TxnSys, Script, Pipeline, CcFirst, WrapFirst, Standard, Side
  <1>8. Orderly(ZstdSys) /\ ZstdSys.bind = ZstdSys.cc
    BY OrderlyShapes DEF ZstdSys, Script, Pipeline, CcFirst, WrapFirst, Standard, Side
  <1>9. Orderly(SvmSys) /\ SvmSys.bind = SvmSys.cc
    BY OrderlyShapes DEF SvmSys, Script, Pipeline, CcFirst, WrapFirst, Standard, Side
  <1>10. Orderly(ClockSys) /\ ClockSys.bind = ClockSys.cc
    BY OrderlyShapes DEF ClockSys, Script, Pipeline, CcFirst, WrapFirst, Standard, Side
  <1>11. Orderly(TmplSys) /\ TmplSys.bind = TmplSys.cc
    BY OrderlyShapes DEF TmplSys, Script, Pipeline, CcFirst, WrapFirst, Standard, Side
  <1>12. Orderly(GrpcSys) /\ GrpcSys.bind = GrpcSys.cc
    BY OrderlyShapes DEF GrpcSys, Script, Pipeline, CcFirst, WrapFirst, Standard, Side
  <1>13. Orderly(HttpSys) /\ HttpSys.bind = HttpSys.cc
    BY OrderlyShapes DEF HttpSys, Script, Pipeline, CcFirst, WrapFirst, Standard, Side
  <1>14. Orderly(RpcSys) /\ RpcSys.bind = RpcSys.cc
    BY OrderlyShapes DEF RpcSys, Script, Pipeline, CcFirst, WrapFirst, Standard, Side
  <1>15. Orderly(BuildersSys)
    BY OrderlyShapes DEF BuildersSys, Script, Pipeline, CcFirst, WrapFirst, Standard, Side
  <1> QED BY <1>1, <1>2, <1>3, <1>4, <1>5, <1>6, <1>7, <1>8, <1>9, <1>10, <1>11, <1>12, <1>13, <1>14, <1>15

LEMMA CcFirstScripts ==
  /\ \A r \in {JsonSys, BitsSys, EnvSys, LogSys, MathSys, NetSys, ShmemSys} : Orderly(r) /\ r.bind = r.cc
  /\ \A r \in {TpoolSys, VallocSys} : Orderly(r)
  <1>1. Orderly(JsonSys) /\ JsonSys.bind = JsonSys.cc
    BY OrderlyShapes DEF JsonSys, Script, Pipeline, CcFirst, WrapFirst, Standard, Side
  <1>2. Orderly(BitsSys) /\ BitsSys.bind = BitsSys.cc
    BY OrderlyShapes DEF BitsSys, Script, Pipeline, CcFirst, WrapFirst, Standard, Side
  <1>3. Orderly(EnvSys) /\ EnvSys.bind = EnvSys.cc
    BY OrderlyShapes DEF EnvSys, Script, Pipeline, CcFirst, WrapFirst, Standard, Side
  <1>4. Orderly(LogSys) /\ LogSys.bind = LogSys.cc
    BY OrderlyShapes DEF LogSys, Script, Pipeline, CcFirst, WrapFirst, Standard, Side
  <1>5. Orderly(MathSys) /\ MathSys.bind = MathSys.cc
    BY OrderlyShapes DEF MathSys, Script, Pipeline, CcFirst, WrapFirst, Standard, Side
  <1>6. Orderly(NetSys) /\ NetSys.bind = NetSys.cc
    BY OrderlyShapes DEF NetSys, Script, Pipeline, CcFirst, WrapFirst, Standard, Side
  <1>7. Orderly(ShmemSys) /\ ShmemSys.bind = ShmemSys.cc
    BY OrderlyShapes DEF ShmemSys, Script, Pipeline, CcFirst, WrapFirst, Standard, Side
  <1>8. Orderly(TpoolSys)
    BY OrderlyShapes DEF TpoolSys, Script, Pipeline, CcFirst, WrapFirst, Standard, Side
  <1>9. Orderly(VallocSys)
    BY OrderlyShapes DEF VallocSys, Script, Pipeline, CcFirst, WrapFirst, Standard, Side
  <1> QED BY <1>1, <1>2, <1>3, <1>4, <1>5, <1>6, <1>7, <1>8, <1>9

LEMMA LateWrapScripts ==
  /\ \A r \in {ScratchSys, SpadSys} : Orderly(r) /\ r.bind = r.cc
  <1>1. Orderly(ScratchSys) /\ ScratchSys.bind = ScratchSys.cc
    BY OrderlyShapes DEF ScratchSys, Script, Pipeline, CcFirst, WrapFirst, Standard, Side
  <1>2. Orderly(SpadSys) /\ SpadSys.bind = SpadSys.cc
    BY OrderlyShapes DEF SpadSys, Script, Pipeline, CcFirst, WrapFirst, Standard, Side
  <1> QED BY <1>1, <1>2

LEMMA WrapFirstScripts ==
  /\ \A r \in {CheckptSys, QuicSys} : Orderly(r) /\ r.bind = r.cc
  /\ \A r \in {TileSys, WkspSys} : Orderly(r)
  <1>0. WrapFirstSteps \in {WrapFirstSteps, WkspSteps} /\ WkspSteps \in {WrapFirstSteps, WkspSteps}
    OBVIOUS
  <1>1. Orderly(CheckptSys) /\ CheckptSys.bind = CheckptSys.cc
    <2>1. CheckptSys.steps = WrapFirstSteps /\ ~CheckptSys.listed /\ CheckptSys.wraps /\ CheckptSys.bind = CheckptSys.cc
      BY DEF CheckptSys, Script, WrapFirst, Standard, Side
    <2>2. BareInline(CheckptSys)
      BY DEF BareInline, InstructionSets, CheckptSys, Script, WrapFirst, Standard, Side
    <2> QED BY <1>0, <2>1, <2>2, OrderlyShapes DEF WrapsFirst
  <1>2. Orderly(TileSys)
    <2>1. TileSys.steps = WrapFirstSteps /\ ~TileSys.listed /\ TileSys.wraps
      BY DEF TileSys, Script, WrapFirst, Standard, Side
    <2>2. BareInline(TileSys)
      BY DEF BareInline, InstructionSets, TileSys, Script, WrapFirst, Standard, Side
    <2> QED BY <1>0, <2>1, <2>2, OrderlyShapes DEF WrapsFirst
  <1>3. Orderly(WkspSys)
    <2>1. WkspSys.steps = WkspSteps /\ ~WkspSys.listed /\ WkspSys.wraps
      BY DEF WkspSys, Script, WrapFirst, Standard, Side
    <2>2. BareInline(WkspSys)
      BY DEF BareInline, InstructionSets, WkspSys, Script, WrapFirst, Standard, Side
    <2> QED BY <1>0, <2>1, <2>2, OrderlyShapes DEF WrapsFirst
  <1>4. Orderly(QuicSys) /\ QuicSys.bind = QuicSys.cc
    <2>1. QuicSys.steps = WrapFirstSteps /\ ~QuicSys.listed /\ QuicSys.wraps /\ QuicSys.bind = QuicSys.cc
      BY DEF QuicSys, Script, WrapFirst, Standard, Side
    <2>2. BareInline(QuicSys)
      BY DEF BareInline, InstructionSets, QuicSys, Script, WrapFirst, Standard, Side
    <2> QED BY <1>0, <2>1, <2>2, OrderlyShapes DEF WrapsFirst
  <1> QED BY <1>1, <1>2, <1>3, <1>4

LEMMA RecipesOrderly ==
  \A c \in DOMAIN Recipe : Orderly(Recipe[c]) /\ (c \notin Divergent => Recipe[c].bind = Recipe[c].cc)
  <1>1. DOMAIN Recipe = {"base64", "ed25519", "json", "nanopb", "sbpf", "shred", "toml", "txn",
           "zstd", "svm", "bits", "checkpt", "clock", "env", "log", "math",
           "net", "scratch", "shmem", "spad", "tile", "tmpl", "tpool", "valloc",
           "wksp", "grpc", "http", "quic", "rpc", "builders"}
    BY DEF Recipe
  <1>2. /\ Recipe["base64"] = Base64Sys /\ Recipe["ed25519"] = Ed25519Sys /\ Recipe["json"] = JsonSys
        /\ Recipe["nanopb"] = NanopbSys /\ Recipe["sbpf"] = SbpfSys /\ Recipe["shred"] = ShredSys
        /\ Recipe["toml"] = TomlSys /\ Recipe["txn"] = TxnSys /\ Recipe["zstd"] = ZstdSys
        /\ Recipe["svm"] = SvmSys /\ Recipe["bits"] = BitsSys /\ Recipe["checkpt"] = CheckptSys
        /\ Recipe["clock"] = ClockSys /\ Recipe["env"] = EnvSys /\ Recipe["log"] = LogSys
        /\ Recipe["math"] = MathSys /\ Recipe["net"] = NetSys /\ Recipe["scratch"] = ScratchSys
        /\ Recipe["shmem"] = ShmemSys /\ Recipe["spad"] = SpadSys /\ Recipe["tile"] = TileSys
        /\ Recipe["tmpl"] = TmplSys /\ Recipe["tpool"] = TpoolSys /\ Recipe["valloc"] = VallocSys
        /\ Recipe["wksp"] = WkspSys /\ Recipe["grpc"] = GrpcSys /\ Recipe["http"] = HttpSys
        /\ Recipe["quic"] = QuicSys /\ Recipe["rpc"] = RpcSys /\ Recipe["builders"] = BuildersSys
    BY DEF Recipe
  <1>3. SUFFICES ASSUME NEW c \in DOMAIN Recipe
                 PROVE  Orderly(Recipe[c]) /\ (c \notin Divergent => Recipe[c].bind = Recipe[c].cc)
    OBVIOUS
  <1>4. CASE c \in {"base64", "ed25519", "nanopb", "sbpf", "shred", "toml", "txn", "zstd", "svm", "clock", "tmpl", "grpc", "http", "rpc", "builders"}
    BY ONLY <1>2, <1>4, BindFirstScripts, Zenon DEF Divergent
  <1>5. CASE c \in {"json", "bits", "env", "log", "math", "net", "shmem", "tpool", "valloc"}
    BY ONLY <1>2, <1>5, CcFirstScripts, Zenon DEF Divergent
  <1>6. CASE c \in {"scratch", "spad"}
    BY ONLY <1>2, <1>6, LateWrapScripts, Zenon DEF Divergent
  <1>7. CASE c \in {"checkpt", "tile", "wksp", "quic"}
    BY ONLY <1>2, <1>7, WrapFirstScripts, Zenon DEF Divergent
  <1> QED BY ONLY <1>1, <1>3, <1>4, <1>5, <1>6, <1>7, Zenon

\* How the macros of bindings and library differ in the six crates.
LEMMA DivergentRecipes ==
  /\ \A c \in {"base64", "valloc", "tpool", "builders"} :
       ~Recipe[c].listed /\ ~Has(Recipe[c].steps, "wrap")
  /\ Recipe["base64"].bind = Side("none", {})
  /\ \A c \in {"tile", "wksp", "valloc"} :
       /\ Recipe[c].cc.isa = Recipe[c].bind.isa
       /\ Recipe[c].cc.features = Recipe[c].bind.features \cup {"ATOMIC"}
  /\ Recipe["wksp"].bind = Standard({})
  /\ Recipe["tpool"].bind.isa = Recipe["tpool"].cc.isa
  /\ Recipe["tpool"].bind.features = Recipe["tpool"].cc.features \cup {"TILE_MAX"}
  /\ Recipe["builders"].bind = Side("with_clang_opts", {})
  /\ Recipe["builders"].cc = Side("with_target_opts", {})
  <1>1. /\ Recipe["base64"] = Base64Sys /\ Recipe["tile"] = TileSys /\ Recipe["tpool"] = TpoolSys
        /\ Recipe["valloc"] = VallocSys /\ Recipe["wksp"] = WkspSys
        /\ Recipe["builders"] = BuildersSys
    BY DEF Recipe
  <1>2. /\ Base64Sys.bind = Side("none", {}) /\ ~Base64Sys.listed
        /\ Base64Sys.steps = <<"find", "bind", "cc">>
    BY DEF Base64Sys, Script
  <1>3. /\ BuildersSys.bind = Side("with_clang_opts", {}) /\ ~BuildersSys.listed
        /\ BuildersSys.cc = Side("with_target_opts", {})
        /\ BuildersSys.steps = <<"header", "bind", "cc">>
    BY DEF BuildersSys, Script
  <1>4. /\ TpoolSys.bind = Standard({"THREADS", "ALLOCA", "TILE_MAX"}) /\ ~TpoolSys.listed
        /\ TpoolSys.cc = Standard({"THREADS", "ALLOCA"}) /\ TpoolSys.steps = <<"cc", "bind">>
    BY DEF TpoolSys, CcFirst, Script
  <1>5. /\ VallocSys.bind = Standard({}) /\ ~VallocSys.listed
        /\ VallocSys.cc = Standard({"ATOMIC"}) /\ VallocSys.steps = <<"cc", "header", "bind">>
    BY DEF VallocSys, CcFirst, Script
  <1>6. TileSys.bind = Standard({"TILE_MAX"}) /\ TileSys.cc = Standard({"TILE_MAX", "ATOMIC"})
    BY DEF TileSys, WrapFirst, Script
  <1>7. WkspSys.bind = Standard({}) /\ WkspSys.cc = Standard({"ATOMIC"})
    BY DEF WkspSys, WrapFirst, Script
  <1>8. \A f : Standard(f).isa = "standard" /\ Standard(f).features = f
    BY DEF Standard, Side
  <1>9. \A c \in {"base64", "valloc", "tpool", "builders"} :
          ~Recipe[c].listed /\ ~Has(Recipe[c].steps, "wrap")
    <2>1. /\ ~Has(Base64Sys.steps, "wrap") /\ ~Has(BuildersSys.steps, "wrap")
          /\ ~Has(TpoolSys.steps, "wrap") /\ ~Has(VallocSys.steps, "wrap")
      BY <1>2, <1>3, <1>4, <1>5, StepOrders
    <2> QED BY <1>1, <1>2, <1>3, <1>4, <1>5, <2>1
  <1>10. \A c \in {"tile", "wksp", "valloc"} :
           /\ Recipe[c].cc.isa = Recipe[c].bind.isa
           /\ Recipe[c].cc.features = Recipe[c].bind.features \cup {"ATOMIC"}
    BY <1>1, <1>5, <1>6, <1>7, <1>8
  <1> QED BY <1>1, <1>2, <1>3, <1>4, <1>7, <1>8, <1>9, <1>10

-----------------------------------------------------------------------------
IsOutDir(o) ==
  \E w, b, l, n : o = [wrapper |-> w, bindings |-> b, library |-> l, inline |-> n]

Holds(o, w, b, l, n) ==
  IsOutDir(o) /\ o.wrapper = w /\ o.bindings = b /\ o.library = l /\ o.inline = n

LEMMA OutDirWith ==
  ASSUME NEW o, IsOutDir(o), NEW x, NEW y
  PROVE  /\ Holds(o, o.wrapper, o.bindings, o.library, o.inline)
         /\ Holds([o EXCEPT !.wrapper = x], x, o.bindings, o.library, o.inline)
         /\ Holds([o EXCEPT !.bindings = x], o.wrapper, x, o.library, o.inline)
         /\ Holds([o EXCEPT !.inline = x], o.wrapper, o.bindings, o.library, x)
         /\ Holds([o EXCEPT !.library = x, !.inline = y], o.wrapper, o.bindings, x, y)
  <1>1. PICK w, b, l, n : o = [wrapper |-> w, bindings |-> b, library |-> l, inline |-> n]
    BY DEF IsOutDir
  <1>2. o.wrapper = w /\ o.bindings = b /\ o.library = l /\ o.inline = n
    BY <1>1
  <1>3. [o EXCEPT !.wrapper = x] = [wrapper |-> x, bindings |-> b, library |-> l, inline |-> n]
    BY <1>1
  <1>4. [o EXCEPT !.bindings = x] = [wrapper |-> w, bindings |-> x, library |-> l, inline |-> n]
    BY <1>1
  <1>5. [o EXCEPT !.inline = x] = [wrapper |-> w, bindings |-> b, library |-> l, inline |-> x]
    BY <1>1
  <1>6. [o EXCEPT !.library = x, !.inline = y] =
          [wrapper |-> w, bindings |-> b, library |-> x, inline |-> y]
    <2>1. [o EXCEPT !.library = x] = [wrapper |-> w, bindings |-> b, library |-> x, inline |-> n]
      BY <1>1
    <2>2. [o EXCEPT !.library = x, !.inline = y] = [[o EXCEPT !.library = x] EXCEPT !.inline = y]
      BY ONLY Zenon
    <2>3. ASSUME NEW p, p = [wrapper |-> w, bindings |-> b, library |-> x, inline |-> n]
          PROVE  [p EXCEPT !.inline = y] = [wrapper |-> w, bindings |-> b, library |-> x, inline |-> y]
      BY ONLY <2>3
    <2> QED BY ONLY <2>1, <2>2, <2>3, Zenon
  <1>7. ASSUME NEW u, NEW w1, NEW b1, NEW l1, NEW n1,
               u = [wrapper |-> w1, bindings |-> b1, library |-> l1, inline |-> n1]
        PROVE  Holds(u, w1, b1, l1, n1)
    <2>1. u.wrapper = w1 /\ u.bindings = b1 /\ u.library = l1 /\ u.inline = n1
      BY ONLY <1>7
    <2>2. IsOutDir(u)
      BY ONLY <1>7, Zenon DEF IsOutDir
    <2> QED BY ONLY <2>1, <2>2, Zenon DEF Holds
  <1>8. Holds(o, w, b, l, n)
    BY ONLY <1>1, <1>7, Zenon
  <1>9. Holds([o EXCEPT !.wrapper = x], x, b, l, n)
    BY ONLY <1>3, <1>7, Zenon
  <1>10. Holds([o EXCEPT !.bindings = x], w, x, l, n)
    BY ONLY <1>4, <1>7, Zenon
  <1>11. Holds([o EXCEPT !.inline = x], w, b, l, x)
    BY ONLY <1>5, <1>7, Zenon
  <1>12. Holds([o EXCEPT !.library = x, !.inline = y], w, b, x, y)
    BY ONLY <1>6, <1>7, Zenon
  <1> QED BY ONLY <1>2, <1>8, <1>9, <1>10, <1>11, <1>12

LEMMA EmptyIs == IsOutDir(EmptyOutDir) /\ EmptyOutDir.inline.text = 0
  BY DEF IsOutDir, EmptyOutDir, NoInline

LEMMA NoVersions == NeverRan = NotCheckedOut /\ NotCheckedOut \in [FileClasses -> Nat]
  BY DEF NeverRan, NotCheckedOut

LEMMA NotSettled ==
  ASSUME NEW n, n = 0
  PROVE  n \in 0..2 /\ ~(n >= 1) /\ n # 1 /\ n # 2
  OBVIOUS

LEMMA NothingLeft ==
  <<>> \in Seq(StepNames) /\ Distinct(<<>>) /\ \A a, b : Precedes(<<>>, a, b)
  BY DEF Distinct, Precedes

\* The shape of the state: what a script still has to do is what its order of steps leaves.
BuildShape ==
  /\ crate \in SysCrates \cup {""} /\ target \in Targets
  /\ vendor \in [FileClasses -> Nat] /\ seen \in [FileClasses -> Nat]
  /\ vendor # NotCheckedOut => vendor["headers"] # 0
  /\ IsOutDir(outdir)
  /\ report \in {"none", "ok", "failed"} /\ settled \in 0..2
  /\ crate = "" => /\ todo = <<>> /\ outdir = EmptyOutDir /\ seen = NeverRan
                   /\ report = "none" /\ settled = 0

RunsOrderly(r) ==
  /\ todo \in Seq(StepNames) /\ Distinct(todo)
  /\ \A x : Has(todo, x) => Has(r.steps, x)
  /\ r.listed => Precedes(todo, "bind", "cc")
  /\ LateWrap(r) => Precedes(todo, "bind", "wrap")

\* The files Cargo has recorded.
RecordedFiles(r) ==
  /\ todo # <<>> => seen = vendor /\ report = "none"
  /\ report = "ok" => seen["headers"] = vendor["headers"] /\ seen["watched"] = vendor["watched"]
  /\ (seen # NeverRan \/ report = "ok") /\ r.unwatched = {} => seen["unwatched"] = vendor["unwatched"]

\* The artefacts of the steps that are done are those of the files recorded.
UpToDate(r) ==
  todo # <<>> \/ seen # NeverRan \/ report = "ok" =>
    /\ ~Has(todo, "bind") =>
         /\ outdir.bindings = [headers |-> seen["headers"], macros |-> MacrosOf(r.bind, target)]
         /\ r.wraps => outdir.wrapper = seen["headers"]
         /\ seen["headers"] # 0
    /\ ~Has(todo, "cc") =>
         /\ outdir.library = [files |-> seen, macros |-> MacrosOf(r.cc, target)]
         /\ r.listed => outdir.inline = [text |-> seen["headers"], macros |-> MacrosOf(r.cc, target)]
    /\ ~Has(todo, "wrap") /\ LateWrap(r) =>
         outdir.inline = [text |-> seen["headers"], macros |-> MacrosOf(r.inline, target)]

\* A complete run leaves the wrapper of the present headers; where the wrapper is compiled
\* before it is written, the next complete run compiles that text.
Settles(r) ==
  /\ settled >= 1 => vendor["headers"] # 0 /\ (r.wraps => outdir.wrapper = vendor["headers"])
  /\ WrapsFirst(r)
       /\ (settled = 2 \/ (settled = 1 /\ todo # <<>> /\ ~Has(todo, "wrap"))) =>
       outdir.inline.text = vendor["headers"]
  /\ ~r.listed /\ ~Has(r.steps, "wrap") => outdir.inline.text = 0

\* A script that looks for the wrapper before it is written compiles what the run before it
\* left; the tpool library, once compiled, is of the files recorded.
Lagging(r) ==
  /\ WrapsFirst(r) =>
       /\ Precedes(todo, "wrap", "bind")
       /\ outdir.wrapper = 0 => outdir.inline.text = 0
       /\ outdir.inline.text # 0 => outdir.inline.macros = MacrosOf(r.inline, target)
  /\ todo # <<>> \/ seen # NeverRan \/ report = "ok" =>
       /\ WrapsFirst(r) => IF Has(todo, "wrap") THEN outdir.wrapper = previous
                           ELSE outdir.inline.text = previous
       /\ Has(r.steps, "tpool") /\ ~Has(todo, "tpool") =>
            tpoolLib = [files |-> seen, macros |-> TpoolMacros]

LagInv == crate # "" => Lagging(Recipe[crate])

ScriptInv == RunsOrderly(Recipe[crate]) /\ RecordedFiles(Recipe[crate])
             /\ UpToDate(Recipe[crate]) /\ Settles(Recipe[crate])

BuildInv == BuildShape /\ (crate # "" => ScriptInv)

\* The macros of two sides of one instruction set differ by their features.
LEMMA MacrosWith ==
  ASSUME NEW a, NEW b, NEW t, NEW F, a.isa = b.isa, a.features = b.features \cup F
  PROVE  MacrosOf(a, t) = MacrosOf(b, t) \cup F
  <1> DEFINE isas == SpecTarget(b.isa, t)
             poll == IF t.os = "macos" /\ b.isa # "none" THEN {"SIGPOLL"} ELSE {}
  <1>1. MacrosOf(b, t) = isas \cup b.features \cup poll
    BY DEF MacrosOf
  <1>2. MacrosOf(a, t) = isas \cup a.features \cup poll
    BY DEF MacrosOf
  <1> HIDE DEF isas, poll
  <1> QED BY <1>1, <1>2

LEMMA BareMacros ==
  ASSUME NEW a, NEW t, a.isa = "none"
  PROVE  MacrosOf(a, t) = a.features
  <1>1. SpecTarget(a.isa, t) = {}
    BY DEF SpecTarget
  <1> QED BY <1>1 DEF MacrosOf

LEMMA BuilderMacros ==
  ASSUME NEW t
  PROVE  LET bind == MacrosOf(Side("with_clang_opts", {}), t)
             lib  == MacrosOf(Side("with_target_opts", {}), t) IN
         lib \subseteq bind /\ bind \subseteq lib \cup {"AVX512"}
  <1> DEFINE poll == IF t.os = "macos" THEN {"SIGPOLL"} ELSE {}
  <1>1. /\ SpecTarget("with_clang_opts", t) = WithClangOpts(t)
        /\ SpecTarget("with_target_opts", t) = WithTargetOpts(t)
    BY DEF SpecTarget
  <1>2. MacrosOf(Side("with_clang_opts", {}), t) = WithClangOpts(t) \cup poll
    BY <1>1 DEF MacrosOf, Side
  <1>3. MacrosOf(Side("with_target_opts", {}), t) = WithTargetOpts(t) \cup poll
    BY <1>1 DEF MacrosOf, Side
  <1>4. /\ WithTargetOpts(t) \subseteq WithClangOpts(t)
        /\ WithClangOpts(t) \subseteq WithTargetOpts(t) \cup {"AVX512"}
    BY DEF WithTargetOpts, WithClangOpts
  <1> HIDE DEF poll
  <1> QED BY <1>2, <1>3, <1>4

LEMMA StandardMacros ==
  ASSUME NEW t
  PROVE  MacrosOf(Standard({}), t) \cap TpoolMacros = {}
  <1>1. SpecTarget("standard", t) \subseteq {"ARM", "X86", "SSE", "AVX"}
    BY DEF SpecTarget, ByArch, X86
  <1>2. MacrosOf(Standard({}), t) \subseteq SpecTarget("standard", t) \cup {"SIGPOLL"}
    BY DEF MacrosOf, Standard, Side
  <1> QED BY <1>1, <1>2 DEF TpoolMacros

\* What the invariants say of a build that ended well.
LEMMA BuildInvCoherent == BuildInv /\ LagInv => BuildCoherent
  <1> SUFFICES ASSUME BuildInv, LagInv, report = "ok" PROVE BuildCoherent
    BY DEF BuildCoherent, LibraryCurrent, InlineFunctionsFit, MacrosFit
  <1> DEFINE r == Recipe[crate]
  <1>1. crate # "" /\ crate \in DOMAIN Recipe /\ ScriptInv
    BY BuildAssumption DEF BuildInv, BuildShape
  <1>2. Orderly(r) /\ (crate \notin Divergent => r.bind = r.cc)
    BY <1>1, RecipesOrderly
  <1>3. RunsOrderly(r) /\ RecordedFiles(r) /\ UpToDate(r) /\ Settles(r) /\ Lagging(r)
    BY <1>1 DEF ScriptInv, LagInv
  <1> HIDE DEF r
  <1>4. todo = <<>> /\ \A x : ~Has(todo, x)
    BY <1>3, EmptyHas DEF RecordedFiles
  <1>5. /\ outdir.bindings = [headers |-> seen["headers"], macros |-> MacrosOf(r.bind, target)]
        /\ outdir.library = [files |-> seen, macros |-> MacrosOf(r.cc, target)]
        /\ r.listed => outdir.inline = [text |-> seen["headers"], macros |-> MacrosOf(r.cc, target)]
        /\ LateWrap(r) =>
             outdir.inline = [text |-> seen["headers"], macros |-> MacrosOf(r.inline, target)]
    BY <1>3, <1>4 DEF UpToDate
  <1>6. /\ outdir.bindings.headers = seen["headers"] /\ outdir.library.files = seen
        /\ outdir.bindings.macros = MacrosOf(r.bind, target)
        /\ outdir.library.macros = MacrosOf(r.cc, target)
        /\ r.listed => outdir.inline.text = seen["headers"] /\ outdir.inline.macros = MacrosOf(r.cc, target)
        /\ LateWrap(r) => outdir.inline.text = seen["headers"]
                          /\ outdir.inline.macros = MacrosOf(r.inline, target)
    BY <1>5
  <1>7. /\ WrapsFirst(r) => outdir.inline.text = previous
        /\ WrapsFirst(r) /\ outdir.inline.text # 0 =>
             outdir.inline.macros = MacrosOf(r.inline, target)
        /\ Has(r.steps, "tpool") => tpoolLib = [files |-> seen, macros |-> TpoolMacros]
    BY <1>3, <1>4 DEF Lagging
  <1>8. \A x : Takes(r, x) <=> Has(r.steps, x)
    BY <1>2 DEF Orderly, Has, Takes
  <1>9. LibraryCurrent
    <2>1. \A k \in FileClasses : k = "headers" \/ k = "watched" \/ k = "unwatched"
      BY DEF FileClasses
    <2>2. Takes(r, "tpool") => tpoolLib.files = seen
      BY <1>7, <1>8
    <2>3. \A k \in FileClasses : (k = "unwatched" => r.unwatched = {}) => seen[k] = vendor[k]
      BY <1>3, <2>1 DEF RecordedFiles
    <2> QED BY <1>6, <2>2, <2>3 DEF LibraryCurrent, r
  <1>10. InlineFunctionsFit
    <2>1. outdir.bindings.headers = outdir.library.files["headers"]
      BY <1>6
    <2>2. ASSUME r.wraps, r.listed \/ Takes(r, "wrap")
          PROVE  outdir.inline.text = IF WrapsFirst(r) THEN previous ELSE outdir.bindings.headers
      BY <1>6, <1>7, <1>8, <2>2 DEF LateWrap
    <2>3. WrapsFirst(r) /\ settled = 2 => previous = outdir.bindings.headers
      BY <1>3, <1>6, <1>7 DEF Settles, RecordedFiles
    <2> QED BY <2>1, <2>2, <2>3 DEF InlineFunctionsFit, r
  <1>11. MacrosFit
    <2> DEFINE bind == outdir.bindings.macros
               lib  == outdir.library.macros
    <2>1. crate \notin Divergent => bind = lib
      BY <1>2, <1>6
    <2>2. crate = "base64" => bind = {}
      <3>1. ASSUME crate = "base64" PROVE MacrosOf(r.bind, target) = {}
        <4>1. r.bind = Side("none", {})
          BY <3>1, DivergentRecipes DEF r
        <4>2. r.bind.isa = "none" /\ r.bind.features = {}
          BY <4>1 DEF Side
        <4> QED BY <4>2, BareMacros
      <3> QED BY <1>6, <3>1
    <2>3. crate \in {"tile", "wksp", "valloc"} => lib = bind \cup {"ATOMIC"}
      <3>1. ASSUME crate \in {"tile", "wksp", "valloc"}
            PROVE  MacrosOf(r.cc, target) = MacrosOf(r.bind, target) \cup {"ATOMIC"}
        <4>1. r.cc.isa = r.bind.isa /\ r.cc.features = r.bind.features \cup {"ATOMIC"}
          BY <3>1, DivergentRecipes DEF r
        <4>2. PICK a, b : a = r.cc /\ b = r.bind
          OBVIOUS
        <4>3. a.isa = b.isa /\ a.features = b.features \cup {"ATOMIC"}
          BY ONLY <4>1, <4>2
        <4>4. MacrosOf(a, target) = MacrosOf(b, target) \cup {"ATOMIC"}
          BY ONLY <4>3, MacrosWith
        <4> QED BY ONLY <4>2, <4>4
      <3> QED BY <1>6, <3>1
    <2>4. crate = "tpool" => bind = lib \cup {"TILE_MAX"}
      <3>1. ASSUME crate = "tpool"
            PROVE  MacrosOf(r.bind, target) = MacrosOf(r.cc, target) \cup {"TILE_MAX"}
        <4>1. r.bind.isa = r.cc.isa /\ r.bind.features = r.cc.features \cup {"TILE_MAX"}
          BY <3>1, DivergentRecipes DEF r
        <4>2. PICK a, b : a = r.bind /\ b = r.cc
          OBVIOUS
        <4>3. a.isa = b.isa /\ a.features = b.features \cup {"TILE_MAX"}
          BY ONLY <4>1, <4>2
        <4>4. MacrosOf(a, target) = MacrosOf(b, target) \cup {"TILE_MAX"}
          BY ONLY <4>3, MacrosWith
        <4> QED BY ONLY <4>2, <4>4
      <3> QED BY <1>6, <3>1
    <2>5. crate = "builders" => lib \subseteq bind /\ bind \subseteq lib \cup {"AVX512"}
      <3>1. ASSUME crate = "builders"
            PROVE  r.bind = Side("with_clang_opts", {}) /\ r.cc = Side("with_target_opts", {})
        BY <3>1, DivergentRecipes DEF r
      <3> QED BY <1>6, <3>1, BuilderMacros
    <2>6. ASSUME outdir.inline.text # 0, WrapsFirst(r)
          PROVE  outdir.inline.macros \cap InstructionSets = {}
      <3>1. BareInline(r) /\ outdir.inline.macros = MacrosOf(r.inline, target)
        BY <1>2, <1>7, <2>6 DEF Orderly
      <3>2. MacrosOf(r.inline, target) = r.inline.features
        BY <3>1, BareMacros DEF BareInline
      <3> QED BY <3>1, <3>2 DEF BareInline
    <2>7. ASSUME outdir.inline.text # 0, ~WrapsFirst(r) PROVE outdir.inline.macros = bind
      <3>1. r.listed \/ LateWrap(r)
        BY <1>3, <2>7 DEF Settles, LateWrap
      <3>2. CASE LateWrap(r)
        BY <1>2, <1>6, <3>2 DEF Orderly
      <3>3. CASE r.listed
        <4>1. ~WrapsFirst(r) /\ crate \notin {"base64", "valloc", "tpool", "builders"}
          BY <2>7, <3>3, DivergentRecipes DEF r
        <4>2. crate \notin {"tile", "wksp"}
          BY <4>1 DEF WrapsFirst, r, Recipe, TileSys, WkspSys, WrapFirst, Script
        <4>3. r.bind = r.cc
          BY <1>2, <4>1, <4>2 DEF Divergent
        <4> QED BY <1>6, <3>3, <4>3
      <3> QED BY <3>1, <3>2, <3>3
    <2>8. crate = "wksp" => tpoolLib.macros \cap bind = {}
      <3>1. ASSUME crate = "wksp" PROVE tpoolLib.macros \cap MacrosOf(r.bind, target) = {}
        <4>1. r.bind = Standard({}) /\ r.steps = WkspSteps
          BY <3>1, DivergentRecipes DEF r, Recipe, WkspSys, WrapFirst, Script
        <4>2. Has(r.steps, "tpool")
          BY <4>1 DEF WkspSteps, Has
        <4>3. tpoolLib.macros = TpoolMacros
          BY <1>7, <4>2
        <4> QED BY <4>1, <4>3, StandardMacros
      <3> QED BY <1>6, <3>1
    <2> QED BY <2>1, <2>2, <2>3, <2>4, <2>5, <2>6, <2>7, <2>8 DEF MacrosFit, r
  <1> QED BY <1>9, <1>10, <1>11 DEF BuildCoherent

\* What a step of a script that succeeds does to the script itself.
LEMMA Continues ==
  ASSUME BuildInv, crate # "", todo # <<>>, Continue,
         NEW CONSTANT r, r = Recipe[crate]
  PROVE  /\ UNCHANGED <<crate, target, vendor, seen>> /\ seen = vendor
         /\ \A y : Has(todo', y) <=> Has(todo, y) /\ y # Head(todo)
         /\ r.listed /\ Head(todo) = "cc" => ~Has(todo, "bind")
         /\ LateWrap(r) /\ Head(todo) = "wrap" => ~Has(todo, "bind")
         /\ Has(r.steps, Head(todo)) /\ Orderly(r)
         /\ RunsOrderly(r)' /\ RecordedFiles(r)'
         /\ report' \in {"none", "ok"} /\ settled' \in 0..2 /\ settled' \in {settled, settled + 1}
         /\ settled' # settled => todo' = <<>>
         /\ todo' = <<>> => settled' >= 1 /\ (settled' = 2 <=> settled >= 1)
         /\ UpToDate(r) /\ Settles(r)
  <1>1. RunsOrderly(r) /\ RecordedFiles(r) /\ UpToDate(r) /\ Settles(r)
    BY DEF BuildInv, ScriptInv
  <1>2. Orderly(r)
    BY RecipesOrderly, BuildAssumption DEF BuildInv, BuildShape
  <1>3. /\ todo' = Tail(todo) /\ report' = IF Tail(todo) = <<>> THEN "ok" ELSE report
        /\ settled' = IF Tail(todo) = <<>> /\ settled < 2 THEN settled + 1 ELSE settled
        /\ UNCHANGED <<crate, target, vendor, seen>>
    BY DEF Continue
  <1>4. seen = vendor /\ report = "none"
    BY <1>1 DEF RecordedFiles
  <1>5. todo \in Seq(StepNames) /\ Distinct(todo)
    BY <1>1 DEF RunsOrderly
  <1>6. /\ todo' \in Seq(StepNames) /\ Distinct(todo')
        /\ \A x : Has(todo', x) <=> Has(todo, x) /\ x # Head(todo)
        /\ \A a, b : Precedes(todo, a, b) => Precedes(todo', a, b)
        /\ \A a, b : Precedes(todo, a, b) /\ Head(todo) = b => ~Has(todo, a)
    BY <1>3, <1>5, TailOf
  <1>7. Has(todo, Head(todo))
    BY ONLY todo # <<>>, <1>5, HeadHas, Zenon
  <1>8. RunsOrderly(r)'
    BY <1>1, <1>6 DEF RunsOrderly
  <1>9. RecordedFiles(r)'
    BY <1>3, <1>4 DEF RecordedFiles
  <1>10. /\ r.listed /\ Head(todo) = "cc" => ~Has(todo, "bind")
         /\ LateWrap(r) /\ Head(todo) = "wrap" => ~Has(todo, "bind")
         /\ Has(r.steps, Head(todo))
    BY <1>1, <1>6, <1>7 DEF RunsOrderly
  <1>11. settled \in 0..2
    BY DEF BuildInv, BuildShape
  <1>12. /\ report' \in {"none", "ok"} /\ settled' \in 0..2 /\ settled' \in {settled, settled + 1}
         /\ settled' # settled => todo' = <<>>
         /\ todo' = <<>> => settled' >= 1 /\ (settled' = 2 <=> settled >= 1)
    <2> DEFINE last == todo' = <<>>
    <2>1. /\ report' = IF last THEN "ok" ELSE "none"
          /\ settled' = IF last /\ settled < 2 THEN settled + 1 ELSE settled
      BY <1>3, <1>4
    <2> HIDE DEF last
    <2>2. /\ report' \in {"none", "ok"}
          /\ settled' \in 0..2 /\ settled' \in {settled, settled + 1}
          /\ settled' # settled => last
          /\ last => settled' >= 1 /\ (settled' = 2 <=> settled >= 1)
      BY ONLY <1>11, <2>1
    <2> QED BY <2>2 DEF last
  <1> QED BY <1>1, <1>2, <1>3, <1>4, <1>6, <1>8, <1>9, <1>10, <1>12

\* ... and what is left to show of it.
LEMMA StepPreserves ==
  ASSUME BuildInv, crate # "", todo # <<>>, Continue,
         NEW CONSTANT r, r = Recipe[crate],
         IsOutDir(outdir'),
         UpToDate(r)',
         r.wraps /\ settled >= 1 => outdir'.wrapper = vendor["headers"],
         WrapsFirst(r) /\ settled >= 1 /\ (settled = 2 \/ ~Has(todo', "wrap"))
           => outdir'.inline.text = vendor["headers"],
         ~r.listed /\ ~Has(r.steps, "wrap") => outdir'.inline.text = 0
  PROVE  BuildInv'
  <1>1. /\ UNCHANGED <<crate, target, vendor, seen>> /\ seen = vendor
        /\ RunsOrderly(r)' /\ RecordedFiles(r)'
        /\ report' \in {"none", "ok"} /\ settled' \in 0..2 /\ settled' \in {settled, settled + 1}
        /\ settled' # settled => todo' = <<>>
        /\ todo' = <<>> => settled' >= 1 /\ (settled' = 2 <=> settled >= 1)
        /\ Settles(r)
    BY Continues
  <1>2. settled \in 0..2
    BY DEF BuildInv, BuildShape
  <1>3. BuildShape'
    BY <1>1 DEF BuildInv, BuildShape
  <1>4. todo' = <<>> => \A x : ~Has(todo', x)
    BY EmptyHas
  <1>5. ASSUME todo' = <<>>
        PROVE  /\ vendor'["headers"] # 0 /\ (r.wraps => outdir'.wrapper = vendor'["headers"])
    <2>1. report' = "ok"
      BY <1>5 DEF Continue
    <2> QED BY <1>1, <1>4, <1>5, <2>1 DEF UpToDate
  <1>6. settled' >= 1 => vendor'["headers"] # 0 /\ (r.wraps => outdir'.wrapper = vendor'["headers"])
    BY <1>1, <1>2, <1>5 DEF Settles
  <1>7. ASSUME WrapsFirst(r),
               settled' = 2 \/ (settled' = 1 /\ todo' # <<>> /\ ~Has(todo', "wrap"))
        PROVE  outdir'.inline.text = vendor'["headers"]
    <2> DEFINE last == todo' = <<>>
               left == Has(todo', "wrap")
    <2>2. /\ settled' \in {settled, settled + 1} /\ (settled' # settled => last)
          /\ (last => (settled' = 2 <=> settled >= 1)) /\ (last => ~left)
          /\ settled' = 2 \/ (settled' = 1 /\ ~last /\ ~left)
      BY <1>1, <1>4, <1>7
    <2> HIDE DEF last, left
    <2>3. settled >= 1 /\ (settled = 2 \/ ~left)
      BY ONLY <1>2, <2>2
    <2>1. settled >= 1 /\ (settled = 2 \/ ~Has(todo', "wrap"))
      BY <2>3 DEF left
    <2> QED BY <1>1, <1>7, <2>1
  <1>8. Settles(r)'
    BY <1>6, <1>7 DEF Settles
  <1>9. r = Recipe[crate']
    BY <1>1
  <1>10. RunsOrderly(Recipe[crate])' /\ RecordedFiles(Recipe[crate])' /\ UpToDate(Recipe[crate])'
         /\ Settles(Recipe[crate])'
    BY <1>1, <1>8, <1>9
  <1> QED BY <1>3, <1>10 DEF BuildInv, ScriptInv

\* What the steps that make something leave in OUT_DIR.
LEMMA BindMakes ==
  ASSUME BuildInv, GenerateBindings, NEW CONSTANT r, r = Recipe[crate]
  PROVE  /\ IsOutDir(outdir')
         /\ outdir'.bindings = [headers |-> vendor["headers"], macros |-> MacrosOf(r.bind, target)]
         /\ outdir'.wrapper = IF r.wraps THEN vendor["headers"] ELSE outdir.wrapper
         /\ outdir'.library = outdir.library /\ outdir'.inline = outdir.inline
  <1>1. IsOutDir(outdir)
    BY DEF BuildInv, BuildShape
  <1>2. outdir' = [Generated(outdir) EXCEPT !.bindings =
                      [headers |-> vendor["headers"], macros |-> MacrosOf(r.bind, target)]]
    BY DEF GenerateBindings
  <1>3. /\ IsOutDir(Generated(outdir))
        /\ Generated(outdir).wrapper = IF r.wraps THEN vendor["headers"] ELSE outdir.wrapper
        /\ Generated(outdir).library = outdir.library
        /\ Generated(outdir).inline = outdir.inline
    <2>1. CASE r.wraps
      <3>1. Generated(outdir) = [outdir EXCEPT !.wrapper = vendor["headers"]]
        BY <2>1 DEF Generated
      <3>2. Holds(Generated(outdir), vendor["headers"], outdir.bindings, outdir.library, outdir.inline)
        BY ONLY <1>1, <3>1, OutDirWith, Zenon
      <3> QED BY ONLY <2>1, <3>2 DEF Holds
    <2>2. CASE ~r.wraps
      <3>1. Generated(outdir) = outdir
        BY <2>2 DEF Generated
      <3> QED BY ONLY <1>1, <2>2, <3>1
    <2> QED BY ONLY <2>1, <2>2
  <1> DEFINE g == Generated(outdir)
             made == [headers |-> vendor["headers"], macros |-> MacrosOf(r.bind, target)]
  <1> HIDE DEF g, made
  <1>4. outdir' = [g EXCEPT !.bindings = made] /\ IsOutDir(g)
    BY <1>2, <1>3 DEF g, made
  <1>5. Holds(outdir', g.wrapper, made, g.library, g.inline)
    BY ONLY <1>4, OutDirWith, Zenon
  <1> QED BY <1>3, <1>5 DEF Holds, g, made

LEMMA BindStep ==
  ASSUME BuildInv, crate # "", GenerateBindings
  PROVE  BuildInv'
  <1>1. PICK r : r = Recipe[crate]
    OBVIOUS
  <1>2. AtStep("bind") /\ CheckedOut /\ Continue /\ todo # <<>> /\ Head(todo) = "bind"
    BY DEF GenerateBindings, AtStep
  <1>3. /\ UNCHANGED <<crate, target, vendor, seen>> /\ seen = vendor
        /\ \A y : Has(todo', y) <=> Has(todo, y) /\ y # "bind"
        /\ Orderly(r) /\ UpToDate(r) /\ Settles(r)
    BY <1>1, <1>2, Continues
  <1>4. /\ IsOutDir(outdir')
        /\ outdir'.bindings = [headers |-> vendor["headers"], macros |-> MacrosOf(r.bind, target)]
        /\ outdir'.wrapper = IF r.wraps THEN vendor["headers"] ELSE outdir.wrapper
        /\ outdir'.library = outdir.library /\ outdir'.inline = outdir.inline
    BY <1>1, BindMakes
  <1>5. vendor["headers"] # 0
    BY <1>2 DEF CheckedOut, BuildInv, BuildShape
  <1>6. UpToDate(r)'
    <2>1. outdir'.bindings = [headers |-> seen'["headers"], macros |-> MacrosOf(r.bind, target')]
          /\ (r.wraps => outdir'.wrapper = seen'["headers"]) /\ seen'["headers"] # 0
      BY <1>3, <1>4, <1>5
    <2>2. ~Has(todo', "cc") =>
            /\ outdir'.library = [files |-> seen', macros |-> MacrosOf(r.cc, target')]
            /\ r.listed => outdir'.inline = [text |-> seen'["headers"], macros |-> MacrosOf(r.cc, target')]
      BY <1>2, <1>3, <1>4 DEF UpToDate
    <2>3. ~Has(todo', "wrap") /\ LateWrap(r) =>
            outdir'.inline = [text |-> seen'["headers"], macros |-> MacrosOf(r.inline, target')]
      BY <1>2, <1>3, <1>4 DEF UpToDate
    <2> QED BY <2>1, <2>2, <2>3 DEF UpToDate
  <1>7. /\ r.wraps /\ settled >= 1 => outdir'.wrapper = vendor["headers"]
        /\ WrapsFirst(r) /\ settled >= 1 /\ (settled = 2 \/ ~Has(todo', "wrap"))
             => outdir'.inline.text = vendor["headers"]
        /\ ~r.listed /\ ~Has(r.steps, "wrap") => outdir'.inline.text = 0
    <2>1. settled \in 0..2
      BY DEF BuildInv, BuildShape
    <2>3. r.wraps /\ settled >= 1 => outdir'.wrapper = vendor["headers"]
      BY <1>4
    <2>4. ASSUME WrapsFirst(r), settled >= 1, settled = 2 \/ ~Has(todo', "wrap")
          PROVE  outdir'.inline.text = vendor["headers"]
      <3>1. settled = 2 \/ (settled = 1 /\ todo # <<>> /\ ~Has(todo, "wrap"))
        <4>1. todo # <<>> /\ (settled = 2 \/ ~Has(todo, "wrap"))
          BY <1>2, <1>3, <2>4
        <4> QED BY ONLY <2>1, <2>4, <4>1
      <3>2. outdir.inline.text = vendor["headers"]
        BY <1>3, <2>4, <3>1 DEF Settles
      <3> QED BY <1>4, <2>4, <3>2
    <2>5. ~r.listed /\ ~Has(r.steps, "wrap") => outdir'.inline.text = 0
      BY <1>3, <1>4 DEF Settles
    <2> QED BY <2>3, <2>4, <2>5
  <1> QED BY <1>1, <1>2, <1>4, <1>6, <1>7, StepPreserves

LEMMA CompileMakes ==
  ASSUME BuildInv, Compile, NEW CONSTANT r, r = Recipe[crate]
  PROVE  /\ IsOutDir(outdir')
         /\ outdir'.library = [files |-> vendor, macros |-> MacrosOf(r.cc, target)]
         /\ outdir'.wrapper = outdir.wrapper /\ outdir'.bindings = outdir.bindings
         /\ outdir'.inline = IF r.listed
                             THEN [text |-> outdir.wrapper, macros |-> MacrosOf(r.cc, target)]
                             ELSE outdir.inline
  <1>1. IsOutDir(outdir)
    BY DEF BuildInv, BuildShape
  <1>2. outdir' = [outdir EXCEPT
          !.library = [files |-> vendor, macros |-> MacrosOf(r.cc, target)],
          !.inline = IF r.listed
                     THEN [text |-> outdir.wrapper, macros |-> MacrosOf(r.cc, target)]
                     ELSE outdir.inline]
    BY DEF Compile
  <1> DEFINE made == [files |-> vendor, macros |-> MacrosOf(r.cc, target)]
             text == IF r.listed
                     THEN [text |-> outdir.wrapper, macros |-> MacrosOf(r.cc, target)]
                     ELSE outdir.inline
  <1> HIDE DEF made, text
  <1>3. outdir' = [outdir EXCEPT !.library = made, !.inline = text]
    BY <1>2 DEF made, text
  <1>4. Holds(outdir', outdir.wrapper, outdir.bindings, made, text)
    BY ONLY <1>1, <1>3, OutDirWith, Zenon
  <1> QED BY <1>4 DEF Holds, made, text

LEMMA CompileStep ==
  ASSUME BuildInv, crate # "", Compile
  PROVE  BuildInv'
  <1>1. PICK r : r = Recipe[crate]
    OBVIOUS
  <1>2. Continue /\ todo # <<>> /\ Head(todo) = "cc"
    BY DEF Compile, AtStep
  <1>3. /\ UNCHANGED <<crate, target, vendor, seen>> /\ seen = vendor
        /\ \A y : Has(todo', y) <=> Has(todo, y) /\ y # "cc"
        /\ r.listed => ~Has(todo, "bind")
        /\ Orderly(r) /\ UpToDate(r) /\ Settles(r)
    BY <1>1, <1>2, Continues
  <1>4. /\ IsOutDir(outdir')
        /\ outdir'.library = [files |-> vendor, macros |-> MacrosOf(r.cc, target)]
        /\ outdir'.wrapper = outdir.wrapper /\ outdir'.bindings = outdir.bindings
        /\ outdir'.inline = IF r.listed
                            THEN [text |-> outdir.wrapper, macros |-> MacrosOf(r.cc, target)]
                            ELSE outdir.inline
    BY <1>1, CompileMakes
  <1>5. r.listed => r.wraps /\ outdir.wrapper = seen["headers"] /\ ~Has(r.steps, "wrap")
    BY <1>2, <1>3 DEF Orderly, UpToDate
  <1>6. UpToDate(r)'
    <2>1. ~Has(todo', "bind") =>
            /\ outdir'.bindings = [headers |-> seen'["headers"], macros |-> MacrosOf(r.bind, target')]
            /\ (r.wraps => outdir'.wrapper = seen'["headers"]) /\ seen'["headers"] # 0
      BY <1>2, <1>3, <1>4 DEF UpToDate
    <2>2. /\ outdir'.library = [files |-> seen', macros |-> MacrosOf(r.cc, target')]
          /\ r.listed => outdir'.inline = [text |-> seen'["headers"], macros |-> MacrosOf(r.cc, target')]
      BY <1>3, <1>4, <1>5
    <2>3. ~Has(todo', "wrap") /\ LateWrap(r) =>
            outdir'.inline = [text |-> seen'["headers"], macros |-> MacrosOf(r.inline, target')]
      BY <1>2, <1>3, <1>4, <1>5 DEF UpToDate, LateWrap
    <2> QED BY <2>1, <2>2, <2>3 DEF UpToDate
  <1>7. /\ r.wraps /\ settled >= 1 => outdir'.wrapper = vendor["headers"]
        /\ WrapsFirst(r) /\ settled >= 1 /\ (settled = 2 \/ ~Has(todo', "wrap"))
             => outdir'.inline.text = vendor["headers"]
        /\ ~r.listed /\ ~Has(r.steps, "wrap") => outdir'.inline.text = 0
    <2>1. settled \in 0..2
      BY DEF BuildInv, BuildShape
    <2>2. WrapsFirst(r) => ~r.listed
      BY <1>3 DEF Orderly
    <2>3. r.wraps /\ settled >= 1 => outdir'.wrapper = vendor["headers"]
      BY <1>3, <1>4 DEF Settles
    <2>4. ASSUME WrapsFirst(r), settled >= 1, settled = 2 \/ ~Has(todo', "wrap")
          PROVE  outdir'.inline.text = vendor["headers"]
      <3>1. settled = 2 \/ (settled = 1 /\ todo # <<>> /\ ~Has(todo, "wrap"))
        <4>1. todo # <<>> /\ (settled = 2 \/ ~Has(todo, "wrap"))
          BY <1>2, <1>3, <2>4
        <4> QED BY ONLY <2>1, <2>4, <4>1
      <3>2. outdir.inline.text = vendor["headers"]
        BY <1>3, <2>4, <3>1 DEF Settles
      <3> QED BY <1>4, <2>2, <2>4, <3>2
    <2>5. ~r.listed /\ ~Has(r.steps, "wrap") => outdir'.inline.text = 0
      BY <1>3, <1>4 DEF Settles
    <2> QED BY <2>3, <2>4, <2>5
  <1> QED BY <1>1, <1>2, <1>4, <1>6, <1>7, StepPreserves

LEMMA WrapMakes ==
  ASSUME BuildInv, CompileWrapper, NEW CONSTANT r, r = Recipe[crate]
  PROVE  /\ IsOutDir(outdir')
         /\ outdir'.wrapper = outdir.wrapper /\ outdir'.bindings = outdir.bindings
         /\ outdir'.library = outdir.library
         /\ outdir.wrapper = 0 => outdir' = outdir
         /\ outdir.wrapper # 0 =>
              outdir'.inline = [text |-> outdir.wrapper, macros |-> MacrosOf(r.inline, target)]
  <1>1. IsOutDir(outdir)
    BY DEF BuildInv, BuildShape
  <1>2. CASE outdir.wrapper = 0
    <2>1. outdir' = outdir
      BY <1>2 DEF CompileWrapper
    <2> QED BY <1>1, <1>2, <2>1
  <1>3. CASE outdir.wrapper # 0
    <2>1. outdir' = [outdir EXCEPT !.inline =
                        [text |-> outdir.wrapper, macros |-> MacrosOf(r.inline, target)]]
      BY <1>3 DEF CompileWrapper
    <2> DEFINE text == [text |-> outdir.wrapper, macros |-> MacrosOf(r.inline, target)]
    <2> HIDE DEF text
    <2>2. outdir' = [outdir EXCEPT !.inline = text]
      BY <2>1 DEF text
    <2>3. Holds(outdir', outdir.wrapper, outdir.bindings, outdir.library, text)
      BY ONLY <1>1, <2>2, OutDirWith, Zenon
    <2> QED BY <1>3, <2>3 DEF Holds, text
  <1> QED BY <1>2, <1>3

LEMMA WrapStep ==
  ASSUME BuildInv, crate # "", CompileWrapper
  PROVE  BuildInv'
  <1>1. PICK r : r = Recipe[crate]
    OBVIOUS
  <1>2. Continue /\ todo # <<>> /\ Head(todo) = "wrap"
    BY DEF CompileWrapper, AtStep
  <1>3. /\ UNCHANGED <<crate, target, vendor, seen>> /\ seen = vendor
        /\ \A y : Has(todo', y) <=> Has(todo, y) /\ y # "wrap"
        /\ LateWrap(r) => ~Has(todo, "bind")
        /\ Has(r.steps, "wrap")
        /\ Orderly(r) /\ UpToDate(r) /\ Settles(r)
    BY <1>1, <1>2, Continues
  <1>4. /\ IsOutDir(outdir')
        /\ outdir'.wrapper = outdir.wrapper /\ outdir'.bindings = outdir.bindings
        /\ outdir'.library = outdir.library
        /\ outdir.wrapper # 0 =>
             outdir'.inline = [text |-> outdir.wrapper, macros |-> MacrosOf(r.inline, target)]
    BY <1>1, WrapMakes
  <1>5. ~r.listed /\ r.wraps
    BY <1>3 DEF Orderly
  <1>6. UpToDate(r)'
    <2>1. ~Has(todo', "bind") =>
            /\ outdir'.bindings = [headers |-> seen'["headers"], macros |-> MacrosOf(r.bind, target')]
            /\ (r.wraps => outdir'.wrapper = seen'["headers"]) /\ seen'["headers"] # 0
      BY <1>2, <1>3, <1>4 DEF UpToDate
    <2>2. ~Has(todo', "cc") =>
            /\ outdir'.library = [files |-> seen', macros |-> MacrosOf(r.cc, target')]
            /\ r.listed => outdir'.inline = [text |-> seen'["headers"], macros |-> MacrosOf(r.cc, target')]
      BY <1>2, <1>3, <1>4, <1>5 DEF UpToDate
    <2>3. LateWrap(r) =>
            outdir'.inline = [text |-> seen'["headers"], macros |-> MacrosOf(r.inline, target')]
      <3>1. LateWrap(r) => outdir.wrapper = seen["headers"] /\ seen["headers"] # 0
        BY <1>2, <1>3, <1>5 DEF UpToDate
      <3> QED BY <1>3, <1>4, <3>1
    <2> QED BY <2>1, <2>2, <2>3 DEF UpToDate
  <1>7. settled >= 1 => outdir'.wrapper = vendor["headers"]
                        /\ outdir'.inline.text = vendor["headers"]
    <2> SUFFICES ASSUME settled >= 1
                 PROVE  outdir'.wrapper = vendor["headers"] /\ outdir'.inline.text = vendor["headers"]
      OBVIOUS
    <2>1. outdir.wrapper = vendor["headers"] /\ vendor["headers"] # 0
      BY <1>3, <1>5 DEF Settles
    <2>2. outdir'.inline = [text |-> outdir.wrapper, macros |-> MacrosOf(r.inline, target)]
      BY <1>4, <2>1
    <2>3. outdir'.inline.text = outdir.wrapper
      BY ONLY <2>2
    <2> QED BY ONLY <1>4, <2>1, <2>3
  <1> QED BY <1>1, <1>2, <1>3, <1>4, <1>6, <1>7, StepPreserves

LEMMA LookStep ==
  ASSUME BuildInv, crate # "", FindVendor \/ GenerateHeader \/ CompileTpool
  PROVE  BuildInv'
  <1>1. PICK r : r = Recipe[crate]
    OBVIOUS
  <1>2. Continue /\ todo # <<>> /\ Head(todo) \in {"find", "header", "tpool"}
        /\ outdir' = outdir
    BY DEF FindVendor, GenerateHeader, CompileTpool, AtStep
  <1>3. /\ UNCHANGED <<crate, target, vendor, seen>> /\ seen = vendor
        /\ \A y : Has(todo', y) <=> Has(todo, y) /\ y # Head(todo)
        /\ UpToDate(r) /\ Settles(r)
    BY <1>1, <1>2, Continues
  <1>4. \A y \in {"bind", "cc", "wrap"} : Has(todo', y) <=> Has(todo, y)
    BY <1>2, <1>3
  <1>5. UpToDate(r)'
    BY <1>2, <1>3, <1>4 DEF UpToDate
  <1>6. IsOutDir(outdir')
    BY <1>2 DEF BuildInv, BuildShape
  <1>7. /\ r.wraps /\ settled >= 1 => outdir'.wrapper = vendor["headers"]
        /\ ~r.listed /\ ~Has(r.steps, "wrap") => outdir'.inline.text = 0
    BY <1>2, <1>3 DEF Settles
  <1>8. ASSUME WrapsFirst(r), settled >= 1, settled = 2 \/ ~Has(todo', "wrap")
        PROVE  outdir'.inline.text = vendor["headers"]
    <2>1. settled \in 0..2
      BY DEF BuildInv, BuildShape
    <2>2. todo # <<>> /\ (settled = 2 \/ ~Has(todo, "wrap"))
      BY <1>2, <1>4, <1>8
    <2>3. settled = 2 \/ (settled = 1 /\ todo # <<>> /\ ~Has(todo, "wrap"))
      BY ONLY <1>8, <2>1, <2>2
    <2> QED BY <1>2, <1>3, <1>8, <2>3 DEF Settles
  <1> QED BY <1>1, <1>2, <1>5, <1>6, <1>7, <1>8, StepPreserves

\* The script ends with a failure; bindgen may have left the wrapper it generated.
LEMMA FailStep ==
  ASSUME BuildInv, crate # "", Fail \/ WriteBindingsFails
  PROVE  BuildInv'
  <1>1. PICK r : r = Recipe[crate]
    OBVIOUS
  <1>2. /\ todo' = <<>> /\ seen' = NeverRan /\ report' = "failed"
        /\ UNCHANGED <<crate, target, vendor, settled>>
    BY DEF Fail, WriteBindingsFails
  <1>3. /\ IsOutDir(outdir') /\ outdir'.inline = outdir.inline
        /\ outdir'.wrapper = outdir.wrapper \/ outdir'.wrapper = vendor["headers"]
    <2>1. IsOutDir(outdir)
      BY DEF BuildInv, BuildShape
    <2>2. CASE outdir' = outdir
      BY <2>1, <2>2
    <2>3. CASE outdir' = [outdir EXCEPT !.wrapper = vendor["headers"]]
      <3>1. Holds(outdir', vendor["headers"], outdir.bindings, outdir.library, outdir.inline)
        BY ONLY <2>1, <2>3, OutDirWith, Zenon
      <3> QED BY ONLY <3>1 DEF Holds
    <2> QED BY <2>2, <2>3 DEF Fail, WriteBindingsFails, Generated
  <1>4. BuildShape'
    BY <1>2, <1>3 DEF BuildInv, BuildShape, NeverRan, NotCheckedOut
  <1>5. RunsOrderly(r)'
    BY <1>2, EmptyHas, NothingLeft DEF RunsOrderly
  <1>6. RecordedFiles(r)' /\ UpToDate(r)'
    BY <1>2 DEF RecordedFiles, UpToDate
  <1>7. Settles(r)'
    BY <1>1, <1>2, <1>3 DEF Settles, BuildInv, ScriptInv
  <1>8. r = Recipe[crate']
    BY <1>1, <1>2
  <1>9. RunsOrderly(Recipe[crate])' /\ RecordedFiles(Recipe[crate])' /\ UpToDate(Recipe[crate])'
        /\ Settles(Recipe[crate])'
    BY <1>5, <1>6, <1>7, <1>8
  <1> QED BY <1>4, <1>9 DEF BuildInv, ScriptInv

\* Between two runs: somebody edits, cleans, or asks Cargo for a build.
LEMMA IdleStep ==
  ASSUME BuildInv, crate # "",
         Clean \/ CargoRuns \/ CargoSkips \/ \E k \in FileClasses : Edit(k)
  PROVE  BuildInv'
  <1>1. PICK r : r = Recipe[crate]
    OBVIOUS
  <1>2. todo = <<>> /\ UNCHANGED <<crate, target>> /\ r = Recipe[crate']
    BY <1>1 DEF Clean, CargoRuns, CargoSkips, Edit, BuildIdle
  <1>3. RunsOrderly(r) /\ RecordedFiles(r) /\ UpToDate(r) /\ Settles(r) /\ Orderly(r)
    BY <1>1, RecipesOrderly, BuildAssumption DEF BuildInv, ScriptInv, BuildShape
  <1>4. /\ vendor \in [FileClasses -> Nat] /\ seen \in [FileClasses -> Nat] /\ settled \in 0..2
        /\ IsOutDir(outdir) /\ (vendor # NotCheckedOut => vendor["headers"] # 0)
    BY DEF BuildInv, BuildShape
  <1>5. SUFFICES BuildShape' /\ RunsOrderly(r)' /\ RecordedFiles(r)' /\ UpToDate(r)' /\ Settles(r)'
    <2>1. RunsOrderly(Recipe[crate])' /\ RecordedFiles(Recipe[crate])' /\ UpToDate(Recipe[crate])'
          /\ Settles(Recipe[crate])'
      BY <1>2, <1>5
    <2> QED BY <1>5, <2>1 DEF BuildInv, ScriptInv
  <1>6. \A x : ~Has(todo, x)
    BY <1>2, EmptyHas
  <1>7. CASE Clean
    <2>1. /\ outdir' = EmptyOutDir /\ seen' = NeverRan /\ report' = "none" /\ settled' = 0
          /\ UNCHANGED <<crate, target, vendor, todo>>
      BY <1>7 DEF Clean
    <2>2. IsOutDir(outdir') /\ outdir'.inline.text = 0
      BY <2>1, EmptyIs
    <2>7. settled' \in 0..2 /\ ~(settled' >= 1) /\ settled' # 1 /\ settled' # 2
      BY ONLY <2>1, NotSettled, Zenon
    <2>3. BuildShape'
      BY <1>4, <2>1, <2>2, <2>7, NoVersions DEF BuildInv, BuildShape
    <2>4. RunsOrderly(r)'
      BY <1>3, <2>1 DEF RunsOrderly
    <2>5. RecordedFiles(r)' /\ UpToDate(r)'
      BY <1>2, <2>1 DEF RecordedFiles, UpToDate
    <2>6. Settles(r)'
      BY ONLY <2>2, <2>7 DEF Settles
    <2> QED BY <2>3, <2>4, <2>5, <2>6
  <1>8. CASE CargoRuns
    <2>1. /\ todo' = r.steps /\ seen' = vendor /\ report' = "none"
          /\ UNCHANGED <<crate, target, vendor, outdir, settled>>
      BY <1>1, <1>8 DEF CargoRuns
    <2>2. BuildShape'
      BY <1>4, <2>1 DEF BuildInv, BuildShape
    <2>3. RunsOrderly(r)'
      BY <1>3, <2>1 DEF RunsOrderly, Orderly
    <2>4. RecordedFiles(r)'
      BY <2>1 DEF RecordedFiles
    <2>5. UpToDate(r)'
      BY <1>3, <2>1 DEF UpToDate, Orderly, LateWrap
    <2>6. Settles(r)'
      BY <1>3, <2>1 DEF Settles, Orderly
    <2> QED BY <2>2, <2>3, <2>4, <2>5, <2>6
  <1>9. CASE CargoSkips
    <2>1. /\ report' = "ok" /\ ~MustRun
          /\ UNCHANGED <<crate, target, vendor, todo, outdir, seen, settled>>
      BY <1>9 DEF CargoSkips
    <2>2. /\ seen["headers"] = vendor["headers"] /\ seen["watched"] = vendor["watched"]
          /\ seen["headers"] # 0
      BY <2>1 DEF MustRun, FileClasses
    <2>3. seen # NeverRan
      BY <2>2 DEF NeverRan, NotCheckedOut, FileClasses
    <2>4. BuildShape'
      BY <2>1 DEF BuildInv, BuildShape
    <2>5. RunsOrderly(r)' /\ Settles(r)'
      BY <1>3, <2>1 DEF RunsOrderly, Settles
    <2>6. RecordedFiles(r)'
      BY <1>2, <1>3, <2>1, <2>2, <2>3 DEF RecordedFiles
    <2>7. UpToDate(r)'
      BY <1>3, <2>1, <2>3 DEF UpToDate
    <2> QED BY <2>4, <2>5, <2>6, <2>7
  <1>10. ASSUME NEW k \in FileClasses, Edit(k)
         PROVE  BuildShape' /\ RunsOrderly(r)' /\ RecordedFiles(r)' /\ UpToDate(r)' /\ Settles(r)'
    <2>1. /\ vendor[k] \in 1..EditMax /\ (k = "unwatched" => r.unwatched # {})
          /\ vendor' = [vendor EXCEPT ![k] = @ + 1] /\ report' = "none"
          /\ settled' = IF k = "headers" THEN 0 ELSE settled
          /\ UNCHANGED <<crate, target, todo, outdir, seen>>
      BY <1>1, <1>10 DEF Edit
    <2>2. vendor' \in [FileClasses -> Nat] /\ vendor[k] # 0
      <3>1. vendor[k] \in Nat /\ vendor[k] # 0 /\ vendor[k] + 1 \in Nat
        <4>1. vendor[k] \in Nat /\ EditMax \in Nat
          BY <1>4, BuildAssumption
        <4>2. vendor[k] \in 1..EditMax
          BY <2>1
        <4> QED BY ONLY <4>1, <4>2
      <3> QED BY <1>4, <2>1, <3>1
    <2>3. vendor # NotCheckedOut
      BY <2>2 DEF NotCheckedOut
    <2>4. "headers" \in FileClasses /\ "unwatched" \in FileClasses
      BY DEF FileClasses
    <2>5. vendor'["headers"] # 0 /\ (k # "headers" => vendor'["headers"] = vendor["headers"])
          /\ (k # "unwatched" => vendor'["unwatched"] = vendor["unwatched"])
      <3>3. vendor'[k] = vendor[k] + 1 /\ vendor[k] \in Nat
        BY <1>4, <2>1
      <3>1. vendor'[k] = vendor[k] + 1 /\ vendor[k] + 1 # 0
        BY ONLY <3>3
      <3>2. \A j \in FileClasses : j # k => vendor'[j] = vendor[j]
        BY <1>4, <2>1
      <3> QED BY <1>4, <2>3, <2>4, <3>1, <3>2
    <2>11. settled' \in 0..2 /\ (k = "headers" => ~(settled' >= 1) /\ settled' # 1 /\ settled' # 2)
      <3>1. CASE k = "headers"
        <4>1. settled' = 0
          BY <2>1, <3>1
        <4> QED BY ONLY <4>1, NotSettled, Zenon
      <3>2. CASE k # "headers"
        BY <1>4, <2>1, <3>2
      <3> QED BY <3>1, <3>2
    <2>6. BuildShape'
      BY <1>4, <2>1, <2>2, <2>5, <2>11 DEF BuildInv, BuildShape
    <2>7. RunsOrderly(r)'
      BY <1>3, <2>1 DEF RunsOrderly
    <2>8. RecordedFiles(r)'
      BY <1>2, <1>3, <2>1, <2>5 DEF RecordedFiles
    <2>9. UpToDate(r)'
      BY <1>2, <1>3, <2>1 DEF UpToDate
    <2>10. Settles(r)'
      <3>1. CASE k = "headers"
        BY <1>3, <2>1, <2>11, <3>1 DEF Settles
      <3>2. CASE k # "headers"
        BY <1>3, <2>1, <2>5, <3>2 DEF Settles
      <3> QED BY <3>1, <3>2
    <2> QED BY <2>6, <2>7, <2>8, <2>9, <2>10
  <1> QED BY <1>7, <1>8, <1>9, <1>10

LEMMA ConfigureStep ==
  ASSUME BuildInv, NEW c \in SysCrates, NEW t \in Targets, NEW b \in BOOLEAN, Configure(c, t, b)
  PROVE  BuildInv'
  <1>1. /\ crate = "" /\ crate' = c /\ target' = t
        /\ vendor' = IF b THEN [k \in FileClasses |-> 1] ELSE NotCheckedOut
        /\ UNCHANGED <<todo, outdir, seen, report, settled>>
    BY DEF Configure
  <1>2. todo = <<>> /\ outdir = EmptyOutDir /\ seen = NeverRan /\ report = "none" /\ settled = 0
    BY <1>1 DEF BuildInv, BuildShape
  <1>3. vendor' \in [FileClasses -> Nat] /\ (vendor' # NotCheckedOut => vendor'["headers"] # 0)
    BY <1>1 DEF NotCheckedOut, FileClasses
  <1>4. BuildShape'
    BY <1>1, <1>2, <1>3 DEF BuildInv, BuildShape
  <1>5. RunsOrderly(Recipe[c])'
    BY <1>1, <1>2, EmptyHas, NothingLeft DEF RunsOrderly
  <1>6. RecordedFiles(Recipe[c])' /\ UpToDate(Recipe[c])'
    BY <1>1, <1>2 DEF RecordedFiles, UpToDate
  <1>7. Settles(Recipe[c])'
    <2>1. settled' = 0 /\ outdir'.inline.text = 0
      BY <1>1, <1>2, EmptyIs
    <2>2. ~(settled' >= 1) /\ settled' # 1 /\ settled' # 2
      BY ONLY <2>1, NotSettled, Zenon
    <2> QED BY ONLY <2>1, <2>2 DEF Settles
  <1>8. RunsOrderly(Recipe[crate])' /\ RecordedFiles(Recipe[crate])' /\ UpToDate(Recipe[crate])'
        /\ Settles(Recipe[crate])'
    BY <1>1, <1>5, <1>6, <1>7
  <1> QED BY <1>4, <1>8 DEF BuildInv, ScriptInv

LEMMA BuildStep == BuildInv /\ BdNext => BuildInv'
  <1> SUFFICES ASSUME BuildInv, BdNext PROVE BuildInv'
    OBVIOUS
  <1>1. crate = "" => todo = <<>>
    BY DEF BuildInv, BuildShape
  <1>2. CASE \E c \in SysCrates, t \in Targets, b \in BOOLEAN : Configure(c, t, b)
    BY <1>2, ConfigureStep
  <1>3. CASE Clean \/ CargoRuns \/ CargoSkips \/ \E k \in FileClasses : Edit(k)
    <2>1. crate # ""
      BY <1>3 DEF Clean, CargoRuns, CargoSkips, Edit, BuildIdle
    <2> QED BY <1>3, <2>1, IdleStep
  <1>4. CASE \/ Fail \/ FindVendor \/ GenerateHeader \/ GenerateBindings \/ WriteBindingsFails
             \/ Compile \/ CompileTpool \/ CompileWrapper
    <2>1. crate # ""
      BY <1>1, <1>4 DEF Fail, FindVendor, GenerateHeader, GenerateBindings, WriteBindingsFails,
                        Compile, CompileTpool, CompileWrapper, AtStep
    <2> QED BY <1>4, <2>1, FailStep, LookStep, BindStep, CompileStep, WrapStep
  <1> QED BY <1>2, <1>3, <1>4 DEF BdNext

\* What is left to show of Lagging after a step of a script that succeeds.
LEMMA LagContinues ==
  ASSUME BuildInv, LagInv, crate # "", todo # <<>>, Continue,
         NEW CONSTANT r, r = Recipe[crate],
         WrapsFirst(r) =>
           /\ outdir'.wrapper = 0 => outdir'.inline.text = 0
           /\ outdir'.inline.text # 0 => outdir'.inline.macros = MacrosOf(r.inline, target)
           /\ IF Has(todo', "wrap") THEN outdir'.wrapper = previous
              ELSE outdir'.inline.text = previous,
         Has(r.steps, "tpool") /\ ~Has(todo', "tpool") =>
           tpoolLib' = [files |-> vendor, macros |-> TpoolMacros]
  PROVE  LagInv'
  <1>1. /\ UNCHANGED <<crate, target, vendor, seen, previous>> /\ seen = vendor /\ todo' = Tail(todo)
    BY Continues DEF Continue
  <1>2. todo \in Seq(StepNames) /\ Distinct(todo)
    BY DEF BuildInv, ScriptInv, RunsOrderly
  <1>3. WrapsFirst(r) => Precedes(todo', "wrap", "bind")
    BY <1>1, <1>2, TailOf DEF LagInv, Lagging
  <1>4. Lagging(r)'
    BY <1>1, <1>3 DEF Lagging
  <1>5. Lagging(Recipe[crate])'
    BY <1>1, <1>4
  <1> QED BY <1>5 DEF LagInv

LEMMA LagAtStep ==
  ASSUME BuildInv, LagInv, crate # "", todo # <<>>, Continue
  PROVE  LET r == Recipe[crate] IN
         /\ \A y : Has(todo', y) <=> Has(todo, y) /\ y # Head(todo)
         /\ Orderly(r) /\ Has(r.steps, Head(todo)) /\ seen = vendor
         /\ WrapsFirst(r) =>
              /\ outdir.wrapper = 0 => outdir.inline.text = 0
              /\ outdir.inline.text # 0 => outdir.inline.macros = MacrosOf(r.inline, target)
              /\ IF Has(todo, "wrap") THEN outdir.wrapper = previous
                 ELSE outdir.inline.text = previous
              /\ Head(todo) = "bind" => ~Has(todo, "wrap")
         /\ Has(r.steps, "tpool") /\ ~Has(todo, "tpool") =>
              tpoolLib = [files |-> vendor, macros |-> TpoolMacros]
  <1>1. PICK r : r = Recipe[crate]
    OBVIOUS
  <1>2. /\ \A y : Has(todo', y) <=> Has(todo, y) /\ y # Head(todo)
        /\ Orderly(r) /\ Has(r.steps, Head(todo)) /\ seen = vendor
    BY <1>1, Continues
  <1>3. Lagging(r) /\ todo \in Seq(StepNames) /\ Distinct(todo)
    BY <1>1 DEF LagInv, BuildInv, ScriptInv, RunsOrderly
  <1>4. WrapsFirst(r) /\ Head(todo) = "bind" => ~Has(todo, "wrap")
    BY <1>3, TailOf DEF Lagging
  <1>5. /\ WrapsFirst(r) =>
              /\ outdir.wrapper = 0 => outdir.inline.text = 0
              /\ outdir.inline.text # 0 => outdir.inline.macros = MacrosOf(r.inline, target)
              /\ IF Has(todo, "wrap") THEN outdir.wrapper = previous
                 ELSE outdir.inline.text = previous
        /\ Has(r.steps, "tpool") /\ ~Has(todo, "tpool") =>
              tpoolLib = [files |-> vendor, macros |-> TpoolMacros]
    BY <1>2, <1>3 DEF Lagging
  <1> QED BY <1>1, <1>2, <1>4, <1>5

\* The steps of a script.
LEMMA LagScriptStep ==
  ASSUME BuildInv, LagInv, crate # "",
         \/ FindVendor \/ GenerateHeader \/ CompileTpool
         \/ GenerateBindings \/ Compile \/ CompileWrapper
  PROVE  LagInv'
  <1>1. PICK r : r = Recipe[crate]
    OBVIOUS
  <1>2. Continue /\ todo # <<>>
    BY DEF FindVendor, GenerateHeader, CompileTpool, GenerateBindings, Compile, CompileWrapper, AtStep
  <1>3. /\ \A y : Has(todo', y) <=> Has(todo, y) /\ y # Head(todo)
        /\ Orderly(r) /\ seen = vendor
        /\ WrapsFirst(r) =>
              /\ outdir.wrapper = 0 => outdir.inline.text = 0
              /\ outdir.inline.text # 0 => outdir.inline.macros = MacrosOf(r.inline, target)
              /\ IF Has(todo, "wrap") THEN outdir.wrapper = previous
                 ELSE outdir.inline.text = previous
              /\ Head(todo) = "bind" => ~Has(todo, "wrap")
        /\ Has(r.steps, "tpool") /\ ~Has(todo, "tpool") =>
              tpoolLib = [files |-> vendor, macros |-> TpoolMacros]
    BY <1>1, <1>2, LagAtStep
  <1>4. CASE FindVendor \/ GenerateHeader
    <2>1. Head(todo) \in {"find", "header"} /\ outdir' = outdir /\ tpoolLib' = tpoolLib
      BY <1>4 DEF FindVendor, GenerateHeader, AtStep
    <2>2. \A y \in {"wrap", "tpool"} : Has(todo', y) <=> Has(todo, y)
      BY <1>3, <2>1
    <2> QED BY <1>1, <1>2, <1>3, <2>1, <2>2, LagContinues
  <1>5. CASE CompileTpool
    <2>1. Head(todo) = "tpool" /\ outdir' = outdir
          /\ tpoolLib' = [files |-> vendor, macros |-> TpoolMacros]
      BY <1>5 DEF CompileTpool, AtStep
    <2>2. Has(todo', "wrap") <=> Has(todo, "wrap")
      BY <1>3, <2>1
    <2> QED BY <1>1, <1>2, <1>3, <2>1, <2>2, LagContinues
  <1>6. CASE GenerateBindings
    <2>1. Head(todo) = "bind" /\ CheckedOut /\ tpoolLib' = tpoolLib
      BY <1>6 DEF GenerateBindings, AtStep
    <2>2. vendor["headers"] # 0
      BY <2>1 DEF CheckedOut, BuildInv, BuildShape
    <2>3. /\ outdir'.wrapper = IF r.wraps THEN vendor["headers"] ELSE outdir.wrapper
          /\ outdir'.inline = outdir.inline
      BY <1>1, <1>6, BindMakes
    <2>4. WrapsFirst(r) => outdir'.wrapper # 0 /\ ~Has(todo', "wrap") /\ ~Has(todo, "wrap")
      BY <1>3, <2>1, <2>2, <2>3 DEF Orderly
    <2>5. Has(todo', "tpool") <=> Has(todo, "tpool")
      BY <1>3, <2>1
    <2>6. WrapsFirst(r) =>
            /\ outdir'.wrapper = 0 => outdir'.inline.text = 0
            /\ outdir'.inline.text # 0 => outdir'.inline.macros = MacrosOf(r.inline, target)
            /\ IF Has(todo', "wrap") THEN outdir'.wrapper = previous
               ELSE outdir'.inline.text = previous
      BY <1>3, <2>3, <2>4
    <2> QED BY <1>1, <1>2, <1>3, <2>1, <2>5, <2>6, LagContinues
  <1>7. CASE Compile
    <2>1. Head(todo) = "cc" /\ tpoolLib' = tpoolLib
      BY <1>7 DEF Compile, AtStep
    <2>2. /\ outdir'.wrapper = outdir.wrapper
          /\ outdir'.inline = IF r.listed
                              THEN [text |-> outdir.wrapper, macros |-> MacrosOf(r.cc, target)]
                              ELSE outdir.inline
      BY <1>1, <1>7, CompileMakes
    <2>3. WrapsFirst(r) => ~r.listed
      BY <1>3 DEF Orderly
    <2>4. \A y \in {"wrap", "tpool"} : Has(todo', y) <=> Has(todo, y)
      BY <1>3, <2>1
    <2>5. WrapsFirst(r) =>
            /\ outdir'.wrapper = 0 => outdir'.inline.text = 0
            /\ outdir'.inline.text # 0 => outdir'.inline.macros = MacrosOf(r.inline, target)
            /\ IF Has(todo', "wrap") THEN outdir'.wrapper = previous
               ELSE outdir'.inline.text = previous
      BY <1>3, <2>2, <2>3, <2>4
    <2> QED BY <1>1, <1>2, <1>3, <2>1, <2>4, <2>5, LagContinues
  <1>8. CASE CompileWrapper
    <2>1. Head(todo) = "wrap" /\ tpoolLib' = tpoolLib /\ Has(todo, "wrap") /\ ~Has(todo', "wrap")
      <3>1. Head(todo) = "wrap" /\ tpoolLib' = tpoolLib
        BY <1>8 DEF CompileWrapper, AtStep
      <3>2. Has(todo, Head(todo))
        BY <1>2, HeadHas DEF BuildInv, ScriptInv, RunsOrderly
      <3> QED BY <1>3, <3>1, <3>2
    <2>2. /\ outdir'.wrapper = outdir.wrapper
          /\ outdir.wrapper = 0 => outdir' = outdir
          /\ outdir.wrapper # 0 =>
               outdir'.inline = [text |-> outdir.wrapper, macros |-> MacrosOf(r.inline, target)]
      BY <1>1, <1>8, WrapMakes
    <2>3. outdir.wrapper # 0 => /\ outdir'.inline.text = outdir.wrapper
                               /\ outdir'.inline.macros = MacrosOf(r.inline, target)
      BY ONLY <2>2
    <2>4. Has(todo', "tpool") <=> Has(todo, "tpool")
      BY <1>3, <2>1
    <2>5. WrapsFirst(r) =>
            /\ outdir'.wrapper = 0 => outdir'.inline.text = 0
            /\ outdir'.inline.text # 0 => outdir'.inline.macros = MacrosOf(r.inline, target)
            /\ IF Has(todo', "wrap") THEN outdir'.wrapper = previous
               ELSE outdir'.inline.text = previous
      BY <1>3, <2>1, <2>2, <2>3
    <2> QED BY <1>1, <1>2, <1>3, <2>1, <2>4, <2>5, LagContinues
  <1> QED BY <1>4, <1>5, <1>6, <1>7, <1>8

\* The script fails, or nothing of it runs.
LEMMA LagOtherStep ==
  ASSUME BuildInv, LagInv, crate # "",
         \/ Fail \/ WriteBindingsFails \/ Clean \/ CargoRuns \/ CargoSkips
         \/ \E k \in FileClasses : Edit(k)
  PROVE  LagInv'
  <1>1. PICK r : r = Recipe[crate]
    OBVIOUS
  <1>2. crate' = crate /\ target' = target
    BY DEF Fail, WriteBindingsFails, Clean, CargoRuns, CargoSkips, Edit
  <1>3. Lagging(r) /\ Orderly(r) /\ IsOutDir(outdir)
    BY <1>1, RecipesOrderly, BuildAssumption DEF LagInv, BuildInv, BuildShape
  <1>4. SUFFICES Lagging(r)'
    <2>1. Lagging(Recipe[crate])'
      BY <1>1, <1>2, <1>4
    <2> QED BY <2>1 DEF LagInv
  <1>5. CASE Fail \/ WriteBindingsFails
    <2>1. todo' = <<>> /\ seen' = NeverRan /\ report' = "failed"
      BY <1>5 DEF Fail, WriteBindingsFails
    <2>2. outdir'.inline = outdir.inline /\ (outdir'.wrapper = outdir.wrapper \/ outdir'.wrapper # 0)
      <3>1. CASE outdir' = outdir
        BY <3>1
      <3>2. CASE WriteBindingsFails /\ outdir' = [outdir EXCEPT !.wrapper = vendor["headers"]]
        <4>1. Holds(outdir', vendor["headers"], outdir.bindings, outdir.library, outdir.inline)
          BY ONLY <1>3, <3>2, OutDirWith, Zenon
        <4>2. vendor["headers"] # 0
          BY <3>2 DEF WriteBindingsFails, CheckedOut, BuildInv, BuildShape
        <4> QED BY ONLY <4>1, <4>2 DEF Holds
      <3> QED BY <1>5, <3>1, <3>2 DEF Fail, WriteBindingsFails, Generated
    <2>3. Precedes(todo', "wrap", "bind")
      BY <2>1, NothingLeft
    <2>4. WrapsFirst(r) => (outdir'.wrapper = 0 => outdir'.inline.text = 0)
      BY <1>3, <2>2 DEF Lagging
    <2>5. WrapsFirst(r) => (outdir'.inline.text # 0 => outdir'.inline.macros = MacrosOf(r.inline, target'))
      BY <1>2, <1>3, <2>2 DEF Lagging
    <2> QED BY <2>1, <2>3, <2>4, <2>5 DEF Lagging
  <1>6. CASE Clean
    <2>1. outdir' = EmptyOutDir /\ seen' = NeverRan /\ report' = "none" /\ todo' = <<>>
      BY <1>6 DEF Clean, BuildIdle
    <2>2. outdir'.inline.text = 0 /\ Precedes(todo', "wrap", "bind")
      BY <2>1, EmptyIs, NothingLeft
    <2> QED BY <2>1, <2>2 DEF Lagging
  <1>7. CASE CargoRuns
    <2>1. todo' = r.steps /\ previous' = outdir.wrapper /\ outdir' = outdir
      BY <1>1, <1>7 DEF CargoRuns
    <2>2. WrapsFirst(r) => Has(r.steps, "wrap") /\ Precedes(r.steps, "wrap", "bind")
      BY <1>3 DEF Orderly
    <2> QED BY <1>2, <1>3, <2>1, <2>2 DEF Lagging
  <1>8. CASE CargoSkips
    <2>1. seen # NeverRan
      BY <1>8 DEF CargoSkips, MustRun, FileClasses, NeverRan, NotCheckedOut
    <2>2. UNCHANGED <<target, todo, outdir, tpoolLib, previous, seen>>
      BY <1>8 DEF CargoSkips
    <2> QED BY <1>3, <2>1, <2>2 DEF Lagging
  <1>9. CASE \E k \in FileClasses : Edit(k)
    <2>1. UNCHANGED <<target, todo, outdir, tpoolLib, previous, seen>> /\ report' = "none"
      BY <1>9 DEF Edit
    <2> QED BY <1>3, <2>1 DEF Lagging
  <1> QED BY <1>5, <1>6, <1>7, <1>8, <1>9

LEMMA LagStep == BuildInv /\ LagInv /\ BdNext => LagInv'
  <1> SUFFICES ASSUME BuildInv, LagInv, BdNext PROVE LagInv'
    OBVIOUS
  <1>1. crate = "" => todo = <<>> /\ outdir = EmptyOutDir /\ seen = NeverRan /\ report = "none"
    BY DEF BuildInv, BuildShape
  <1>2. CASE \E c \in SysCrates, t \in Targets, b \in BOOLEAN : Configure(c, t, b)
    <2>1. /\ crate = "" /\ UNCHANGED <<todo, outdir, seen, report>>
      BY <1>2 DEF Configure
    <2>2. outdir'.inline.text = 0 /\ todo' = <<>> /\ seen' = NeverRan /\ report' = "none"
      BY <1>1, <2>1, EmptyIs
    <2>3. PICK r : r = Recipe[crate']
      OBVIOUS
    <2>4. Lagging(r)'
      BY <2>2, NothingLeft DEF Lagging
    <2>5. Lagging(Recipe[crate])'
      BY <2>3, <2>4
    <2> QED BY <2>5 DEF LagInv
  <1>3. CASE \/ Fail \/ WriteBindingsFails \/ Clean \/ CargoRuns \/ CargoSkips
             \/ \E k \in FileClasses : Edit(k)
    <2>1. crate # ""
      BY <1>1, <1>3 DEF Fail, WriteBindingsFails, Clean, CargoRuns, CargoSkips, Edit, BuildIdle, AtStep
    <2> QED BY <1>3, <2>1, LagOtherStep
  <1>4. CASE \/ FindVendor \/ GenerateHeader \/ CompileTpool
             \/ GenerateBindings \/ Compile \/ CompileWrapper
    <2>1. crate # ""
      BY <1>1, <1>4 DEF FindVendor, GenerateHeader, CompileTpool, GenerateBindings, Compile,
                        CompileWrapper, AtStep
    <2> QED BY <1>4, <2>1, LagScriptStep
  <1> QED BY <1>2, <1>3, <1>4 DEF BdNext

\* BuildCoherent: for every script and any history of edits, failures and cleans, a build that
\* Cargo calls done has libraries of the files the script saw, which are the present ones but
\* for the sources no line watches; inline functions of the bindings' own text or, where the
\* wrapper is looked for too early, of the text the run before left; and on both sides the
\* same macros, or exactly the difference named for the six crates.
THEOREM BuildsAlwaysCoherent == BdSpec => []BuildCoherent
  <1>1. BdInit => BuildInv
    <2> SUFFICES ASSUME BdInit PROVE BuildInv
      OBVIOUS
    <2>1. IsOutDir(outdir)
      BY EmptyIs DEF BdInit
    <2>2. vendor \in [FileClasses -> Nat] /\ seen \in [FileClasses -> Nat] /\ vendor = NotCheckedOut
      BY DEF BdInit, NeverRan, NotCheckedOut
    <2>3. crate = "" /\ target \in Targets /\ settled = 0 /\ todo = <<>> /\ outdir = EmptyOutDir
          /\ seen = NeverRan /\ report = "none"
      BY DEF BdInit, Targets
    <2>4. settled \in 0..2
      BY ONLY <2>3, NotSettled, Zenon
    <2> QED BY <2>1, <2>2, <2>3, <2>4 DEF BuildInv, BuildShape
  <1>2. ASSUME BuildInv, UNCHANGED bdVars PROVE BuildInv'
    <2>1. UNCHANGED <<crate, target, vendor, todo, outdir, seen, report, settled>>
      BY <1>2 DEF bdVars
    <2>2. BuildShape'
      BY <1>2, <2>1 DEF BuildInv, BuildShape
    <2>3. PICK r : r = Recipe[crate] /\ r = Recipe[crate']
      BY <2>1
    <2>4. ASSUME crate # "" PROVE ScriptInv'
      <3>1. RunsOrderly(r) /\ RecordedFiles(r) /\ UpToDate(r) /\ Settles(r)
        BY <1>2, <2>3, <2>4 DEF BuildInv, ScriptInv
      <3>2. RunsOrderly(r)' /\ RecordedFiles(r)'
        BY <2>1, <3>1 DEF RunsOrderly, RecordedFiles
      <3>3. UpToDate(r)' /\ Settles(r)'
        BY <2>1, <3>1 DEF UpToDate, Settles
      <3>4. RunsOrderly(Recipe[crate])' /\ RecordedFiles(Recipe[crate])'
            /\ UpToDate(Recipe[crate])' /\ Settles(Recipe[crate])'
        BY <2>3, <3>2, <3>3
      <3> QED BY <3>4 DEF ScriptInv
    <2> QED BY <2>1, <2>2, <2>4 DEF BuildInv
  <1>3. BuildInv /\ [BdNext]_bdVars => BuildInv'
    BY <1>2, BuildStep
  <1>4. BdInit => LagInv
    BY DEF BdInit, LagInv
  <1>5. ASSUME LagInv, UNCHANGED bdVars PROVE LagInv'
    <2>1. UNCHANGED <<crate, target, todo, outdir, tpoolLib, previous, seen, report>>
      BY <1>5 DEF bdVars
    <2>2. PICK r : r = Recipe[crate] /\ r = Recipe[crate']
      BY <2>1
    <2>3. ASSUME crate # "" PROVE Lagging(r)'
      BY <1>5, <2>1, <2>2, <2>3 DEF LagInv, Lagging
    <2>4. crate # "" => Lagging(Recipe[crate])'
      BY <2>2, <2>3
    <2> QED BY <2>1, <2>4 DEF LagInv
  <1>6. BuildInv /\ LagInv /\ [BdNext]_bdVars => LagInv'
    BY <1>5, LagStep
  <1> QED BY <1>1, <1>3, <1>4, <1>6, BuildInvCoherent, PTL DEF BdSpec
=============================================================================
