----------------------------- MODULE SpanTracker -----------------------------
(***************************************************************************)
(* SpanTracker (tracing_fd): the span table and the per-thread span stacks *)
(* that FdLayer keeps, each behind a read-write lock, and the callbacks    *)
(* that the application's threads run on them.                             *)
(*                                                                         *)
(* A callback takes its locks one at a time and keeps them to its end, so  *)
(* what it does to the tables is seen by nobody before: it is one step,    *)
(* Finish, taken with all the locks of its plan held.  The steps before it *)
(* are where threads wait for one another.                                 *)
(*                                                                         *)
(* The tracing library decides which callback runs when.  It is modelled   *)
(* by what its registry guarantees: an id is entered between its creation  *)
(* and its closing, and closed when no thread is in it.                    *)
(***************************************************************************)
EXTENDS Integers, Sequences, FiniteSets, Functions

CONSTANTS
  Threads,
  Spans,      \* span ids
  None        \* no thread, no span

ASSUME NoneAssumption == None \notin Threads \cup Spans

VARIABLES
  spans,      \* the ids in the span table
  stacks,     \* thread_stacks: thread -> its stack of entries
  writer,     \* per lock: the thread that has, or waits to have, it alone
  readers,    \* per lock: the threads that share it
  task,       \* per thread: the callback it is in and the locks it has got
  (* the tracing registry *)
  status,     \* per span: unborn, open or closed
  entered,    \* per thread: the spans it is in, innermost last
  lifo        \* per thread: it has left only its innermost span so far

tables   == <<spans, stacks>>
locks    == <<writer, readers>>
registry == <<status, entered, lifo>>
vars     == <<tables, locks, task, registry>>

Locks   == {"spans", "stacks"}
Ops     == {"none", "new", "record", "enter", "exit", "close", "get_span", "context", "stats"}
Entries == [id: Spans, depth: Nat, parent: Spans \cup {None}]
Tasks   == [op: Ops, span: Spans \cup {None}, got: 0..2]
NoTask  == [op |-> "none", span |-> None, got |-> 0]

Write(l) == [lock |-> l, excl |-> TRUE]
Read(l)  == [lock |-> l, excl |-> FALSE]

MutPlan(op) ==   \* on_exit looks the span up, as on_enter does, but before it locks the stacks
  CASE op = "none"               -> <<>>
    [] op \in {"new", "record"}  -> <<Write("spans")>>
    [] op = "enter"              -> <<Write("stacks"), Read("spans")>>
    [] op = "exit"               -> <<Read("spans"), Write("stacks")>>
    [] op = "close"              -> <<Write("spans"), Write("stacks")>>
    [] op = "get_span"           -> <<Read("spans")>>
    [] op = "context"            -> <<Read("stacks")>>
    [] op = "stats"              -> <<Read("spans"), Read("stacks")>>

\* The locks a callback takes, in order.
Plan(op) ==
  CASE op = "none"               -> <<>>
    [] op \in {"new", "record"}  -> <<Write("spans")>>
    [] op = "enter"              -> <<Write("stacks"), Read("spans")>>
    [] op = "exit"               -> <<Write("stacks")>>
    [] op = "close"              -> <<Write("spans"), Write("stacks")>>
    [] op = "get_span"           -> <<Read("spans")>>
    [] op = "context"            -> <<Read("stacks")>>
    [] op = "stats"              -> <<Read("spans"), Read("stacks")>>

Idle(t)  == task[t].op = "none"
Wants(t) == Plan(task[t].op)[task[t].got + 1]
Waits(t) == task[t].got < Len(Plan(task[t].op))

StackOf(t) == IF t \in DOMAIN stacks THEN stacks[t] ELSE <<>>

-----------------------------------------------------------------------------
(* The locks: parking_lot's RwLock.                                        *)

\* A writer first keeps everybody else from entering ...
Claim(t) ==
  /\ Waits(t) /\ Wants(t).excl
  /\ writer[Wants(t).lock] = None
  /\ writer' = [writer EXCEPT ![Wants(t).lock] = t]
  /\ UNCHANGED <<tables, readers, task, registry>>

\* ... and then waits for the readers to leave.
AcquireWrite(t) ==
  /\ Waits(t) /\ Wants(t).excl
  /\ writer[Wants(t).lock] = t /\ readers[Wants(t).lock] = {}
  /\ task' = [task EXCEPT ![t].got = @ + 1]
  /\ UNCHANGED <<tables, locks, registry>>

AcquireRead(t) ==
  /\ Waits(t) /\ ~Wants(t).excl
  /\ writer[Wants(t).lock] = None
  /\ readers' = [readers EXCEPT ![Wants(t).lock] = @ \cup {t}]
  /\ task' = [task EXCEPT ![t].got = @ + 1]
  /\ UNCHANGED <<tables, writer, registry>>

-----------------------------------------------------------------------------
(* What each callback does to the tables.                                  *)

OnNewSpan(s) ==
  /\ spans' = spans \cup {s}
  /\ UNCHANGED stacks

\* Only the fields of the span change, which no message shows.
OnRecord(s) == UNCHANGED tables

OnEnter(t, s) ==
  LET stack == StackOf(t)
      entry == [id |-> s, depth |-> Len(stack),
                parent |-> IF stack = <<>> THEN None ELSE stack[Len(stack)].id]
      new   == IF s \in spans THEN Append(stack, entry) ELSE stack
  IN /\ stacks' = [u \in DOMAIN stacks \cup {t} |-> IF u = t THEN new ELSE stacks[u]]
     /\ UNCHANGED spans

\* The stack of t becomes new; an empty stack is dropped from the map.
SetStack(t, new) ==
  stacks' = IF new = <<>> THEN Restrict(stacks, DOMAIN stacks \ {t})
            ELSE [stacks EXCEPT ![t] = new]

\* Vec::retain: the entries of other spans, in the order they are in.
Retain(stack, s) ==
  LET kept   == {i \in 1..Len(stack) : stack[i].id # s}
      nth(k) == CHOOSE i \in kept : Cardinality({j \in kept : j <= i}) = k
  IN [k \in 1..Cardinality(kept) |-> stack[nth(k)]]

MutOnExitAny(t, s) ==   \* the stack is popped whatever is on top
  /\ IF t \in DOMAIN stacks
     THEN SetStack(t, SubSeq(stacks[t], 1, Len(stacks[t]) - 1))
     ELSE UNCHANGED stacks
  /\ UNCHANGED spans

MutOnExitAll(t, s) ==   \* every entry of the span goes, not only the innermost
  /\ IF t \in DOMAIN stacks
     THEN SetStack(t, Retain(stacks[t], s))
     ELSE UNCHANGED stacks
  /\ UNCHANGED spans

\* Only the innermost entry is ever popped.
OnExit(t, s) ==
  /\ IF t \in DOMAIN stacks
     THEN LET stack == stacks[t]
              top   == stack # <<>> /\ stack[Len(stack)].id = s
          IN SetStack(t, IF top THEN SubSeq(stack, 1, Len(stack) - 1) ELSE stack)
     ELSE UNCHANGED stacks
  /\ UNCHANGED spans

\* The stack of the calling thread is cleaned, and no other.
OnClose(t, s) ==
  /\ spans' = spans \ {s}
  /\ IF t \in DOMAIN stacks
     THEN SetStack(t, Retain(stacks[t], s))
     ELSE UNCHANGED stacks

Finish(t) ==
  /\ ~Idle(t) /\ ~Waits(t)
  /\ LET s == task[t].span
     IN CASE task[t].op = "new"    -> OnNewSpan(s)
          [] task[t].op = "record" -> OnRecord(s)
          [] task[t].op = "enter"  -> OnEnter(t, s)
          [] task[t].op = "exit"   -> OnExit(t, s)
          [] task[t].op = "close"  -> OnClose(t, s)
          [] OTHER                 -> UNCHANGED tables
  /\ writer'  = [l \in Locks |-> IF writer[l] = t THEN None ELSE writer[l]]
  /\ readers' = [l \in Locks |-> readers[l] \ {t}]
  /\ task' = [task EXCEPT ![t] = NoTask]
  /\ UNCHANGED registry

-----------------------------------------------------------------------------
(* The callbacks of FdLayer begin.                                         *)

Begin(t, o, s) ==
  /\ Idle(t)
  /\ task' = [task EXCEPT ![t] = [op |-> o, span |-> s, got |-> 0]]
  /\ UNCHANGED <<tables, locks>>

\* Some thread is inside a callback of kind o for s.
Pending(o, s) == \E t \in Threads : task[t].op = o /\ task[t].span = s

NewSpan(t, s) ==
  /\ status[s] = "unborn"
  /\ status' = [status EXCEPT ![s] = "open"]
  /\ Begin(t, "new", s)
  /\ UNCHANGED <<entered, lifo>>

\* new_span has returned to its caller before the id is known to anybody.
Usable(s) == status[s] = "open" /\ ~Pending("new", s)

Enter(t, s) ==
  /\ Usable(s)
  /\ entered' = [entered EXCEPT ![t] = Append(@, s)]
  /\ Begin(t, "enter", s)
  /\ UNCHANGED <<status, lifo>>

\* A thread leaves the span at place i of those it is in.
Exit(t, i) ==
  /\ entered' = [entered EXCEPT ![t] = SubSeq(@, 1, i - 1) \o SubSeq(@, i + 1, Len(@))]
  /\ lifo' = [lifo EXCEPT ![t] = @ /\ i = Len(entered[t])]
  /\ Begin(t, "exit", entered[t][i])
  /\ UNCHANGED status

\* The last reference goes, on any thread.
Close(t, s) ==
  /\ Usable(s)
  /\ \A u \in Threads : s \notin Range(entered[u])
  /\ ~Pending("enter", s) /\ ~Pending("exit", s) /\ ~Pending("record", s)
  /\ status' = [status EXCEPT ![s] = "closed"]
  /\ Begin(t, "close", s)
  /\ UNCHANGED <<entered, lifo>>

Record(t, s) ==
  /\ Usable(s)
  /\ Begin(t, "record", s)
  /\ UNCHANGED registry

\* on_event reads the current context; get_span and stats are for anybody.
Look(t, o) == Begin(t, o, None) /\ UNCHANGED registry

-----------------------------------------------------------------------------
Init ==
  /\ spans = {} /\ stacks = <<>>
  /\ writer = [l \in Locks |-> None]
  /\ readers = [l \in Locks |-> {}]
  /\ task = [t \in Threads |-> NoTask]
  /\ status = [s \in Spans |-> "unborn"]
  /\ entered = [t \in Threads |-> <<>>]
  /\ lifo = [t \in Threads |-> TRUE]

\* A thread that is in a callback goes on with it.
Proceed(t) == Claim(t) \/ AcquireWrite(t) \/ AcquireRead(t) \/ Finish(t)

Application(t) ==
  \/ \E s \in Spans : NewSpan(t, s) \/ Enter(t, s) \/ Close(t, s) \/ Record(t, s)
  \/ \E i \in 1..Len(entered[t]) : Exit(t, i)
  \/ \E o \in {"get_span", "context", "stats"} : Look(t, o)

Next == \E t \in Threads : Proceed(t) \/ Application(t)

\* A thread waiting for a lock that becomes free time and again gets it: the
\* locks of parking_lot are eventually fair.  Nothing is assumed of the
\* application.
Fairness == \A t \in Threads : SF_vars(Proceed(t))

Spec == Init /\ [][Next]_vars /\ Fairness

-----------------------------------------------------------------------------
(* Properties.                                                             *)

\* Every variable has its type.
TypeOK ==
  /\ spans \subseteq Spans
  /\ DOMAIN stacks \subseteq Threads /\ \A t \in DOMAIN stacks : stacks[t] \in Seq(Entries)
  /\ writer \in [Locks -> Threads \cup {None}] /\ readers \in [Locks -> SUBSET Threads]
  /\ task \in [Threads -> Tasks]
  /\ status \in [Spans -> {"unborn", "open", "closed"}]
  /\ entered \in [Threads -> Seq(Spans)] /\ lifo \in [Threads -> BOOLEAN]

\* A thread that leaves its spans innermost first finds in the tracker exactly
\* the spans it is in, with their depths and parents, whatever spans other
\* threads enter, leave and close meanwhile.
LifoExact ==
  \A t \in Threads : Idle(t) /\ lifo[t] =>
    /\ Len(StackOf(t)) = Len(entered[t])
    /\ \A i \in 1..Len(entered[t]) :
         LET e == StackOf(t)[i]
         IN /\ e.id = entered[t][i] /\ e.depth = i - 1
            /\ e.parent = IF i = 1 THEN None ELSE entered[t][i - 1]

\* In whatever order a thread leaves its spans, the ones it is still in are on
\* its stack: the tracker may hold on to a span too long, it never loses one.
\* And active_threads of stats() counts the threads that have something on
\* their stack: no thread that has left its spans keeps a place in the map.
EnteredIsTracked ==
  /\ TypeOK
  /\ \A t \in Threads : Idle(t) =>
       \A s \in Range(entered[t]) :
         Cardinality({i \in 1..Len(entered[t]) : entered[t][i] = s})
           <= Cardinality({i \in 1..Len(StackOf(t)) : StackOf(t)[i].id = s})
  /\ \A t \in DOMAIN stacks : stacks[t] # <<>>

\* t is in a callback and can go on with it.
CanProceed(t) ==
  /\ ~Idle(t)
  /\ Waits(t) => LET l == Wants(t).lock
                 IN \/ writer[l] = None
                    \/ Wants(t).excl /\ writer[l] = t /\ readers[l] = {}

\* Threads in callbacks never all wait for one another, unless one of them is
\* in on_close or stats: these two lock the span table before the stacks, and
\* on_enter the other way round.
JamNeedsCloseOrStats ==
  (\E t \in Threads : ~Idle(t)) =>
    \E t \in Threads : CanProceed(t) \/ task[t].op \in {"close", "stats"}

\* on_close returns, with the span gone from the table.
CloseTakesEffect ==
  \A t \in Threads, s \in Spans :
    task[t].op = "close" /\ task[t].span = s ~> Idle(t) /\ s \notin spans
=============================================================================
