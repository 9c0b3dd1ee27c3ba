-------------------------- MODULE SpanTrackerProofs --------------------------
(***************************************************************************)
(* Proofs about the span tracker, for any set of threads and of spans.     *)
(*                                                                         *)
(* The locks: what each lock's writer and readers can be doing (Owners).   *)
(* From it, without on_close and stats, the span table is always the last  *)
(* lock anybody waits for, so somebody can go on.                          *)
(*                                                                         *)
(* The stacks: a thread in the middle of on_enter or on_exit has a stack   *)
(* that is one span behind the registry, so the invariants relate the two  *)
(* through the callback in progress.  They rest on Registered: a span that *)
(* a thread is in is open, is in the table, and no on_close is under way   *)
(* for it.                                                                 *)
(***************************************************************************)
EXTENDS SpanTracker, SequenceTheorems, FiniteSetTheorems, TLAPS

USE NoneAssumption

-----------------------------------------------------------------------------
(* Types.  The span of a callback on a span is a span.                     *)

SpanOps == {"new", "record", "enter", "exit", "close"}

TaskOK ==
  /\ task \in [Threads -> Tasks]
  /\ \A t \in Threads : task[t].op \in SpanOps => task[t].span \in Spans

RegistryOK ==
  /\ status \in [Spans -> {"unborn", "open", "closed"}]
  /\ entered \in [Threads -> Seq(Spans)] /\ lifo \in [Threads -> BOOLEAN]

LocksOK == writer \in [Locks -> Threads \cup {None}] /\ readers \in [Locks -> SUBSET Threads]

\* What a step of a callback before its last does to a thread's task.
LEMMA Plans ==
  /\ Plan("none") = <<>>
  /\ Plan("new") = <<Write("spans")>> /\ Plan("record") = <<Write("spans")>>
  /\ Plan("enter") = <<Write("stacks"), Read("spans")>>
  /\ Plan("exit") = <<Write("stacks")>>
  /\ Plan("close") = <<Write("spans"), Write("stacks")>>
  /\ Plan("get_span") = <<Read("spans")>>
  /\ Plan("context") = <<Read("stacks")>>
  /\ Plan("stats") = <<Read("spans"), Read("stacks")>>
  BY DEF Plan

LEMMA PlanBounds ==
  ASSUME NEW o \in Ops
  PROVE  /\ Len(Plan(o)) \in 0..2
         /\ \A i \in 1..Len(Plan(o)) : Plan(o)[i] \in [lock : Locks, excl : BOOLEAN]
<1>0. \A l \in Locks : Write(l) \in [lock : Locks, excl : BOOLEAN]
                         /\ Read(l) \in [lock : Locks, excl : BOOLEAN]
  BY DEF Write, Read
<1>1. \A p : Len(<<p>>) = 1 /\ <<p>>[1] = p
  OBVIOUS
<1>2. \A p, q : Len(<<p, q>>) = 2 /\ <<p, q>>[1] = p /\ <<p, q>>[2] = q
  OBVIOUS
<1>3. CASE o = "none"
  BY <1>3, Plans
<1>4. CASE o \in {"new", "record", "exit", "get_span", "context"}
  <2>1. PICK l \in Locks : Plan(o) = <<Write(l)>> \/ Plan(o) = <<Read(l)>>
    BY <1>4, Plans DEF Locks
  <2> QED BY <1>0, <1>1, <2>1
<1>5. CASE o \in {"enter", "close", "stats"}
  <2>1. \E p, q \in [lock : Locks, excl : BOOLEAN] : Plan(o) = <<p, q>>
    BY <1>0, <1>5, Plans DEF Locks
  <2>2. PICK p \in [lock : Locks, excl : BOOLEAN], q \in [lock : Locks, excl : BOOLEAN] :
          Plan(o) = <<p, q>>
    BY <2>1
  <2>3. Len(Plan(o)) = 2 /\ Plan(o)[1] = p /\ Plan(o)[2] = q
    BY <1>2, <2>2
  <2> QED BY <2>3
<1> QED BY <1>3, <1>4, <1>5 DEF Ops

LEMMA WantsType ==
  ASSUME TaskOK, NEW t \in Threads, Waits(t)
  PROVE  /\ Wants(t).lock \in Locks /\ Wants(t).excl \in BOOLEAN
         /\ task[t].got + 1 \in 0..2
         /\ task[t].op # "none"
<1>1. task[t].op \in Ops /\ task[t].got \in 0..2
  BY DEF TaskOK, Tasks
<1>2. task[t].got + 1 \in 1..Len(Plan(task[t].op))
  BY <1>1, PlanBounds DEF Waits
<1>3. Plan(task[t].op)[task[t].got + 1] \in [lock : Locks, excl : BOOLEAN]
  BY <1>1, <1>2, PlanBounds
<1>4. task[t].op # "none"
  BY <1>2 DEF Plan
<1> QED BY <1>1, <1>2, <1>3, <1>4, PlanBounds DEF Wants

\* Beginning a callback.
LEMMA BeginType ==
  ASSUME TaskOK, NEW t \in Threads, NEW o \in Ops, NEW s \in Spans \cup {None},
         o \in SpanOps => s \in Spans, Begin(t, o, s)
  PROVE  /\ TaskOK'
         /\ task'[t].op = o /\ task'[t].span = s /\ task'[t].got = 0
         /\ \A u \in Threads : u # t => task'[u] = task[u]
         /\ UNCHANGED <<spans, stacks, writer, readers>>
         /\ task[t].op = "none"
<1>2. task' = [task EXCEPT ![t] = [op |-> o, span |-> s, got |-> 0]]
  BY DEF Begin
<1>3. [op |-> o, span |-> s, got |-> 0] \in Tasks
  BY DEF Tasks
<1>4. task' \in [Threads -> Tasks]
  BY <1>2, <1>3 DEF TaskOK
<1>5. task'[t].op = o /\ task'[t].span = s /\ task'[t].got = 0
  BY <1>2 DEF TaskOK
<1>6. \A u \in Threads : u # t => task'[u] = task[u]
  BY <1>2 DEF TaskOK
<1>7. TaskOK'
  BY <1>4, <1>5, <1>6 DEF TaskOK
<1> QED BY <1>5, <1>6, <1>7 DEF Begin, tables, locks, Idle

\* Every step of the application begins a callback.
LEMMA ApplicationBegins ==
  ASSUME TaskOK, RegistryOK, NEW t \in Threads, Application(t)
  PROVE  \E o \in Ops \ {"none"}, s \in Spans \cup {None} :
           (o \in SpanOps => s \in Spans) /\ Begin(t, o, s)
<1>1. ASSUME NEW s \in Spans, NewSpan(t, s) \/ Enter(t, s) \/ Close(t, s) \/ Record(t, s)
      PROVE  \E o \in Ops \ {"none"} : Begin(t, o, s)
  BY <1>1 DEF NewSpan, Enter, Close, Record, Ops
<1>2. ASSUME NEW i \in 1..Len(entered[t]), Exit(t, i)
      PROVE  entered[t][i] \in Spans /\ Begin(t, "exit", entered[t][i])
  BY <1>2 DEF Exit, RegistryOK
<1>3. ASSUME NEW o \in {"get_span", "context", "stats"}, Look(t, o)
      PROVE  o \in Ops /\ o \notin SpanOps /\ Begin(t, o, None)
  BY <1>3 DEF Look, Ops, SpanOps
<1> QED BY <1>1, <1>2, <1>3 DEF Application, Ops, SpanOps

\* The lock a waiting thread waits for, by its callback and the locks it has got.
LEMMA WantsAre ==
  ASSUME TaskOK, NEW t \in Threads, Waits(t)
  PROVE  LET o == task[t].op
             g == task[t].got
             w == Wants(t)
         IN \/ o \in {"new", "record"} /\ g = 0 /\ w = Write("spans")
            \/ o \in {"enter", "exit"} /\ g = 0 /\ w = Write("stacks")
            \/ o = "enter" /\ g = 1 /\ w = Read("spans")
            \/ o = "close" /\ g = 0 /\ w = Write("spans")
            \/ o = "close" /\ g = 1 /\ w = Write("stacks")
            \/ o \in {"get_span", "stats"} /\ g = 0 /\ w = Read("spans")
            \/ o = "context" /\ g = 0 /\ w = Read("stacks")
            \/ o = "stats" /\ g = 1 /\ w = Read("stacks")
<1> DEFINE o == task[t].op
           g == task[t].got
<1>1. o \in Ops /\ g \in 0..2 /\ g < Len(Plan(o)) /\ Wants(t) = Plan(o)[g + 1]
  BY DEF TaskOK, Tasks, Waits, Wants
<1>2. \A p : Len(<<p>>) = 1 /\ <<p>>[1] = p
  OBVIOUS
<1>3. \A p, q : Len(<<p, q>>) = 2 /\ <<p, q>>[1] = p /\ <<p, q>>[2] = q
  OBVIOUS
<1>4. o # "none"
  BY <1>1, Plans
<1>5. CASE o \in {"new", "record", "exit", "get_span", "context"}
  <2>1. PICK p : Plan(o) = <<p>>
    BY <1>5, Plans
  <2>2. g = 0 /\ Wants(t) = p
    BY <1>1, <1>2, <2>1
  <2> QED BY <1>2, <1>5, <2>1, <2>2, Plans
<1>6. CASE o \in {"enter", "close", "stats"}
  <2>1. \E p, q : Plan(o) = <<p, q>>
    BY <1>6, Plans
  <2>2. PICK p, q : Plan(o) = <<p, q>>
    BY <2>1
  <2>3. \/ g = 0 /\ Wants(t) = p
        \/ g = 1 /\ Wants(t) = q
    BY <1>1, <1>3, <2>2
  <2>4. p = Plan(o)[1] /\ q = Plan(o)[2]
    BY <1>3, <2>2
  <2>5. /\ o = "enter" => p = Write("stacks") /\ q = Read("spans")
        /\ o = "close" => p = Write("spans") /\ q = Write("stacks")
        /\ o = "stats" => p = Read("spans") /\ q = Read("stacks")
    BY <1>3, <2>4, Plans
  <2> QED BY <1>6, <2>3, <2>5
<1> QED BY <1>1, <1>4, <1>5, <1>6 DEF Ops

-----------------------------------------------------------------------------
(* The locks.                                                              *)

Owners ==
  \A t \in Threads :
    LET o == task[t].op
        g == task[t].got
    IN /\ writer["spans"] = t => o \in {"new", "record", "close"}
       /\ writer["stacks"] = t => o \in {"enter", "exit", "close"}
       /\ t \in readers["spans"] => \/ o = "enter" /\ g = 2
                                    \/ o = "get_span" /\ g = 1
                                    \/ o = "stats" /\ g >= 1
       /\ t \in readers["stacks"] => \/ o = "context" /\ g = 1
                                     \/ o = "stats" /\ g = 2

LockInv == TaskOK /\ RegistryOK /\ LocksOK /\ Owners

\* A step that takes the next lock of its plan.
LEMMA GotType ==
  ASSUME TaskOK, NEW t \in Threads, Waits(t), task' = [task EXCEPT ![t].got = @ + 1]
  PROVE  /\ TaskOK'
         /\ task'[t].op = task[t].op /\ task'[t].span = task[t].span
         /\ task'[t].got = task[t].got + 1
         /\ \A u \in Threads : u # t => task'[u] = task[u]
<1>1. task[t] \in Tasks /\ task[t].got + 1 \in 0..2
  BY WantsType DEF TaskOK
<1>2. [task[t] EXCEPT !.got = @ + 1] \in Tasks
  BY <1>1 DEF Tasks
<1>3. task' = [task EXCEPT ![t] = [task[t] EXCEPT !.got = @ + 1]]
  BY DEF TaskOK
<1>4. task' \in [Threads -> Tasks]
  BY <1>2, <1>3 DEF TaskOK
<1>5. /\ task'[t].op = task[t].op /\ task'[t].span = task[t].span
      /\ task'[t].got = task[t].got + 1
  BY <1>1, <1>3 DEF TaskOK, Tasks
<1>6. \A u \in Threads : u # t => task'[u] = task[u]
  BY <1>3 DEF TaskOK
<1> QED BY <1>4, <1>5, <1>6 DEF TaskOK

\* A callback that is over.
LEMMA FinishType ==
  ASSUME TaskOK, LocksOK, NEW t \in Threads, Finish(t)
  PROVE  /\ TaskOK' /\ LocksOK'
         /\ task'[t] = NoTask /\ task[t].op \in Ops \ {"none"}
         /\ \A u \in Threads : u # t => task'[u] = task[u]
         /\ \A l \in Locks : writer'[l] # t /\ (writer'[l] = writer[l] \/ writer'[l] = None)
         /\ \A l \in Locks : readers'[l] = readers[l] \ {t}
         /\ UNCHANGED registry
<1>1. NoTask \in Tasks
  BY DEF NoTask, Tasks, Ops
<1>2. task' = [task EXCEPT ![t] = NoTask]
  BY DEF Finish
<1>3. TaskOK'
  BY <1>1, <1>2 DEF TaskOK, NoTask, SpanOps
<1>4. /\ writer'  = [l \in Locks |-> IF writer[l] = t THEN None ELSE writer[l]]
      /\ readers' = [l \in Locks |-> readers[l] \ {t}]
      /\ UNCHANGED registry
  BY DEF Finish
<1>5. LocksOK'
  BY <1>4 DEF LocksOK
<1>6. task[t].op \in Ops \ {"none"}
  BY DEF Finish, Idle, TaskOK, Tasks
<1>7. task'[t] = NoTask /\ \A u \in Threads : u # t => task'[u] = task[u]
  BY <1>2 DEF TaskOK
<1>8. None # t
  OBVIOUS
<1> QED BY <1>3, <1>4, <1>5, <1>6, <1>7, <1>8

LEMMA LockStep == LockInv /\ RegistryOK' /\ [Next]_vars => LockInv'
<1> SUFFICES ASSUME LockInv, RegistryOK', [Next]_vars PROVE LockInv'
  OBVIOUS
<1>0. TaskOK /\ RegistryOK /\ LocksOK /\ Owners
  BY DEF LockInv
<1>1. ASSUME NEW t \in Threads, Claim(t) PROVE LockInv'
  <2>1. Waits(t) /\ Wants(t).excl /\ UNCHANGED <<readers, task>>
        /\ writer' = [writer EXCEPT ![Wants(t).lock] = t]
    BY <1>1 DEF Claim
  <2>2. LocksOK' /\ TaskOK'
    BY <1>0, <2>1, WantsType DEF LocksOK, TaskOK
  <2>3. Owners'
    BY <1>0, <2>1, WantsAre DEF Owners, LocksOK, Locks, Write, Read
  <2> QED BY <2>2, <2>3 DEF LockInv
<1>2. ASSUME NEW t \in Threads, AcquireWrite(t) PROVE LockInv'
  <2>1. Waits(t) /\ Wants(t).excl /\ UNCHANGED <<writer, readers>>
        /\ task' = [task EXCEPT ![t].got = @ + 1]
    BY <1>2 DEF AcquireWrite, locks
  <2>2. /\ TaskOK' /\ task'[t].op = task[t].op /\ task'[t].got = task[t].got + 1
        /\ \A u \in Threads : u # t => task'[u] = task[u]
    BY <1>0, <2>1, GotType
  <2>3. \/ task[t].op \in {"new", "record", "enter", "exit"} /\ task[t].got = 0
        \/ task[t].op = "close"
    BY <1>0, <2>1, WantsAre DEF Write, Read
  <2>4. Owners'
    BY <1>0, <2>1, <2>2, <2>3 DEF Owners
  <2> QED BY <1>0, <2>1, <2>2, <2>4 DEF LockInv, LocksOK
<1>3. ASSUME NEW t \in Threads, AcquireRead(t) PROVE LockInv'
  <2>1. Waits(t) /\ ~Wants(t).excl /\ UNCHANGED writer
        /\ readers' = [readers EXCEPT ![Wants(t).lock] = @ \cup {t}]
        /\ task' = [task EXCEPT ![t].got = @ + 1]
    BY <1>3 DEF AcquireRead
  <2>2. /\ TaskOK' /\ task'[t].op = task[t].op /\ task'[t].got = task[t].got + 1
        /\ \A u \in Threads : u # t => task'[u] = task[u]
    BY <1>0, <2>1, GotType
  <2>3. Wants(t).lock \in Locks
    BY <1>0, <2>1, WantsType
  <2>4. \/ task[t].op = "enter" /\ task[t].got = 1 /\ Wants(t).lock = "spans"
        \/ task[t].op \in {"get_span", "stats"} /\ task[t].got = 0 /\ Wants(t).lock = "spans"
        \/ task[t].op = "context" /\ task[t].got = 0 /\ Wants(t).lock = "stacks"
        \/ task[t].op = "stats" /\ task[t].got = 1 /\ Wants(t).lock = "stacks"
    BY <1>0, <2>1, WantsAre DEF Write, Read
  <2>5. LocksOK'
    BY <1>0, <2>1, <2>3 DEF LocksOK
  <2>6. /\ readers'["spans"] = IF Wants(t).lock = "spans" THEN readers["spans"] \cup {t}
                               ELSE readers["spans"]
        /\ readers'["stacks"] = IF Wants(t).lock = "stacks" THEN readers["stacks"] \cup {t}
                                ELSE readers["stacks"]
    BY <1>0, <2>1 DEF LocksOK, Locks
  <2>7. Owners'
    <3> SUFFICES ASSUME NEW u \in Threads
                 PROVE  LET o == task'[u].op
                            g == task'[u].got
                        IN /\ writer["spans"] = u => o \in {"new", "record", "close"}
                           /\ writer["stacks"] = u => o \in {"enter", "exit", "close"}
                           /\ u \in readers'["spans"] => \/ o = "enter" /\ g = 2
                                                         \/ o = "get_span" /\ g = 1
                                                         \/ o = "stats" /\ g >= 1
                           /\ u \in readers'["stacks"] => \/ o = "context" /\ g = 1
                                                          \/ o = "stats" /\ g = 2
      BY <2>1 DEF Owners
    <3>1. CASE u = t
      BY <1>0, <2>2, <2>4, <2>6, <3>1 DEF Owners
    <3>2. CASE u # t
      BY <1>0, <2>2, <2>6, <3>2 DEF Owners
    <3> QED BY <3>1, <3>2
  <2> QED BY <2>2, <2>5, <2>7 DEF LockInv
<1>4. ASSUME NEW t \in Threads, Finish(t) PROVE LockInv'
  <2>1. /\ TaskOK' /\ LocksOK'
        /\ \A u \in Threads : u # t => task'[u] = task[u]
        /\ \A l \in Locks : writer'[l] # t /\ (writer'[l] = writer[l] \/ writer'[l] = None)
        /\ \A l \in Locks : readers'[l] = readers[l] \ {t}
    BY <1>0, <1>4, FinishType
  <2>2. Owners'
    BY <1>0, <2>1 DEF Owners, Locks
  <2> QED BY <2>1, <2>2 DEF LockInv
<1>5. ASSUME NEW t \in Threads, Application(t) PROVE LockInv'
  <2>1. PICK o \in Ops \ {"none"}, s \in Spans \cup {None} :
           (o \in SpanOps => s \in Spans) /\ Begin(t, o, s)
    BY <1>0, <1>5, ApplicationBegins
  <2>2. /\ TaskOK' /\ UNCHANGED <<writer, readers>> /\ task[t].op = "none"
        /\ \A u \in Threads : u # t => task'[u] = task[u]
    BY <1>0, <2>1, BeginType
  <2>3. Owners'
    BY <1>0, <2>2 DEF Owners
  <2> QED BY <1>0, <2>2, <2>3 DEF LockInv, LocksOK
<1>6. CASE UNCHANGED vars
  BY <1>0, <1>6 DEF vars, locks, LockInv, LocksOK, TaskOK, Owners, Waits
<1> QED BY <1>1, <1>2, <1>3, <1>4, <1>5, <1>6 DEF Next, Proceed

\* A span is taken out of those a thread is in: place i goes, the rest close up.
Drop(q, i) == SubSeq(q, 1, i - 1) \o SubSeq(q, i + 1, Len(q))

LEMMA Dropped ==
  ASSUME NEW S, NEW q \in Seq(S), NEW i \in 1..Len(q)
  PROVE  /\ Drop(q, i) \in Seq(S) /\ Len(Drop(q, i)) = Len(q) - 1
         /\ \A k \in 1..(Len(q) - 1) : Drop(q, i)[k] = IF k < i THEN q[k] ELSE q[k + 1]
<1> DEFINE a == SubSeq(q, 1, i - 1)
           b == SubSeq(q, i + 1, Len(q))
<1>1. /\ a \in Seq(S) /\ Len(a) = i - 1
      /\ \A k \in 1..(i - 1) : a[k] = q[k]
  BY SubSeqProperties
<1>2. /\ b \in Seq(S) /\ Len(b) = Len(q) - i
      /\ \A k \in 1..(Len(q) - i) : b[k] = q[i + k]
  BY SubSeqProperties
<1>3. Drop(q, i) = a \o b
  BY DEF Drop
<1> HIDE DEF a, b
<1>4. /\ a \o b \in Seq(S) /\ Len(a \o b) = Len(a) + Len(b)
      /\ \A k \in 1..(Len(a) + Len(b)) :
           (a \o b)[k] = IF k <= Len(a) THEN a[k] ELSE b[k - Len(a)]
  <2>1. a \in Seq(S) /\ b \in Seq(S)
    BY <1>1, <1>2
  <2> QED BY ONLY <2>1, ConcatProperties
<1>5. Len(q) \in Nat /\ Len(a) + Len(b) = Len(q) - 1
  BY <1>1, <1>2
<1>6. ASSUME NEW k \in 1..(Len(q) - 1) PROVE (a \o b)[k] = IF k < i THEN q[k] ELSE q[k + 1]
  <2>0. (a \o b)[k] = IF k <= Len(a) THEN a[k] ELSE b[k - Len(a)]
    BY ONLY <1>4, <1>5, k \in 1..(Len(q) - 1)
  <2>1. CASE k < i
    <3>1. k <= Len(a) /\ k \in 1..(i - 1)
      BY <1>1, <2>1
    <3> QED BY ONLY <1>1, <2>0, <2>1, <3>1
  <2>2. CASE k >= i
    <3>1. /\ ~(k <= Len(a)) /\ ~(k < i) /\ k - Len(a) = k - (i - 1)
          /\ k - (i - 1) \in 1..(Len(q) - i) /\ i + (k - (i - 1)) = k + 1
      BY <1>1, <1>5, <2>2
    <3>2. b[k - (i - 1)] = q[k + 1]
      BY <1>2, <3>1
    <3> QED BY ONLY <2>0, <3>1, <3>2
  <2>3. k < i \/ k >= i
    BY <1>5
  <2> QED BY <2>1, <2>2, <2>3
<1> QED BY <1>3, <1>4, <1>5, <1>6

LEMMA RegistryType == RegistryOK /\ [Next]_vars => RegistryOK'
<1> SUFFICES ASSUME RegistryOK, [Next]_vars PROVE RegistryOK'
  OBVIOUS
<1> USE DEF RegistryOK
<1>1. ASSUME NEW t \in Threads, Proceed(t) PROVE RegistryOK'
  BY <1>1 DEF Proceed, Claim, AcquireWrite, AcquireRead, Finish, registry
<1>2. ASSUME NEW t \in Threads, NEW s \in Spans,
             NewSpan(t, s) \/ Close(t, s) \/ Record(t, s)
      PROVE  RegistryOK'
  BY <1>2 DEF NewSpan, Close, Record, registry
<1>3. ASSUME NEW t \in Threads, NEW s \in Spans, Enter(t, s) PROVE RegistryOK'
  BY <1>3 DEF Enter
<1>4. ASSUME NEW t \in Threads, NEW i \in 1..Len(entered[t]), Exit(t, i) PROVE RegistryOK'
  <2>1. entered[t] \in Seq(Spans)
    OBVIOUS
  <2>2. SubSeq(entered[t], 1, i - 1) \o SubSeq(entered[t], i + 1, Len(entered[t])) \in Seq(Spans)
    BY <2>1, Dropped DEF Drop
  <2>3. entered' \in [Threads -> Seq(Spans)]
    BY <1>4, <2>2 DEF Exit
  <2>4. lifo' \in [Threads -> BOOLEAN]
    BY <1>4 DEF Exit
  <2> QED BY <1>4, <2>3, <2>4 DEF Exit
<1>5. ASSUME NEW t \in Threads, NEW o \in {"get_span", "context", "stats"}, Look(t, o)
      PROVE  RegistryOK'
  BY <1>5 DEF Look, registry
<1>6. CASE UNCHANGED vars
  BY <1>6 DEF vars, registry
<1> QED BY <1>1, <1>2, <1>3, <1>4, <1>5, <1>6 DEF Next, Application

LEMMA LockInvariant == Spec => []LockInv
<1>1. Init => LockInv
  <2> SUFFICES ASSUME Init PROVE LockInv
    OBVIOUS
  <2>1. TaskOK
    BY DEF Init, TaskOK, Tasks, NoTask, Ops, SpanOps
  <2>2. RegistryOK /\ LocksOK
    BY DEF Init, RegistryOK, LocksOK
  <2>3. Owners
    BY DEF Init, Owners, Locks
  <2> QED BY <2>1, <2>2, <2>3 DEF LockInv
<1>2. LockInv => RegistryOK
  BY DEF LockInv
<1> QED BY <1>1, <1>2, LockStep, RegistryType, PTL DEF Spec

\* However many threads are in callbacks, one of them can go on, unless one is in
\* on_close or stats.
THEOREM JamsNeedCloseOrStats == Spec => []JamNeedsCloseOrStats
<1>1. LockInv => JamNeedsCloseOrStats
  <2> SUFFICES ASSUME LockInv, NEW t \in Threads, ~Idle(t),
                      \A u \in Threads : ~CanProceed(u) /\ task[u].op \notin {"close", "stats"}
               PROVE  FALSE
    BY DEF JamNeedsCloseOrStats
  <2>0. TaskOK /\ LocksOK /\ Owners
    BY DEF LockInv
  <2>1. \A u \in Threads : ~Idle(u) => Waits(u)
    BY DEF CanProceed
  <2>2. \A u \in Threads : u \notin readers["spans"] /\ u \notin readers["stacks"]
    <3> SUFFICES ASSUME NEW u \in Threads, u \in readers["spans"] \cup readers["stacks"]
                 PROVE  FALSE
      OBVIOUS
    <3>1. \/ task[u].op = "enter" /\ task[u].got = 2
          \/ task[u].op \in {"get_span", "context"} /\ task[u].got = 1
      BY <2>0 DEF Owners
    <3>2. Waits(u)
      BY <2>1, <3>1 DEF Idle
    <3> QED BY <2>0, <3>1, <3>2, WantsAre
  <2>3. readers["spans"] = {} /\ readers["stacks"] = {}
    BY <2>0, <2>2 DEF LocksOK, Locks
  <2>4. writer["spans"] = None
    <3> SUFFICES ASSUME writer["spans"] # None PROVE FALSE
      OBVIOUS
    <3>1. PICK u \in Threads : writer["spans"] = u
      BY <2>0 DEF LocksOK, Locks
    <3>2. task[u].op \in {"new", "record"}
      BY <2>0, <3>1 DEF Owners
    <3>3. Waits(u) /\ Wants(u) = Write("spans")
      BY <2>0, <2>1, <3>2, WantsAre DEF Idle
    <3>4. CanProceed(u)
      BY <2>3, <3>1, <3>2, <3>3 DEF CanProceed, Idle, Write
    <3> QED BY <3>4
  <2>5. writer["stacks"] = None
    <3> SUFFICES ASSUME writer["stacks"] # None PROVE FALSE
      OBVIOUS
    <3>1. PICK u \in Threads : writer["stacks"] = u
      BY <2>0 DEF LocksOK, Locks
    <3>2. task[u].op \in {"enter", "exit"}
      BY <2>0, <3>1 DEF Owners
    <3>3. Waits(u) /\ Wants(u) \in {Write("stacks"), Read("spans")}
      BY <2>0, <2>1, <3>2, WantsAre DEF Idle
    <3>4. CanProceed(u)
      BY <2>3, <2>4, <3>1, <3>2, <3>3 DEF CanProceed, Idle, Write, Read
    <3> QED BY <3>4
  <2>6. Waits(t) /\ Wants(t).lock \in Locks
    BY <2>0, <2>1, WantsType
  <2>7. CanProceed(t)
    BY <2>4, <2>5, <2>6 DEF CanProceed, Locks
  <2> QED BY <2>7
<1> QED BY <1>1, LockInvariant, PTL

-----------------------------------------------------------------------------
(* The stacks and the registry.                                            *)

\* The places of x among the spans of a thread, and on its stack.
At(q, x)   == {i \in 1..Len(q) : q[i] = x}
Held(q, x) == {i \in 1..Len(q) : q[i].id = x}

StacksOK ==
  /\ spans \subseteq Spans
  /\ DOMAIN stacks \subseteq Threads
  /\ \A t \in DOMAIN stacks : stacks[t] \in Seq(Entries) /\ stacks[t] # <<>>

\* Usable, of a registry and the threads' callbacks.
UsableIn(stat, tasks, s) ==
  stat[s] = "open" /\ ~(\E t \in Threads : tasks[t].op = "new" /\ tasks[t].span = s)

\* A span that a thread is in, or that anybody may enter, is in the table; the
\* span on_enter is at work on is the innermost one; on_close runs for a span
\* that is closed.
Registered ==
  /\ \A t \in Threads : \A i \in 1..Len(entered[t]) : UsableIn(status, task, entered[t][i])
  /\ \A s \in Spans : UsableIn(status, task, s) => s \in spans
  /\ \A t \in Threads : task[t].op = "enter" =>
       entered[t] # <<>> /\ entered[t][Len(entered[t])] = task[t].span
  /\ \A t \in Threads : task[t].op = "close" => status[task[t].span] = "closed"

\* The stack st of a thread that is in callback op for s, is in the spans e and
\* has left only innermost spans: one behind the registry while the thread is
\* in on_enter, one ahead while it is in on_exit.
Mirrors(op, s, e, st) ==
  /\ op = "enter" => Len(st) = Len(e) - 1
  /\ op = "exit"  => Len(st) = Len(e) + 1 /\ st[Len(st)].id = s
  /\ op \notin {"enter", "exit"} => Len(st) = Len(e)
  /\ \A i \in 1..Len(st) :
       /\ st[i].depth = i - 1
       /\ st[i].parent = IF i = 1 THEN None ELSE st[i - 1].id
       /\ i <= Len(e) => st[i].id = e[i]

\* The stack st has x as often as the thread is in it, but for the once that
\* on_enter has still to push; what on_exit has still to pop it has once more.
Covers(op, s, e, st, x) ==
  /\ op = "enter" /\ s = x => Cardinality(At(e, x)) <= Cardinality(Held(st, x)) + 1
  /\ op = "exit" /\ s = x  => Cardinality(At(e, x)) + 1 <= Cardinality(Held(st, x))
  /\ op \notin {"enter", "exit"} \/ s # x => Cardinality(At(e, x)) <= Cardinality(Held(st, x))

Follows(t) ==
  /\ lifo[t] => Mirrors(task[t].op, task[t].span, entered[t], StackOf(t))
  /\ \A x \in Spans : Covers(task[t].op, task[t].span, entered[t], StackOf(t), x)

StackInv ==
  /\ StacksOK /\ Registered
  /\ \A t \in Threads : Follows(t)

LEMMA Finite ==
  ASSUME NEW S, NEW q \in Seq(S), NEW x
  PROVE  /\ IsFiniteSet(At(q, x)) /\ Cardinality(At(q, x)) \in Nat
         /\ IsFiniteSet(Held(q, x)) /\ Cardinality(Held(q, x)) \in Nat
<1>1. IsFiniteSet(1..Len(q))
  BY FS_Interval
<1>2. At(q, x) \in SUBSET (1..Len(q)) /\ Held(q, x) \in SUBSET (1..Len(q))
  BY DEF At, Held
<1>3. IsFiniteSet(At(q, x)) /\ IsFiniteSet(Held(q, x))
  BY <1>1, <1>2, FS_Subset
<1> QED BY <1>3, FS_CardinalityType

LEMMA AtAppend ==
  ASSUME NEW S, NEW q \in Seq(S), NEW y \in S, NEW x
  PROVE  Cardinality(At(Append(q, y), x)) =
           IF y = x THEN Cardinality(At(q, x)) + 1 ELSE Cardinality(At(q, x))
<1>0. Len(q) \in Nat /\ Len(Append(q, y)) = Len(q) + 1
      /\ Append(q, y)[Len(q) + 1] = y /\ \A i \in 1..Len(q) : Append(q, y)[i] = q[i]
  BY AppendProperties
<1>1. CASE y = x
  <2>1. At(Append(q, y), x) = At(q, x) \cup {Len(q) + 1} /\ Len(q) + 1 \notin At(q, x)
    BY <1>0, <1>1 DEF At
  <2>2. Cardinality(At(q, x) \cup {Len(q) + 1}) = Cardinality(At(q, x)) + 1
    BY <2>1, Finite, FS_AddElement
  <2> QED BY <1>1, <2>1, <2>2
<1>2. CASE y # x
  <2>1. At(Append(q, y), x) = At(q, x)
    BY <1>0, <1>2 DEF At
  <2> QED BY <1>2, <2>1
<1> QED BY <1>1, <1>2

LEMMA HeldAppend ==
  ASSUME NEW S, NEW q \in Seq(S), NEW y \in S, NEW x
  PROVE  Cardinality(Held(Append(q, y), x)) =
           IF y.id = x THEN Cardinality(Held(q, x)) + 1 ELSE Cardinality(Held(q, x))
<1>0. Len(q) \in Nat /\ Len(Append(q, y)) = Len(q) + 1
      /\ Append(q, y)[Len(q) + 1] = y /\ \A i \in 1..Len(q) : Append(q, y)[i] = q[i]
  BY AppendProperties
<1>1. CASE y.id = x
  <2>1. Held(Append(q, y), x) = Held(q, x) \cup {Len(q) + 1} /\ Len(q) + 1 \notin Held(q, x)
    BY <1>0, <1>1 DEF Held
  <2>2. Cardinality(Held(q, x) \cup {Len(q) + 1}) = Cardinality(Held(q, x)) + 1
    BY <2>1, Finite, FS_AddElement
  <2> QED BY <1>1, <2>1, <2>2
<1>2. CASE y.id # x
  <2>1. Held(Append(q, y), x) = Held(q, x)
    BY <1>0, <1>2 DEF Held
  <2> QED BY <1>2, <2>1
<1> QED BY <1>1, <1>2

\* The innermost entry is popped.
LEMMA HeldPop ==
  ASSUME NEW S, NEW q \in Seq(S), q # <<>>, NEW x
  PROVE  LET p == SubSeq(q, 1, Len(q) - 1)
         IN /\ p \in Seq(S) /\ Len(p) = Len(q) - 1 /\ \A i \in 1..(Len(q) - 1) : p[i] = q[i]
            /\ Cardinality(Held(p, x)) =
                 IF q[Len(q)].id = x THEN Cardinality(Held(q, x)) - 1 ELSE Cardinality(Held(q, x))
<1> DEFINE p == SubSeq(q, 1, Len(q) - 1)
<1>0. Len(q) \in Nat /\ Len(q) # 0
  BY EmptySeq
<1>1. p \in Seq(S) /\ Len(p) = Len(q) - 1 /\ \A i \in 1..(Len(q) - 1) : p[i] = q[i]
  <2>1. PICK n \in Nat : n = Len(q) - 1
    BY <1>0
  <2>2. \A i \in 1..n : q[i] \in S
    BY <1>0, <2>1
  <2>3. /\ SubSeq(q, 1, n) \in Seq(S) /\ Len(SubSeq(q, 1, n)) = n
        /\ \A i \in 1..n : SubSeq(q, 1, n)[i] = q[i]
    BY <2>2, SubSeqProperties
  <2> QED BY <2>1, <2>3
<1> HIDE DEF p
<1>2. Cardinality(Held(p, x)) =
        IF q[Len(q)].id = x THEN Cardinality(Held(q, x)) - 1 ELSE Cardinality(Held(q, x))
  <2>1. CASE q[Len(q)].id = x
    <3>1. Held(p, x) = Held(q, x) \ {Len(q)} /\ Len(q) \in Held(q, x)
      BY <1>0, <1>1, <2>1 DEF Held
    <3>2. Cardinality(Held(q, x) \ {Len(q)}) = Cardinality(Held(q, x)) - 1
      BY <3>1, Finite, FS_RemoveElement
    <3> QED BY <2>1, <3>1, <3>2
  <2>2. CASE q[Len(q)].id # x
    <3>1. Held(p, x) = Held(q, x)
      BY <1>0, <1>1, <2>2 DEF Held
    <3> QED BY <2>2, <3>1
  <2> QED BY <2>1, <2>2
<1> QED BY <1>1, <1>2 DEF p

\* A span is left: it is at one place fewer, the others at no more than before.
LEMMA AtDrop ==
  ASSUME NEW S, NEW q \in Seq(S), NEW i \in 1..Len(q), NEW x
  PROVE  IF q[i] = x THEN Cardinality(At(Drop(q, i), x)) + 1 <= Cardinality(At(q, x))
                     ELSE Cardinality(At(Drop(q, i), x)) <= Cardinality(At(q, x))
<1> DEFINE d == Drop(q, i)
           from == At(d, x)
           into == At(q, x) \ {i}
           f == [k \in from |-> IF k < i THEN k ELSE k + 1]
<1>0. Len(q) \in Nat
  OBVIOUS
<1>1. /\ Len(q) \in Nat /\ d \in Seq(S) /\ Len(d) = Len(q) - 1
      /\ \A k \in 1..(Len(q) - 1) : d[k] = IF k < i THEN q[k] ELSE q[k + 1]
  BY <1>0, Dropped, Zenon
<1> HIDE DEF d
<1>2. ASSUME NEW k \in from PROVE f[k] \in into
  <2>1. k \in 1..(Len(q) - 1) /\ d[k] = x
    BY <1>1 DEF At
  <2> QED BY <1>1, <2>1 DEF At
<1>3. ASSUME NEW k \in from, NEW l \in from, f[k] = f[l] PROVE k = l
  <2>1. k \in Int /\ l \in Int
    BY <1>1 DEF At
  <2> QED BY <1>3, <2>1
<1>4. f \in Injection(from, into)
  <2> HIDE DEF into
  <2>1. f \in [from -> into]
    BY <1>2
  <2>2. DOMAIN f = from
    OBVIOUS
  <2> HIDE DEF from, f
  <2> QED BY <1>3, <2>1, <2>2 DEF Injection, IsInjective
<1>5. IsFiniteSet(At(q, x)) /\ Cardinality(At(q, x)) \in Nat
      /\ IsFiniteSet(from) /\ Cardinality(from) \in Nat
  BY <1>1, Finite
<1>6. /\ IsFiniteSet(into)
      /\ Cardinality(into) = IF i \in At(q, x) THEN Cardinality(At(q, x)) - 1 ELSE Cardinality(At(q, x))
  BY <1>5, FS_RemoveElement
<1>7. Cardinality(from) <= Cardinality(into)
  <2> HIDE DEF from, into, f
  <2> QED BY <1>4, <1>6, FS_Injection
<1>8. i \in At(q, x) <=> q[i] = x
  BY DEF At
<1> HIDE DEF into
<1> QED BY <1>5, <1>6, <1>7, <1>8 DEF d

-----------------------------------------------------------------------------
(* Vec::retain.  Counting the kept places up to and including each of them *)
(* numbers them from 1 without gaps.                                       *)

Kept(q, s) == {i \in 1..Len(q) : q[i].id # s}
RankIn(q, s, i) == Cardinality({j \in Kept(q, s) : j <= i})

LEMMA Ranks ==
  ASSUME NEW S, NEW q \in Seq(S), NEW s
  PROVE  /\ IsFiniteSet(Kept(q, s)) /\ Cardinality(Kept(q, s)) \in Nat
         /\ \A i \in Kept(q, s) : RankIn(q, s, i) \in 1..Cardinality(Kept(q, s))
         /\ \A i, j \in Kept(q, s) : RankIn(q, s, i) = RankIn(q, s, j) => i = j
         /\ \A k \in 1..Cardinality(Kept(q, s)) :
              \E i \in Kept(q, s) : RankIn(q, s, i) = k
<1> DEFINE kept == Kept(q, s)
           upto(i) == {j \in kept : j <= i}
           n == Cardinality(kept)
           rank == [i \in kept |-> RankIn(q, s, i)]
<1>1. kept \in SUBSET (1..Len(q)) /\ Len(q) \in Nat
  BY DEF Kept
<1>2. IsFiniteSet(kept) /\ n \in Nat
  <2> HIDE DEF kept
  <2>1. IsFiniteSet(1..Len(q))
    BY <1>1, FS_Interval
  <2>2. IsFiniteSet(kept)
    BY <1>1, <2>1, FS_Subset
  <2> QED BY <2>2, FS_CardinalityType
<1>3. \A i : RankIn(q, s, i) = Cardinality(upto(i))
  BY DEF RankIn
<1> HIDE DEF kept
<1>4. \A i : IsFiniteSet(upto(i)) /\ Cardinality(upto(i)) \in Nat /\ Cardinality(upto(i)) <= n
  <2> TAKE i
  <2>1. upto(i) \in SUBSET kept
    OBVIOUS
  <2>2. IsFiniteSet(upto(i)) /\ Cardinality(upto(i)) <= n
    BY <1>2, <2>1, FS_Subset
  <2> QED BY <2>2, FS_CardinalityType
<1>5. ASSUME NEW i \in kept PROVE Cardinality(upto(i)) \in 1..n
  <2>1. i \in upto(i)
    BY <1>1
  <2>2. IsFiniteSet(upto(i)) /\ Cardinality(upto(i)) \in Nat /\ Cardinality(upto(i)) <= n
    BY <1>4
  <2> HIDE DEF upto, n
  <2>3. Cardinality(upto(i)) # 0
    BY <2>1, <2>2, FS_EmptySet
  <2> QED BY <1>2, <2>2, <2>3
<1>6. ASSUME NEW i \in kept, NEW j \in kept, i < j PROVE Cardinality(upto(i)) < Cardinality(upto(j))
  <2>0. \A k \in kept : k \in Int
    BY <1>1
  <2>1. upto(i) \in SUBSET upto(j) /\ j \in upto(j) /\ j \notin upto(i)
    BY <1>6, <2>0
  <2>2. Cardinality(upto(i)) <= Cardinality(upto(j)) /\ Cardinality(upto(i)) # Cardinality(upto(j))
    BY <1>4, <2>1, FS_Subset
  <2>3. Cardinality(upto(i)) \in Nat /\ Cardinality(upto(j)) \in Nat
    BY <1>4
  <2> QED BY <2>2, <2>3
<1>7. ASSUME NEW i \in kept, NEW j \in kept, Cardinality(upto(i)) = Cardinality(upto(j)) PROVE i = j
  <2>1. i \in Int /\ j \in Int /\ ~(i < j) /\ ~(j < i)
    <3>1. ~(i < j) /\ ~(j < i)
      <4>1. Cardinality(upto(i)) \in Nat /\ Cardinality(upto(j)) \in Nat
        BY <1>4
      <4> HIDE DEF upto
      <4>2. ~(i < j)
        BY <1>6, <1>7, <4>1
      <4>3. ~(j < i)
        BY <1>6, <1>7, <4>1
      <4> QED BY <4>2, <4>3
    <3> QED BY <1>1, <3>1
  <2> QED BY <2>1
<1>8. rank \in Injection(kept, 1..n)
  <2>1. rank \in [kept -> 1..n] /\ DOMAIN rank = kept
    BY <1>3, <1>5
  <2>2. \A i, j \in kept : rank[i] = rank[j] => i = j
    BY <1>3, <1>7
  <2> HIDE DEF rank, n
  <2> QED BY <2>1, <2>2 DEF Injection, IsInjective
<1>9. rank \in Surjection(kept, 1..n)
  <2>1. IsFiniteSet(1..n) /\ Cardinality(1..n) = n
    BY <1>2, FS_Interval
  <2>2. Cardinality(kept) = Cardinality(1..n)
    BY <2>1
  <2> HIDE DEF rank, n
  <2> QED BY <1>8, <2>1, <2>2, FS_Injection
<1>10. \A k \in 1..n : \E i \in kept : rank[i] = k
  <2> HIDE DEF rank, n
  <2> QED BY <1>9 DEF Surjection
<1>11. \A k \in 1..n : \E i \in kept : RankIn(q, s, i) = k
  BY <1>10
<1>12. \A i \in kept : RankIn(q, s, i) \in 1..n
  BY <1>3, <1>5
<1>13. \A i, j \in kept : RankIn(q, s, i) = RankIn(q, s, j) => i = j
  BY <1>3, <1>7
<1> QED BY <1>2, <1>11, <1>12, <1>13 DEF kept

\* What is at each place of the new stack, and where each kept entry went.
LEMMA Retained ==
  ASSUME NEW S, NEW q \in Seq(S), NEW s
  PROVE  /\ Retain(q, s) \in Seq(S) /\ Len(Retain(q, s)) = Cardinality(Kept(q, s))
         /\ \A i \in Kept(q, s) : Retain(q, s)[RankIn(q, s, i)] = q[i]
<1> DEFINE kept == Kept(q, s)
           n == Cardinality(kept)
           nth(k) == CHOOSE i \in kept : RankIn(q, s, i) = k
<1>1. Retain(q, s) = [k \in 1..n |-> q[nth(k)]]
  BY DEF Retain, Kept, RankIn
<1>2. /\ n \in Nat
      /\ \A i \in kept : RankIn(q, s, i) \in 1..n
      /\ \A i, j \in kept : RankIn(q, s, i) = RankIn(q, s, j) => i = j
      /\ \A k \in 1..n : \E i \in kept : RankIn(q, s, i) = k
  BY Ranks
<1>3. kept \subseteq 1..Len(q)
  BY DEF Kept
<1> HIDE DEF kept, n
<1>4. \A k \in 1..n : nth(k) \in kept /\ RankIn(q, s, nth(k)) = k
  BY <1>2
<1>5. \A i \in kept : nth(RankIn(q, s, i)) = i
  BY <1>2, <1>4
<1> HIDE DEF nth
<1>6. \A k \in 1..n : q[nth(k)] \in S
  <2>1. \A i \in 1..Len(q) : q[i] \in S
    OBVIOUS
  <2> QED BY <1>3, <1>4, <2>1
<1>7. Retain(q, s) \in Seq(S) /\ Len(Retain(q, s)) = n
  BY <1>1, <1>2, <1>6
<1>8. \A i \in kept : Retain(q, s)[RankIn(q, s, i)] = q[i]
  BY <1>1, <1>2, <1>5
<1> QED BY <1>7, <1>8 DEF kept, n

\* Nothing is lost but the entries of s.
LEMMA RetainHolds ==
  ASSUME NEW S, NEW q \in Seq(S), NEW s, NEW x, x # s
  PROVE  Cardinality(Held(q, x)) <= Cardinality(Held(Retain(q, s), x))
<1> DEFINE r == Retain(q, s)
           from == Held(q, x)
           into == Held(r, x)
           f == [i \in from |-> RankIn(q, s, i)]
<1>1. /\ r \in Seq(S) /\ Len(r) = Cardinality(Kept(q, s))
      /\ \A i \in Kept(q, s) : r[RankIn(q, s, i)] = q[i]
  BY Retained
<1>2. /\ \A i \in Kept(q, s) : RankIn(q, s, i) \in 1..Cardinality(Kept(q, s))
      /\ \A i, j \in Kept(q, s) : RankIn(q, s, i) = RankIn(q, s, j) => i = j
  BY Ranks
<1>3. from \subseteq Kept(q, s) /\ \A i \in from : q[i].id = x
  BY DEF Held, Kept
<1> HIDE DEF r
<1>4. f \in [from -> into] /\ DOMAIN f = from
  <2>1. \A i \in from : RankIn(q, s, i) \in into
    BY <1>1, <1>2, <1>3 DEF Held
  <2> HIDE DEF from, into
  <2> QED BY <2>1
<1>5. \A i, j \in from : f[i] = f[j] => i = j
  <2> HIDE DEF from
  <2> QED BY <1>2, <1>3
<1>6. IsFiniteSet(into)
  BY <1>1, Finite
<1>7. f \in Injection(from, into)
  <2> HIDE DEF f, from, into
  <2> QED BY <1>4, <1>5 DEF Injection, IsInjective
<1>8. Cardinality(from) <= Cardinality(into)
  <2> HIDE DEF f, from, into
  <2> QED BY <1>6, <1>7, FS_Injection
<1> QED BY <1>8 DEF r

\* A stack without s stays as it is.
LEMMA RetainAll ==
  ASSUME NEW S, NEW q \in Seq(S), NEW s, \A i \in 1..Len(q) : q[i].id # s
  PROVE  Retain(q, s) = q
<1>0. Len(q) \in Nat
  OBVIOUS
<1>1. Kept(q, s) = 1..Len(q)
  BY DEF Kept
<1>2. Cardinality(Kept(q, s)) = Len(q)
  <2>1. Cardinality(1..Len(q)) = IF 1 > Len(q) THEN 0 ELSE Len(q) - 1 + 1
    BY <1>0, FS_Interval
  <2> QED BY <1>0, <1>1, <2>1
<1>3. \A i \in 1..Len(q) : RankIn(q, s, i) = i
  <2> TAKE i \in 1..Len(q)
  <2>1. {j \in Kept(q, s) : j <= i} = 1..i
    BY <1>0, <1>1
  <2>2. i \in Int /\ Cardinality(1..i) = i
    BY <1>0, FS_Interval
  <2> QED BY <2>1, <2>2 DEF RankIn
<1>4. /\ Retain(q, s) \in Seq(S) /\ Len(Retain(q, s)) = Len(q)
      /\ \A i \in 1..Len(q) : Retain(q, s)[i] = q[i]
  BY <1>1, <1>2, <1>3, Retained
<1> HIDE DEF Retain
<1> QED BY <1>4, SeqEqual

-----------------------------------------------------------------------------
(* What each callback, and its beginning, does to the relation between the *)
(* spans e of a thread and its stack st.                                   *)

PlainOps == Ops \ {"enter", "exit"}

LEMMA Plainly ==
  ASSUME NEW o \in PlainOps, NEW u \in PlainOps, NEW s, NEW r, NEW e, NEW st
  PROVE  /\ Mirrors(o, s, e, st) => Mirrors(u, r, e, st)
         /\ \A x : Covers(o, s, e, st, x) => Covers(u, r, e, st, x)
  BY DEF PlainOps, Mirrors, Covers

LEMMA EnterBegins ==
  ASSUME NEW o \in PlainOps, NEW r, NEW e \in Seq(Spans), NEW st \in Seq(Entries), NEW s \in Spans
  PROVE  /\ Mirrors(o, r, e, st) => Mirrors("enter", s, Append(e, s), st)
         /\ \A x \in Spans : Covers(o, r, e, st, x) => Covers("enter", s, Append(e, s), st, x)
<1>0. /\ Len(e) \in Nat /\ Len(st) \in Nat /\ Len(Append(e, s)) = Len(e) + 1
      /\ \A i \in 1..Len(e) : Append(e, s)[i] = e[i]
  BY AppendProperties
<1>1. Mirrors(o, r, e, st) => Mirrors("enter", s, Append(e, s), st)
  BY <1>0 DEF PlainOps, Mirrors
<1>2. ASSUME NEW x \in Spans, Covers(o, r, e, st, x) PROVE Covers("enter", s, Append(e, s), st, x)
  <2>1. Cardinality(At(e, x)) \in Nat /\ Cardinality(Held(st, x)) \in Nat
    BY Finite
  <2>2. Cardinality(At(Append(e, s), x)) =
           IF s = x THEN Cardinality(At(e, x)) + 1 ELSE Cardinality(At(e, x))
    BY AtAppend
  <2>3. Cardinality(At(e, x)) <= Cardinality(Held(st, x))
    BY <1>2 DEF Covers, PlainOps
  <2> QED BY <2>1, <2>2, <2>3 DEF Covers
<1> QED BY <1>1, <1>2

EntryFor(s, st) == [id |-> s, depth |-> Len(st),
                    parent |-> IF st = <<>> THEN None ELSE st[Len(st)].id]

LEMMA EnterEnds ==
  ASSUME NEW e \in Seq(Spans), NEW st \in Seq(Entries), NEW s \in Spans,
         e # <<>>, e[Len(e)] = s
  PROVE  /\ Append(st, EntryFor(s, st)) \in Seq(Entries) /\ Append(st, EntryFor(s, st)) # <<>>
         /\ Mirrors("enter", s, e, st) => Mirrors("none", None, e, Append(st, EntryFor(s, st)))
         /\ \A x \in Spans :
              Covers("enter", s, e, st, x) => Covers("none", None, e, Append(st, EntryFor(s, st)), x)
<1> DEFINE y == EntryFor(s, st)
           new == Append(st, y)
<1>0. Len(st) \in Nat /\ Len(e) \in Nat /\ Len(e) # 0 /\ (st = <<>> <=> Len(st) = 0)
  BY EmptySeq
<1>1. y \in Entries /\ y.id = s /\ y.depth = Len(st)
      /\ y.parent = IF Len(st) = 0 THEN None ELSE st[Len(st)].id
  <2>1. Len(st) # 0 => st[Len(st)] \in Entries
    BY <1>0
  <2>2. (IF st = <<>> THEN None ELSE st[Len(st)].id) \in Spans \cup {None}
    BY <1>0, <2>1 DEF Entries
  <2> QED BY <1>0, <2>2 DEF EntryFor, Entries
<1> HIDE DEF y
<1>2. /\ new \in Seq(Entries) /\ Len(new) = Len(st) + 1 /\ new[Len(st) + 1] = y
      /\ \A i \in 1..Len(st) : new[i] = st[i]
  BY <1>1, AppendProperties
<1>3. new # <<>>
  BY <1>0, <1>2, EmptySeq
<1>4. \A x : Cardinality(Held(new, x)) =
               IF s = x THEN Cardinality(Held(st, x)) + 1 ELSE Cardinality(Held(st, x))
  BY <1>1, HeldAppend
<1> HIDE DEF new
<1>5. ASSUME Mirrors("enter", s, e, st) PROVE Mirrors("none", None, e, new)
  <2>1. Len(st) = Len(e) - 1 /\ Len(new) = Len(e)
    BY <1>0, <1>2, <1>5 DEF Mirrors
  <2>2. ASSUME NEW i \in 1..Len(new)
        PROVE  /\ new[i].depth = i - 1
               /\ new[i].parent = IF i = 1 THEN None ELSE new[i - 1].id
               /\ i <= Len(e) => new[i].id = e[i]
    <3>1. CASE i \in 1..Len(st)
      <4>1. new[i] = st[i] /\ (i # 1 => i - 1 \in 1..Len(st) /\ new[i - 1] = st[i - 1])
        BY <1>0, <1>2, <3>1
      <4>2. /\ st[i].depth = i - 1
            /\ st[i].parent = IF i = 1 THEN None ELSE st[i - 1].id
            /\ i <= Len(e) => st[i].id = e[i]
        BY <1>5, <3>1 DEF Mirrors
      <4> QED BY <4>1, <4>2
    <3>2. CASE i = Len(st) + 1
      <4>1. new[i] = y /\ i - 1 = Len(st) /\ i = Len(e)
        BY <1>0, <1>2, <2>1, <3>2
      <4>2. i # 1 => new[i - 1] = st[Len(st)]
        BY <1>0, <1>2, <3>2
      <4>3. i = 1 <=> Len(st) = 0
        BY <1>0, <3>2
      <4> QED BY <1>1, <4>1, <4>2, <4>3
    <3> QED BY <1>0, <1>2, <3>1, <3>2
  <2> QED BY <2>1, <2>2 DEF Mirrors
<1>6. ASSUME NEW x \in Spans, Covers("enter", s, e, st, x) PROVE Covers("none", None, e, new, x)
  <2>1. Cardinality(At(e, x)) \in Nat /\ Cardinality(Held(st, x)) \in Nat
    BY Finite
  <2> QED BY <1>4, <1>6, <2>1 DEF Covers
<1> QED BY <1>2, <1>3, <1>5, <1>6 DEF new, y

LEMMA ExitBegins ==
  ASSUME NEW o \in PlainOps, NEW r, NEW e \in Seq(Spans), NEW st \in Seq(Entries),
         NEW i \in 1..Len(e)
  PROVE  /\ Mirrors(o, r, e, st) /\ i = Len(e) => Mirrors("exit", e[i], Drop(e, i), st)
         /\ \A x \in Spans : Covers(o, r, e, st, x) => Covers("exit", e[i], Drop(e, i), st, x)
<1>0. /\ Len(e) \in Nat /\ Len(st) \in Nat
      /\ Drop(e, i) \in Seq(Spans) /\ Len(Drop(e, i)) = Len(e) - 1
      /\ \A k \in 1..(Len(e) - 1) : Drop(e, i)[k] = IF k < i THEN e[k] ELSE e[k + 1]
  <2>1. Len(e) \in Nat /\ Len(st) \in Nat
    OBVIOUS
  <2> QED BY <2>1, Dropped, Zenon
<1>1. ASSUME Mirrors(o, r, e, st), i = Len(e) PROVE Mirrors("exit", e[i], Drop(e, i), st)
  <2>1. Len(st) = Len(e) /\ \A k \in 1..Len(st) : st[k].id = e[k]
    BY <1>0, <1>1 DEF Mirrors, PlainOps
  <2>2. Len(st) = Len(Drop(e, i)) + 1 /\ st[Len(st)].id = e[i]
    BY <1>0, <1>1, <2>1
  <2>3. \A k \in 1..Len(st) : k <= Len(Drop(e, i)) => st[k].id = Drop(e, i)[k]
    BY <1>0, <1>1, <2>1
  <2>4. \A k \in 1..Len(st) : st[k].depth = k - 1
                              /\ st[k].parent = IF k = 1 THEN None ELSE st[k - 1].id
    BY <1>1 DEF Mirrors
  <2> QED BY <2>2, <2>3, <2>4 DEF Mirrors
<1>2. ASSUME NEW x \in Spans, Covers(o, r, e, st, x) PROVE Covers("exit", e[i], Drop(e, i), st, x)
  <2>1. /\ Cardinality(At(e, x)) \in Nat /\ Cardinality(Held(st, x)) \in Nat
        /\ Cardinality(At(Drop(e, i), x)) \in Nat
    BY <1>0, Finite
  <2>2. IF e[i] = x THEN Cardinality(At(Drop(e, i), x)) + 1 <= Cardinality(At(e, x))
                    ELSE Cardinality(At(Drop(e, i), x)) <= Cardinality(At(e, x))
    BY AtDrop
  <2>3. Cardinality(At(e, x)) <= Cardinality(Held(st, x))
    BY <1>2 DEF Covers, PlainOps
  <2> QED BY <2>1, <2>2, <2>3 DEF Covers
<1> QED BY <1>1, <1>2

\* on_exit pops the innermost entry if it is of s, and otherwise does nothing.
Popped(st, s) == IF st # <<>> /\ st[Len(st)].id = s THEN SubSeq(st, 1, Len(st) - 1) ELSE st

LEMMA ExitEnds ==
  ASSUME NEW e \in Seq(Spans), NEW st \in Seq(Entries), NEW s \in Spans
  PROVE  /\ Popped(st, s) \in Seq(Entries)
         /\ Mirrors("exit", s, e, st) => Mirrors("none", None, e, Popped(st, s))
         /\ \A x \in Spans :
              Covers("exit", s, e, st, x) => Covers("none", None, e, Popped(st, s), x)
<1> DEFINE p == SubSeq(st, 1, Len(st) - 1)
<1>0. Len(st) \in Nat /\ Len(e) \in Nat /\ (st = <<>> <=> Len(st) = 0)
  BY EmptySeq
<1>1. st # <<>> => /\ p \in Seq(Entries) /\ Len(p) = Len(st) - 1
                   /\ \A i \in 1..(Len(st) - 1) : p[i] = st[i]
  BY HeldPop
<1>2. \A x : st # <<>> =>
         Cardinality(Held(p, x)) = IF st[Len(st)].id = x THEN Cardinality(Held(st, x)) - 1
                                                         ELSE Cardinality(Held(st, x))
  BY HeldPop
<1>3. Popped(st, s) = IF st # <<>> /\ st[Len(st)].id = s THEN p ELSE st
  BY DEF Popped
<1> HIDE DEF p
<1>4. Popped(st, s) \in Seq(Entries)
  BY <1>1, <1>3
<1>5. ASSUME Mirrors("exit", s, e, st) PROVE Mirrors("none", None, e, Popped(st, s))
  <2>1. st # <<>> /\ st[Len(st)].id = s /\ Len(st) = Len(e) + 1
    BY <1>0, <1>5 DEF Mirrors
  <2>2. Popped(st, s) = p /\ Len(p) = Len(e) /\ \A i \in 1..Len(p) : p[i] = st[i] /\ i \in 1..Len(st)
    BY <1>0, <1>1, <1>3, <2>1
  <2>3. \A i \in 1..Len(p) : i # 1 => p[i - 1] = st[i - 1]
    BY <1>0, <2>2
  <2>4. \A i \in 1..Len(st) : /\ st[i].depth = i - 1
                              /\ st[i].parent = IF i = 1 THEN None ELSE st[i - 1].id
                              /\ i <= Len(e) => st[i].id = e[i]
    BY <1>5 DEF Mirrors
  <2> QED BY <2>2, <2>3, <2>4 DEF Mirrors
<1>6. ASSUME NEW x \in Spans, Covers("exit", s, e, st, x) PROVE Covers("none", None, e, Popped(st, s), x)
  <2>1. Cardinality(At(e, x)) \in Nat /\ Cardinality(Held(st, x)) \in Nat
    BY Finite
  <2>2. CASE st # <<>> /\ st[Len(st)].id = s
    BY <1>2, <1>3, <1>6, <2>1, <2>2 DEF Covers
  <2>3. CASE ~(st # <<>> /\ st[Len(st)].id = s)
    BY <1>3, <1>6, <2>1, <2>3 DEF Covers
  <2> QED BY <2>2, <2>3
<1> QED BY <1>4, <1>5, <1>6

\* on_close: the thread is not in s.
LEMMA CloseEnds ==
  ASSUME NEW e \in Seq(Spans), NEW st \in Seq(Entries), NEW s \in Spans,
         \A i \in 1..Len(e) : e[i] # s
  PROVE  /\ Retain(st, s) \in Seq(Entries)
         /\ Mirrors("close", s, e, st) => Mirrors("none", None, e, Retain(st, s))
         /\ \A x \in Spans :
              Covers("close", s, e, st, x) => Covers("none", None, e, Retain(st, s), x)
<1>1. Retain(st, s) \in Seq(Entries)
  BY Retained
<1>2. ASSUME Mirrors("close", s, e, st) PROVE Mirrors("none", None, e, Retain(st, s))
  <2>0. Len(e) \in Nat
    OBVIOUS
  <2>1. \A i \in 1..Len(st) : st[i].id # s
    BY <1>2, <2>0 DEF Mirrors
  <2>2. Retain(st, s) = st
    BY <2>1, RetainAll
  <2> QED BY <1>2, <2>2 DEF Mirrors
<1>3. ASSUME NEW x \in Spans, Covers("close", s, e, st, x) PROVE Covers("none", None, e, Retain(st, s), x)
  <2>1. /\ Cardinality(At(e, x)) \in Nat /\ Cardinality(Held(st, x)) \in Nat
        /\ Cardinality(Held(Retain(st, s), x)) \in Nat
    BY <1>1, Finite
  <2>2. CASE x = s
    <3>1. At(e, x) = {}
      BY <2>2 DEF At
    <3>2. Cardinality(At(e, x)) = 0
      BY <3>1, FS_EmptySet
    <3> QED BY <2>1, <3>2 DEF Covers
  <2>3. CASE x # s
    <3>1. Cardinality(Held(st, x)) <= Cardinality(Held(Retain(st, s), x))
      BY <2>3, RetainHolds
    <3> QED BY <1>3, <2>1, <3>1 DEF Covers
  <2> QED BY <2>2, <2>3
<1> QED BY <1>1, <1>2, <1>3

-----------------------------------------------------------------------------
(* The steps.                                                              *)

LEMMA StackType ==
  ASSUME StacksOK, NEW t \in Threads
  PROVE  StackOf(t) \in Seq(Entries) /\ (t \notin DOMAIN stacks <=> StackOf(t) = <<>>)
<1>1. <<>> \in Seq(Entries)
  OBVIOUS
<1> QED BY <1>1 DEF StacksOK, StackOf

LEMMA SetStackDoes ==
  ASSUME StacksOK, NEW t \in DOMAIN stacks, NEW new \in Seq(Entries), SetStack(t, new),
         spans' \subseteq Spans
  PROVE  /\ StacksOK'
         /\ StackOf(t)' = new
         /\ \A u \in Threads : u # t => StackOf(u)' = StackOf(u)
<1>1. CASE new = <<>>
  <2>1. stacks' = [u \in DOMAIN stacks \ {t} |-> stacks[u]]
    BY <1>1 DEF SetStack, Restrict
  <2>2. DOMAIN stacks' = DOMAIN stacks \ {t} /\ \A u \in DOMAIN stacks \ {t} : stacks'[u] = stacks[u]
    BY <2>1
  <2>3. StacksOK'
    BY <2>2 DEF StacksOK
  <2> QED BY <1>1, <2>2, <2>3 DEF StackOf
<1>2. CASE new # <<>>
  <2>1. stacks' = [stacks EXCEPT ![t] = new]
    BY <1>2 DEF SetStack
  <2>2. DOMAIN stacks' = DOMAIN stacks /\ stacks'[t] = new
        /\ \A u \in DOMAIN stacks : u # t => stacks'[u] = stacks[u]
    BY <2>1
  <2>3. StacksOK'
    BY <1>2, <2>2 DEF StacksOK
  <2> QED BY <2>2, <2>3 DEF StackOf
<1> QED BY <1>1, <1>2

\* A thread whose stack, spans and callback stay as they are.
LEMMA FollowsStill ==
  ASSUME NEW u \in Threads, Follows(u), lifo'[u] = lifo[u], entered'[u] = entered[u],
         task'[u].op = task[u].op, task'[u].span = task[u].span, StackOf(u)' = StackOf(u)
  PROVE  Follows(u)'
  BY DEF Follows

\* A lock is claimed or got.
LEMMA StackWaits ==
  ASSUME StackInv, TaskOK, NEW t \in Threads, Claim(t) \/ AcquireWrite(t) \/ AcquireRead(t)
  PROVE  StackInv'
<1>1. /\ UNCHANGED <<spans, stacks, status, entered, lifo>>
      /\ \A u \in Threads : task'[u].op = task[u].op /\ task'[u].span = task[u].span
  <2>1. CASE Claim(t)
    BY <2>1 DEF Claim, tables, registry
  <2>2. CASE AcquireWrite(t) \/ AcquireRead(t)
    <3>1. Waits(t) /\ task' = [task EXCEPT ![t].got = @ + 1]
      BY <2>2 DEF AcquireWrite, AcquireRead
    <3>2. \A u \in Threads : task'[u].op = task[u].op /\ task'[u].span = task[u].span
      BY <3>1, GotType
    <3> QED BY <2>2, <3>2 DEF AcquireWrite, AcquireRead, tables, registry
  <2> QED BY <2>1, <2>2
<1>2. StacksOK'
  BY <1>1 DEF StackInv, StacksOK
<1>3. Registered'
  BY <1>1 DEF StackInv, Registered, UsableIn
<1>4. \A u \in Threads : Follows(u)'
  BY <1>1, FollowsStill DEF StackInv, StackOf
<1> QED BY <1>2, <1>3, <1>4 DEF StackInv

\* A callback other than on_enter and on_exit begins.
LEMMA StackPlain ==
  ASSUME StackInv, TaskOK, RegistryOK, NEW t \in Threads,
         NEW o \in PlainOps, NEW s \in Spans \cup {None}, o \in SpanOps => s \in Spans,
         Begin(t, o, s), UNCHANGED <<entered, lifo>>
  PROVE  StacksOK' /\ \A u \in Threads : Follows(u)'
<1>0. o \in Ops
  BY DEF PlainOps
<1>1. /\ task'[t].op = o /\ task'[t].span = s /\ task[t].op = "none"
      /\ \A u \in Threads : u # t => task'[u] = task[u]
      /\ UNCHANGED <<spans, stacks>>
  BY <1>0, BeginType
<1>2. StacksOK'
  BY <1>1 DEF StackInv, StacksOK
<1>3. \A u \in Threads : StackOf(u)' = StackOf(u) /\ Follows(u)
  BY <1>1 DEF StackOf, StackInv
<1>4. \A u \in Threads : u # t => Follows(u)'
  BY <1>1, <1>3, FollowsStill
<1>5. Follows(t)'
  <2>1. "none" \in PlainOps
    BY DEF PlainOps, Ops
  <2>2. /\ Mirrors("none", task[t].span, entered[t], StackOf(t)) => Mirrors(o, s, entered[t], StackOf(t))
        /\ \A x : Covers("none", task[t].span, entered[t], StackOf(t), x)
                    => Covers(o, s, entered[t], StackOf(t), x)
    BY <2>1, Plainly
  <2>3. /\ lifo[t] => Mirrors("none", task[t].span, entered[t], StackOf(t))
        /\ \A x \in Spans : Covers("none", task[t].span, entered[t], StackOf(t), x)
    BY <1>1, <1>3 DEF Follows
  <2> QED BY <1>1, <1>3, <2>2, <2>3 DEF Follows
<1> QED BY <1>2, <1>4, <1>5

LEMMA StackEnter ==
  ASSUME StackInv, TaskOK, RegistryOK, NEW t \in Threads, NEW s \in Spans, Enter(t, s)
  PROVE  StackInv'
<1>0. "enter" \in Ops /\ "none" \in PlainOps
  BY DEF Ops, PlainOps
<1>1. /\ task'[t].op = "enter" /\ task'[t].span = s /\ task[t].op = "none"
      /\ \A u \in Threads : u # t => task'[u] = task[u]
      /\ UNCHANGED <<spans, stacks>>
  BY <1>0, BeginType DEF Enter
<1>2. /\ UsableIn(status, task, s) /\ UNCHANGED <<status, lifo>>
      /\ entered' = [entered EXCEPT ![t] = Append(@, s)]
  BY DEF Enter, Usable, Pending, UsableIn
<1>3. /\ entered[t] \in Seq(Spans) /\ entered'[t] = Append(entered[t], s)
      /\ \A u \in Threads : u # t => entered'[u] = entered[u]
  BY <1>2 DEF RegistryOK
<1>4. /\ Len(entered[t]) \in Nat /\ Len(entered'[t]) = Len(entered[t]) + 1
      /\ entered'[t][Len(entered[t]) + 1] = s
      /\ \A i \in 1..Len(entered[t]) : entered'[t][i] = entered[t][i]
  BY <1>3, AppendProperties
<1>5. \A r \in Spans : UsableIn(status', task', r) <=> UsableIn(status, task, r)
  BY <1>1, <1>2 DEF UsableIn
<1>6. Registered'
  <2>1. \A u \in Threads : \A i \in 1..Len(entered'[u]) : UsableIn(status', task', entered'[u][i])
    <3> SUFFICES ASSUME NEW u \in Threads, NEW i \in 1..Len(entered'[u])
                 PROVE  UsableIn(status', task', entered'[u][i])
      OBVIOUS
    <3>1. CASE u = t /\ i = Len(entered[t]) + 1
      BY <1>2, <1>4, <1>5, <3>1
    <3>2. CASE u # t \/ i # Len(entered[t]) + 1
      <4>1. i \in 1..Len(entered[u]) /\ entered'[u][i] = entered[u][i]
        BY <1>3, <1>4, <3>2
      <4>2. entered[u][i] \in Spans /\ UsableIn(status, task, entered[u][i])
        BY <4>1 DEF StackInv, Registered, RegistryOK
      <4> QED BY <1>5, <4>1, <4>2
    <3> QED BY <3>1, <3>2
  <2>2. \A r \in Spans : UsableIn(status', task', r) => r \in spans'
    BY <1>1, <1>5 DEF StackInv, Registered
  <2>3. \A u \in Threads : task'[u].op = "enter" =>
          entered'[u] # <<>> /\ entered'[u][Len(entered'[u])] = task'[u].span
    <3>1. entered'[t] # <<>> /\ entered'[t][Len(entered'[t])] = s
      BY <1>3, <1>4, EmptySeq
    <3> QED BY <1>1, <1>3, <3>1 DEF StackInv, Registered
  <2>4. \A u \in Threads : task'[u].op = "close" => status'[task'[u].span] = "closed"
    BY <1>1, <1>2 DEF StackInv, Registered
  <2> QED BY <2>1, <2>2, <2>3, <2>4 DEF Registered
<1>7. StacksOK'
  BY <1>1 DEF StackInv, StacksOK
<1>8. \A u \in Threads : StackOf(u)' = StackOf(u) /\ Follows(u)
  BY <1>1 DEF StackOf, StackInv
<1>9. \A u \in Threads : u # t => Follows(u)'
  BY <1>1, <1>2, <1>3, <1>8, FollowsStill
<1>10. Follows(t)'
  <2>1. StackOf(t) \in Seq(Entries)
    BY StackType DEF StackInv
  <2>2. /\ Mirrors("none", task[t].span, entered[t], StackOf(t))
             => Mirrors("enter", s, entered'[t], StackOf(t))
        /\ \A x \in Spans : Covers("none", task[t].span, entered[t], StackOf(t), x)
             => Covers("enter", s, entered'[t], StackOf(t), x)
    <3>1. PICK e \in Seq(Spans), st \in Seq(Entries) : e = entered[t] /\ st = StackOf(t)
      BY <1>3, <2>1
    <3>2. PICK r : r = task[t].span
      OBVIOUS
    <3>3. /\ Mirrors("none", r, e, st) => Mirrors("enter", s, Append(e, s), st)
          /\ \A x \in Spans : Covers("none", r, e, st, x) => Covers("enter", s, Append(e, s), st, x)
      BY <1>0, EnterBegins
    <3> QED BY <1>3, <3>1, <3>2, <3>3
  <2>3. /\ lifo[t] => Mirrors("none", task[t].span, entered[t], StackOf(t))
        /\ \A x \in Spans : Covers("none", task[t].span, entered[t], StackOf(t), x)
    BY <1>1, <1>8 DEF Follows
  <2> QED BY <1>1, <1>2, <1>8, <2>2, <2>3 DEF Follows
<1> QED BY <1>6, <1>7, <1>9, <1>10 DEF StackInv

LEMMA StackExit ==
  ASSUME StackInv, TaskOK, RegistryOK, NEW t \in Threads, NEW i \in 1..Len(entered[t]), Exit(t, i)
  PROVE  StackInv'
<1> DEFINE s == entered[t][i]
<1>0. "exit" \in Ops /\ "none" \in PlainOps /\ entered[t] \in Seq(Spans) /\ s \in Spans
  BY DEF Ops, PlainOps, RegistryOK
<1>1. /\ task'[t].op = "exit" /\ task'[t].span = s /\ task[t].op = "none"
      /\ \A u \in Threads : u # t => task'[u] = task[u]
      /\ UNCHANGED <<spans, stacks>>
  BY <1>0, BeginType DEF Exit
<1>2. /\ UNCHANGED status
      /\ entered' = [entered EXCEPT ![t] = Drop(entered[t], i)]
      /\ lifo' = [lifo EXCEPT ![t] = lifo[t] /\ i = Len(entered[t])]
  BY DEF Exit, Drop, RegistryOK
<1>3. /\ entered'[t] = Drop(entered[t], i)
      /\ \A u \in Threads : u # t => entered'[u] = entered[u] /\ lifo'[u] = lifo[u]
      /\ lifo'[t] <=> lifo[t] /\ i = Len(entered[t])
  BY <1>2 DEF RegistryOK
<1>4. /\ Len(entered[t]) \in Nat /\ Len(entered'[t]) = Len(entered[t]) - 1
      /\ \A k \in 1..(Len(entered[t]) - 1) :
           entered'[t][k] = IF k < i THEN entered[t][k] ELSE entered[t][k + 1]
  <2>1. PICK e \in Seq(Spans) : e = entered[t]
    BY <1>0
  <2>2. i \in 1..Len(e) /\ Len(e) \in Nat
    BY <2>1
  <2>3. /\ Len(Drop(e, i)) = Len(e) - 1
        /\ \A k \in 1..(Len(e) - 1) : Drop(e, i)[k] = IF k < i THEN e[k] ELSE e[k + 1]
    BY <2>2, Dropped
  <2> QED BY <1>3, <2>1, <2>2, <2>3
<1>5. \A r \in Spans : UsableIn(status', task', r) <=> UsableIn(status, task, r)
  BY <1>1, <1>2 DEF UsableIn
<1>6. Registered'
  <2>1. \A u \in Threads : \A k \in 1..Len(entered'[u]) : UsableIn(status', task', entered'[u][k])
    <3> SUFFICES ASSUME NEW u \in Threads, NEW k \in 1..Len(entered'[u])
                 PROVE  UsableIn(status', task', entered'[u][k])
      OBVIOUS
    <3>1. \E j \in 1..Len(entered[u]) : entered'[u][k] = entered[u][j]
      <4>1. CASE u # t
        BY <1>3, <4>1
      <4>2. CASE u = t /\ k < i
        <5>1. k \in 1..Len(entered[t]) /\ entered'[t][k] = entered[t][k]
          BY <1>4, <4>2
        <5> QED BY <4>2, <5>1
      <4>3. CASE u = t /\ ~(k < i)
        <5>1. k + 1 \in 1..Len(entered[t]) /\ entered'[t][k] = entered[t][k + 1]
          BY <1>4, <4>3
        <5> QED BY <4>3, <5>1
      <4> QED BY <4>1, <4>2, <4>3
    <3>2. PICK j \in 1..Len(entered[u]) : entered'[u][k] = entered[u][j]
      BY <3>1
    <3>3. entered[u][j] \in Spans /\ UsableIn(status, task, entered[u][j])
      BY DEF StackInv, Registered, RegistryOK
    <3> QED BY <1>5, <3>2, <3>3
  <2>2. \A r \in Spans : UsableIn(status', task', r) => r \in spans'
    BY <1>1, <1>5 DEF StackInv, Registered
  <2>3. \A u \in Threads : task'[u].op = "enter" =>
          entered'[u] # <<>> /\ entered'[u][Len(entered'[u])] = task'[u].span
    BY <1>1, <1>3 DEF StackInv, Registered
  <2>4. \A u \in Threads : task'[u].op = "close" => status'[task'[u].span] = "closed"
    BY <1>1, <1>2 DEF StackInv, Registered
  <2> QED BY <2>1, <2>2, <2>3, <2>4 DEF Registered
<1>7. StacksOK'
  BY <1>1 DEF StackInv, StacksOK
<1>8. \A u \in Threads : StackOf(u)' = StackOf(u) /\ Follows(u)
  BY <1>1 DEF StackOf, StackInv
<1>9. \A u \in Threads : u # t => Follows(u)'
  BY <1>1, <1>3, <1>8, FollowsStill
<1>10. Follows(t)'
  <2>1. StackOf(t) \in Seq(Entries)
    BY StackType DEF StackInv
  <2>2. /\ Mirrors("none", task[t].span, entered[t], StackOf(t)) /\ i = Len(entered[t])
             => Mirrors("exit", s, entered'[t], StackOf(t))
        /\ \A x \in Spans : Covers("none", task[t].span, entered[t], StackOf(t), x)
             => Covers("exit", s, entered'[t], StackOf(t), x)
    <3>1. PICK e \in Seq(Spans), st \in Seq(Entries) : e = entered[t] /\ st = StackOf(t)
      BY <1>0, <2>1
    <3>2. PICK r : r = task[t].span
      OBVIOUS
    <3>3. i \in 1..Len(e)
      BY <3>1
    <3>4. /\ Mirrors("none", r, e, st) /\ i = Len(e) => Mirrors("exit", e[i], Drop(e, i), st)
          /\ \A x \in Spans : Covers("none", r, e, st, x) => Covers("exit", e[i], Drop(e, i), st, x)
      BY <1>0, <3>3, ExitBegins
    <3> QED BY <1>3, <3>1, <3>2, <3>4
  <2>3. /\ lifo[t] => Mirrors("none", task[t].span, entered[t], StackOf(t))
        /\ \A x \in Spans : Covers("none", task[t].span, entered[t], StackOf(t), x)
    BY <1>1, <1>8 DEF Follows
  <2> QED BY <1>1, <1>3, <1>8, <2>2, <2>3 DEF Follows
<1> QED BY <1>6, <1>7, <1>9, <1>10 DEF StackInv

\* A callback ends: what it leaves on the stack of its thread.
LEMMA StackFinish ==
  ASSUME StackInv, TaskOK, LocksOK, RegistryOK, NEW t \in Threads, Finish(t)
  PROVE  StackInv'
<1> DEFINE s == task[t].span
           e == entered[t]
           st == StackOf(t)
           new == StackOf(t)'
<1>0. StacksOK /\ Registered /\ (\A u \in Threads : Follows(u))
  BY DEF StackInv
<1>1. /\ task'[t] = NoTask /\ task[t].op \in Ops \ {"none"}
      /\ \A u \in Threads : u # t => task'[u] = task[u]
      /\ UNCHANGED <<status, entered, lifo>>
  BY FinishType DEF registry
<1>2. task'[t].op = "none" /\ task'[t].span = None
  BY <1>1 DEF NoTask
<1>3. task[t].op \in SpanOps => s \in Spans
  BY DEF TaskOK
<1>4. e \in Seq(Spans) /\ st \in Seq(Entries) /\ (t \notin DOMAIN stacks <=> st = <<>>)
      /\ (t \in DOMAIN stacks => st = stacks[t])
  BY <1>0, StackType DEF RegistryOK, StackOf
<1>5. ASSUME StacksOK',
             \A u \in Threads : u # t => StackOf(u)' = StackOf(u),
             Mirrors(task[t].op, s, e, st) => Mirrors("none", None, e, new),
             \A x \in Spans : Covers(task[t].op, s, e, st, x) => Covers("none", None, e, new, x),
             \A r \in Spans : UsableIn(status', task', r) => r \in spans'
      PROVE  StackInv'
  <2>1. \A u \in Threads : u # t => Follows(u)'
    BY <1>0, <1>1, <1>5, FollowsStill
  <2>2. Follows(t)'
    <3>1. /\ lifo[t] => Mirrors(task[t].op, s, e, st)
          /\ \A x \in Spans : Covers(task[t].op, s, e, st, x)
      BY <1>0 DEF Follows
    <3>2. /\ lifo'[t] => Mirrors(task'[t].op, task'[t].span, entered'[t], new)
          /\ \A x \in Spans : Covers(task'[t].op, task'[t].span, entered'[t], new, x)
      BY <1>1, <1>2, <1>5, <3>1
    <3> QED BY <3>2 DEF Follows
  <2>3. \A u \in Threads : \A i \in 1..Len(entered'[u]) : UsableIn(status', task', entered'[u][i])
    BY <1>0, <1>1, <1>2 DEF Registered, UsableIn
  <2>4. \A u \in Threads : task'[u].op = "enter" =>
          entered'[u] # <<>> /\ entered'[u][Len(entered'[u])] = task'[u].span
    BY <1>0, <1>1, <1>2 DEF Registered
  <2>5. \A u \in Threads : task'[u].op = "close" => status'[task'[u].span] = "closed"
    BY <1>0, <1>1, <1>2 DEF Registered
  <2> QED BY <1>5, <2>1, <2>2, <2>3, <2>4, <2>5 DEF StackInv, Registered
<1>6. ASSUME NEW r \in Spans, UsableIn(status', task', r)
      PROVE  UsableIn(status, task, r) \/ (task[t].op = "new" /\ s = r)
  BY <1>1, <1>2, <1>6 DEF UsableIn
<1>7. ASSUME task[t].op \in PlainOps PROVE
         /\ Mirrors(task[t].op, s, e, st) => Mirrors("none", None, e, st)
         /\ \A x : Covers(task[t].op, s, e, st, x) => Covers("none", None, e, st, x)
  <2>1. "none" \in PlainOps
    BY DEF PlainOps, Ops
  <2>2. PICK o \in PlainOps : o = task[t].op
    BY <1>7
  <2>3. PICK r, ee, ss : r = s /\ ee = e /\ ss = st
    OBVIOUS
  <2>4. /\ Mirrors(o, r, ee, ss) => Mirrors("none", None, ee, ss)
        /\ \A x : Covers(o, r, ee, ss, x) => Covers("none", None, ee, ss, x)
    BY <2>1, Plainly
  <2> QED BY <2>2, <2>3, <2>4
<1>8. CASE task[t].op \in PlainOps \ {"close"}
  <2>1. UNCHANGED stacks /\ spans' = (IF task[t].op = "new" THEN spans \cup {s} ELSE spans)
    BY <1>1, <1>8 DEF Finish, OnNewSpan, OnRecord, tables, PlainOps
  <2>2. StacksOK'
    BY <1>0, <1>3, <2>1 DEF StacksOK, SpanOps
  <2>3. \A u \in Threads : StackOf(u)' = StackOf(u)
    BY <2>1 DEF StackOf
  <2>4. \A r \in Spans : UsableIn(status', task', r) => r \in spans'
    BY <1>0, <1>6, <2>1 DEF Registered
  <2> HIDE DEF s, e, st
  <2> QED BY <1>5, <1>7, <1>8, <2>2, <2>3, <2>4 DEF st
<1>9. CASE task[t].op = "enter"
  <2>0. OnEnter(t, s) /\ s \in Spans
    BY <1>3, <1>9 DEF Finish, SpanOps
  <2>1. e # <<>> /\ e[Len(e)] = s
    BY <1>0, <1>9 DEF Registered
  <2>2. s \in spans
    <3>1. Len(e) \in 1..Len(e)
      BY <1>4, <2>1, EmptySeq
    <3> QED BY <1>0, <2>0, <2>1, <3>1 DEF Registered
  <2>3. /\ spans' = spans
        /\ stacks' = [u \in DOMAIN stacks \cup {t} |->
                        IF u = t THEN Append(st, EntryFor(s, st)) ELSE stacks[u]]
    BY <2>0, <2>2 DEF OnEnter, EntryFor
  <2>4. PICK ee \in Seq(Spans), ss \in Seq(Entries), r \in Spans : ee = e /\ ss = st /\ r = s
    BY <1>4, <2>0
  <2>5. /\ Append(ss, EntryFor(r, ss)) \in Seq(Entries) /\ Append(ss, EntryFor(r, ss)) # <<>>
        /\ Mirrors("enter", r, ee, ss) => Mirrors("none", None, ee, Append(ss, EntryFor(r, ss)))
        /\ \A x \in Spans :
             Covers("enter", r, ee, ss, x) => Covers("none", None, ee, Append(ss, EntryFor(r, ss)), x)
    <3>1. ee # <<>> /\ ee[Len(ee)] = r
      BY <2>1, <2>4
    <3> QED BY <3>1, EnterEnds
  <2> HIDE DEF s, e, st
  <2>6. /\ DOMAIN stacks' = DOMAIN stacks \cup {t} /\ stacks'[t] = Append(ss, EntryFor(r, ss))
        /\ \A u \in DOMAIN stacks : u # t => stacks'[u] = stacks[u]
    BY <2>3, <2>4
  <2>7. StacksOK'
    BY <1>0, <2>3, <2>5, <2>6 DEF StacksOK
  <2>8. StackOf(t)' = Append(ss, EntryFor(r, ss)) /\ \A u \in Threads : u # t => StackOf(u)' = StackOf(u)
    BY <2>6 DEF StackOf
  <2>9. \A x \in Spans : UsableIn(status', task', x) => x \in spans'
    BY <1>0, <1>6, <1>9, <2>3 DEF Registered
  <2>10. /\ Mirrors(task[t].op, s, e, st) => Mirrors("none", None, e, new)
         /\ \A x \in Spans : Covers(task[t].op, s, e, st, x) => Covers("none", None, e, new, x)
    BY <1>9, <2>4, <2>5, <2>8
  <2> HIDE DEF new
  <2> QED BY <1>5, <2>7, <2>8, <2>9, <2>10
<1>10. CASE task[t].op = "exit"
  <2>0. OnExit(t, s) /\ s \in Spans
    BY <1>3, <1>10 DEF Finish, SpanOps
  <2>1. PICK ee \in Seq(Spans), ss \in Seq(Entries), r \in Spans : ee = e /\ ss = st /\ r = s
    BY <1>4, <2>0
  <2>2. /\ Popped(ss, r) \in Seq(Entries)
        /\ Mirrors("exit", r, ee, ss) => Mirrors("none", None, ee, Popped(ss, r))
        /\ \A x \in Spans : Covers("exit", r, ee, ss, x) => Covers("none", None, ee, Popped(ss, r), x)
    BY ExitEnds
  <2>3. spans' = spans /\ spans' \subseteq Spans
    BY <1>0, <2>0 DEF OnExit, StacksOK
  <2>4. /\ StacksOK' /\ StackOf(t)' = Popped(ss, r)
        /\ \A u \in Threads : u # t => StackOf(u)' = StackOf(u)
    <3>1. CASE t \in DOMAIN stacks
      <4>1. SetStack(t, Popped(ss, r))
        BY <1>4, <2>0, <2>1, <3>1 DEF OnExit, Popped
      <4> QED BY <1>0, <2>2, <2>3, <3>1, <4>1, SetStackDoes
    <3>2. CASE t \notin DOMAIN stacks
      <4>1. UNCHANGED stacks /\ ss = <<>>
        BY <1>4, <2>0, <2>1, <3>2 DEF OnExit
      <4>2. Popped(ss, r) = <<>>
        BY <4>1 DEF Popped
      <4> QED BY <1>0, <2>3, <3>2, <4>1, <4>2 DEF StacksOK, StackOf
    <3> QED BY <3>1, <3>2
  <2> HIDE DEF s, e, st
  <2>5. \A x \in Spans : UsableIn(status', task', x) => x \in spans'
    BY <1>0, <1>6, <1>10, <2>3 DEF Registered
  <2>6. /\ Mirrors(task[t].op, s, e, st) => Mirrors("none", None, e, new)
        /\ \A x \in Spans : Covers(task[t].op, s, e, st, x) => Covers("none", None, e, new, x)
    BY <1>10, <2>1, <2>2, <2>4
  <2> HIDE DEF new
  <2> QED BY <1>5, <2>4, <2>5, <2>6
<1>11. CASE task[t].op = "close"
  <2>0. OnClose(t, s) /\ s \in Spans /\ status[s] = "closed"
    BY <1>0, <1>3, <1>11 DEF Finish, SpanOps, Registered
  <2>1. \A i \in 1..Len(e) : e[i] # s
    BY <1>0, <2>0 DEF Registered, UsableIn
  <2>2. PICK ee \in Seq(Spans), ss \in Seq(Entries), r \in Spans : ee = e /\ ss = st /\ r = s
    BY <1>4, <2>0
  <2>3. /\ Retain(ss, r) \in Seq(Entries)
        /\ Mirrors("close", r, ee, ss) => Mirrors("none", None, ee, Retain(ss, r))
        /\ \A x \in Spans : Covers("close", r, ee, ss, x) => Covers("none", None, ee, Retain(ss, r), x)
    <3>1. \A i \in 1..Len(ee) : ee[i] # r
      BY <2>1, <2>2
    <3> QED BY <3>1, CloseEnds
  <2>4. spans' = spans \ {s} /\ spans' \subseteq Spans
    BY <1>0, <2>0 DEF OnClose, StacksOK
  <2>5. /\ StacksOK' /\ StackOf(t)' = Retain(ss, r)
        /\ \A u \in Threads : u # t => StackOf(u)' = StackOf(u)
    <3>1. CASE t \in DOMAIN stacks
      <4>1. SetStack(t, Retain(ss, r))
        BY <1>4, <2>0, <2>2, <3>1 DEF OnClose
      <4> QED BY <1>0, <2>3, <2>4, <3>1, <4>1, SetStackDoes
    <3>2. CASE t \notin DOMAIN stacks
      <4>1. UNCHANGED stacks /\ ss = <<>>
        BY <1>4, <2>0, <2>2, <3>2 DEF OnClose
      <4>2. \A i \in 1..Len(ss) : ss[i].id # r
        BY <4>1
      <4>3. Retain(ss, r) = <<>>
        BY <4>1, <4>2, RetainAll
      <4> QED BY <1>0, <2>4, <3>2, <4>1, <4>3 DEF StacksOK, StackOf
    <3> QED BY <3>1, <3>2
  <2>6. \A x \in Spans : UsableIn(status', task', x) => x \in spans'
    <3>1. ~UsableIn(status, task, s)
      BY <2>0 DEF UsableIn
    <3> QED BY <1>0, <1>6, <1>11, <2>4, <3>1 DEF Registered
  <2> HIDE DEF s, e, st
  <2>7. /\ Mirrors(task[t].op, s, e, st) => Mirrors("none", None, e, new)
        /\ \A x \in Spans : Covers(task[t].op, s, e, st, x) => Covers("none", None, e, new, x)
    BY <1>11, <2>2, <2>3, <2>5
  <2> HIDE DEF new
  <2> QED BY <1>5, <2>5, <2>6, <2>7
<1> QED BY <1>1, <1>8, <1>9, <1>10, <1>11 DEF PlainOps

LEMMA StackStep == StackInv /\ LockInv /\ [Next]_vars => StackInv'
<1> SUFFICES ASSUME StackInv, LockInv, [Next]_vars PROVE StackInv'
  OBVIOUS
<1>0. TaskOK /\ LocksOK /\ RegistryOK
  BY DEF LockInv
<1>00. StacksOK /\ Registered
  BY DEF StackInv
<1>1. ASSUME NEW t \in Threads, Proceed(t) PROVE StackInv'
  BY <1>0, <1>1, StackWaits, StackFinish DEF Proceed
<1>2. ASSUME NEW t \in Threads, NEW s \in Spans, NewSpan(t, s) PROVE StackInv'
  <2>1. "new" \in PlainOps /\ "new" \in Ops
    BY DEF PlainOps, Ops
  <2>2. /\ status[s] = "unborn" /\ status' = [status EXCEPT ![s] = "open"]
        /\ Begin(t, "new", s) /\ UNCHANGED <<entered, lifo>>
    BY <1>2 DEF NewSpan
  <2>3. StacksOK' /\ \A u \in Threads : Follows(u)'
    BY <1>0, <2>1, <2>2, StackPlain
  <2>4. /\ task'[t].op = "new" /\ task'[t].span = s /\ task[t].op = "none"
        /\ \A u \in Threads : u # t => task'[u] = task[u]
        /\ UNCHANGED spans
    BY <1>0, <2>1, <2>2, BeginType
  <2>5. /\ status'[s] = "open" /\ \A r \in Spans : r # s => status'[r] = status[r]
    BY <1>0, <2>2 DEF RegistryOK
  <2>6. ~UsableIn(status, task, s) /\ ~UsableIn(status', task', s)
    BY <2>2, <2>4 DEF UsableIn
  <2>7. \A r \in Spans : UsableIn(status', task', r) <=> UsableIn(status, task, r)
    <3> TAKE r \in Spans
    <3>1. CASE r = s
      BY <2>6, <3>1
    <3>2. CASE r # s
      BY <2>4, <2>5, <3>2 DEF UsableIn
    <3> QED BY <3>1, <3>2
  <2>8. \A u \in Threads : task'[u].op = "close" => status'[task'[u].span] = "closed"
    <3> SUFFICES ASSUME NEW u \in Threads, task'[u].op = "close" PROVE status'[task'[u].span] = "closed"
      OBVIOUS
    <3>1. task'[u] = task[u] /\ task[u].span \in Spans /\ status[task[u].span] = "closed"
      BY <1>0, <1>00, <2>4 DEF Registered, TaskOK, SpanOps
    <3> QED BY <2>2, <2>5, <3>1
  <2>9. \A u \in Threads : \A i \in 1..Len(entered[u]) : entered[u][i] \in Spans
    BY <1>0 DEF RegistryOK
  <2>10. Registered'
    BY <1>00, <2>2, <2>4, <2>7, <2>8, <2>9 DEF Registered
  <2> QED BY <2>3, <2>10 DEF StackInv
<1>3. ASSUME NEW t \in Threads, NEW s \in Spans, Close(t, s) PROVE StackInv'
  <2>1. "close" \in PlainOps /\ "close" \in Ops
    BY DEF PlainOps, Ops
  <2>2. /\ status' = [status EXCEPT ![s] = "closed"]
        /\ Begin(t, "close", s) /\ UNCHANGED <<entered, lifo>>
        /\ \A u \in Threads : s \notin Range(entered[u])
    BY <1>3 DEF Close
  <2>3. StacksOK' /\ \A u \in Threads : Follows(u)'
    BY <1>0, <2>1, <2>2, StackPlain
  <2>4. /\ task'[t].op = "close" /\ task'[t].span = s /\ task[t].op = "none"
        /\ \A u \in Threads : u # t => task'[u] = task[u]
        /\ UNCHANGED spans
    BY <1>0, <2>1, <2>2, BeginType
  <2>5. /\ status'[s] = "closed" /\ \A r \in Spans : r # s => status'[r] = status[r]
    BY <1>0, <2>2 DEF RegistryOK
  <2>6. \A r \in Spans : r # s => (UsableIn(status', task', r) <=> UsableIn(status, task, r))
    BY <2>4, <2>5 DEF UsableIn
  <2>7. ~UsableIn(status', task', s)
    BY <2>5 DEF UsableIn
  <2>8. \A u \in Threads : \A i \in 1..Len(entered[u]) : entered[u][i] \in Spans /\ entered[u][i] # s
    <3> TAKE u \in Threads
    <3>1. entered[u] \in Seq(Spans) /\ DOMAIN entered[u] = 1..Len(entered[u])
      BY <1>0 DEF RegistryOK
    <3> QED BY <2>2, <3>1 DEF Range
  <2>9. \A u \in Threads : task'[u].op = "close" => status'[task'[u].span] = "closed"
    <3> SUFFICES ASSUME NEW u \in Threads, task'[u].op = "close" PROVE status'[task'[u].span] = "closed"
      OBVIOUS
    <3>1. CASE u = t
      BY <2>4, <2>5, <3>1
    <3>2. CASE u # t
      <4>1. task'[u] = task[u] /\ task[u].span \in Spans /\ status[task[u].span] = "closed"
        BY <1>0, <1>00, <2>4, <3>2 DEF Registered, TaskOK, SpanOps
      <4> QED BY <2>5, <4>1
    <3> QED BY <3>1, <3>2
  <2>10. \A u \in Threads : \A i \in 1..Len(entered'[u]) : UsableIn(status', task', entered'[u][i])
    BY <1>00, <2>2, <2>6, <2>8 DEF Registered
  <2>11. \A r \in Spans : UsableIn(status', task', r) => r \in spans'
    BY <1>00, <2>4, <2>6, <2>7 DEF Registered
  <2>12. \A u \in Threads : task'[u].op = "enter" =>
           entered'[u] # <<>> /\ entered'[u][Len(entered'[u])] = task'[u].span
    BY <1>00, <2>2, <2>4 DEF Registered
  <2> QED BY <2>3, <2>9, <2>10, <2>11, <2>12 DEF StackInv, Registered
<1>4. ASSUME NEW t \in Threads, NEW o \in {"record", "get_span", "context", "stats"},
             NEW s \in Spans \cup {None}, o \in SpanOps => s \in Spans, Begin(t, o, s), UNCHANGED registry
      PROVE  StackInv'
  <2>1. o \in PlainOps /\ o \in Ops
    BY DEF PlainOps, Ops
  <2>2. UNCHANGED <<status, entered, lifo>>
    BY <1>4 DEF registry
  <2>3. StacksOK' /\ \A u \in Threads : Follows(u)'
    BY <1>0, <1>4, <2>1, <2>2, StackPlain
  <2>4. /\ task'[t].op = o /\ task[t].op = "none"
        /\ \A u \in Threads : u # t => task'[u] = task[u]
        /\ UNCHANGED spans
    BY <1>0, <1>4, <2>1, BeginType
  <2>5. \A r \in Spans : UsableIn(status', task', r) <=> UsableIn(status, task, r)
    BY <2>2, <2>4 DEF UsableIn
  <2>6. \A u \in Threads : \A i \in 1..Len(entered[u]) : entered[u][i] \in Spans
    BY <1>0 DEF RegistryOK
  <2>7. Registered'
    BY <1>00, <2>2, <2>4, <2>5, <2>6 DEF Registered
  <2> QED BY <2>3, <2>7 DEF StackInv
<1>5. ASSUME NEW t \in Threads, Application(t) PROVE StackInv'
  <2>1. ASSUME NEW s \in Spans, Record(t, s) PROVE StackInv'
    BY <1>4, <2>1 DEF Record
  <2>2. ASSUME NEW o \in {"get_span", "context", "stats"}, Look(t, o) PROVE StackInv'
    BY <1>4, <2>2 DEF Look, SpanOps
  <2> QED BY <1>0, <1>2, <1>3, <1>5, <2>1, <2>2, StackEnter, StackExit DEF Application
<1>6. CASE UNCHANGED vars
  <2>1. UNCHANGED <<spans, stacks, task, status, entered, lifo>>
    BY <1>6 DEF vars, tables, registry
  <2>2. StacksOK' /\ Registered'
    BY <1>00, <2>1 DEF StacksOK, Registered
  <2>3. \A u \in Threads : Follows(u)'
    BY <2>1, FollowsStill DEF StackInv, StackOf
  <2> QED BY <2>2, <2>3 DEF StackInv
<1> QED BY <1>1, <1>5, <1>6 DEF Next

LEMMA StackInvariant == Spec => [](StackInv /\ LockInv)
<1>1. Init => StackInv
  <2> SUFFICES ASSUME Init PROVE StackInv
    OBVIOUS
  <2>1. StacksOK /\ Registered
    BY DEF Init, StacksOK, Registered, UsableIn, NoTask
  <2>2. ASSUME NEW t \in Threads PROVE Follows(t)
    <3>1. /\ task[t].op = "none" /\ task[t].span = None
          /\ entered[t] = <<>> /\ StackOf(t) = <<>>
      BY DEF Init, NoTask, StackOf
    <3>2. Mirrors("none", None, <<>>, <<>>)
      BY DEF Mirrors
    <3>3. \A x : Covers("none", None, <<>>, <<>>, x)
      <4>1. \A x : At(<<>>, x) = {} /\ Held(<<>>, x) = {}
        BY DEF At, Held
      <4>2. Cardinality({}) = 0 /\ 0 <= 0
        BY FS_EmptySet
      <4> QED BY <4>1, <4>2 DEF Covers
    <3> QED BY <3>1, <3>2, <3>3 DEF Follows
  <2> QED BY <2>1, <2>2 DEF StackInv
<1> QED BY <1>1, StackStep, LockInvariant, PTL DEF Spec

\* The tracker has, for a thread that leaves its spans innermost first, exactly
\* the spans it is in, each with its depth and parent.
THEOREM LifoAlwaysExact == Spec => []LifoExact
<1>1. StackInv /\ LockInv => LifoExact
  <2> SUFFICES ASSUME StackInv, LockInv, NEW t \in Threads, Idle(t), lifo[t]
               PROVE  /\ Len(StackOf(t)) = Len(entered[t])
                      /\ \A i \in 1..Len(entered[t]) :
                           /\ StackOf(t)[i].id = entered[t][i] /\ StackOf(t)[i].depth = i - 1
                           /\ StackOf(t)[i].parent = IF i = 1 THEN None ELSE entered[t][i - 1]
    BY DEF LifoExact
  <2>1. Mirrors("none", task[t].span, entered[t], StackOf(t))
    BY DEF StackInv, Follows, Idle
  <2>2. entered[t] \in Seq(Spans) /\ Len(entered[t]) \in Nat
    BY DEF LockInv, RegistryOK
  <2>3. Len(StackOf(t)) = Len(entered[t])
    BY <2>1 DEF Mirrors
  <2>4. \A i \in 1..Len(entered[t]) :
          /\ StackOf(t)[i].id = entered[t][i] /\ StackOf(t)[i].depth = i - 1
          /\ StackOf(t)[i].parent = IF i = 1 THEN None ELSE StackOf(t)[i - 1].id
    BY <2>1, <2>2, <2>3 DEF Mirrors
  <2>5. \A i \in 1..Len(entered[t]) : i # 1 => i - 1 \in 1..Len(entered[t])
    BY <2>2
  <2> QED BY <2>3, <2>4, <2>5
<1> QED BY <1>1, StackInvariant, PTL

\* The tracker never loses a span a thread is still in, in whatever order spans
\* are left and closed; and every variable has its type.
THEOREM EnteredAlwaysTracked == Spec => []EnteredIsTracked
<1>1. StackInv /\ LockInv => EnteredIsTracked
  <2> SUFFICES ASSUME StackInv, LockInv PROVE EnteredIsTracked
    OBVIOUS
  <2>1. TypeOK
    BY DEF StackInv, StacksOK, LockInv, LocksOK, TaskOK, RegistryOK, TypeOK
  <2>2. ASSUME NEW t \in Threads, Idle(t), NEW s \in Range(entered[t])
        PROVE  Cardinality({i \in 1..Len(entered[t]) : entered[t][i] = s})
                 <= Cardinality({i \in 1..Len(StackOf(t)) : StackOf(t)[i].id = s})
    <3>1. s \in Spans
      BY <2>1 DEF TypeOK, Range
    <3>2. Covers("none", task[t].span, entered[t], StackOf(t), s)
      BY <2>2, <3>1 DEF StackInv, Follows, Idle
    <3> QED BY <3>2 DEF Covers, At, Held
  <2>3. \A t \in DOMAIN stacks : stacks[t] # <<>>
    BY DEF StackInv, StacksOK
  <2> QED BY <2>1, <2>2, <2>3 DEF EnteredIsTracked
<1> QED BY <1>1, StackInvariant, PTL
=============================================================================
