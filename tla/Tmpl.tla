-------------------------------- MODULE Tmpl --------------------------------
(***************************************************************************)
(* The containers of fd_tmpl: wrappers that own a block of memory, have a  *)
(* C container laid out in it, and translate calls.  The C containers are  *)
(* external; what they do is taken from how the wrappers use them: a ring  *)
(* of Cap cells, a null pointer when they are full.  What the wrappers add *)
(* is modelled as it is, also where it is surprising: the value given to   *)
(* FdMap::insert and FdVec::push is not stored, FdQueue peeks at cell 0    *)
(* wherever the queue starts, FdMap::remove hands the C map an element of  *)
(* the stack of the caller, FdPool::release takes any index, and the       *)
(* strings a CStrDeque pops are never freed.  A call that finds its        *)
(* container full or empty changes nothing, but for a push to a CStrDeque. *)
(***************************************************************************)
EXTENDS Integers, Sequences, SequencesExt, FiniteSets

CONSTANTS
    Cap,      \* bound: cells of a container (STACK_MAX, QUEUE_MAX, DEQUE_MAX, max_elements)
    TVals,    \* values and keys (not 0)
    Strs      \* strings a program may push on a deque

ASSUME TmplAssumption == Cap \in Nat \ {0} /\ TVals \subseteq Nat \ {0}

Junk   == 0                        \* the content of memory nobody wrote
Memory == TVals \cup Strs \cup {Junk}

VARIABLES
    boxKind,  \* which container the program uses
    boxAlive, \* its memory is allocated and joined
    cells,    \* the array of the container
    boxFront, \* the cell of the first element
    boxCount, \* its number of elements
    members,  \* keys of a map or a set, indices a pool has handed out, indices of a vec that were set
    spoiled,  \* the C container was given what is not its own, and answers as it likes
    strings,  \* what became of the memory of each string
    boxModel, \* what the program put in and did not take out, first element first
    answer    \* what the last call gave, and what the program had put there

tmVars == <<boxKind, boxAlive, cells, boxFront, boxCount, members, spoiled, strings, boxModel, answer>>
box    == <<boxKind, boxAlive>>

BoxKinds == {"map", "stack", "queue", "set", "deque", "heap", "pool", "vec"}
NoAnswer == [from |-> "none", got |-> Junk, due |-> Junk]

TmInit ==
    /\ boxKind = "none" /\ boxAlive = FALSE
    /\ cells = [i \in 0..Cap-1 |-> Junk] /\ boxFront = 0 /\ boxCount = 0
    /\ members = {} /\ spoiled = FALSE /\ strings = [s \in Strs |-> "unborn"]
    /\ boxModel = <<>> /\ answer = NoAnswer

\* The constructors: they check footprint and alignment, allocate, create and join; the
\* memory goes back when the join fails.  What the cells hold is not initialised.
NewBox ==
    /\ ~boxAlive
    /\ boxAlive' \in BOOLEAN /\ boxKind' \in BoxKinds
    /\ boxFront' = 0 /\ boxCount' = 0 /\ members' = {} /\ spoiled' = FALSE
    /\ boxModel' = <<>> /\ answer' = NoAnswer
    /\ UNCHANGED <<cells, strings>>

\* The drops: leave, delete, free.  Strings still in a deque stay behind.
DropBox ==
    /\ boxAlive /\ boxAlive' = FALSE
    /\ strings' = [s \in Strs |-> IF boxKind = "deque" /\ s \in ToSet(boxModel) THEN "leaked" ELSE strings[s]]
    /\ boxModel' = <<>> /\ answer' = NoAnswer
    /\ UNCHANGED <<boxKind, cells, boxFront, boxCount, members, spoiled>>

----------------------------------------------------------------------------
(* A ring of Cap cells (external: the C stack, queue and deque).           *)

\* The cell of the element i places behind the first.
Cell(i) == (boxFront + i) % Cap

PutLast(v) ==
    /\ boxCount < Cap
    /\ cells' = [cells EXCEPT ![Cell(boxCount)] = v]
    /\ boxCount' = boxCount + 1 /\ boxModel' = Append(boxModel, v) /\ answer' = NoAnswer
    /\ UNCHANGED boxFront

PutFirst(v) ==
    /\ boxCount < Cap
    /\ cells' = [cells EXCEPT ![Cell(Cap - 1)] = v]
    /\ boxFront' = Cell(Cap - 1)
    /\ boxCount' = boxCount + 1 /\ boxModel' = <<v>> \o boxModel /\ answer' = NoAnswer

Took(c, v) == answer' = [from |-> boxKind, got |-> cells[c], due |-> v]

TakeLast ==
    /\ boxCount > 0
    /\ Took(Cell(boxCount - 1), Last(boxModel))
    /\ boxCount' = boxCount - 1 /\ boxModel' = Front(boxModel)
    /\ UNCHANGED <<cells, boxFront>>

TakeFirst ==
    /\ boxCount > 0
    /\ Took(boxFront, Head(boxModel))
    /\ boxFront' = Cell(1) /\ boxCount' = boxCount - 1 /\ boxModel' = Tail(boxModel)
    /\ UNCHANGED cells

\* A read that changes nothing.
Looked(from, v, due) ==
    /\ answer' = [from |-> from, got |-> v, due |-> due]
    /\ UNCHANGED <<cells, boxFront, boxCount, members, spoiled, boxModel>>

----------------------------------------------------------------------------
\* FdMap: insert stores the key, not the value, and fails on a full map and on a key that
\* is there; get reads the value in the slot of the key, which nobody wrote.  remove gives
\* the C map a slot on the caller's stack: it may move any entries there, or none, and
\* the key may stay.  clear makes the container anew in the same memory.
MapInsert(k, v) ==
    /\ k \notin members /\ Cardinality(members) < Cap
    /\ members' = members \cup {k}
    /\ boxModel' = IF spoiled THEN boxModel ELSE Append(boxModel, <<k, v>>)
    /\ answer' = NoAnswer
    /\ UNCHANGED <<cells, boxFront, boxCount, spoiled>>

MapGet ==
    /\ ~spoiled
    /\ \E i \in 1..Len(boxModel), v \in Memory : Looked("mapGet", v, boxModel[i][2])

MapRemove ==
    /\ members' \in SUBSET members /\ spoiled' = TRUE /\ answer' = NoAnswer
    /\ UNCHANGED <<cells, boxFront, boxCount, boxModel>>

MapClear ==
    /\ members' = {} /\ spoiled' = FALSE /\ boxModel' = <<>> /\ answer' = NoAnswer
    /\ UNCHANGED <<cells, boxFront, boxCount>>

FdMap ==
    /\ boxAlive /\ boxKind = "map"
    /\ (\E k, v \in TVals : MapInsert(k, v)) \/ MapGet \/ MapRemove \/ MapClear
    /\ UNCHANGED <<box, strings>>

\* FdStack: push at the end, pop from the end, peek at the cell before the end.
FdStack ==
    /\ boxAlive /\ boxKind = "stack"
    /\ \/ (\E v \in TVals : PutLast(v)) /\ UNCHANGED <<members, spoiled>>
       \/ TakeLast /\ UNCHANGED <<members, spoiled>>
       \/ boxCount > 0 /\ Looked("stack", cells[boxCount - 1], Last(boxModel))
    /\ UNCHANGED <<box, strings>>

\* FdQueue: push behind the last element, pop the first; peek reads cell 0, also when the
\* queue starts elsewhere.
FdQueue ==
    /\ boxAlive /\ boxKind = "queue"
    /\ \/ (\E v \in TVals : PutLast(v)) /\ UNCHANGED <<members, spoiled>>
       \/ TakeFirst /\ UNCHANGED <<members, spoiled>>
       \/ /\ boxCount > 0
          /\ Looked(IF boxFront = 0 THEN "queue" ELSE "queuePeek", cells[0], Head(boxModel))
    /\ UNCHANGED <<box, strings>>

\* FdSet: insert and remove; both always report success.
FdSet ==
    /\ boxAlive /\ boxKind = "set"
    /\ \E k \in TVals : members' \in {members \cup {k}, members \ {k}}
    /\ answer' = NoAnswer
    /\ UNCHANGED <<box, cells, boxFront, boxCount, spoiled, strings, boxModel>>

(***************************************************************************)
(* CStrDeque: a push makes a C string.  A string the deque took is         *)
(* forgotten, so that only the pointer in the deque is left; one it did    *)
(* not take is freed on return.  A pop reads the string behind the pointer *)
(* it took out, and does not free it.                                      *)
(***************************************************************************)
\* Mutant: the string is not forgotten, and freed on return also when the deque took it.
MutPushString(s) ==
    /\ strings[s] = "unborn"
    /\ \/ /\ PutFirst(s) \/ PutLast(s)
          /\ strings' = [strings EXCEPT ![s] = "freed"]
       \/ /\ boxCount = Cap
          /\ strings' = [strings EXCEPT ![s] = "freed"]
          /\ answer' = NoAnswer
          /\ UNCHANGED <<cells, boxFront, boxCount, boxModel>>

PushString(s) ==
    /\ strings[s] = "unborn"
    /\ \/ /\ PutFirst(s) \/ PutLast(s)
          /\ strings' = [strings EXCEPT ![s] = "alive"]
       \/ /\ boxCount = Cap
          /\ strings' = [strings EXCEPT ![s] = "freed"]
          /\ answer' = NoAnswer
          /\ UNCHANGED <<cells, boxFront, boxCount, boxModel>>

PopString ==
    /\ TakeFirst \/ TakeLast
    /\ strings' = [strings EXCEPT ![answer'.got] = "leaked"]

CStrDeque ==
    /\ boxAlive /\ boxKind = "deque"
    /\ (\E s \in Strs : PushString(s)) \/ PopString
    /\ UNCHANGED <<box, members, spoiled>>

\* FdHeap: an insert hands the C heap element 0 of a pool that is the caller's variable; the
\* heap counts it, and the value is gone with the variable.  Nothing is ever taken out.
FdHeap ==
    /\ boxAlive /\ boxKind = "heap"
    /\ boxCount < Cap /\ boxCount' = boxCount + 1
    /\ answer' = NoAnswer
    /\ UNCHANGED <<box, cells, boxFront, members, spoiled, strings, boxModel>>

\* FdPool: acquire hands out a free index or none.  release takes any index: one that is not
\* in use is then twice in the list of free ones, and the counts and indices the pool gives
\* from there on are any.
PoolAcquire(i) ==
    /\ spoiled \/ i \notin members
    /\ members' = members \cup {i}
    /\ IF spoiled THEN boxCount' \in 0..Cap ELSE boxCount' = boxCount + 1
    /\ UNCHANGED spoiled

PoolRelease(i) ==
    /\ members' = members \ {i}
    /\ spoiled' = (spoiled \/ i \notin members)
    /\ IF spoiled' THEN boxCount' \in 0..Cap ELSE boxCount' = boxCount - 1

FdPool ==
    /\ boxAlive /\ boxKind = "pool"
    /\ \E i \in 0..Cap-1 : PoolAcquire(i) \/ PoolRelease(i)
    /\ answer' = NoAnswer
    /\ UNCHANGED <<box, cells, boxFront, strings, boxModel>>

\* FdVec: push makes room for a value and does not write it, set writes below the count, get
\* reads there, pop takes the last one off.  members are the places that were set.
VecPush(v) ==
    /\ boxCount < Cap
    /\ boxCount' = boxCount + 1 /\ boxModel' = Append(boxModel, v) /\ answer' = NoAnswer
    /\ UNCHANGED <<cells, members>>

VecPop ==
    /\ boxCount > 0
    /\ boxCount' = boxCount - 1 /\ boxModel' = Front(boxModel) /\ members' = members \ {boxCount - 1}
    /\ answer' = NoAnswer
    /\ UNCHANGED cells

VecSet(i, v) ==
    /\ cells' = [cells EXCEPT ![i] = v] /\ boxModel' = [boxModel EXCEPT ![i + 1] = v]
    /\ members' = members \cup {i} /\ answer' = NoAnswer
    /\ UNCHANGED boxCount

VecGet(i) == Looked(IF i \in members THEN "vec" ELSE "vecPush", cells[i], boxModel[i + 1])

FdVec ==
    /\ boxAlive /\ boxKind = "vec"
    /\ \/ \E v \in TVals : VecPush(v)
       \/ VecPop
       \/ \E i \in 0..boxCount-1, v \in TVals : VecSet(i, v)
       \/ \E i \in 0..boxCount-1 : VecGet(i)
    /\ UNCHANGED <<box, boxFront, spoiled, strings>>

TmNext ==
    \/ NewBox \/ DropBox
    \/ FdMap \/ FdStack \/ FdQueue \/ FdSet \/ CStrDeque \/ FdHeap \/ FdPool \/ FdVec

TmSpec == TmInit /\ [][TmNext]_tmVars

----------------------------------------------------------------------------
TmTypeOK ==
    /\ boxKind \in BoxKinds \cup {"none"} /\ boxAlive \in BOOLEAN /\ spoiled \in BOOLEAN
    /\ cells \in [0..Cap-1 -> Memory]
    /\ boxFront \in 0..Cap-1 /\ boxCount \in 0..Cap
    /\ strings \in [Strs -> {"unborn", "alive", "leaked", "freed"}]

(***************************************************************************)
(* What a program may rely on, although the wrappers hold raw pointers.    *)
(* What a pop or a peek of a stack, a pop of a queue and a pop of a deque  *)
(* gives is what was put there, in the order in which it was put there,    *)
(* over any wrap of the ring; so is a peek at a queue while its front is   *)
(* cell 0 and a get from a vec at a place that was set.  Every string in a *)
(* deque is alive, and is in it once.  A pool knows how many indices it    *)
(* has handed out until one is released that was not in use.               *)
(*                                                                         *)
(* Nothing is promised where the code keeps nothing: a get from a map      *)
(* ("mapGet") or at a place of a vec that was only pushed ("vecPush")    *)
(* reads memory nobody wrote, and a peek at a queue that starts elsewhere  *)
(* ("queuePeek") reads a cell that is not its front.                      *)
(***************************************************************************)
ContainersSound ==
    /\ answer.from \in {"stack", "queue", "deque", "vec"} => answer.got = answer.due
    /\ boxAlive /\ boxKind = "deque" =>
         /\ \A i \in 1..Len(boxModel) : strings[boxModel[i]] = "alive"
         /\ Cardinality(ToSet(boxModel)) = Len(boxModel)
    /\ boxAlive /\ boxKind = "pool" /\ ~spoiled => boxCount = Cardinality(members)
=============================================================================
