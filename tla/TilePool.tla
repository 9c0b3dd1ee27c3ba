-------------------------------- MODULE TilePool ----------------------------
\* Work on other threads: tiles, and thread pools.
EXTENDS Integers, FiniteSets, Sequences

(***************************************************************************)
(* Tiles (fd_tile): threads that run one task each.  Tile 0 is the main    *)
(* thread; a running task may dispatch tasks to other tiles.  What the     *)
(* dispatcher gets is a TaskExecution, which must be waited for before the *)
(* tile can be used again; its drop waits as well.                         *)
(*                                                                         *)
(* External: fd_tile_exec_new refuses a tile that is not idle;             *)
(* fd_tile_exec_delete blocks until the task is done and makes the tile    *)
(* idle.                                                                   *)
(***************************************************************************)

CONSTANT TileCnt   \* fd_tile_cnt()

ASSUME TileAssumption == TileCnt \in Nat \ {0}

VARIABLES
  tile,       \* tile -> "idle", "running" or "done"
  waits,      \* tile -> the tile its task waits for, or NoTile
  execs,      \* TaskExecutions: [holder, tile]
  forgotten,  \* tiles whose TaskExecution was forgotten by try_result
  tileRet     \* what the last dispatch or try_result returned

tileVars == <<tile, waits, execs, forgotten, tileRet>>

Tiles  == 0..(TileCnt - 1)
NoTile == TileCnt

TileTypeOK ==
  /\ tile \in [Tiles -> {"idle", "running", "done"}]
  /\ waits \in [Tiles -> Tiles \cup {NoTile}]
  /\ execs \subseteq [holder: Tiles, tile: Tiles]
  /\ forgotten \subseteq Tiles

TileInit ==
  /\ tile = [t \in Tiles |-> IF t = 0 THEN "running" ELSE "idle"]
  /\ waits = [t \in Tiles |-> NoTile] /\ execs = {} /\ forgotten = {} /\ tileRet = "none"

Free(t) == tile[t] = "running" /\ waits[t] = NoTile

-----------------------------------------------------------------------------
\* execute_task, and execute_task_by_id, which checks the id and subtracts id0.
ExecuteTask(i, idx) ==
  /\ Free(i)
  /\ \/ /\ \/ idx >= TileCnt /\ tileRet' = "InvalidTileIndex"
           \/ idx < TileCnt /\ idx = i /\ tileRet' = "CannotDispatchToSelf"
           \/ idx < TileCnt /\ idx # i /\ idx = 0 /\ tileRet' = "CannotDispatchToTileZero"
           \/ idx \in Tiles \ {0, i} /\ tile[idx] # "idle" /\ tileRet' = "DispatchFailed"
        /\ UNCHANGED <<tile, execs>>
     \/ /\ idx \in Tiles \ {0, i} /\ tile[idx] = "idle"
        /\ tile' = [tile EXCEPT ![idx] = "running"]
        /\ execs' = execs \cup {[holder |-> i, tile |-> idx]}
        /\ tileRet' = "Ok"
  /\ UNCHANGED <<waits, forgotten>>

\* A dispatched task returns; the executions it still holds have been dropped by then.
TaskReturns(t) ==
  /\ t # 0 /\ Free(t) /\ \A e \in execs : e.holder # t
  /\ tile' = [tile EXCEPT ![t] = "done"]
  /\ UNCHANGED <<waits, execs, forgotten, tileRet>>

\* wait, and Drop for TaskExecution: fd_tile_exec_delete.
WaitBegin(e) ==
  /\ e \in execs /\ Free(e.holder)
  /\ waits' = [waits EXCEPT ![e.holder] = e.tile]
  /\ UNCHANGED <<tile, execs, forgotten, tileRet>>

WaitEnd(e) ==
  /\ e \in execs /\ waits[e.holder] = e.tile /\ tile[e.tile] = "done"
  /\ waits' = [waits EXCEPT ![e.holder] = NoTile]
  /\ tile' = [tile EXCEPT ![e.tile] = "idle"]
  /\ execs' = execs \ {e}
  /\ UNCHANGED <<forgotten, tileRet>>

\* Mutant: the result is taken without fd_tile_exec_delete.
MutTryResult(e) ==
  /\ e \in execs /\ Free(e.holder)
  /\ execs' = execs \ {e}
  /\ IF tile[e.tile] = "done"
       THEN tileRet' = "Some" /\ UNCHANGED forgotten
       ELSE forgotten' = forgotten \cup {e.tile} /\ tileRet' = "None"
  /\ UNCHANGED <<waits, tile>>

\* try_result: the result if the task is done; if not, the execution is forgotten, and
\* with it the only way to make the tile idle again.
TryResult(e) ==
  /\ e \in execs /\ Free(e.holder)
  /\ execs' = execs \ {e}
  /\ IF tile[e.tile] = "done"
       THEN tile' = [tile EXCEPT ![e.tile] = "idle"] /\ tileRet' = "Some" /\ UNCHANGED forgotten
       ELSE forgotten' = forgotten \cup {e.tile} /\ tileRet' = "None" /\ UNCHANGED tile
  /\ UNCHANGED waits

TileNext ==
  \/ \E i \in Tiles, idx \in 0..TileCnt : ExecuteTask(i, idx)
  \/ \E t \in Tiles : TaskReturns(t)
  \/ \E e \in execs : WaitBegin(e) \/ WaitEnd(e) \/ TryResult(e)

TileSpec == TileInit /\ [][TileNext]_tileVars

-----------------------------------------------------------------------------
\* Every tile is idle, or in use with exactly one TaskExecution through which it will be
\* made idle, or lost: in use for ever, because try_result was called on its execution
\* before the task was done (which the code does and nothing says).  It is exactly one of
\* the three, so that no other path loses a tile and a lost one is never given out again.
BusyIsHeld ==
  \A t \in Tiles \ {0} :
    LET held == {e \in execs : e.tile = t}
    IN  \/ tile[t] = "idle" /\ held = {} /\ t \notin forgotten
        \/ tile[t] # "idle" /\ Cardinality(held) = 1 /\ t \notin forgotten
        \/ tile[t] # "idle" /\ held = {} /\ t \in forgotten

\* A task waits for a task that it dispatched itself, on a tile that is in use and not
\* lost, and that no other task waits for: whatever the others do meanwhile, the tile is
\* not made idle under the one that waits.
WaitsForItsOwn ==
  \A t \in Tiles : waits[t] # NoTile =>
    /\ [holder |-> t, tile |-> waits[t]] \in execs
    /\ tile[waits[t]] # "idle" /\ waits[t] \notin forgotten
    /\ \A u \in Tiles : u # t => waits[u] # waits[t]

\* Tasks that dispatch tasks and wait for them never wait in a circle: in every set of
\* tiles there is one that does not wait for another of the set.
NoCircularWait ==
  \A S \in (SUBSET Tiles) \ {{}} : \E t \in S : waits[t] \notin S

\* What the safe interface of fd_tile promises tasks that dispatch tasks.
TilesSound == BusyIsHeld /\ WaitsForItsOwn /\ NoCircularWait

-----------------------------------------------------------------------------
(***************************************************************************)
(* Thread pools (fd_tpool).  A ThreadPool owns one block of memory and the *)
(* C pool initialised in it; its drop halts the C pool first and frees the *)
(* block second.  partition_range tells a worker which part of a range of  *)
(* tasks is its own: the workers compute their parts on their own, so that *)
(* nothing but the arithmetic keeps two of them from taking the same task. *)
(* execute_all is a todo!() of the code and is not modelled.               *)
(***************************************************************************)

CONSTANTS
    WorkerMax,   \* bound: the worker_max and worker_count of a call
    TaskMax,     \* bound: the ends of a range of tasks
    LaneMax      \* bound: the lanes of a worker

ASSUME TpoolAssumption == WorkerMax \in Nat /\ TaskMax \in Nat /\ LaneMax \in Nat

VARIABLES
    tpMem,       \* the block of memory of a ThreadPool: "none" or "held"
    tpWorkers,   \* worker_cnt of the C pool initialised in the block, 0 when there is none
    tpOpts,      \* worker_max and options of the ThreadPool
    work,        \* the range a client last split: task_start, task_end, lane_count, worker_count
    shares       \* what partition_range returned to each worker

tpVars == <<tpMem, tpWorkers, tpOpts, work, shares>>

NoWork == [start |-> 0, end |-> 0, lanes |-> 0, workers |-> 0]

TpInit ==
    /\ tpMem = "none" /\ tpWorkers = 0
    /\ tpOpts = [max |-> 0, sleep |-> FALSE]
    /\ work = NoWork /\ shares = <<>>

(***************************************************************************)
(* ThreadPool::new.  Zero workers, a footprint of zero and a failed        *)
(* allocation return before anything is owned; a failed fd_tpool_init      *)
(* gives the block back.  The C pool starts with one worker, the caller.   *)
(***************************************************************************)
NewPool(max, sleep) ==
    /\ tpMem = "none"
    /\ \/ UNCHANGED tpVars
       \/ /\ max > 0
          /\ tpMem' = "held" /\ tpWorkers' = 1
          /\ tpOpts' = [max |-> max, sleep |-> sleep]
          /\ UNCHANGED <<work, shares>>

\* Drop of a ThreadPool: fd_tpool_fini, and then the memory.
DropPool ==
    /\ tpMem = "held"
    /\ tpMem' = "none" /\ tpWorkers' = 0
    /\ UNCHANGED <<tpOpts, work, shares>>

----------------------------------------------------------------------------
Least(a, b) == IF a <= b THEN a ELSE b

\* Mutant: one block too many for the first workers: the remainder is counted with <=.
MutPartitionRange(start, end, lanes, w, workers) ==
    IF w >= workers \/ start >= end \/ lanes = 0 THEN <<start, start>>
    ELSE LET blocks == (end - start) \div lanes
             extra  == blocks % workers
             from   == start + lanes * ((blocks \div workers) * w + Least(w, extra))
             to     == from + lanes * ((blocks \div workers) + (IF w <= extra THEN 1 ELSE 0))
                            + (IF w = workers - 1 THEN (end - start) % lanes ELSE 0)
         IN  <<from, Least(to, end)>>

(***************************************************************************)
(* partition_range.  The tasks are cut in blocks of one task per lane, the *)
(* first block_count % worker_count workers take one block more, and the   *)
(* tasks that fill no block go to the last worker.                         *)
(***************************************************************************)
PartitionRange(start, end, lanes, w, workers) ==
    IF w >= workers \/ start >= end \/ lanes = 0 THEN <<start, start>>
    ELSE LET blocks == (end - start) \div lanes
             rest   == (end - start) % lanes
             least  == blocks \div workers
             extra  == blocks % workers
             from   == start + lanes * (least * w + Least(w, extra))
             to     == from + lanes * (least + (IF w < extra THEN 1 ELSE 0))
                            + (IF w = workers - 1 THEN rest ELSE 0)
         IN  <<from, Least(to, end)>>

\* A client splits a range: worker w gets shares[w + 1].  (partition_range keeps
\* nothing from one call to the next: one split per behaviour is enough.)
Split(start, end, lanes, workers) ==
    /\ work = NoWork
    /\ work' = [start |-> start, end |-> end, lanes |-> lanes, workers |-> workers]
    /\ shares' = [i \in 1..workers |-> PartitionRange(start, end, lanes, i - 1, workers)]
    /\ UNCHANGED <<tpMem, tpWorkers, tpOpts>>

TpNext ==
    \/ \E max \in 0..WorkerMax, sleep \in BOOLEAN : NewPool(max, sleep)
    \/ DropPool
    \/ \E start, end \in 0..TaskMax, lanes \in 0..LaneMax, workers \in 0..WorkerMax :
          Split(start, end, lanes, workers)

TpSpec == TpInit /\ [][TpNext]_tpVars

----------------------------------------------------------------------------
TpTypeOK ==
    /\ tpMem \in {"none", "held"} /\ tpWorkers \in 0..1
    /\ tpOpts \in [max : 0..WorkerMax, sleep : BOOLEAN]
    /\ work \in [start : 0..TaskMax, end : 0..TaskMax, lanes : 0..LaneMax, workers : 0..WorkerMax]
    /\ DOMAIN shares = 1..work.workers

(***************************************************************************)
(* Workers that split a range never share a task and never leave one out:  *)
(* the parts partition_range returns follow one another, the first starts  *)
(* where the range does and the last ends where it does.  (With no lane,   *)
(* no worker or an empty range nobody gets anything.)                      *)
(***************************************************************************)
SharesExact ==
    IF work.start < work.end /\ work.lanes > 0 /\ work.workers > 0
    THEN /\ shares[1][1] = work.start
         /\ shares[work.workers][2] = work.end
         /\ \A i \in 1..work.workers :
               /\ shares[i][1] <= shares[i][2]
               /\ i < work.workers => shares[i][2] = shares[i + 1][1]
    ELSE \A i \in 1..work.workers : shares[i] = <<work.start, work.start>>
=============================================================================
