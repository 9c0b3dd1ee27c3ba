-------------------------------- MODULE Clock --------------------------------
(***************************************************************************)
(* Clocks in shared memory (fd_clock).  A ClockShmem is an owner, which    *)
(* creates a POSIX segment and initialises a clock in it, or an observer,  *)
(* which attaches to the segment a name leads to; the two also exist for   *)
(* memory the caller provides.  Owners delete the clock and unlink the     *)
(* name when they are dropped, observers only give their mapping back.     *)
(*                                                                         *)
(* shm_open, mmap and the C clock are external.  Every system call of a    *)
(* constructor is a step of its own: other processes run in between, and   *)
(* each call may fail.                                                     *)
(***************************************************************************)
EXTENDS Integers, FiniteSets

CONSTANTS
    CProcs,    \* processes, with one ClockShmem each
    CSegs,     \* segments a run may create
    JoinsMax,  \* bound: joins of a process
    EpochMax   \* bound: epochs of a clock

NoSeg == "noseg"

ASSUME ClockAssumption == JoinsMax \in Nat /\ EpochMax \in Nat \ {0} /\ NoSeg \notin CSegs

VARIABLES
    cName,     \* the segment the (one) name leads to, or NoSeg
    segs,      \* the segments created so far
    sized,     \* the segments ftruncate has given their size
    ticking,   \* the segments with an initialised clock (its magic number is set)
    creators,  \* the processes that opened a segment with O_CREAT
    shm,       \* the ClockShmem of a process: how far its constructor is, and its segment
    fds,       \* descriptors of segments that are open, by process
    maps,      \* mappings of segments, by process
    cJoins,    \* ClockJoins of a process
    epoch,     \* number of the epoch a clock has published
    cached     \* ClockEpoch of a process: the epoch it copied, 0 when it has none

clVars == <<cName, segs, sized, ticking, creators, shm, fds, maps, cJoins, epoch, cached>>

NoShm == [role |-> "none", seg |-> NoSeg]

ClInit ==
    /\ cName = NoSeg /\ segs = {} /\ sized = {} /\ ticking = {}
    /\ creators = [s \in CSegs |-> {}]
    /\ shm = [p \in CProcs |-> NoShm]
    /\ fds = [p \in CProcs |-> {}] /\ maps = [p \in CProcs |-> {}]
    /\ cJoins = [p \in CProcs |-> 0]
    /\ epoch = [s \in CSegs |-> 0] /\ cached = [p \in CProcs |-> 0]

Becomes(p, role, s) == shm' = [shm EXCEPT ![p] = [role |-> role, seg |-> s]]
Gives(f, p, s) == f' = [f EXCEPT ![p] = @ \ {s}]
Takes(f, p, s) == f' = [f EXCEPT ![p] = @ \cup {s}]

(***************************************************************************)
(* posix_shm_mmap for an owner: shm_open with O_CREAT and without O_EXCL   *)
(* (a segment that is there is opened as well), ftruncate, mmap.  A call   *)
(* that fails closes the descriptor; the name stays.                       *)
(***************************************************************************)
OpenCreate(p) ==
    /\ shm[p] = NoShm
    /\ \E s \in CSegs :
          /\ IF cName = NoSeg THEN s \notin segs ELSE s = cName
          /\ cName' = s /\ segs' = segs \cup {s}
          /\ creators' = [creators EXCEPT ![s] = @ \cup {p}]
          /\ Takes(fds, p, s) /\ Becomes(p, "opened", s)
    /\ UNCHANGED <<sized, ticking, maps, cJoins, epoch, cached>>

Truncate(p) ==
    /\ shm[p].role = "opened"
    /\ \/ sized' = sized \cup {shm[p].seg} /\ Becomes(p, "sized", shm[p].seg) /\ UNCHANGED fds
       \/ Gives(fds, p, shm[p].seg) /\ Becomes(p, "none", NoSeg) /\ UNCHANGED sized
    /\ UNCHANGED <<cName, segs, ticking, creators, maps, cJoins, epoch, cached>>

Map(p) ==
    /\ shm[p].role = "sized"
    /\ \/ Takes(maps, p, shm[p].seg) /\ Becomes(p, "mapped", shm[p].seg) /\ UNCHANGED fds
       \/ Gives(fds, p, shm[p].seg) /\ Becomes(p, "none", NoSeg) /\ UNCHANGED maps
    /\ UNCHANGED <<cName, segs, sized, ticking, creators, cJoins, epoch, cached>>

\* The rest of ClockShmem::init: fd_clock_new starts the clock over; when it refuses the
\* parameters, the mapping, the descriptor and the name go.
NewClock(p) ==
    LET s == shm[p].seg
    IN  /\ shm[p].role = "mapped"
        /\ \/ /\ ticking' = ticking \cup {s} /\ epoch' = [epoch EXCEPT ![s] = 1]
              /\ Becomes(p, "owner", s) /\ UNCHANGED <<cName, fds, maps>>
           \/ /\ Gives(maps, p, s) /\ Gives(fds, p, s) /\ cName' = NoSeg
              /\ Becomes(p, "none", NoSeg) /\ UNCHANGED <<ticking, epoch>>
        /\ UNCHANGED <<segs, sized, creators, cJoins, cached>>

\* ClockShmem::open: without O_CREAT, so that there has to be a segment; it may be one that
\* is not sized or has no clock yet.  A failed mmap closes the descriptor.
OpenClock(p) ==
    /\ shm[p] = NoShm /\ cName /= NoSeg
    /\ \/ /\ Takes(fds, p, cName) /\ Takes(maps, p, cName) /\ Becomes(p, "observer", cName)
       \/ UNCHANGED <<fds, maps, shm>>
    /\ UNCHANGED <<cName, segs, sized, ticking, creators, cJoins, epoch, cached>>

\* init_from_ptr and from_ptr: the same for memory the caller provides, with no name, no
\* descriptor and no mapping of the wrapper's own.
InitFromPtr(p) ==
    /\ shm[p] = NoShm
    /\ \E s \in CSegs \ segs :
          /\ segs' = segs \cup {s} /\ sized' = sized \cup {s}
          /\ \/ ticking' = ticking \cup {s} /\ epoch' = [epoch EXCEPT ![s] = 1] /\ Becomes(p, "ownerPtr", s)
             \/ UNCHANGED <<ticking, epoch, shm>>
    /\ UNCHANGED <<cName, creators, fds, maps, cJoins, cached>>

FromPtr(p) ==
    /\ shm[p] = NoShm
    /\ \E q \in CProcs : shm[q].role = "ownerPtr" /\ Becomes(p, "observerPtr", shm[q].seg)
    /\ UNCHANGED <<cName, segs, sized, ticking, creators, fds, maps, cJoins, epoch, cached>>

\* Mutant: an observer whose drop does what an owner's does.
MutDropClockShmem(p) ==
    LET s == shm[p].seg
    IN  /\ shm[p].role \in {"owner", "ownerPtr", "observer", "observerPtr"} /\ cJoins[p] = 0
        /\ ticking' = ticking \ {s}
        /\ Gives(maps, p, s) /\ Gives(fds, p, s)
        /\ cName' = IF shm[p].role \in {"owner", "observer"} THEN NoSeg ELSE cName
        /\ Becomes(p, "none", NoSeg)
        /\ UNCHANGED <<segs, sized, creators, cJoins, epoch, cached>>

(***************************************************************************)
(* Drop of a ClockShmem.  A ClockJoin borrows it: there is none left.      *)
(***************************************************************************)
DropClockShmem(p) ==
    LET r == shm[p].role
        s == shm[p].seg
    IN  /\ r \in {"owner", "ownerPtr", "observer", "observerPtr"} /\ cJoins[p] = 0
        /\ ticking' = IF r \in {"owner", "ownerPtr"} THEN ticking \ {s} ELSE ticking
        /\ Gives(maps, p, s) /\ Gives(fds, p, s)
        /\ cName' = IF r = "owner" THEN NoSeg ELSE cName
        /\ Becomes(p, "none", NoSeg)
        /\ UNCHANGED <<segs, sized, creators, cJoins, epoch, cached>>

----------------------------------------------------------------------------
\* A process that reads a mapped segment without a size is killed; what it had goes with it
\* and its name stays.  It may be started again.
DieOnAccess(p) ==
    /\ Becomes(p, "none", NoSeg)
    /\ Gives(fds, p, shm[p].seg) /\ Gives(maps, p, shm[p].seg)
    /\ cJoins' = [cJoins EXCEPT ![p] = 0] /\ cached' = [cached EXCEPT ![p] = 0]

\* ClockJoin::new: fd_clock_join reads the magic number, refuses memory without a clock,
\* and the local memory goes back.  An observer may have opened a segment whose owner has
\* not come to ftruncate: nothing in open or new looks at its size.
JoinClock(p) ==
    /\ shm[p].role \in {"owner", "ownerPtr", "observer", "observerPtr"}
    /\ cJoins[p] < JoinsMax
    /\ IF shm[p].seg \notin sized
         THEN DieOnAccess(p)
         ELSE /\ cJoins' = IF shm[p].seg \in ticking THEN [cJoins EXCEPT ![p] = @ + 1] ELSE cJoins
              /\ UNCHANGED <<shm, fds, maps, cached>>
    /\ UNCHANGED <<cName, segs, sized, ticking, creators, epoch>>

\* Drop of a ClockJoin: leave, and free the local memory.
LeaveClock(p) ==
    /\ cJoins[p] > 0
    /\ cJoins' = [cJoins EXCEPT ![p] = @ - 1]
    /\ UNCHANGED <<cName, segs, sized, ticking, creators, shm, fds, maps, epoch, cached>>

\* recal and step: the next epoch.
Recalibrate(p) ==
    LET s == shm[p].seg
    IN  /\ cJoins[p] > 0 /\ epoch[s] < EpochMax
        /\ epoch' = [epoch EXCEPT ![s] = @ + 1]
        /\ UNCHANGED <<cName, segs, sized, ticking, creators, shm, fds, maps, cJoins, cached>>

\* ClockEpoch::init and refresh: a copy of the published epoch.  It outlives the join.
RefreshEpoch(p) ==
    /\ cJoins[p] > 0
    /\ cached' = [cached EXCEPT ![p] = epoch[shm[p].seg]]
    /\ UNCHANGED <<cName, segs, sized, ticking, creators, shm, fds, maps, cJoins, epoch>>

ClNext == \E p \in CProcs :
    \/ OpenCreate(p) \/ Truncate(p) \/ Map(p) \/ NewClock(p) \/ OpenClock(p)
    \/ InitFromPtr(p) \/ FromPtr(p) \/ DropClockShmem(p)
    \/ JoinClock(p) \/ LeaveClock(p) \/ Recalibrate(p) \/ RefreshEpoch(p)

ClSpec == ClInit /\ [][ClNext]_clVars

----------------------------------------------------------------------------
ClTypeOK ==
    /\ cName \in CSegs \cup {NoSeg} /\ segs \subseteq CSegs
    /\ sized \subseteq segs /\ ticking \subseteq sized
    /\ \A p \in CProcs : /\ fds[p] \subseteq segs /\ maps[p] \subseteq segs
                         /\ cJoins[p] \in 0..JoinsMax /\ cached[p] \in 0..EpochMax

(***************************************************************************)
(* What a ClockShmem promises, across all the interleavings of several     *)
(* processes and all the calls that fail half way:                         *)
(*  - a process holds the descriptor and the mapping of the segment of its *)
(*    ClockShmem and no other (nothing leaks, nothing is closed twice);    *)
(*  - the clock of an owner keeps running until the owner itself is        *)
(*    dropped, whatever observers do, and the name leads to it: only a     *)
(*    process that created the segment as well ends the clock, and only    *)
(*    one that created a segment under this name at some time takes the    *)
(*    name away (shm_unlink goes by the name, not by the segment).         *)
(***************************************************************************)
ClockOwned ==
    \A p \in CProcs : LET r == shm[p].role s == shm[p].seg IN
       /\ fds[p]  = IF r \in {"opened", "sized", "mapped", "owner", "observer"} THEN {s} ELSE {}
       /\ maps[p] = IF r \in {"mapped", "owner", "observer"} THEN {s} ELSE {}
       /\ r = "owner" /\ creators[s] = {p} => s \in ticking
       /\ r = "owner" /\ (\A c \in CSegs : creators[c] \subseteq {p}) => cName = s
       /\ r = "ownerPtr" => s \in ticking
=============================================================================
