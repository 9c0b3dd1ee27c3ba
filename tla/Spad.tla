-------------------------------- MODULE Spad --------------------------------
(***************************************************************************)
(* The shared scratch pad (fd_spad): a region of MemMax bytes that any     *)
(* number of processes join, with a stack of frames; allocations are taken *)
(* from the top of the region and die with their frame.                    *)
(*                                                                         *)
(* The fd_spad_* library functions are not in this repository: they are    *)
(* modelled from the use the wrapper makes of them, each as one atomic     *)
(* step on mem_used and the frame stack.  The methods of SpadAllocator     *)
(* call two or three of them: what the first ones returned is all a        *)
(* process knows when it makes the last call, and another process may      *)
(* come in between.                                                        *)
(***************************************************************************)
EXTENDS Integers, Sequences, FiniteSets

CONSTANTS
  Procs,
  MemMax,      \* mem_max of the region
  FrameMax,    \* frame_max()
  Sizes,       \* the sizes asked for, and published
  Alignments,  \* the alignments asked for
  DefaultAlign \* what the library takes for an alignment of 0

ASSUME SpadAssumption ==
  /\ MemMax \in Nat \ {0} /\ FrameMax \in Nat \ {0}
  /\ Sizes \subseteq Nat /\ Alignments \subseteq Nat /\ DefaultAlign \in Nat \ {0}

VARIABLES
  region,   \* "raw" memory, or a "spad" once fd_spad_new has formatted it
  joined,   \* the processes that hold a SpadAllocator
  used,     \* mem_used
  frames,   \* mem_used as each open frame found it
  call,     \* per process: the library call its checks have led to
  prep,     \* per process: the DynamicAllocation it may publish
  ret,      \* per process: what its last method returned
  guards,   \* SpadFrame guards alive
  live,     \* bytes handed out in frames still open (history)
  overdrawn \* more has been published than was prepared (history)

vars == <<region, joined, used, frames, call, prep, ret, guards, live, overdrawn>>

NoCall == [op |-> "none"]
NoPrep == [lo |-> 0, max |-> 0]

LibCalls == [op: {"none", "push", "pop"}]
              \cup [op: {"alloc", "prepare"}, size: Sizes \ {0}, align: Alignments]
              \cup [op: {"trim"}, end: Nat]
Preparations == [lo: Nat, max: Nat]
Allocations  == [lo: Nat, hi: Nat, depth: Nat]

SpadError == {"InvalidAlignment", "InvalidSize", "NoFrame", "TooManyFrames", "NoFramesToPop",
              "InsufficientSpace", "InvalidState", "InvalidShmem", "CreationFailed", "JoinFailed"}
Results == SpadError \cup {"Ok"}

Aligned(x, a) == x + ((a - (x % a)) % a)
AlignUp(x, a) == Aligned(x, IF a = 0 THEN DefaultAlign ELSE a)

IsPowerOfTwo(a)   == \E k \in 0..a : a = 2^k
ValidAlignment(a) == a = 0 \/ IsPowerOfTwo(a)

InFrame   == frames # <<>>
FrameFree == FrameMax - Len(frames)
FrameLo   == frames[Len(frames)]
AllocMax(a) ==
  IF InFrame /\ AlignUp(used, a) <= MemMax THEN MemMax - AlignUp(used, a) ELSE 0

Ready(p) == p \in joined /\ call[p] = NoCall

-----------------------------------------------------------------------------
(* Creating, joining and leaving.                                          *)

New(p, size) ==
  /\ p \notin joined
  /\ region = "raw"
  /\ \/ /\ \E e \in {"InvalidShmem", IF size = 0 THEN "InvalidSize" ELSE "CreationFailed"} :
             ret' = [ret EXCEPT ![p] = e]
        /\ UNCHANGED <<region, joined, used, frames, overdrawn>>
     \/ /\ size # 0
        /\ region' = "spad"
        /\ joined' = joined \cup {p}
        /\ used' = 0 /\ frames' = <<>> /\ overdrawn' = FALSE
        /\ ret' = [ret EXCEPT ![p] = "Ok"]
  /\ UNCHANGED <<call, prep, guards, live>>

Join(p) ==
  /\ p \notin joined
  /\ \/ /\ \E e \in {"InvalidShmem"} \cup (IF region = "raw" THEN {"JoinFailed"} ELSE {}) :
             ret' = [ret EXCEPT ![p] = e]
        /\ UNCHANGED joined
     \/ /\ region = "spad"
        /\ joined' = joined \cup {p}
        /\ ret' = [ret EXCEPT ![p] = "Ok"]
  /\ UNCHANGED <<region, used, frames, call, prep, guards, live, overdrawn>>

\* leave(), and the drop of a SpadAllocator: the frames stay in the region.
Leave(p) ==
  /\ Ready(p)
  /\ joined' = joined \ {p}
  /\ prep' = [prep EXCEPT ![p] = NoPrep]
  /\ UNCHANGED <<region, used, frames, call, ret, guards, live, overdrawn>>

\* delete(), by the last process that has joined.
Delete(p) ==
  /\ Ready(p) /\ joined = {p}
  /\ joined' = {}
  /\ region' = "raw"
  /\ prep' = [prep EXCEPT ![p] = NoPrep]
  /\ live' = {}
  /\ UNCHANGED <<used, frames, call, ret, guards, overdrawn>>

-----------------------------------------------------------------------------
(* The first half of a method: its checks.                                 *)

\* c is the library call to make when ok, e the error otherwise.
Checked(p, ok, e, c) ==
  /\ Ready(p)
  /\ IF ok THEN call' = [call EXCEPT ![p] = c] /\ UNCHANGED ret
           ELSE ret' = [ret EXCEPT ![p] = e] /\ UNCHANGED call
  /\ UNCHANGED <<region, joined, used, frames, prep, guards, live, overdrawn>>

MutCheckPush(p) == Checked(p, FrameFree >= 0, "TooManyFrames", [op |-> "push"])

CheckPush(p) == Checked(p, FrameFree # 0, "TooManyFrames", [op |-> "push"])

CheckPop(p) == Checked(p, InFrame, "NoFramesToPop", [op |-> "pop"])

MutCheckZero(p, op, size, a) ==   \* a size of zero is let through
  Checked(p, ValidAlignment(a) /\ InFrame /\ AllocMax(a) >= size, "InsufficientSpace",
          [op |-> op, size |-> size, align |-> a])

\* allocate and prepare_alloc.
CheckAlloc(p, op, size, a) ==
  Checked(p, size > 0 /\ ValidAlignment(a) /\ InFrame /\ AllocMax(a) >= size,
          CASE size = 0                                       -> "InvalidSize"
            [] size > 0 /\ ~ValidAlignment(a)                   -> "InvalidAlignment"
            [] size > 0 /\ ValidAlignment(a) /\ ~InFrame        -> "NoFrame"
            [] OTHER                                          -> "InsufficientSpace",
          [op |-> op, size |-> size, align |-> a])

MutCheckTrim(p, end) ==   \* the lower bound is not checked
  Checked(p, InFrame /\ end <= used, "InvalidState", [op |-> "trim", end |-> end])

CheckTrim(p, end) ==
  Checked(p, InFrame /\ (InFrame => FrameLo <= end /\ end <= used),
          IF InFrame THEN "InvalidState" ELSE "NoFrame",
          [op |-> "trim", end |-> end])

-----------------------------------------------------------------------------
(* The second half: the library call that changes the region.  Every one   *)
(* but publish ends a preparation.                                         *)

Calls(p, op) ==
  /\ call[p].op = op
  /\ call' = [call EXCEPT ![p] = NoCall]
  /\ ret' = [ret EXCEPT ![p] = "Ok"]
  /\ UNCHANGED <<region, joined, overdrawn>>

DoPush(p) ==
  /\ Calls(p, "push")
  /\ frames' = Append(frames, used)
  /\ guards' = guards + 1
  /\ prep' = [prep EXCEPT ![p] = NoPrep]
  /\ UNCHANGED <<used, live>>

\* fd_spad_pop when no frame is left reads past the frame stack: mem_used is
\* then anything.
DoPop(p) ==
  /\ Calls(p, "pop")
  /\ IF InFrame THEN used' = FrameLo /\ frames' = SubSeq(frames, 1, Len(frames) - 1)
                ELSE used' \in 0..MemMax /\ UNCHANGED frames
  /\ live' = {l \in live : l.depth < Len(frames)}
  /\ prep' = [prep EXCEPT ![p] = NoPrep]
  /\ UNCHANGED guards

DoAlloc(p) ==
  /\ Calls(p, "alloc")
  /\ LET lo == AlignUp(used, call[p].align)
         hi == lo + call[p].size
     IN /\ used' = hi
        /\ live' = live \cup {[lo |-> lo, hi |-> hi, depth |-> Len(frames)]}
  /\ prep' = [prep EXCEPT ![p] = NoPrep]
  /\ UNCHANGED <<frames, guards>>

DoPrepare(p) ==
  /\ Calls(p, "prepare")
  /\ used' = AlignUp(used, call[p].align)
  /\ prep' = [prep EXCEPT ![p] = [lo |-> used', max |-> call[p].size]]
  /\ UNCHANGED <<frames, guards, live>>

\* What lies past the new end is given back.
DoTrim(p) ==
  /\ Calls(p, "trim")
  /\ used' = call[p].end
  /\ live' = {[l EXCEPT !.hi = IF l.hi <= used' THEN l.hi ELSE used'] :
                l \in {m \in live : m.lo < used'}}
  /\ prep' = [prep EXCEPT ![p] = NoPrep]
  /\ UNCHANGED <<frames, guards>>

-----------------------------------------------------------------------------
(* The methods that check nothing.                                         *)

\* publish_alloc hands actual to the library as it is: the caller may publish
\* more than it prepared, or a preparation that another call has ended.
Publish(p, actual) ==
  /\ Ready(p)
  /\ used' = used + actual
  /\ live' = live \cup {l \in {[lo |-> used, hi |-> used + actual, depth |-> Len(frames)]} :
                         l.lo < l.hi}
  /\ overdrawn' = (overdrawn \/ actual > prep[p].max)
  /\ prep' = [prep EXCEPT ![p] = NoPrep]
  /\ ret' = [ret EXCEPT ![p] = "Ok"]
  /\ UNCHANGED <<region, joined, frames, call, guards>>

Cancel(p) ==
  /\ Ready(p)
  /\ prep' = [prep EXCEPT ![p] = NoPrep]
  /\ ret' = [ret EXCEPT ![p] = "Ok"]
  /\ UNCHANGED <<region, joined, used, frames, call, guards, live, overdrawn>>

Reset(p) ==
  /\ Ready(p)
  /\ used' = 0 /\ frames' = <<>> /\ live' = {} /\ overdrawn' = FALSE
  /\ prep' = [prep EXCEPT ![p] = NoPrep]
  /\ UNCHANGED <<region, joined, call, ret, guards>>

\* The drop of a SpadFrame or a ManagedSpadFrame has an empty body.
DropGuard ==
  /\ guards > 0
  /\ guards' = guards - 1
  /\ UNCHANGED <<region, joined, used, frames, call, prep, ret, live, overdrawn>>

-----------------------------------------------------------------------------
Init ==
  /\ region = "raw" /\ joined = {}
  /\ used = 0 /\ frames = <<>>
  /\ call = [p \in Procs |-> NoCall]
  /\ prep = [p \in Procs |-> NoPrep]
  /\ ret = [p \in Procs |-> "Ok"]
  /\ guards = 0 /\ live = {} /\ overdrawn = FALSE

Step(p) ==
  \/ \E size \in {0, MemMax} : New(p, size)
  \/ Join(p) \/ Leave(p) \/ Delete(p)
  \/ CheckPush(p) \/ DoPush(p)
  \/ CheckPop(p) \/ DoPop(p)
  \/ \E size \in Sizes, a \in Alignments, op \in {"alloc", "prepare"} : CheckAlloc(p, op, size, a)
  \/ DoAlloc(p) \/ DoPrepare(p) \/ Cancel(p)
  \/ \E actual \in Sizes : Publish(p, actual)
  \/ \E end \in 0..(used + 1) : CheckTrim(p, end)
  \/ DoTrim(p)
  \/ Reset(p)

Next == (\E p \in Procs : Step(p)) \/ DropGuard

Spec == Init /\ [][Next]_vars

-----------------------------------------------------------------------------
(* Properties.                                                             *)

\* Every variable has its type.
TypeOK ==
  /\ region \in {"raw", "spad"} /\ joined \subseteq Procs
  /\ used \in Nat /\ frames \in Seq(Nat) /\ guards \in Nat
  /\ call \in [Procs -> LibCalls]
  /\ prep \in [Procs -> Preparations]
  /\ ret \in [Procs -> Results]
  /\ live \subseteq Allocations /\ overdrawn \in BOOLEAN

\* The frame stack never overflows, and the region is never handed out past its
\* end unless a caller has published more than it prepared: what allocate,
\* prepare_alloc and push_frame checked is still so when the library is called.
InBounds == Len(frames) <= FrameMax /\ (~overdrawn => used <= MemMax)

\* The end of the part of the region that belongs to frame d.
FrameEnd(d) == IF d = Len(frames) THEN used ELSE frames[d + 1]

Apart ==
  /\ \A l \in live : /\ l.depth \in 1..Len(frames)
                     /\ frames[l.depth] <= l.lo /\ l.lo < l.hi /\ l.hi <= FrameEnd(l.depth)
  /\ \A l, m \in live : l # m => l.hi <= m.lo \/ m.hi <= l.lo

\* As long as nobody has published more than was prepared, two allocations of open
\* frames never share a byte, and each lies inside its own frame, whatever
\* sequence of pushes, pops, trims, resets and published preparations led here.
AllocationsDisjoint == ~overdrawn => Apart

\* Once every SpadFrame guard is gone so is every frame ("pops the current frame
\* when dropped").
GuardsPopFrames ==
  guards = 0 /\ (\A p \in Procs : call[p] = NoCall) => frames = <<>>
=============================================================================
