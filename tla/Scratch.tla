------------------------------ MODULE Scratch -------------------------------
(***************************************************************************)
(* The thread-local scratch allocator (fd_scratch).  The library keeps one *)
(* attachment and one stack of frames per thread; ScratchAllocator,        *)
(* ScratchFrame and DynamicAllocation are values that act on whatever the  *)
(* state of the current thread is, not on the state they came from.        *)
(*                                                                         *)
(* The fd_scratch_* functions are external.  A frame is popped with all    *)
(* that was allocated in it; any call but publish ends a prepare.          *)
(***************************************************************************)
EXTENDS Integers, Sequences, SequencesExt, FiniteSets

CONSTANTS
  SThreads,   \* threads
  Allocators, \* ScratchAllocator values, each tied to the thread that makes it
  FrameIds,   \* the frames that may be pushed (bounds their number)
  SFrameMax,  \* max_frames
  DraftMax    \* bound on the DynamicAllocations a thread holds

NoMem == "none"   \* no memory attached; no thread

ASSUME ScratchAssumption == SFrameMax \in Nat \ {0} /\ DraftMax \in Nat /\ NoMem \notin SThreads \cup Allocators

VARIABLES
  home,       \* allocator -> the thread that owns it while its memory is allocated
  attachedMem,\* thread -> the allocator whose memory is attached
  frames,     \* thread -> stack of frames, innermost last
  guards,     \* ScratchFrame guards held: [frame, thread that pushed it]
  usedIds,    \* frames pushed so far
  chunks,     \* ScratchAllocations held: [frame, mem]
  prepared,   \* thread -> a prepare is open
  drafts,     \* thread -> DynamicAllocations held, each from a prepare that may be over
  intruder,   \* history: a second allocator was made or dropped on the thread
  disturbed   \* history: a frame was popped by something else than its own guard

scratchVars == <<home, attachedMem, frames, guards, usedIds, chunks, prepared, drafts, intruder,
                disturbed>>

ScratchTypeOK ==
  /\ home \in [Allocators -> SThreads \cup {NoMem}]
  /\ attachedMem \in [SThreads -> Allocators \cup {NoMem}]
  /\ frames \in [SThreads -> Seq(FrameIds)] /\ \A t \in SThreads : Len(frames[t]) <= SFrameMax
  /\ guards \subseteq [frame: FrameIds, thread: SThreads] /\ usedIds \subseteq FrameIds
  /\ chunks \subseteq [frame: FrameIds, mem: Allocators]
  /\ prepared \in [SThreads -> BOOLEAN] /\ drafts \in [SThreads -> 0..DraftMax]
  /\ intruder \in BOOLEAN /\ disturbed \in BOOLEAN

ScratchInit ==
  /\ home = [k \in Allocators |-> NoMem] /\ attachedMem = [t \in SThreads |-> NoMem]
  /\ frames = [t \in SThreads |-> <<>>] /\ guards = {} /\ usedIds = {} /\ chunks = {}
  /\ prepared = [t \in SThreads |-> FALSE] /\ drafts = [t \in SThreads |-> 0]
  /\ intruder = FALSE /\ disturbed = FALSE

Alive == {k \in Allocators : home[k] # NoMem}
OnThread(t) == {k \in Allocators : home[k] = t}
Top(t) == frames[t][Len(frames[t])]

\* fd_scratch_detach, when it is safe: the stack goes with the attachment.
DetachThread(t) ==
  /\ attachedMem' = [attachedMem EXCEPT ![t] = NoMem]
  /\ frames' = [frames EXCEPT ![t] = <<>>]
  /\ prepared' = [prepared EXCEPT ![t] = FALSE]

-----------------------------------------------------------------------------
\* ScratchAllocator::new.  When the thread has an attachment already, attach fails, and
\* the drop of the value that new has built detaches the one that was there.
ScratchNew(t, k) ==
  /\ home[k] = NoMem
  /\ IF attachedMem[t] = NoMem
       THEN /\ home' = [home EXCEPT ![k] = t]
            /\ attachedMem' = [attachedMem EXCEPT ![t] = k]
            /\ UNCHANGED <<frames, prepared, intruder, disturbed>>
       ELSE /\ DetachThread(t)
            /\ intruder' = TRUE /\ disturbed' = TRUE
            /\ UNCHANGED home
  /\ UNCHANGED <<guards, usedIds, chunks, drafts>>

\* Mutant: the attachment of the allocator itself is left when its memory is freed.
MutScratchDrop(k) ==
  /\ home[k] # NoMem
  /\ IF attachedMem[home[k]] = k
       THEN UNCHANGED <<attachedMem, frames, prepared>>
       ELSE DetachThread(home[k])
  /\ home' = [home EXCEPT ![k] = NoMem]
  /\ intruder' = (intruder \/ OnThread(home[k]) # {k})
  /\ disturbed' = (disturbed \/ frames[home[k]] # <<>>)
  /\ UNCHANGED <<guards, usedIds, chunks, drafts>>

\* Drop: whatever is attached to the thread is detached, then the memory is freed.
ScratchDrop(k) ==
  /\ home[k] # NoMem
  /\ DetachThread(home[k])
  /\ home' = [home EXCEPT ![k] = NoMem]
  /\ intruder' = (intruder \/ OnThread(home[k]) # {k})
  /\ disturbed' = (disturbed \/ frames[home[k]] # <<>>)
  /\ UNCHANGED <<guards, usedIds, chunks, drafts>>

\* push_frame through any allocator of the thread: TooManyFrames without an attachment
\* or with all frames in use.
PushFrame(t, f) ==
  /\ OnThread(t) # {} /\ attachedMem[t] # NoMem /\ Len(frames[t]) < SFrameMax
  /\ f \notin usedIds
  /\ usedIds' = usedIds \cup {f}
  /\ frames' = [frames EXCEPT ![t] = Append(@, f)]
  /\ guards' = guards \cup {[frame |-> f, thread |-> t]}
  /\ prepared' = [prepared EXCEPT ![t] = FALSE]
  /\ UNCHANGED <<home, attachedMem, chunks, drafts, intruder, disturbed>>

\* pop_frame: the guard of the frame stays behind.
PopFrame(t) ==
  /\ OnThread(t) # {} /\ frames[t] # <<>>
  /\ frames' = [frames EXCEPT ![t] = Front(@)]
  /\ prepared' = [prepared EXCEPT ![t] = FALSE]
  /\ disturbed' = TRUE
  /\ UNCHANGED <<home, attachedMem, guards, usedIds, chunks, drafts, intruder>>

\* Drop for ScratchFrame, on any thread the guard was moved to: the innermost frame of
\* that thread is popped if there is one.
DropGuard(g, t) ==
  /\ g \in guards
  /\ guards' = guards \ {g}
  /\ IF frames[t] = <<>>
       THEN UNCHANGED <<frames, prepared>> /\ disturbed' = (disturbed \/ t # g.thread)
       ELSE /\ frames' = [frames EXCEPT ![t] = Front(@)]
            /\ prepared' = [prepared EXCEPT ![t] = FALSE]
            /\ disturbed' = (disturbed \/ t # g.thread \/ Top(t) # g.frame)
  /\ UNCHANGED <<home, attachedMem, usedIds, chunks, drafts, intruder>>

-----------------------------------------------------------------------------
\* allocate: refused (InsufficientSpace) outside a frame.
ScratchAllocate(t) ==
  /\ OnThread(t) # {} /\ attachedMem[t] # NoMem /\ frames[t] # <<>>
  /\ chunks' = chunks \cup {[frame |-> Top(t), mem |-> attachedMem[t]]}
  /\ prepared' = [prepared EXCEPT ![t] = FALSE]
  /\ UNCHANGED <<home, attachedMem, frames, guards, usedIds, drafts, intruder, disturbed>>

DropChunk(c) ==
  /\ c \in chunks /\ chunks' = chunks \ {c}
  /\ UNCHANGED <<home, attachedMem, frames, guards, usedIds, prepared, drafts, intruder, disturbed>>

PrepareAlloc(t) ==
  /\ OnThread(t) # {} /\ attachedMem[t] # NoMem /\ frames[t] # <<>>
  /\ drafts[t] < DraftMax
  /\ prepared' = [prepared EXCEPT ![t] = TRUE]
  /\ drafts' = [drafts EXCEPT ![t] = @ + 1]
  /\ UNCHANGED <<home, attachedMem, frames, guards, usedIds, chunks, intruder, disturbed>>

\* publish and cancel consume the value, whatever has become of the prepare it is from.
\* publish asks the library (PrepareMismatch when no prepare is open), cancel does not.
Publish(t) ==
  /\ drafts[t] > 0 /\ drafts' = [drafts EXCEPT ![t] = @ - 1]
  /\ prepared' = [prepared EXCEPT ![t] = FALSE]
  /\ chunks' = IF prepared[t] THEN chunks \cup {[frame |-> Top(t), mem |-> attachedMem[t]]} ELSE chunks
  /\ UNCHANGED <<home, attachedMem, frames, guards, usedIds, intruder, disturbed>>

Cancel(t) ==
  /\ drafts[t] > 0 /\ drafts' = [drafts EXCEPT ![t] = @ - 1]
  /\ prepared' = [prepared EXCEPT ![t] = FALSE]
  /\ UNCHANGED <<home, attachedMem, frames, guards, usedIds, chunks, intruder, disturbed>>

\* trim moves the end of the innermost frame to the end asked for, when the library finds
\* it in that frame (InvalidState otherwise): also for a chunk with others behind it, and
\* for a chunk of a frame that is gone, in whose bytes the open frame may lie now.
Trim(c, t) ==
  /\ c \in chunks /\ attachedMem[t] = c.mem /\ frames[t] # <<>>
  /\ prepared' = [prepared EXCEPT ![t] = FALSE]
  /\ UNCHANGED <<home, attachedMem, frames, guards, usedIds, chunks, drafts, intruder, disturbed>>

ScratchNext ==
  \/ \E k \in Allocators : ScratchDrop(k) \/ \E t \in SThreads : ScratchNew(t, k)
  \/ \E t \in SThreads :
       \/ PopFrame(t) \/ ScratchAllocate(t) \/ PrepareAlloc(t) \/ Publish(t) \/ Cancel(t)
       \/ \E f \in FrameIds : PushFrame(t, f)
       \/ \E g \in guards : DropGuard(g, t)
  \/ \E c \in chunks : DropChunk(c) \/ \E t \in SThreads : Trim(c, t)

ScratchSpec == ScratchInit /\ [][ScratchNext]_scratchVars

-----------------------------------------------------------------------------
\* The memory attached to a thread is allocated and is the thread's own, whatever order
\* allocators are made, refused and dropped in: the library never writes frames into
\* freed memory.
AttachedIsAlive ==
  /\ \A t \in SThreads : attachedMem[t] # NoMem => home[attachedMem[t]] = t
  /\ \A t \in SThreads : frames[t] # <<>> \/ prepared[t] => attachedMem[t] # NoMem

\* An allocator can be used until it is dropped, unless another one was made or dropped
\* on its thread: that detaches it for good.
AllocatorUsable == ~intruder => \A k \in Alive : attachedMem[home[k]] = k

\* As long as nothing else pops frames (pop_frame, a guard dropped out of order or on
\* another thread, a detach), the open frames are exactly those whose guards are held,
\* so that leaving a scope pops the frame of that scope and no other.
GuardsMatchFrames ==
  ~disturbed => \A t \in SThreads : ToSet(frames[t]) = {g.frame : g \in {x \in guards : x.thread = t}}

\* What the safe interface of fd_scratch promises a thread.
ScratchSound == AttachedIsAlive /\ AllocatorUsable /\ GuardsMatchFrames
=============================================================================
