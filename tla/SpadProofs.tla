----------------------------- MODULE SpadProofs -----------------------------
(***************************************************************************)
(* With one process the scratch pad is safe, whatever its size, its frame  *)
(* depth and the sizes and alignments asked for.  What the checks of a     *)
(* method found still holds when the library is called (Pending), a        *)
(* preparation is still at the top of the region when it is published      *)
(* (Prepared), and the frames split the region in order (FrameStack).      *)
(* Once more has been published than was prepared only Held is left of     *)
(* this, until the region is emptied.                                      *)
(***************************************************************************)
EXTENDS Spad, SequenceTheorems, TLAPS

USE SpadAssumption

Alone == \A p, q \in Procs : p = q

FrameStack ==
  /\ \A i \in 1..Len(frames) : frames[i] <= used
  /\ \A i, j \in 1..Len(frames) : i <= j => frames[i] <= frames[j]

Pending ==
  \A p \in Procs :
    /\ call[p].op = "push" => Len(frames) < FrameMax
    /\ call[p].op = "pop" => InFrame
    /\ call[p].op \in {"alloc", "prepare"} =>
         InFrame /\ AlignUp(used, call[p].align) + call[p].size <= MemMax
    /\ call[p].op = "trim" => InFrame /\ FrameLo <= call[p].end /\ call[p].end <= used

Prepared ==
  \A p \in Procs :
    /\ prep[p].max > 0 => InFrame /\ used + prep[p].max <= MemMax
    /\ p \notin joined => call[p] = NoCall /\ prep[p] = NoPrep

Cleared == (region = "raw" => live = {}) /\ (joined # {} => region = "spad")

\* What holds of the frame stack whatever has been published.
Held ==
  /\ Len(frames) <= FrameMax
  /\ \A p \in Procs :
       /\ call[p].op = "push" => Len(frames) < FrameMax
       /\ p \notin joined => call[p] = NoCall /\ prep[p] = NoPrep
  /\ Cleared

\* An alignment only moves an offset up.
LEMMA AlignedGrows ==
  ASSUME NEW x \in Nat, NEW a \in Nat \ {0}
  PROVE  Aligned(x, a) \in Nat /\ Aligned(x, a) >= x
<1>1. x % a \in 0..(a - 1)
  OBVIOUS
<1>2. a - (x % a) \in Nat
  BY <1>1
<1>3. (a - (x % a)) % a \in 0..(a - 1)
  BY <1>2
<1> QED BY <1>3 DEF Aligned

LEMMA AlignUpGrows ==
  ASSUME NEW x \in Nat, NEW a \in Nat
  PROVE  AlignUp(x, a) \in Nat /\ AlignUp(x, a) >= x
<1>1. (IF a = 0 THEN DefaultAlign ELSE a) \in Nat \ {0}
  OBVIOUS
<1> QED BY <1>1, AlignedGrows DEF AlignUp

Within == used <= MemMax /\ Len(frames) <= FrameMax

RegionInv == Within /\ FrameStack /\ Apart

SpadSafe == TypeOK /\ RegionInv /\ Pending /\ Prepared /\ Cleared

SpadInd == TypeOK /\ Held /\ (~overdrawn => SpadSafe)

LEMMA NoTypes == NoCall \in LibCalls /\ NoPrep \in Preparations
  BY DEF NoCall, NoPrep, LibCalls, Preparations

\* Every step keeps the types.
LEMMA TypeStep == ASSUME TypeOK, Next PROVE TypeOK'
<1> USE DEF TypeOK
<1>0. ASSUME NEW p \in Procs, NEW r \in Results
      PROVE  /\ [ret EXCEPT ![p] = r] \in [Procs -> Results]
             /\ [prep EXCEPT ![p] = NoPrep] \in [Procs -> Preparations]
             /\ [call EXCEPT ![p] = NoCall] \in [Procs -> LibCalls]
  BY NoTypes
<1>r. {"Ok", "InvalidSize", "JoinFailed", "InvalidShmem", "CreationFailed"} \subseteq Results /\ SpadError \subseteq Results
  BY DEF Results, SpadError
<1>e. <<>> \in Seq(Nat) /\ {} \subseteq Allocations
  OBVIOUS
<1>1. ASSUME NEW p \in Procs, NEW size \in {0, MemMax}, New(p, size) PROVE TypeOK'
  <2>1. ret' \in [Procs -> Results]
    BY <1>0, <1>r, <1>1 DEF New
  <2>2. joined' \subseteq Procs /\ region' \in {"raw", "spad"}
    BY <1>1 DEF New
  <2>3. used' \in Nat /\ frames' \in Seq(Nat)
    <3>1. (used' = used /\ frames' = frames) \/ (used' = 0 /\ frames' = <<>>)
      BY <1>1 DEF New
    <3>2. 0 \in Nat
      OBVIOUS
    <3> QED BY <1>e, <3>1, <3>2, Zenon
  <2> QED BY <1>1, <2>1, <2>2, <2>3 DEF New
<1>2. ASSUME NEW p \in Procs, Join(p) \/ Leave(p) \/ Delete(p) PROVE TypeOK'
  <2>1. ret' \in [Procs -> Results]
    BY <1>0, <1>r, <1>2 DEF Join, Leave, Delete
  <2>2. prep' \in [Procs -> Preparations]
    BY <1>0, <1>r, <1>2 DEF Join, Leave, Delete
  <2> QED BY <1>2, <2>1, <2>2 DEF Join, Leave, Delete
<1>3. ASSUME NEW p \in Procs, NEW ok, NEW c, ok => c \in LibCalls, NEW e \in SpadError,
             Checked(p, ok, e, c)
      PROVE  TypeOK'
  <2>1. CASE ok
    <3>1. call' = [call EXCEPT ![p] = c] /\ ret' = ret
      BY <1>3, <2>1 DEF Checked
    <3>2. call' \in [Procs -> LibCalls]
      BY <1>3, <2>1, <3>1
    <3> QED BY <1>3, <3>1, <3>2 DEF Checked
  <2>2. CASE ~ok
    <3>1. ret' = [ret EXCEPT ![p] = e] /\ call' = call
      BY <1>3, <2>2 DEF Checked
    <3>2. ret' \in [Procs -> Results]
      BY <1>0, <1>r, <3>1
    <3> QED BY <1>3, <3>1, <3>2 DEF Checked
  <2> QED BY <2>1, <2>2
<1>4. ASSUME NEW p \in Procs, CheckPush(p) \/ CheckPop(p) PROVE TypeOK'
  <2>1. [op |-> "push"] \in LibCalls /\ [op |-> "pop"] \in LibCalls
        /\ "TooManyFrames" \in SpadError /\ "NoFramesToPop" \in SpadError
    BY DEF LibCalls, SpadError
  <2>2. CASE CheckPush(p)
    BY <1>3, <2>1, <2>2 DEF CheckPush
  <2>3. CASE CheckPop(p)
    BY <1>3, <2>1, <2>3 DEF CheckPop
  <2> QED BY <1>4, <2>2, <2>3
<1>5. ASSUME NEW p \in Procs, NEW size \in Sizes, NEW a \in Alignments,
             NEW op \in {"alloc", "prepare"}, CheckAlloc(p, op, size, a)
      PROVE  TypeOK'
  <2> DEFINE c  == [op |-> op, size |-> size, align |-> a]
             e  == CASE size = 0 -> "InvalidSize"
                     [] size > 0 /\ ~ValidAlignment(a) -> "InvalidAlignment"
                     [] size > 0 /\ ValidAlignment(a) /\ ~InFrame -> "NoFrame"
                     [] OTHER -> "InsufficientSpace"
             ok == size > 0 /\ ValidAlignment(a) /\ InFrame /\ AllocMax(a) >= size
  <2>1. ok => c \in LibCalls
    BY DEF LibCalls
  <2>2. e \in SpadError
    <3>1. CASE size = 0
      BY <3>1 DEF SpadError
    <3>2. CASE size > 0 /\ ~ValidAlignment(a)
      BY <3>2 DEF SpadError
    <3>3. CASE size > 0 /\ ValidAlignment(a) /\ ~InFrame
      BY <3>3 DEF SpadError
    <3>4. CASE size > 0 /\ ValidAlignment(a) /\ InFrame
      BY <3>4 DEF SpadError
    <3> QED BY <3>1, <3>2, <3>3, <3>4
  <2>3. Checked(p, ok, e, c)
    BY <1>5 DEF CheckAlloc
  <2> HIDE DEF c, e, ok
  <2> QED BY <1>3, <2>1, <2>2, <2>3
<1>6. ASSUME NEW p \in Procs, NEW end \in Nat, CheckTrim(p, end) PROVE TypeOK'
  <2> DEFINE c  == [op |-> "trim", end |-> end]
             e  == IF InFrame THEN "InvalidState" ELSE "NoFrame"
             ok == InFrame /\ (InFrame => FrameLo <= end /\ end <= used)
  <2>1. c \in LibCalls /\ e \in SpadError
    BY DEF LibCalls, SpadError
  <2>2. Checked(p, ok, e, c)
    BY <1>6 DEF CheckTrim
  <2> HIDE DEF c, e, ok
  <2> QED BY <1>3, <2>1, <2>2
<1>7. ASSUME NEW p \in Procs, DoPush(p) PROVE TypeOK'
  BY <1>0, <1>r, <1>7 DEF DoPush, Calls
<1>8. ASSUME NEW p \in Procs, DoPop(p) PROVE TypeOK'
  <2>1. used' \in Nat /\ frames' \in Seq(Nat)
    <3>1. CASE InFrame
      <4>1. FrameLo \in Nat /\ Len(frames) - 1 \in Int /\ \A i \in 1..(Len(frames) - 1) : frames[i] \in Nat
        BY <3>1 DEF InFrame, FrameLo
      <4>2. SubSeq(frames, 1, Len(frames) - 1) \in Seq(Nat)
        BY <4>1, SubSeqProperties
      <4> QED BY <1>8, <3>1, <4>1, <4>2 DEF DoPop
    <3>2. CASE ~InFrame
      BY <1>8, <3>2 DEF DoPop
    <3> QED BY <3>1, <3>2
  <2>2. live' \subseteq live
    BY <1>8 DEF DoPop
  <2> QED BY <1>0, <1>r, <1>8, <2>1, <2>2 DEF DoPop, Calls
<1>9. ASSUME NEW p \in Procs, DoAlloc(p) \/ DoPrepare(p) PROVE TypeOK'
  <2>1. call[p].op \in {"alloc", "prepare"} /\ call[p] \in LibCalls
    BY <1>9 DEF DoAlloc, DoPrepare, Calls
  <2>2. call[p].size \in Nat /\ call[p].align \in Nat
    BY <2>1 DEF LibCalls
  <2>3. AlignUp(used, call[p].align) \in Nat
    BY <2>2, AlignUpGrows
  <2>4. AlignUp(used, call[p].align) + call[p].size \in Nat /\ Len(frames) \in Nat
    BY <2>2, <2>3
  <2>5. CASE DoAlloc(p)
    <3>1. live' \subseteq Allocations
      BY <2>3, <2>4, <2>5 DEF DoAlloc, Allocations
    <3> QED BY <1>0, <1>r, <2>4, <2>5, <3>1 DEF DoAlloc, Calls
  <2>6. CASE DoPrepare(p)
    <3>1. [lo |-> used', max |-> call[p].size] \in Preparations /\ used' \in Nat
      BY <2>2, <2>3, <2>6 DEF DoPrepare, Preparations
    <3>2. prep' \in [Procs -> Preparations]
      BY <2>6, <3>1 DEF DoPrepare
    <3> QED BY <1>0, <1>r, <2>6, <3>1, <3>2 DEF DoPrepare, Calls
  <2> QED BY <1>9, <2>5, <2>6
<1>10. ASSUME NEW p \in Procs, DoTrim(p) PROVE TypeOK'
  <2>1. call[p].op = "trim" /\ call[p] \in LibCalls
    BY <1>10 DEF DoTrim, Calls
  <2>2. used' \in Nat
    BY <1>10, <2>1 DEF DoTrim, LibCalls
  <2>3. ASSUME NEW l \in live
        PROVE  [l EXCEPT !.hi = IF l.hi <= used' THEN l.hi ELSE used'] \in Allocations
    BY <2>2 DEF Allocations
  <2>4. live' \subseteq Allocations
    BY <1>10, <2>3 DEF DoTrim
  <2> QED BY <1>0, <1>r, <1>10, <2>2, <2>4 DEF DoTrim, Calls
<1>11. ASSUME NEW p \in Procs, NEW actual \in Sizes, Publish(p, actual) PROVE TypeOK'
  <2>1. actual \in Nat /\ used + actual \in Nat /\ Len(frames) \in Nat
    OBVIOUS
  <2>2. live' \subseteq Allocations
    BY <1>11, <2>1 DEF Publish, Allocations
  <2>3. overdrawn' \in BOOLEAN
    BY <1>11 DEF Publish
  <2> QED BY <1>0, <1>r, <1>11, <2>1, <2>2, <2>3 DEF Publish
<1>12. ASSUME NEW p \in Procs, Cancel(p) \/ Reset(p) PROVE TypeOK'
  <2>1. ret' \in [Procs -> Results] /\ prep' \in [Procs -> Preparations]
    <3>1. ret' = [ret EXCEPT ![p] = "Ok"] \/ ret' = ret
      BY <1>12 DEF Cancel, Reset
    <3>2. prep' = [prep EXCEPT ![p] = NoPrep]
      BY <1>12 DEF Cancel, Reset
    <3> QED BY <1>0, <1>r, <3>1, <3>2
  <2>2. used' \in Nat /\ frames' \in Seq(Nat) /\ live' \subseteq Allocations
    <3>1. \/ used' = used /\ frames' = frames /\ live' = live
          \/ used' = 0 /\ frames' = <<>> /\ live' = {}
      BY <1>12 DEF Cancel, Reset
    <3>2. 0 \in Nat
      OBVIOUS
    <3> QED BY <1>e, <3>1, <3>2, Zenon
  <2> QED BY <1>12, <2>1, <2>2 DEF Cancel, Reset
<1>13. CASE DropGuard
  BY <1>13 DEF DropGuard
<1>14. used + 1 \in Nat
  OBVIOUS
<1> QED BY <1>1, <1>2, <1>4, <1>5, <1>6, <1>7, <1>8, <1>9, <1>10, <1>11, <1>12, <1>13, <1>14 DEF Next, Step

-----------------------------------------------------------------------------
(* The part of the invariant about the region, and each way a step changes it. *)

LEMMA RegionKept ==
  ASSUME RegionInv, UNCHANGED <<used, frames, live>>
  PROVE  RegionInv'
  BY DEF RegionInv, Within, FrameStack, Apart, FrameEnd

LEMMA RegionEmptied ==
  ASSUME used' = 0, frames' = <<>>, live' = {}
  PROVE  RegionInv'
<1>1. Len(frames') = 0
  OBVIOUS
<1> QED BY <1>1 DEF RegionInv, Within, FrameStack, Apart

\* No open frame ends past mem_used, and frames nest.
LEMMA FrameEnds ==
  ASSUME TypeOK, RegionInv, NEW d \in 1..Len(frames)
  PROVE  /\ FrameEnd(d) \in Nat /\ frames[d] \in Nat /\ FrameEnd(d) <= used
         /\ d < Len(frames) => FrameEnd(d) = frames[d + 1] /\ FrameEnd(d) <= FrameLo
  BY DEF TypeOK, RegionInv, FrameStack, FrameEnd, FrameLo

\* Handing out lo..hi, above everything in use.
LEMMA RegionGrows ==
  ASSUME TypeOK, RegionInv, InFrame, NEW lo \in Nat, NEW hi \in Nat,
         used <= lo, lo < hi, hi <= MemMax,
         used' = hi, frames' = frames,
         live' = live \cup {[lo |-> lo, hi |-> hi, depth |-> Len(frames)]}
  PROVE  RegionInv'
<1> USE DEF TypeOK
<1> DEFINE n == [lo |-> lo, hi |-> hi, depth |-> Len(frames)]
<1>0. Len(frames) \in 1..Len(frames)
  BY DEF InFrame
<1>1. Within' /\ FrameStack'
  BY DEF RegionInv, Within, FrameStack
<1>2. ASSUME NEW l \in live
      PROVE  /\ l.depth \in 1..Len(frames') /\ frames'[l.depth] <= l.lo /\ l.lo < l.hi
             /\ l.hi <= FrameEnd(l.depth)' /\ l.hi <= used
  <2>1. /\ l.depth \in 1..Len(frames) /\ frames[l.depth] <= l.lo /\ l.lo < l.hi
        /\ l.hi <= FrameEnd(l.depth) /\ l.hi \in Nat
    BY DEF RegionInv, Apart, Allocations
  <2>2. FrameEnd(l.depth) <= used /\ FrameEnd(l.depth) \in Nat
    BY <2>1, FrameEnds
  <2>3. l.hi <= used
    BY <2>1, <2>2
  <2>4. l.hi <= FrameEnd(l.depth)'
    BY <2>1, <2>3 DEF FrameEnd
  <2> QED BY <2>1, <2>3, <2>4
<1>4. ASSUME NEW l \in live PROVE l.hi <= n.lo
  BY <1>2 DEF Allocations
<1>5. ASSUME NEW l \in live, NEW m \in live, l # m PROVE l.hi <= m.lo \/ m.hi <= l.lo
  BY <1>5 DEF RegionInv, Apart
<1> HIDE DEF n
<1>6. live' = live \cup {n}
  BY DEF n
<1>7. \A l \in live' : /\ l.depth \in 1..Len(frames')
                        /\ frames'[l.depth] <= l.lo /\ l.lo < l.hi /\ l.hi <= FrameEnd(l.depth)'
  <2> SUFFICES ASSUME NEW l \in live'
               PROVE  /\ l.depth \in 1..Len(frames')
                      /\ frames'[l.depth] <= l.lo /\ l.lo < l.hi /\ l.hi <= FrameEnd(l.depth)'
    OBVIOUS
  <2>1. CASE l \in live
    BY <1>2, <2>1
  <2>2. CASE l = n
    <3>1. l.depth = Len(frames') /\ l.lo = lo /\ l.hi = hi
      BY <2>2 DEF n
    <3>2. FrameEnd(l.depth)' = used'
      BY <3>1 DEF FrameEnd
    <3>3. frames[Len(frames)] <= used /\ frames[Len(frames)] \in Nat
      BY <1>0 DEF RegionInv, FrameStack
    <3> QED BY <1>0, <3>1, <3>2, <3>3
  <2> QED BY <1>6, <2>1, <2>2
<1>8. \A l, m \in live' : l # m => l.hi <= m.lo \/ m.hi <= l.lo
  BY <1>4, <1>5, <1>6
<1>9. Apart'
  BY <1>7, <1>8 DEF Apart
<1> QED BY <1>1, <1>9 DEF RegionInv

\* mem_used moves up with nothing handed out.
LEMMA RegionPadded ==
  ASSUME TypeOK, RegionInv, used' \in Nat, used <= used', used' <= MemMax,
         frames' = frames, live' = live
  PROVE  RegionInv'
<1> USE DEF TypeOK
<1>1. Within' /\ FrameStack'
  BY DEF RegionInv, Within, FrameStack
<1>2. ASSUME NEW l \in live
      PROVE  l.depth \in 1..Len(frames) /\ frames[l.depth] <= l.lo /\ l.lo < l.hi
             /\ l.hi <= FrameEnd(l.depth)'
  <2>1. /\ l.depth \in 1..Len(frames) /\ frames[l.depth] <= l.lo /\ l.lo < l.hi
        /\ l.hi <= FrameEnd(l.depth) /\ l.hi \in Nat
    BY DEF RegionInv, Apart, Allocations
  <2> QED BY <2>1 DEF FrameEnd
<1>3. Apart'
  BY <1>2 DEF RegionInv, Apart
<1> QED BY <1>1, <1>3 DEF RegionInv

LEMMA RegionPushed ==
  ASSUME TypeOK, RegionInv, Len(frames) < FrameMax,
         frames' = Append(frames, used), used' = used, live' = live
  PROVE  RegionInv'
<1> USE DEF TypeOK
<1>1. /\ Len(frames') = Len(frames) + 1 /\ frames'[Len(frames) + 1] = used
      /\ \A i \in 1..Len(frames) : frames'[i] = frames[i]
  OBVIOUS
<1>2. Within'
  BY <1>1 DEF RegionInv, Within
<1>3. FrameStack'
  <2>1. ASSUME NEW i \in 1..Len(frames') PROVE frames'[i] <= used'
    BY <1>1 DEF RegionInv, FrameStack
  <2>2. ASSUME NEW i \in 1..Len(frames'), NEW j \in 1..Len(frames'), i <= j
        PROVE  frames'[i] <= frames'[j]
    <3>1. CASE j = Len(frames) + 1
      BY <1>1, <2>1, <3>1
    <3>2. CASE j \in 1..Len(frames)
      BY <1>1, <2>2, <3>2 DEF RegionInv, FrameStack
    <3> QED BY <1>1, <3>1, <3>2
  <2> QED BY <2>1, <2>2 DEF FrameStack
<1>4. ASSUME NEW l \in live
      PROVE  l.depth \in 1..Len(frames') /\ frames'[l.depth] <= l.lo /\ l.lo < l.hi
             /\ l.hi <= FrameEnd(l.depth)'
  <2>1. /\ l.depth \in 1..Len(frames) /\ frames[l.depth] <= l.lo /\ l.lo < l.hi
        /\ l.hi <= FrameEnd(l.depth)
    BY DEF RegionInv, Apart
  <2>2. FrameEnd(l.depth)' = FrameEnd(l.depth)
    BY <1>1, <2>1 DEF FrameEnd
  <2> QED BY <1>1, <2>1, <2>2
<1>5. Apart'
  BY <1>4 DEF RegionInv, Apart
<1> QED BY <1>2, <1>3, <1>5 DEF RegionInv

LEMMA RegionPopped ==
  ASSUME TypeOK, RegionInv, InFrame,
         frames' = SubSeq(frames, 1, Len(frames) - 1), used' = FrameLo,
         live' = {l \in live : l.depth < Len(frames)}
  PROVE  RegionInv'
<1> USE DEF TypeOK
<1> DEFINE n == Len(frames) - 1
<1>0. n \in Nat /\ n + 1 = Len(frames) /\ \A i \in 1..n : frames[i] \in Nat
  BY DEF InFrame
<1>1. Len(frames') = n /\ \A i \in 1..n : frames'[i] = frames[i]
  <2>1. /\ Len(SubSeq(frames, 1, n)) = IF 1 <= n THEN n - 1 + 1 ELSE 0
        /\ \A i \in 1..n - 1 + 1 : SubSeq(frames, 1, n)[i] = frames[1 + i - 1]
    BY <1>0, SubSeqProperties
  <2> QED BY <1>0, <2>1
<1> HIDE DEF n
<1>2. FrameLo \in Nat /\ FrameLo <= used
  BY <1>0 DEF RegionInv, FrameStack, FrameLo
<1>3. Within'
  BY <1>0, <1>1, <1>2 DEF RegionInv, Within
<1>4. FrameStack'
  <2>1. ASSUME NEW i \in 1..n PROVE frames'[i] <= FrameLo
    <3>1. i \in 1..Len(frames) /\ Len(frames) \in 1..Len(frames) /\ i <= Len(frames)
      BY <1>0
    <3>2. frames[i] <= frames[Len(frames)]
      BY <3>1 DEF RegionInv, FrameStack
    <3> QED BY <1>1, <3>2 DEF FrameLo
  <2>2. ASSUME NEW i \in 1..n, NEW j \in 1..n, i <= j PROVE frames'[i] <= frames'[j]
    <3>1. i \in 1..Len(frames) /\ j \in 1..Len(frames)
      BY <1>0
    <3>2. frames[i] <= frames[j]
      BY <2>2, <3>1 DEF RegionInv, FrameStack
    <3> QED BY <1>1, <3>2
  <2> QED BY <1>1, <2>1, <2>2 DEF FrameStack
<1>5. ASSUME NEW l \in live'
      PROVE  l.depth \in 1..Len(frames') /\ frames'[l.depth] <= l.lo /\ l.lo < l.hi
             /\ l.hi <= FrameEnd(l.depth)'
  <2>1. /\ l \in live /\ l.depth < Len(frames) /\ l.depth \in 1..Len(frames)
        /\ frames[l.depth] <= l.lo /\ l.lo < l.hi /\ l.hi <= FrameEnd(l.depth)
    BY DEF RegionInv, Apart
  <2>2. l.depth \in 1..n
    BY <1>0, <2>1
  <2>3. FrameEnd(l.depth)' = FrameEnd(l.depth)
    <3>1. FrameEnd(l.depth) = frames[l.depth + 1]
      BY <2>1 DEF FrameEnd
    <3>2. CASE l.depth = n
      BY <1>0, <1>1, <3>1, <3>2 DEF FrameEnd, FrameLo
    <3>3. CASE l.depth # n
      <4>1. l.depth + 1 \in 1..n
        BY <1>0, <2>2, <3>3
      <4> QED BY <1>0, <1>1, <3>1, <3>3, <4>1 DEF FrameEnd
    <3> QED BY <3>2, <3>3
  <2> QED BY <1>1, <2>1, <2>2, <2>3
<1>6. Apart'
  BY <1>5 DEF RegionInv, Apart
<1> QED BY <1>3, <1>4, <1>6 DEF RegionInv

LEMMA RegionTrimmed ==
  ASSUME TypeOK, RegionInv, InFrame, NEW end \in Nat, FrameLo <= end, end <= used,
         frames' = frames, used' = end,
         live' = {[l EXCEPT !.hi = IF l.hi <= end THEN l.hi ELSE end] :
                    l \in {m \in live : m.lo < end}}
  PROVE  RegionInv'
<1> USE DEF TypeOK
<1>0. Len(frames) \in 1..Len(frames) /\ FrameLo \in Nat
  BY DEF InFrame, FrameLo
<1>1. Within'
  BY DEF RegionInv, Within
<1>2. FrameStack'
  <2>1. ASSUME NEW i \in 1..Len(frames) PROVE frames[i] <= end
    <3>1. frames[i] <= FrameLo /\ frames[i] \in Nat
      <4>1. i <= Len(frames)
        OBVIOUS
      <4>2. frames[i] <= frames[Len(frames)]
        BY <1>0, <4>1 DEF RegionInv, FrameStack
      <4> QED BY <4>2 DEF FrameLo
    <3> QED BY <1>0, <3>1
  <2> QED BY <2>1 DEF RegionInv, FrameStack
<1>3. ASSUME NEW k \in live'
      PROVE  \E l \in live : /\ k.lo = l.lo /\ k.depth = l.depth /\ l.lo < end
                             /\ k.hi = IF l.hi <= end THEN l.hi ELSE end
                             /\ k = [l EXCEPT !.hi = IF l.hi <= end THEN l.hi ELSE end]
  <2>1. PICK l \in live : /\ l.lo < end
                          /\ k = [l EXCEPT !.hi = IF l.hi <= end THEN l.hi ELSE end]
    OBVIOUS
  <2>2. l \in Allocations
    OBVIOUS
  <2>3. k.lo = l.lo /\ k.depth = l.depth /\ k.hi = IF l.hi <= end THEN l.hi ELSE end
    BY <2>1, <2>2 DEF Allocations
  <2> QED BY <2>1, <2>3
<1>4. ASSUME NEW k \in live'
      PROVE  k.depth \in 1..Len(frames') /\ frames'[k.depth] <= k.lo /\ k.lo < k.hi
             /\ k.hi <= FrameEnd(k.depth)'
  <2>1. PICK l \in live : /\ k.lo = l.lo /\ k.depth = l.depth /\ l.lo < end
                          /\ k.hi = IF l.hi <= end THEN l.hi ELSE end
    BY <1>3
  <2>2. /\ l.depth \in 1..Len(frames) /\ frames[l.depth] <= l.lo /\ l.lo < l.hi
        /\ l.hi <= FrameEnd(l.depth) /\ l.lo \in Nat /\ l.hi \in Nat
    <3>1. l \in Allocations
      OBVIOUS
    <3>2. l.lo \in Nat /\ l.hi \in Nat
      BY ONLY <3>1 DEF Allocations
    <3>3. /\ l.depth \in 1..Len(frames) /\ frames[l.depth] <= l.lo /\ l.lo < l.hi
          /\ l.hi <= FrameEnd(l.depth)
      BY DEF RegionInv, Apart
    <3> QED BY ONLY <3>2, <3>3
  <2>3. k.lo < k.hi /\ k.hi <= end /\ k.hi <= l.hi
    BY <2>1, <2>2
  <2>4. k.hi <= FrameEnd(l.depth)'
    <3>1. CASE l.depth = Len(frames)
      BY <2>3, <3>1 DEF FrameEnd
    <3>2. CASE l.depth # Len(frames)
      <4>1. FrameEnd(l.depth)' = FrameEnd(l.depth)
        BY <3>2 DEF FrameEnd
      <4>2. FrameEnd(l.depth) \in Nat /\ k.hi \in Nat
        BY <2>1, <2>2, FrameEnds
      <4> QED BY <2>2, <2>3, <4>1, <4>2
    <3> QED BY <3>1, <3>2
  <2> QED BY <2>1, <2>2, <2>3, <2>4
<1>5. ASSUME NEW k1 \in live', NEW k2 \in live', k1 # k2
      PROVE  k1.hi <= k2.lo \/ k2.hi <= k1.lo
  <2>1. PICK l1 \in live : /\ k1.lo = l1.lo /\ k1.hi = (IF l1.hi <= end THEN l1.hi ELSE end)
                           /\ k1 = [l1 EXCEPT !.hi = IF l1.hi <= end THEN l1.hi ELSE end]
    BY <1>3
  <2>2. PICK l2 \in live : /\ k2.lo = l2.lo /\ k2.hi = (IF l2.hi <= end THEN l2.hi ELSE end)
                           /\ k2 = [l2 EXCEPT !.hi = IF l2.hi <= end THEN l2.hi ELSE end]
    BY <1>3
  <2>3. l1 # l2
    BY <1>5, <2>1, <2>2
  <2>4. l1.hi <= l2.lo \/ l2.hi <= l1.lo
    BY <2>3 DEF RegionInv, Apart
  <2>5. l1.lo \in Nat /\ l1.hi \in Nat /\ l2.lo \in Nat /\ l2.hi \in Nat
    BY DEF Allocations
  <2>6. k1.hi <= l1.hi /\ k2.hi <= l2.hi /\ k1.hi \in Nat /\ k2.hi \in Nat
    BY <2>1, <2>2, <2>5
  <2> QED BY <2>1, <2>2, <2>4, <2>5, <2>6
<1>6. Apart'
  BY <1>4, <1>5 DEF Apart
<1> QED BY <1>1, <1>2, <1>6 DEF RegionInv

-----------------------------------------------------------------------------
\* A step after which the one process is between calls and has nothing prepared.
LEMMA Settled ==
  ASSUME Alone, NEW p \in Procs, call'[p] = NoCall, prep'[p] = NoPrep
  PROVE  Pending' /\ Prepared'
<1>1. \A q \in Procs : q = p
  BY DEF Alone
<1>2. NoCall.op = "none" /\ NoPrep.max = 0
  BY DEF NoCall, NoPrep
<1> QED BY <1>1, <1>2 DEF Pending, Prepared

\* A call that was pending is over.
LEMMA CallOver ==
  ASSUME TypeOK, NEW p \in Procs, NEW op, Calls(p, op),
         prep' = [prep EXCEPT ![p] = NoPrep]
  PROVE  call'[p] = NoCall /\ prep'[p] = NoPrep
  BY DEF TypeOK, Calls

\* A step that publishes no more than was prepared keeps it all, when there is
\* one process.
LEMMA SafeStep == ASSUME Alone, SpadSafe, Next, ~overdrawn' PROVE SpadSafe'
<1>0. TypeOK /\ RegionInv /\ Pending /\ Prepared /\ Cleared /\ TypeOK'
  BY TypeStep DEF SpadSafe
<1>1. ASSUME NEW p \in Procs, NEW size \in {0, MemMax}, New(p, size) PROVE SpadSafe'
  <2>1. call[p] = NoCall /\ prep[p] = NoPrep /\ live = {}
    BY <1>0, <1>1 DEF New, Prepared, Cleared
  <2>2. Pending' /\ Prepared'
    BY <1>1, <2>1, Settled DEF New
  <2>3. CASE UNCHANGED <<used, frames, live>> /\ region' = region /\ joined' = joined
    BY <1>0, <2>2, <2>3, RegionKept DEF SpadSafe, Cleared
  <2>4. CASE used' = 0 /\ frames' = <<>> /\ live' = {} /\ region' = "spad"
    BY <1>0, <2>2, <2>4, RegionEmptied DEF SpadSafe, Cleared
  <2> QED BY <1>1, <2>1, <2>3, <2>4 DEF New
<1>2. ASSUME NEW p \in Procs, Join(p) PROVE SpadSafe'
  <2>1. call[p] = NoCall /\ prep[p] = NoPrep
    BY <1>0, <1>2 DEF Join, Prepared
  <2>2. Pending' /\ Prepared'
    BY <1>2, <2>1, Settled DEF Join
  <2>3. RegionInv' /\ Cleared'
    BY <1>0, <1>2, RegionKept DEF Join, Cleared
  <2> QED BY <1>0, <2>2, <2>3 DEF SpadSafe
<1>3. ASSUME NEW p \in Procs, Leave(p) PROVE SpadSafe'
  <2>1. call'[p] = NoCall /\ prep'[p] = NoPrep
    BY <1>0, <1>3 DEF Leave, Ready, TypeOK
  <2>2. RegionInv' /\ Cleared'
    BY <1>0, <1>3, RegionKept DEF Leave, Cleared
  <2> QED BY <1>0, <2>1, <2>2, Settled DEF SpadSafe
<1>4. ASSUME NEW p \in Procs, Delete(p) PROVE SpadSafe'
  <2>1. call'[p] = NoCall /\ prep'[p] = NoPrep
    BY <1>0, <1>4 DEF Delete, Ready, TypeOK
  <2>2. RegionInv'
    BY <1>0, <1>4 DEF Delete, RegionInv, Within, FrameStack, Apart
  <2>3. Cleared'
    BY <1>4 DEF Delete, Cleared
  <2> QED BY <1>0, <2>1, <2>2, <2>3, Settled DEF SpadSafe
<1>5. ASSUME NEW p \in Procs, NEW ok, NEW e, NEW c, Checked(p, ok, e, c),
             ok => /\ c.op = "push" => Len(frames) < FrameMax
                   /\ c.op = "pop" => InFrame
                   /\ c.op \in {"alloc", "prepare"} =>
                        InFrame /\ AlignUp(used, c.align) + c.size <= MemMax
                   /\ c.op = "trim" => InFrame /\ FrameLo <= c.end /\ c.end <= used
      PROVE  SpadSafe'
  <2>0. /\ UNCHANGED <<region, joined, used, frames, prep, live>> /\ p \in joined
        /\ call[p] = NoCall
    BY <1>5 DEF Checked, Ready
  <2>1. RegionInv' /\ Cleared'
    BY <1>0, <2>0, RegionKept DEF Cleared
  <2>2. \A q \in Procs : q = p
    BY DEF Alone
  <2>3. Prepared'
    BY <1>0, <2>0, <2>2 DEF Prepared, InFrame
  <2>4. CASE ok
    <3>1. call'[p] = c
      BY <1>0, <1>5, <2>4 DEF Checked, TypeOK
    <3>2. Pending'
      BY <1>5, <2>0, <2>2, <2>4, <3>1 DEF Pending, InFrame, FrameLo
    <3> QED BY <1>0, <2>1, <2>3, <3>2 DEF SpadSafe
  <2>5. CASE ~ok
    <3>1. call' = call
      BY <1>5, <2>5 DEF Checked
    <3>2. Pending'
      BY <1>0, <2>0, <3>1 DEF Pending, InFrame, FrameLo
    <3> QED BY <1>0, <2>1, <2>3, <3>2 DEF SpadSafe
  <2> QED BY <2>4, <2>5
<1>6. ASSUME NEW p \in Procs, CheckPush(p) \/ CheckPop(p) PROVE SpadSafe'
  <2>1. FrameFree # 0 => Len(frames) < FrameMax
    BY <1>0 DEF FrameFree, RegionInv, Within, TypeOK
  <2>2. CASE CheckPush(p)
    BY <1>5, <2>1, <2>2 DEF CheckPush
  <2>3. CASE CheckPop(p)
    BY <1>5, <2>3 DEF CheckPop
  <2> QED BY <1>6, <2>2, <2>3
<1>7. ASSUME NEW p \in Procs, NEW size \in Sizes, NEW a \in Alignments,
             NEW op \in {"alloc", "prepare"}, CheckAlloc(p, op, size, a)
      PROVE  SpadSafe'
  <2> DEFINE c  == [op |-> op, size |-> size, align |-> a]
             ok == size > 0 /\ ValidAlignment(a) /\ InFrame /\ AllocMax(a) >= size
  <2>1. PICK e : Checked(p, ok, e, c)
    BY <1>7 DEF CheckAlloc
  <2>2. c.op \in {"alloc", "prepare"} /\ c.align = a /\ c.size = size
    OBVIOUS
  <2>3. AlignUp(used, a) \in Nat
    BY <1>0, AlignUpGrows DEF TypeOK
  <2>4. ok => InFrame /\ AlignUp(used, a) + size <= MemMax
    BY <2>3 DEF AllocMax
  <2> HIDE DEF c, ok
  <2> QED BY <1>5, <2>1, <2>2, <2>4
<1>8. ASSUME NEW p \in Procs, NEW end \in Nat, CheckTrim(p, end) PROVE SpadSafe'
  <2> DEFINE c  == [op |-> "trim", end |-> end]
             ok == InFrame /\ (InFrame => FrameLo <= end /\ end <= used)
  <2>1. PICK e : Checked(p, ok, e, c)
    BY <1>8 DEF CheckTrim
  <2>2. c.op = "trim" /\ c.end = end
    OBVIOUS
  <2>3. ok => InFrame /\ FrameLo <= end /\ end <= used
    OBVIOUS
  <2> HIDE DEF c, ok
  <2> QED BY <1>5, <2>1, <2>2, <2>3
<1>9. ASSUME NEW p \in Procs, DoPush(p) PROVE SpadSafe'
  <2>1. Len(frames) < FrameMax
    BY <1>0, <1>9 DEF DoPush, Calls, Pending
  <2>2. RegionInv'
    BY <1>0, <1>9, <2>1, RegionPushed DEF DoPush
  <2>3. call'[p] = NoCall /\ prep'[p] = NoPrep
    BY <1>0, <1>9, CallOver DEF DoPush
  <2>4. Cleared'
    BY <1>0, <1>9 DEF DoPush, Calls, Cleared
  <2> QED BY <1>0, <2>2, <2>3, <2>4, Settled DEF SpadSafe
<1>10. ASSUME NEW p \in Procs, DoPop(p) PROVE SpadSafe'
  <2>1. InFrame
    BY <1>0, <1>10 DEF DoPop, Calls, Pending
  <2>2. RegionInv'
    BY <1>0, <1>10, <2>1, RegionPopped DEF DoPop
  <2>3. call'[p] = NoCall /\ prep'[p] = NoPrep
    BY <1>0, <1>10, CallOver DEF DoPop
  <2>4. Cleared'
    BY <1>0, <1>10 DEF DoPop, Calls, Cleared
  <2> QED BY <1>0, <2>2, <2>3, <2>4, Settled DEF SpadSafe
<1>11. ASSUME NEW p \in Procs, call[p].op \in {"alloc", "prepare"}
       PROVE  /\ call[p].size \in Nat \ {0} /\ AlignUp(used, call[p].align) \in Nat
              /\ AlignUp(used, call[p].align) >= used
              /\ InFrame /\ AlignUp(used, call[p].align) + call[p].size <= MemMax
  <2>1. call[p] \in LibCalls
    BY <1>0 DEF TypeOK
  <2>2. call[p].size \in Nat \ {0} /\ call[p].align \in Nat
    BY <1>11, <2>1 DEF LibCalls
  <2>3. AlignUp(used, call[p].align) \in Nat /\ AlignUp(used, call[p].align) >= used
    BY <1>0, <2>2, AlignUpGrows DEF TypeOK
  <2> QED BY <1>0, <1>11, <2>2, <2>3 DEF Pending
<1>12. ASSUME NEW p \in Procs, call[p] # NoCall \/ Ready(p) PROVE region = "spad"
  BY <1>0, <1>12 DEF Prepared, Cleared, Ready
<1>13. ASSUME NEW p \in Procs, DoAlloc(p) PROVE SpadSafe'
  <2>1. call[p].op = "alloc" /\ call[p] # NoCall
    BY <1>13 DEF DoAlloc, Calls, NoCall
  <2> DEFINE lo == AlignUp(used, call[p].align)
             hi == lo + call[p].size
  <2>2. /\ lo \in Nat /\ hi \in Nat /\ used <= lo /\ lo < hi /\ hi <= MemMax /\ InFrame
    BY <1>0, <1>11, <2>1 DEF TypeOK
  <2>3. /\ used' = hi /\ frames' = frames
        /\ live' = live \cup {[lo |-> lo, hi |-> hi, depth |-> Len(frames)]}
    BY <1>13 DEF DoAlloc
  <2> HIDE DEF lo, hi
  <2>4. RegionInv'
    BY <1>0, <2>2, <2>3, RegionGrows
  <2>5. call'[p] = NoCall /\ prep'[p] = NoPrep
    BY <1>0, <1>13, CallOver DEF DoAlloc
  <2>6. Cleared'
    BY <1>0, <1>12, <1>13, <2>1 DEF DoAlloc, Calls, Cleared
  <2> QED BY <1>0, <2>4, <2>5, <2>6, Settled DEF SpadSafe
<1>14. ASSUME NEW p \in Procs, DoPrepare(p) PROVE SpadSafe'
  <2>1. call[p].op = "prepare" /\ call[p] # NoCall
    BY <1>14 DEF DoPrepare, Calls, NoCall
  <2>2. /\ used' \in Nat /\ used <= used' /\ used' + call[p].size <= MemMax
        /\ call[p].size \in Nat /\ InFrame /\ used' <= MemMax
    BY <1>0, <1>11, <1>14, <2>1 DEF DoPrepare
  <2>3. RegionInv'
    BY <1>0, <1>14, <2>2, RegionPadded DEF DoPrepare
  <2>4. call'[p] = NoCall /\ prep'[p].max = call[p].size /\ joined' = joined
    BY <1>0, <1>14 DEF DoPrepare, Calls, TypeOK
  <2>5. p \in joined
    BY <1>0, <2>1 DEF Prepared
  <2>6. \A q \in Procs : q = p
    BY DEF Alone
  <2>7. Pending'
    <3>1. NoCall.op = "none"
      BY DEF NoCall
    <3> QED BY <2>4, <2>6, <3>1 DEF Pending
  <2>8. Prepared'
    BY <1>14, <2>2, <2>4, <2>5, <2>6 DEF Prepared, InFrame, DoPrepare
  <2>9. Cleared'
    BY <1>0, <1>14 DEF DoPrepare, Calls, Cleared
  <2> QED BY <1>0, <2>3, <2>7, <2>8, <2>9 DEF SpadSafe
<1>15. ASSUME NEW p \in Procs, DoTrim(p) PROVE SpadSafe'
  <2>1. call[p].op = "trim" /\ call[p] \in LibCalls
    BY <1>0, <1>15 DEF DoTrim, Calls, TypeOK
  <2> DEFINE end == call[p].end
  <2>2. end \in Nat /\ InFrame /\ FrameLo <= end /\ end <= used
    BY <1>0, <2>1 DEF Pending, LibCalls
  <2>3. /\ used' = end /\ frames' = frames
        /\ live' = {[l EXCEPT !.hi = IF l.hi <= end THEN l.hi ELSE end] :
                      l \in {m \in live : m.lo < end}}
    BY <1>15 DEF DoTrim
  <2> HIDE DEF end
  <2>4. RegionInv'
    BY <1>0, <2>2, <2>3, RegionTrimmed
  <2>5. call'[p] = NoCall /\ prep'[p] = NoPrep
    BY <1>0, <1>15, CallOver DEF DoTrim
  <2>6. Cleared'
    BY <1>0, <1>15, <2>3 DEF DoTrim, Calls, Cleared
  <2> QED BY <1>0, <2>4, <2>5, <2>6, Settled DEF SpadSafe
<1>16. ASSUME NEW p \in Procs, NEW actual \in Sizes, Publish(p, actual) PROVE SpadSafe'
  <2>1. call'[p] = NoCall /\ prep'[p] = NoPrep
    BY <1>0, <1>16 DEF Publish, Ready, TypeOK
  <2>2. Cleared'
    BY <1>0, <1>12, <1>16 DEF Publish, Cleared
  <2>3. prep[p].max \in Nat /\ actual \in Nat /\ used \in Nat /\ Len(frames) \in Nat
    BY <1>0 DEF TypeOK, Preparations
  <2>4. actual <= prep[p].max
    <3>1. overdrawn' = (overdrawn \/ actual > prep[p].max)
      BY <1>16 DEF Publish
    <3>2. ~(actual > prep[p].max)
      BY <3>1, Zenon
    <3> QED BY <2>3, <3>2
  <2> DEFINE hi == used + actual
             n  == [lo |-> used, hi |-> hi, depth |-> Len(frames)]
  <2>5. used' = hi /\ frames' = frames /\ live' = live \cup {l \in {n} : l.lo < l.hi}
    <3>1. n = [lo |-> used, hi |-> used + actual, depth |-> Len(frames)]
      OBVIOUS
    <3> HIDE DEF n
    <3> QED BY <1>16, <3>1 DEF Publish
  <2>6. RegionInv'
    <3>1. CASE actual = 0
      <4>1. used' = used /\ ~(n.lo < n.hi)
        BY <2>3, <2>5, <3>1
      <4> HIDE DEF n
      <4>2. live' = live
        BY <2>5, <4>1
      <4> QED BY <1>0, <2>5, <4>1, <4>2, RegionKept
    <3>2. CASE actual # 0
      <4>1. InFrame /\ used + prep[p].max <= MemMax
        BY <1>0, <2>3, <2>4, <3>2 DEF Prepared
      <4>2. hi \in Nat /\ used < hi /\ hi <= MemMax
        BY <2>3, <2>4, <3>2, <4>1
      <4>3. n.lo < n.hi
        BY <4>2
      <4>4. live' = live \cup {n}
        <5> HIDE DEF n
        <5> QED BY <2>5, <4>3
      <4>5. live' = live \cup {[lo |-> used, hi |-> hi, depth |-> Len(frames)]}
        BY <4>4
      <4> HIDE DEF hi, n
      <4> QED BY <1>0, <2>3, <2>5, <4>1, <4>2, <4>5, RegionGrows
    <3> QED BY <3>1, <3>2
  <2> QED BY <1>0, <2>1, <2>2, <2>6, Settled DEF SpadSafe
<1>17. ASSUME NEW p \in Procs, Cancel(p) PROVE SpadSafe'
  <2>1. call'[p] = NoCall /\ prep'[p] = NoPrep
    BY <1>0, <1>17 DEF Cancel, Ready, TypeOK
  <2>2. RegionInv' /\ Cleared'
    BY <1>0, <1>17, RegionKept DEF Cancel, Cleared
  <2> QED BY <1>0, <2>1, <2>2, Settled DEF SpadSafe
<1>18. ASSUME NEW p \in Procs, Reset(p) PROVE SpadSafe'
  <2>1. call'[p] = NoCall /\ prep'[p] = NoPrep
    BY <1>0, <1>18 DEF Reset, Ready, TypeOK
  <2>2. RegionInv' /\ Cleared'
    BY <1>0, <1>18, RegionEmptied DEF Reset, Cleared
  <2> QED BY <1>0, <2>1, <2>2, Settled DEF SpadSafe
<1>19. CASE DropGuard
  <2>1. RegionInv' /\ Cleared'
    BY <1>0, <1>19, RegionKept DEF DropGuard, Cleared
  <2>2. Pending' /\ Prepared'
    BY <1>0, <1>19 DEF DropGuard, Pending, Prepared, InFrame, FrameLo
  <2> QED BY <1>0, <2>1, <2>2 DEF SpadSafe
<1>20. used \in Nat
  BY <1>0 DEF TypeOK
<1> QED
  BY <1>20, <1>1, <1>2, <1>3, <1>4, <1>6, <1>7, <1>8, <1>9, <1>10, <1>13, <1>14, <1>15, <1>16, <1>17,
     <1>18, <1>19 DEF Next, Step

LEMMA SafeStutter == ASSUME SpadSafe, UNCHANGED vars PROVE SpadSafe'
<1>1. TypeOK' /\ RegionInv'
  BY RegionKept DEF vars, SpadSafe, TypeOK
<1>2. Pending' /\ Prepared' /\ Cleared'
  BY DEF vars, SpadSafe, Pending, Prepared, Cleared, InFrame, FrameLo
<1> QED BY <1>1, <1>2 DEF SpadSafe

\* The frame stack stays within bounds and the processes that have not joined stay
\* idle, whatever is published.
LEMMA HeldStep == ASSUME Alone, TypeOK, Held, Next PROVE Held'
<1>0. \A p, q \in Procs : p = q
  BY DEF Alone
<1>f. Len(frames) \in Nat /\ NoCall.op = "none"
  BY DEF TypeOK, NoCall
<1>t. UNCHANGED frames \/ frames' = <<>> => Len(frames') = Len(frames) \/ Len(frames') = 0
  OBVIOUS
<1>1. ASSUME NEW p \in Procs, NEW size \in {0, MemMax}, New(p, size) PROVE Held'
  <2>1. Len(frames') <= Len(frames) /\ Len(frames') \in Nat
    BY <1>1, <1>f, <1>t DEF New
  <2>2. p \notin joined /\ call' = call /\ prep' = prep /\ live' = live
    BY <1>1 DEF New
  <2>4. call[p] = NoCall /\ prep[p] = NoPrep
    BY <2>2 DEF Held
  <2>3. Cleared'
    BY <1>1 DEF New, Held, Cleared
  <2> QED BY <1>0, <1>f, <2>1, <2>2, <2>3, <2>4 DEF Held
<1>2. ASSUME NEW p \in Procs, Join(p) \/ Leave(p) \/ Delete(p) PROVE Held'
  <2>1. frames' = frames /\ call' = call /\ call[p] = NoCall /\ prep'[p] = NoPrep
    <3>1. CASE Join(p)
      <4>1. p \notin joined /\ frames' = frames /\ call' = call /\ prep' = prep
        BY <3>1 DEF Join
      <4> QED BY <4>1 DEF Held
    <3>2. CASE Leave(p)
      BY <3>2 DEF Leave, Ready, TypeOK
    <3>3. CASE Delete(p)
      BY <3>3 DEF Delete, Ready, TypeOK
    <3> QED BY <1>2, <3>1, <3>2, <3>3
  <2>2. Cleared'
    BY <1>2 DEF Join, Leave, Delete, Held, Cleared
  <2> QED BY <1>0, <1>f, <2>1, <2>2 DEF Held
<1>3. ASSUME NEW p \in Procs, NEW ok, NEW e, NEW c, Checked(p, ok, e, c),
             ok /\ c.op = "push" => Len(frames) < FrameMax
      PROVE  Held'
  <2>1. /\ frames' = frames /\ joined' = joined /\ prep' = prep /\ p \in joined
        /\ region' = region /\ live' = live /\ ((call'[p] = c /\ ok) \/ call' = call)
    BY <1>3 DEF Checked, Ready, TypeOK
  <2> QED BY <1>0, <1>3, <2>1 DEF Held, Cleared
<1>4. ASSUME NEW p \in Procs, CheckPush(p) \/ CheckPop(p) PROVE Held'
  <2>1. FrameFree # 0 => Len(frames) < FrameMax
    BY <1>f DEF FrameFree, Held
  <2>2. CASE CheckPush(p)
    BY <1>3, <2>1, <2>2 DEF CheckPush
  <2>3. CASE CheckPop(p)
    BY <1>3, <2>3 DEF CheckPop
  <2> QED BY <1>4, <2>2, <2>3
<1>5. ASSUME NEW p \in Procs, NEW size \in Sizes, NEW a \in Alignments,
             NEW op \in {"alloc", "prepare"}, CheckAlloc(p, op, size, a)
      PROVE  Held'
  <2>1. PICK ok, e : Checked(p, ok, e, [op |-> op, size |-> size, align |-> a])
    BY <1>5 DEF CheckAlloc
  <2>2. [op |-> op, size |-> size, align |-> a].op # "push"
    OBVIOUS
  <2> QED BY <1>3, <2>1, <2>2
<1>6. ASSUME NEW p \in Procs, NEW end \in Nat, CheckTrim(p, end) PROVE Held'
  <2>1. PICK ok, e : Checked(p, ok, e, [op |-> "trim", end |-> end])
    BY <1>6 DEF CheckTrim
  <2>2. [op |-> "trim", end |-> end].op # "push"
    OBVIOUS
  <2> QED BY <1>3, <2>1, <2>2
<1>7. ASSUME NEW p \in Procs, NEW op, Calls(p, op), op # "none",
             prep' \in [Procs -> Preparations], Len(frames') <= FrameMax
      PROVE  Held'
  <2>1. call'[p] = NoCall /\ region' = region /\ joined' = joined /\ p \in joined
    <3>1. call[p].op = op /\ call' = [call EXCEPT ![p] = NoCall] /\ region' = region /\ joined' = joined
      BY <1>7 DEF Calls
    <3>2. p \in joined
      BY <1>7, <1>f, <3>1 DEF Held
    <3>3. call'[p] = NoCall
      BY <3>1 DEF TypeOK
    <3> QED BY <3>1, <3>2, <3>3
  <2>2. Cleared'
    BY <2>1 DEF Held, Cleared
  <2> QED BY <1>0, <1>7, <1>f, <2>1, <2>2 DEF Held
<1>8. TypeOK'
  BY TypeStep
<1>9. ASSUME NEW p \in Procs, DoPush(p) PROVE Held'
  <2>1. Len(frames) < FrameMax /\ Len(frames') = Len(frames) + 1
    <3>1. call[p].op = "push" /\ frames' = Append(frames, used)
      BY <1>9 DEF DoPush, Calls
    <3> QED BY <3>1 DEF Held, TypeOK
  <2> QED BY <1>7, <1>8, <1>9, <1>f, <2>1 DEF DoPush, TypeOK
<1>10. ASSUME NEW p \in Procs, DoPop(p) PROVE Held'
  <2>1. Len(frames') <= FrameMax
    <3>1. CASE InFrame
      <4>1. Len(frames) - 1 \in Nat /\ \A i \in 1..(Len(frames) - 1) : frames[i] \in Nat
        BY <3>1 DEF InFrame, TypeOK
      <4>2. Len(SubSeq(frames, 1, Len(frames) - 1)) = Len(frames) - 1
        <5> DEFINE n == Len(frames) - 1
        <5>1. n \in Nat /\ n \in Int /\ \A i \in 1..n : frames[i] \in Nat
          BY <4>1
        <5> HIDE DEF n
        <5>2. Len(SubSeq(frames, 1, n)) = IF 1 <= n THEN n - 1 + 1 ELSE 0
          BY <5>1, SubSeqProperties
        <5>3. Len(SubSeq(frames, 1, n)) = n
          BY <5>1, <5>2
        <5> QED BY <5>3 DEF n
      <4>3. frames' = SubSeq(frames, 1, Len(frames) - 1)
        BY <1>10, <3>1 DEF DoPop
      <4>4. Len(frames) - 1 <= FrameMax
        BY <1>f DEF Held
      <4> QED BY <4>2, <4>3, <4>4
    <3>2. CASE ~InFrame
      BY <1>10, <3>2 DEF DoPop, Held
    <3> QED BY <3>1, <3>2
  <2> QED BY <1>7, <1>8, <1>10, <2>1 DEF DoPop, TypeOK
<1>11. ASSUME NEW p \in Procs, DoAlloc(p) \/ DoPrepare(p) \/ DoTrim(p) PROVE Held'
  <2>1. Len(frames') <= FrameMax /\ prep' \in [Procs -> Preparations]
    BY <1>8, <1>11 DEF DoAlloc, DoPrepare, DoTrim, Held, TypeOK
  <2> QED BY <1>7, <1>11, <2>1 DEF DoAlloc, DoPrepare, DoTrim
<1>12. ASSUME NEW p \in Procs, NEW actual \in Sizes, Publish(p, actual) PROVE Held'
  <2>1. /\ frames' = frames /\ call' = call /\ p \in joined /\ joined' = joined
        /\ region' = region /\ region = "spad"
    BY <1>12 DEF Publish, Ready, Held, Cleared
  <2> QED BY <1>0, <2>1 DEF Held, Cleared
<1>13. ASSUME NEW p \in Procs, Cancel(p) \/ Reset(p) PROVE Held'
  <2>1. /\ call' = call /\ p \in joined /\ joined' = joined /\ region' = region
        /\ call[p] = NoCall
    BY <1>13 DEF Cancel, Reset, Ready
  <2>2. Len(frames') <= FrameMax
    BY <1>13, <1>f, <1>t DEF Cancel, Reset, Held
  <2>3. Cleared'
    BY <1>13 DEF Cancel, Reset, Held, Cleared
  <2> QED BY <1>0, <1>f, <2>1, <2>2, <2>3 DEF Held
<1>14. CASE DropGuard
  BY <1>14 DEF DropGuard, Held, Cleared
<1>15. used \in Nat
  BY DEF TypeOK
<1> QED
  BY <1>1, <1>2, <1>4, <1>5, <1>6, <1>9, <1>10, <1>11, <1>12, <1>13, <1>14, <1>15 DEF Next, Step

\* A step that empties a region in which too much was published starts afresh.
LEMMA AfreshStep == ASSUME Alone, TypeOK, Held, Next, overdrawn, ~overdrawn' PROVE SpadSafe'
<1>1. PICK p \in Procs : (\E size \in {0, MemMax} : New(p, size)) \/ Reset(p)
  <2>1. ~DropGuard
    BY DEF DropGuard
  <2>2. ASSUME NEW p \in Procs, Step(p) PROVE (\E size \in {0, MemMax} : New(p, size)) \/ Reset(p)
    <3>1. ~Join(p) /\ ~Leave(p) /\ ~Delete(p) /\ ~Cancel(p)
      BY DEF Join, Leave, Delete, Cancel
    <3>2. \A ok, e, c : ~Checked(p, ok, e, c)
      BY DEF Checked
    <3>3. /\ ~CheckPush(p) /\ ~CheckPop(p) /\ \A end : ~CheckTrim(p, end)
          /\ \A size, a, op : ~CheckAlloc(p, op, size, a)
      BY <3>2, Zenon DEF CheckPush, CheckPop, CheckAlloc, CheckTrim
    <3>4. \A op : ~Calls(p, op)
      BY DEF Calls
    <3>5. ~DoPush(p) /\ ~DoPop(p) /\ ~DoAlloc(p) /\ ~DoPrepare(p) /\ ~DoTrim(p)
      BY <3>4 DEF DoPush, DoPop, DoAlloc, DoPrepare, DoTrim
    <3>6. \A actual : ~Publish(p, actual)
      BY DEF Publish
    <3> QED BY <2>2, <3>1, <3>3, <3>5, <3>6, Zenon DEF Step
  <2> QED BY <2>1, <2>2 DEF Next
<1>2. TypeOK' /\ Held'
  BY TypeStep, HeldStep
<1>3. /\ used' = 0 /\ frames' = <<>> /\ live' = {} /\ call'[p] = NoCall /\ prep'[p] = NoPrep
  <2>1. CASE Reset(p)
    BY <2>1 DEF Reset, Ready, TypeOK
  <2>2. CASE \E size \in {0, MemMax} : New(p, size)
    BY <2>2 DEF New, Held, Cleared
  <2> QED BY <1>1, <2>1, <2>2
<1> QED BY <1>2, <1>3, RegionEmptied, Settled DEF SpadSafe, Held

\* Every step keeps the invariant, when there is one process.
LEMMA SpadStep == ASSUME Alone, SpadInd, Next PROVE SpadInd'
<1>1. TypeOK' /\ Held'
  BY TypeStep, HeldStep DEF SpadInd
<1>2. ASSUME ~overdrawn' PROVE SpadSafe'
  <2>1. CASE overdrawn
    BY <1>2, <2>1, AfreshStep DEF SpadInd
  <2>2. CASE ~overdrawn
    BY <1>2, <2>2, SafeStep DEF SpadInd
  <2> QED BY <2>1, <2>2
<1> QED BY <1>1, <1>2 DEF SpadInd

LEMMA SpadStutter == ASSUME SpadInd, UNCHANGED vars PROVE SpadInd'
<1>1. TypeOK' /\ Held'
  BY DEF vars, SpadInd, TypeOK, Held, Cleared
<1>2. overdrawn' = overdrawn
  BY DEF vars
<1>3. ~overdrawn => SpadSafe'
  BY SafeStutter DEF SpadInd
<1> QED BY <1>1, <1>2, <1>3 DEF SpadInd

LEMMA SpadInit == ASSUME Init PROVE SpadInd
<1>1. TypeOK
  <2>1. <<>> \in Seq(Nat) /\ {} \subseteq Allocations
    OBVIOUS
  <2>2. frames \in Seq(Nat) /\ live \subseteq Allocations
    BY <2>1, Zenon DEF Init
  <2>3. "Ok" \in Results
    BY DEF Results
  <2> QED BY <2>2, <2>3, NoTypes DEF Init, TypeOK
<1>2. Len(frames) = 0
  BY DEF Init
<1>3. RegionInv
  BY <1>2 DEF Init, RegionInv, Within, FrameStack, Apart
<1>4. NoCall.op = "none" /\ NoPrep.max = 0
  BY DEF NoCall, NoPrep
<1>5. Pending /\ Prepared
  BY <1>4 DEF Init, Pending, Prepared
<1>6. Held
  BY <1>2, <1>4 DEF Init, Held, Cleared
<1> QED BY <1>1, <1>3, <1>5, <1>6 DEF SpadInd, SpadSafe, Held

-----------------------------------------------------------------------------
\* Every variable keeps its type, with any number of processes.
THEOREM SpadTypeCorrect == Spec => []TypeOK
<1>1. Init => TypeOK
  BY SpadInit DEF SpadInd
<1>2. TypeOK /\ [Next]_vars => TypeOK'
  BY TypeStep DEF vars, TypeOK
<1> QED BY <1>1, <1>2, PTL DEF Spec

\* In a region that one process uses, what allocate, prepare_alloc and push_frame
\* have checked still holds at the library call: the frame stack does not
\* overflow, and nothing is handed out past the end of the region unless more has
\* been published than was prepared.
THEOREM SpadInBounds == ASSUME Alone PROVE Spec => []InBounds
<1>1. Init => SpadInd
  BY SpadInit
<1>2. SpadInd /\ [Next]_vars => SpadInd'
  BY SpadStep, SpadStutter
<1>3. SpadInd => InBounds
  BY DEF SpadInd, SpadSafe, Held, RegionInv, Within, InBounds
<1> QED BY <1>1, <1>2, <1>3, PTL DEF Spec

\* In such a region, as long as nothing is published that was not prepared, no two
\* allocations of open frames ever share a byte, and every one lies inside its
\* frame, through pushes, pops, trims, resets and published preparations.
THEOREM SpadDisjoint == ASSUME Alone PROVE Spec => []AllocationsDisjoint
<1>1. Init => SpadInd
  BY SpadInit
<1>2. SpadInd /\ [Next]_vars => SpadInd'
  BY SpadStep, SpadStutter
<1>3. SpadInd => AllocationsDisjoint
  BY DEF SpadInd, SpadSafe, RegionInv, AllocationsDisjoint
<1> QED BY <1>1, <1>2, <1>3, PTL DEF Spec
=============================================================================
