---------------------------- MODULE MemoryProofs ----------------------------
(***************************************************************************)
(* Proofs about the components that own memory, the ones of MCMemory, for  *)
(* every value of their constants.  They share no state: each part has its *)
(* own invariant and its own theorems, and at the end come the composition *)
(* that MCMemory states and StorageSound, what it promises as a whole.     *)
(***************************************************************************)
EXTENDS MCMemory, FiniteSetTheorems, SequenceTheorems, TLAPS

-----------------------------------------------------------------------------
(***************************************************************************)
(* Proofs about workspaces, for any number of processes, addresses, tags   *)
(* and allocations.  HandlesOwn is not inductive: a handle could meet an   *)
(* address that into_raw took out of another one, and an address freed     *)
(* through one raw copy could be given out while a second copy exists.     *)
(* Owned adds what rules that out: raw addresses are allocated, and no two *)
(* raw copies name the same one.                                           *)
(***************************************************************************)

Owned ==
  ~behindBack =>
    /\ \A h \in held : part[h.gaddr] # NoPart /\ part[h.gaddr].id = h.id
    /\ \A h, g \in held : h # g => h.gaddr # g.gaddr
    /\ \A h \in held, r \in rawAddrs : h.gaddr # r.gaddr
    /\ \A r \in rawAddrs : part[r.gaddr] # NoPart
    /\ \A r, s \in rawAddrs : r # s => r.gaddr # s.gaddr

WkspInv == WkspTypeOK /\ QueryTrue /\ Owned

-----------------------------------------------------------------------------
\* Freeing keeps the table a table (fd_wksp_free), and freeing nothing leaves it alone.
LEMMA FreeAllType ==
  ASSUME WkspTypeOK, NEW S
  PROVE  /\ FreeAll(S) \in [Gaddrs -> Parts \cup {NoPart}]
         /\ \A a \in Gaddrs : a \in S => FreeAll(S)[a] = NoPart
         /\ \A a \in Gaddrs : a \notin S => FreeAll(S)[a] = part[a]
         /\ S \cap Busy = {} => FreeAll(S) = part
  BY DEF FreeAll, WkspTypeOK, Busy

\* What query_by_tag counts is a number (fd_wksp_tag_query of a finite table).
LEMMA TaggedCount ==
  ASSUME NEW T
  PROVE  Cardinality(Tagged(T)) \in Nat
  <1>1. IsFiniteSet(Gaddrs) BY WkspAssumption
  <1>2. Tagged(T) \subseteq Gaddrs BY DEF Tagged, Busy
  <1> QED BY <1>1, <1>2, FS_Subset, FS_CardinalityType

\* What the second call finds is a set of infos, and a number of them.
LEMMA InfosFound ==
  ASSUME WkspTypeOK, NEW p \in WProcs
  PROVE  /\ InfosOf(counting[p].tags) \subseteq Infos /\ counting[p].count \in Nat
         /\ IsFiniteSet(InfosOf(counting[p].tags)) /\ Cardinality(InfosOf(counting[p].tags)) \in Nat
  <1>1. counting[p].tags \subseteq Tags /\ counting[p].count \in Nat
    BY DEF WkspTypeOK
  <1>2. PICK T \in SUBSET Tags : T = counting[p].tags
    BY <1>1
  <1>3. \A a \in Tagged(T) : a \in Gaddrs /\ part[a].tag \in Tags
    BY <1>2 DEF Tagged, Busy
  <1>4. InfosOf(T) \subseteq Infos
    BY <1>3 DEF InfosOf, Infos
  <1>5. IsFiniteSet(Tagged(T))
    <2>1. Tagged(T) \subseteq Gaddrs
      BY <1>3
    <2> QED BY <2>1, WkspAssumption, FS_Subset
  <1>6. IsFiniteSet(InfosOf(T))
    <2> DEFINE f == [a \in Tagged(T) |-> [gaddr |-> a, tag |-> part[a].tag]]
    <2>1. f \in Surjection(Tagged(T), InfosOf(T))
      BY DEF Surjection, InfosOf
    <2> QED BY <1>5, <2>1, FS_Surjection
  <1>7. Cardinality(InfosOf(T)) \in Nat
    BY <1>6, FS_CardinalityType
  <1> QED BY <1>1, <1>2, <1>4, <1>6, <1>7

-----------------------------------------------------------------------------
LEMMA WkspInitInv == WkspInit => WkspInv
  <1> SUFFICES ASSUME WkspInit PROVE WkspInv
    OBVIOUS
  <1>1. WkspTypeOK
    <2>1. nextId \in 0..AllocMax
      BY WkspAssumption DEF WkspInit
    <2>2. part \in [Gaddrs -> Parts \cup {NoPart}]
      BY DEF WkspInit
    <2>3. counting \in [WProcs -> [tags: SUBSET Tags, count: Nat]]
      BY DEF WkspInit, Idle
    <2>4. answered \in [infos: SUBSET (Infos \cup {NoInfo}), there: SUBSET Infos, counted: Nat]
      BY DEF WkspInit, Unasked
    <2> QED BY <2>1, <2>2, <2>3, <2>4 DEF WkspInit, WkspTypeOK
  <1>2. QueryTrue
    BY DEF WkspInit, QueryTrue, Unasked
  <1>3. Owned
    BY DEF WkspInit, Owned
  <1> QED BY <1>1, <1>2, <1>3 DEF WkspInv

\* Types and the count of query_by_tag, action by action.
LEMMA TypeStep ==
  ASSUME WkspTypeOK, QueryTrue, [WkspNext]_wkspVars
  PROVE  WkspTypeOK' /\ QueryTrue'
  <1> USE DEF WkspTypeOK, QueryTrue
  <1>1. ASSUME NEW p \in WProcs, Attach(p) PROVE WkspTypeOK' /\ QueryTrue'
    BY <1>1 DEF Attach
  <1>2. ASSUME NEW p \in WProcs, Detach(p) PROVE WkspTypeOK' /\ QueryTrue'
    BY <1>2 DEF Detach
  <1>3. ASSUME NEW p \in WProcs, Reset(p) PROVE WkspTypeOK' /\ QueryTrue'
    BY <1>3, FreeAllType DEF Reset
  <1>4. ASSUME NEW p \in WProcs, Checkpoint(p) PROVE WkspTypeOK' /\ QueryTrue'
    BY <1>4 DEF Checkpoint
  <1>5. ASSUME NEW p \in WProcs, Restore(p) PROVE WkspTypeOK' /\ QueryTrue'
    BY <1>5 DEF Restore
  <1>6. ASSUME NEW p \in WProcs, QueryFetch(p) PROVE WkspTypeOK' /\ QueryTrue'
    <2> DEFINE there == InfosOf(counting[p].tags)
               room  == counting[p].count
    <2>1. /\ there \subseteq Infos /\ room \in Nat
          /\ IsFiniteSet(there) /\ Cardinality(there) \in Nat
      BY InfosFound
    <2> HIDE DEF there, room
    <2>2. PICK filled \in SUBSET there :
             /\ Cardinality(filled) = Least(room, Cardinality(there))
             /\ answered' = [infos |-> filled \cup
                               (IF (IF Cardinality(there) < room THEN Cardinality(there) ELSE room) > Cardinality(filled)
                                  THEN {NoInfo} ELSE {}),
                             there |-> there, counted |-> room]
      BY <1>6, Zenon DEF QueryFetch, there, room
    <2>3. ~((IF Cardinality(there) < room THEN Cardinality(there) ELSE room) > Cardinality(filled))
      BY <2>1, <2>2 DEF Least
    <2>4. answered' = [infos |-> filled, there |-> there, counted |-> room]
      BY <2>2, <2>3
    <2>5. answered'.infos = filled /\ answered'.there = there /\ answered'.counted = room
      BY <2>4
    <2>6. QueryTrue'
      <3>1. ASSUME Cardinality(there) <= room PROVE filled = there
        <4>1. Cardinality(filled) = Cardinality(there)
          BY <2>1, <2>2, <3>1 DEF Least
        <4> QED BY <2>1, <4>1, FS_Subset
      <3> QED BY <2>5, <3>1 DEF QueryTrue
    <2>7. answered' \in [infos: SUBSET (Infos \cup {NoInfo}), there: SUBSET Infos, counted: Nat]
      BY <2>1, <2>4
    <2>8. Idle \in [tags: SUBSET Tags, count: Nat]
      BY DEF Idle
    <2>9. counting' \in [WProcs -> [tags: SUBSET Tags, count: Nat]]
      BY <1>6, <2>8 DEF QueryFetch
    <2> HIDE DEF QueryTrue
    <2> QED BY <1>6, <2>6, <2>7, <2>9 DEF QueryFetch
  <1>7. ASSUME NEW p \in WProcs, NEW T \in SUBSET Tags, FreeByTag(p, T)
        PROVE  WkspTypeOK' /\ QueryTrue'
    BY <1>7, FreeAllType DEF FreeByTag
  <1>8. ASSUME NEW p \in WProcs, NEW T \in SUBSET Tags, QueryCount(p, T)
        PROVE  WkspTypeOK' /\ QueryTrue'
    <2> DEFINE count == Cardinality(Tagged(T))
    <2>1. count \in Nat
      BY TaggedCount
    <2> HIDE DEF count
    <2>2. [tags |-> T, count |-> count] \in [tags: SUBSET Tags, count: Nat]
      BY <2>1
    <2>3. \/ counting' = [counting EXCEPT ![p] = [tags |-> T, count |-> count]]
          \/ counting' = counting
      BY <1>8 DEF QueryCount, count
    <2>4. answered' = Unasked
      BY <1>8 DEF QueryCount
    <2>5. answered'.infos = {} /\ answered'.there = {}
      BY <2>4 DEF Unasked
    <2>6. answered' \in [infos: SUBSET (Infos \cup {NoInfo}), there: SUBSET Infos, counted: Nat]
      BY <2>4 DEF Unasked
    <2> QED BY <1>8, <2>2, <2>3, <2>5, <2>6 DEF QueryCount
  <1>9. ASSUME NEW p \in WProcs, NEW a \in Gaddrs, NEW t \in Tags, Allocate(p, a, t)
        PROVE  WkspTypeOK' /\ QueryTrue'
    <2>1. nextId \in 0..(AllocMax - 1) /\ nextId' \in 0..AllocMax
      BY <1>9, WkspAssumption DEF Allocate
    <2>2. [tag |-> t, id |-> nextId] \in Parts
      BY <2>1 DEF Parts
    <2> QED BY <1>9, <2>1, <2>2 DEF Allocate
  <1>10. ASSUME NEW h \in held, DropAllocation(h) PROVE WkspTypeOK' /\ QueryTrue'
    BY <1>10, FreeAllType DEF DropAllocation
  <1>11. ASSUME NEW h \in held, IntoRaw(h) PROVE WkspTypeOK' /\ QueryTrue'
    BY <1>11 DEF IntoRaw
  <1>12. ASSUME NEW r \in rawAddrs, FreeGaddr(r) PROVE WkspTypeOK' /\ QueryTrue'
    BY <1>12, FreeAllType DEF FreeGaddr
  <1>13. CASE UNCHANGED wkspVars
    BY <1>13 DEF wkspVars
  <1> QED BY <1>1, <1>2, <1>3, <1>4, <1>5, <1>6, <1>7, <1>8, <1>9, <1>10, <1>11, <1>12, <1>13
          DEF WkspNext

\* Ownership, action by action: a call that frees behind the back of the handles sets
\* behindBack unless it frees nothing.
LEMMA OwnedStep ==
  ASSUME WkspTypeOK, Owned, [WkspNext]_wkspVars
  PROVE  Owned'
  <1> USE DEF Owned
  <1>1. ASSUME NEW p \in WProcs, Attach(p) PROVE Owned'
    BY <1>1 DEF Attach
  <1>2. ASSUME NEW p \in WProcs, Detach(p) PROVE Owned'
    BY <1>2 DEF Detach
  <1>3. ASSUME NEW p \in WProcs, Reset(p) PROVE Owned'
    <2>1. ~behindBack' => Gaddrs \cap Busy = {} /\ ~behindBack
      BY <1>3 DEF Reset, WkspTypeOK
    <2>2. ~behindBack' => part' = part
      BY <1>3, <2>1, FreeAllType DEF Reset
    <2> QED BY <1>3, <2>1, <2>2 DEF Reset
  <1>4. ASSUME NEW p \in WProcs, Checkpoint(p) PROVE Owned'
    BY <1>4 DEF Checkpoint
  <1>5. ASSUME NEW p \in WProcs, Restore(p) PROVE Owned'
    <2>1. ~behindBack' => ~behindBack /\ part' = part
      BY <1>5 DEF Restore, WkspTypeOK
    <2> QED BY <1>5, <2>1 DEF Restore
  <1>6. ASSUME NEW p \in WProcs, QueryFetch(p) PROVE Owned'
    BY <1>6 DEF QueryFetch
  <1>7. ASSUME NEW p \in WProcs, NEW T \in SUBSET Tags, FreeByTag(p, T) PROVE Owned'
    <2>1. ~behindBack' => ~behindBack /\ Tagged(T) = {}
      BY <1>7 DEF FreeByTag, WkspTypeOK
    <2>2. ~behindBack' => part' = part
      BY <1>7, <2>1, FreeAllType DEF FreeByTag
    <2> QED BY <1>7, <2>1, <2>2 DEF FreeByTag
  <1>8. ASSUME NEW p \in WProcs, NEW T \in SUBSET Tags, QueryCount(p, T) PROVE Owned'
    BY <1>8 DEF QueryCount
  <1>9. ASSUME NEW p \in WProcs, NEW a \in Gaddrs, NEW t \in Tags, Allocate(p, a, t)
        PROVE  Owned'
    <2> SUFFICES ASSUME ~behindBack' PROVE Owned'
      OBVIOUS
    <2> DEFINE new == [proc |-> p, gaddr |-> a, id |-> nextId]
    <2>1. ~behindBack /\ part[a] = NoPart /\ held' = held \cup {new} /\ rawAddrs' = rawAddrs
      BY <1>9 DEF Allocate
    <2>2. part' = [part EXCEPT ![a] = [tag |-> t, id |-> nextId]] /\ t # 0
      <3>1. part' = [part EXCEPT ![a] = [tag |-> t, id |-> nextId]]
        BY <1>9 DEF Allocate
      <3> QED BY <3>1, WkspAssumption
    <2>3. /\ part'[a].id = nextId /\ part'[a] # NoPart
          /\ \A b \in Gaddrs : b # a => part'[b] = part[b]
      BY <2>2 DEF WkspTypeOK, NoPart
    <2>4. (\A h \in held : h.gaddr \in Gaddrs /\ h.gaddr # a)
          /\ (\A r \in rawAddrs : r.gaddr \in Gaddrs /\ r.gaddr # a)
      BY <2>1 DEF WkspTypeOK
    <2> QED BY <2>1, <2>3, <2>4
  <1>10. ASSUME NEW h \in held, DropAllocation(h) PROVE Owned'
    <2> SUFFICES ASSUME ~behindBack' PROVE Owned'
      OBVIOUS
    <2>1. /\ ~behindBack /\ held' = held \ {h} /\ rawAddrs' = rawAddrs
          /\ part' = FreeAll({h.gaddr})
      BY <1>10 DEF DropAllocation
    <2>2. /\ \A g \in held' : g.gaddr \in Gaddrs /\ g.gaddr # h.gaddr
          /\ \A r \in rawAddrs' : r.gaddr \in Gaddrs /\ r.gaddr # h.gaddr
      BY <2>1 DEF WkspTypeOK
    <2>3. \A b \in Gaddrs : b # h.gaddr => part'[b] = part[b]
      BY <2>1, FreeAllType
    <2> QED BY <2>1, <2>2, <2>3
  <1>11. ASSUME NEW h \in held, IntoRaw(h) PROVE Owned'
    <2> SUFFICES ASSUME ~behindBack' PROVE Owned'
      OBVIOUS
    <2>1. /\ ~behindBack /\ held' = held \ {h} /\ part' = part
          /\ rawAddrs' = rawAddrs \cup {[proc |-> h.proc, gaddr |-> h.gaddr]}
      BY <1>11 DEF IntoRaw
    <2> QED BY <2>1
  <1>12. ASSUME NEW r \in rawAddrs, FreeGaddr(r) PROVE Owned'
    <2> SUFFICES ASSUME ~behindBack' PROVE Owned'
      OBVIOUS
    <2>1. /\ ~behindBack /\ held' = held /\ rawAddrs' = rawAddrs \ {r}
          /\ part' = FreeAll({r.gaddr})
      BY <1>12 DEF FreeGaddr
    <2>2. /\ \A g \in held' : g.gaddr \in Gaddrs /\ g.gaddr # r.gaddr
          /\ \A s \in rawAddrs' : s.gaddr \in Gaddrs /\ s.gaddr # r.gaddr
      BY <2>1 DEF WkspTypeOK
    <2>3. \A b \in Gaddrs : b # r.gaddr => part'[b] = part[b]
      BY <2>1, FreeAllType
    <2> QED BY <2>1, <2>2, <2>3
  <1>13. CASE UNCHANGED wkspVars
    BY <1>13 DEF wkspVars
  <1> QED BY <1>1, <1>2, <1>3, <1>4, <1>5, <1>6, <1>7, <1>8, <1>9, <1>10, <1>11, <1>12, <1>13
          DEF WkspNext

\* The inductive invariant of the workspace.
THEOREM WkspInvariant == WkspSpec => []WkspInv
  <1>1. WkspInit => WkspInv
    BY WkspInitInv
  <1>2. WkspInv /\ [WkspNext]_wkspVars => WkspInv'
    BY TypeStep, OwnedStep DEF WkspInv
  <1> QED BY <1>1, <1>2, PTL DEF WkspSpec

\* Whatever number of processes attach the workspace and in whatever order they allocate,
\* free, convert and query (fd_wksp allocate, WorkspaceAllocation::drop, into_raw,
\* free_gaddr): a handle owns the allocation at its address, and owns it alone, unless
\* free_by_tag, reset or restore freed allocations behind the back of handles.
THEOREM HandlesAlwaysOwn == WkspSpec => []HandlesOwn
  <1>1. WkspInv => HandlesOwn
    BY DEF WkspInv, Owned, HandlesOwn
  <1> QED BY <1>1, WkspInvariant, PTL

-----------------------------------------------------------------------------
(***************************************************************************)
(* Proofs about the clock segments, for any number of processes and        *)
(* segments.  ClockOwned is not inductive: it says nothing of a            *)
(* constructor that is half way, and nothing of who else could reach a     *)
(* segment.  Reached adds that a process on its way to be an owner, or one *)
(* that is, is among the creators of its segment, that a segment the name  *)
(* leads to has creators, and that memory of a caller has none and one     *)
(* owner.                                                                  *)
(***************************************************************************)

Creating == {"opened", "sized", "mapped", "owner"}
Roles == Creating \cup {"none", "observer", "ownerPtr", "observerPtr"}

ClockShape ==
    /\ segs \subseteq CSegs
    /\ creators \in [CSegs -> SUBSET CProcs]
    /\ shm \in [CProcs -> [role : Roles, seg : CSegs \cup {NoSeg}]]
    /\ fds \in [CProcs -> SUBSET (CSegs \cup {NoSeg})]
    /\ maps \in [CProcs -> SUBSET (CSegs \cup {NoSeg})]

Holdings ==
    \A p \in CProcs :
       /\ fds[p] = IF shm[p].role \in Creating \cup {"observer"} THEN {shm[p].seg} ELSE {}
       /\ maps[p] = IF shm[p].role \in {"mapped", "owner", "observer"} THEN {shm[p].seg} ELSE {}

Reached ==
    /\ cName # NoSeg => cName \in segs /\ creators[cName] # {}
    /\ \A s \in CSegs : creators[s] # {} => s \in segs
    /\ \A p \in CProcs : shm[p].role \in Creating =>
          shm[p].seg \in CSegs /\ p \in creators[shm[p].seg]
    /\ \A p \in CProcs : shm[p].role = "ownerPtr" =>
          shm[p].seg \in segs /\ creators[shm[p].seg] = {}
    /\ \A p, q \in CProcs : shm[p].role = "ownerPtr" /\ shm[q].role = "ownerPtr"
          /\ shm[p].seg = shm[q].seg => p = q

Running ==
    \A p \in CProcs :
       /\ shm[p].role = "owner" /\ creators[shm[p].seg] = {p} => shm[p].seg \in ticking
       /\ shm[p].role \in Creating /\ (\A c \in CSegs : creators[c] \subseteq {p}) => cName = shm[p].seg
       /\ shm[p].role = "ownerPtr" => shm[p].seg \in ticking

ClockInv == ClockShape /\ Holdings /\ Reached /\ Running

-----------------------------------------------------------------------------
LEMMA ClockInitInv == ClInit => ClockInv
  BY DEF ClInit, NoShm, ClockInv, ClockShape, Holdings, Reached, Running, Creating, Roles

\* What a change of the ClockShmem of one process does to the function of all of them.
LEMMA BecomesFact ==
  ASSUME ClockShape, NEW p \in CProcs, NEW role \in Roles, NEW s \in CSegs \cup {NoSeg},
         Becomes(p, role, s)
  PROVE  /\ shm' \in [CProcs -> [role : Roles, seg : CSegs \cup {NoSeg}]]
         /\ shm'[p].role = role /\ shm'[p].seg = s
         /\ \A q \in CProcs : q # p => shm'[q] = shm[q]
  BY DEF ClockShape, Becomes

\* A descriptor or a mapping that one process takes or gives back.
LEMMA TakesFact ==
  ASSUME NEW U, NEW f \in [CProcs -> SUBSET U], NEW g, NEW p \in CProcs, NEW s \in U,
         g = [f EXCEPT ![p] = @ \cup {s}]
  PROVE  /\ g \in [CProcs -> SUBSET U] /\ g[p] = f[p] \cup {s}
         /\ \A q \in CProcs : q # p => g[q] = f[q]
  OBVIOUS

LEMMA GivesFact ==
  ASSUME NEW U, NEW f \in [CProcs -> SUBSET U], NEW g, NEW p \in CProcs, NEW s,
         g = [f EXCEPT ![p] = @ \ {s}]
  PROVE  /\ g \in [CProcs -> SUBSET U] /\ g[p] = f[p] \ {s}
         /\ \A q \in CProcs : q # p => g[q] = f[q]
  OBVIOUS

LEMMA OpenCreateStep ==
  ASSUME ClockInv, NEW p \in CProcs, OpenCreate(p)
  PROVE  ClockInv'
  <1> USE DEF ClockInv
  <1>1. PICK s \in CSegs :
          /\ IF cName = NoSeg THEN s \notin segs ELSE s = cName
          /\ cName' = s /\ segs' = segs \cup {s}
          /\ creators' = [creators EXCEPT ![s] = @ \cup {p}]
          /\ Takes(fds, p, s) /\ Becomes(p, "opened", s)
    BY DEF OpenCreate
  <1>2. shm[p].role = "none" /\ UNCHANGED <<ticking, maps>>
    BY DEF OpenCreate, NoShm
  <1>3. /\ shm' \in [CProcs -> [role : Roles, seg : CSegs \cup {NoSeg}]]
        /\ shm'[p].role = "opened" /\ shm'[p].seg = s
        /\ \A q \in CProcs : q # p => shm'[q] = shm[q]
    BY <1>1, BecomesFact DEF Roles, Creating
  <1>4. /\ fds' \in [CProcs -> SUBSET (CSegs \cup {NoSeg})]
        /\ fds'[p] = fds[p] \cup {s} /\ \A q \in CProcs : q # p => fds'[q] = fds[q]
    BY <1>1, TakesFact DEF Takes, ClockShape
  <1>5. /\ creators' \in [CSegs -> SUBSET CProcs] /\ creators'[s] = creators[s] \cup {p}
        /\ \A c \in CSegs : c # s => creators'[c] = creators[c]
    BY <1>1 DEF ClockShape
  <1>6. ClockShape'
    BY <1>1, <1>2, <1>3, <1>4, <1>5 DEF ClockShape
  <1>7. Holdings'
    BY <1>2, <1>3, <1>4 DEF Holdings, Creating
  <1>8. Reached'
    <2>1. \A q \in CProcs : shm[q].role = "ownerPtr" => shm[q].seg # s
      BY <1>1 DEF Reached
    <2>2. cName' \in segs' /\ creators'[cName'] # {}
      BY <1>1, <1>5
    <2>3. \A c \in CSegs : creators'[c] # {} => c \in segs'
      BY <1>1, <1>5 DEF Reached
    <2>4. ASSUME NEW q \in CProcs, shm'[q].role \in Creating
          PROVE  shm'[q].seg \in CSegs /\ q \in creators'[shm'[q].seg]
      <3>1. CASE q = p
        BY <1>3, <1>5, <3>1
      <3>2. CASE q # p
        BY <1>3, <1>5, <2>4, <3>2 DEF Reached
      <3> QED BY <3>1, <3>2
    <2>5. ASSUME NEW q \in CProcs, shm'[q].role = "ownerPtr"
          PROVE  q # p /\ shm'[q].seg \in segs' /\ creators'[shm'[q].seg] = {}
      <3>1. q # p /\ shm'[q] = shm[q]
        BY <1>3, <2>5
      <3>2. shm[q].seg \in segs /\ creators[shm[q].seg] = {} /\ shm[q].seg # s
        BY <2>1, <2>5, <3>1 DEF Reached
      <3> QED BY <1>1, <1>5, <3>1, <3>2 DEF ClockShape
    <2>6. ASSUME NEW q \in CProcs, NEW r \in CProcs, shm'[q].role = "ownerPtr",
                 shm'[r].role = "ownerPtr", shm'[q].seg = shm'[r].seg
          PROVE  q = r
      BY <1>3, <2>5, <2>6 DEF Reached
    <2> QED BY <2>2, <2>3, <2>4, <2>5, <2>6 DEF Reached
  <1>9. Running'
    <2> SUFFICES ASSUME NEW q \in CProcs, q # p
                 PROVE  /\ shm[q].role = "owner" /\ creators'[shm[q].seg] = {q} => shm[q].seg \in ticking
                        /\ ~ \A c \in CSegs : creators'[c] \subseteq {q}
                        /\ shm[q].role = "ownerPtr" => shm[q].seg \in ticking
      BY <1>1, <1>2, <1>3 DEF Running, Creating
    <2>1. ~ \A c \in CSegs : creators'[c] \subseteq {q}
      BY <1>5
    <2>2. ASSUME shm[q].role = "owner", creators'[shm[q].seg] = {q} PROVE shm[q].seg \in ticking
      <3>1. shm[q].seg # s /\ shm[q].seg \in CSegs
        BY <1>5, <2>2 DEF Reached, Creating
      <3> QED BY <1>5, <2>2, <3>1 DEF Running
    <2> QED BY <2>1, <2>2 DEF Running
  <1> QED BY <1>6, <1>7, <1>8, <1>9

\* A constructor that fails half way, or an owner that is dropped, gives back what it holds.
LEMMA GoStep ==
  ASSUME ClockInv, NEW p \in CProcs, Becomes(p, "none", NoSeg),
         Gives(maps, p, shm[p].seg), Gives(fds, p, shm[p].seg),
         UNCHANGED <<segs, creators>>,
         cName' = cName \/ (cName' = NoSeg /\ shm[p].role \in Creating),
         \/ ticking' = ticking
         \/ ticking' = ticking \ {shm[p].seg} /\ shm[p].role \in {"owner", "ownerPtr"}
  PROVE  ClockInv'
  <1> USE DEF ClockInv
  <1>1. /\ shm' \in [CProcs -> [role : Roles, seg : CSegs \cup {NoSeg}]]
        /\ shm'[p].role = "none" /\ \A q \in CProcs : q # p => shm'[q] = shm[q]
    BY BecomesFact DEF Roles
  <1>2. /\ fds' \in [CProcs -> SUBSET (CSegs \cup {NoSeg})]
        /\ fds'[p] = fds[p] \ {shm[p].seg} /\ \A q \in CProcs : q # p => fds'[q] = fds[q]
    BY GivesFact DEF Gives, ClockShape
  <1>3. /\ maps' \in [CProcs -> SUBSET (CSegs \cup {NoSeg})]
        /\ maps'[p] = maps[p] \ {shm[p].seg} /\ \A q \in CProcs : q # p => maps'[q] = maps[q]
    BY GivesFact DEF Gives, ClockShape
  <1>4. ClockShape'
    BY <1>1, <1>2, <1>3 DEF ClockShape
  <1>5. Holdings'
    <2>1. fds'[p] = {} /\ maps'[p] = {}
      BY <1>2, <1>3 DEF Holdings
    <2>2. ASSUME NEW q \in CProcs, q # p
          PROVE  shm'[q] = shm[q] /\ fds'[q] = fds[q] /\ maps'[q] = maps[q]
      BY <1>1, <1>2, <1>3, <2>2
    <2> QED BY <1>1, <2>1, <2>2 DEF Holdings, Creating
  <1>6. Reached'
    BY <1>1 DEF Reached, Creating
  <1>7. Running'
    <2> SUFFICES ASSUME NEW q \in CProcs, q # p
                 PROVE  /\ shm[q].role = "owner" /\ creators[shm[q].seg] = {q} => shm[q].seg \in ticking'
                        /\ shm[q].role \in Creating /\ (\A c \in CSegs : creators[c] \subseteq {q})
                              => cName' = shm[q].seg
                        /\ shm[q].role = "ownerPtr" => shm[q].seg \in ticking'
      BY <1>1 DEF Running, Creating
    <2>1. ASSUME shm[p].role \in Creating PROVE ~ \A c \in CSegs : creators[c] \subseteq {q}
      BY <2>1 DEF Reached
    <2>2. shm[q].role \in Creating /\ (\A c \in CSegs : creators[c] \subseteq {q}) => cName' = shm[q].seg
      BY <2>1 DEF Running
    <2>3. ASSUME shm[q].role = "owner", creators[shm[q].seg] = {q} PROVE shm[q].seg \in ticking'
      BY <2>3 DEF Running, Reached, Creating
    <2>4. ASSUME shm[q].role = "ownerPtr" PROVE shm[q].seg \in ticking'
      BY <2>4 DEF Running, Reached, Creating
    <2> QED BY <2>2, <2>3, <2>4
  <1> QED BY <1>4, <1>5, <1>6, <1>7

\* A process that holds no mapping, or none of a segment, may as well give it back.
LEMMA NothingToGive ==
  ASSUME NEW f, NEW U, f \in [CProcs -> SUBSET U], NEW p \in CProcs, NEW s, s \notin f[p]
  PROVE  f = [f EXCEPT ![p] = @ \ {s}]
  OBVIOUS

\* A constructor of an owner that goes on to its next step.
LEMMA AdvanceStep ==
  ASSUME ClockInv, NEW p \in CProcs, NEW role \in Creating,
         shm[p].role \in Creating, Becomes(p, role, shm[p].seg),
         maps' \in [CProcs -> SUBSET (CSegs \cup {NoSeg})],
         maps'[p] = IF role \in {"mapped", "owner"} THEN {shm[p].seg} ELSE {},
         \A q \in CProcs : q # p => maps'[q] = maps[q],
         UNCHANGED <<cName, segs, creators, fds>>,
         ticking \subseteq ticking', role = "owner" => shm[p].seg \in ticking'
  PROVE  ClockInv'
  <1> USE DEF ClockInv
  <1>0. shm[p].seg \in CSegs \cup {NoSeg} /\ role \in Roles
    BY DEF ClockShape, Roles
  <1>1. /\ shm' \in [CProcs -> [role : Roles, seg : CSegs \cup {NoSeg}]]
        /\ shm'[p].role = role /\ shm'[p].seg = shm[p].seg
        /\ \A q \in CProcs : q # p => shm'[q] = shm[q]
    BY <1>0, BecomesFact
  <1>2. ClockShape'
    BY <1>1 DEF ClockShape
  <1>3. Holdings'
    <2>1. fds'[p] = {shm'[p].seg} /\ shm'[p].role \in Creating
      BY <1>1 DEF Holdings
    <2>2. maps'[p] = IF shm'[p].role \in {"mapped", "owner", "observer"} THEN {shm'[p].seg} ELSE {}
      BY <1>1 DEF Creating
    <2>3. ASSUME NEW q \in CProcs, q # p
          PROVE  shm'[q] = shm[q] /\ fds'[q] = fds[q] /\ maps'[q] = maps[q]
      BY <1>1, <2>3
    <2> QED BY <2>1, <2>2, <2>3 DEF Holdings
  <1>4. \A q \in CProcs : (shm'[q].role \in Creating) = (shm[q].role \in Creating)
                          /\ (shm'[q].role = "ownerPtr") = (shm[q].role = "ownerPtr")
                          /\ shm'[q].seg = shm[q].seg
    BY <1>1 DEF Creating
  <1>5. Reached'
    BY <1>4 DEF Reached
  <1>6. Running'
    <2> SUFFICES ASSUME NEW q \in CProcs
                 PROVE  /\ shm'[q].role = "owner" /\ creators[shm[q].seg] = {q} => shm[q].seg \in ticking'
                        /\ shm[q].role \in Creating /\ (\A c \in CSegs : creators[c] \subseteq {q})
                              => cName = shm[q].seg
                        /\ shm[q].role = "ownerPtr" => shm[q].seg \in ticking'
      BY <1>4 DEF Running
    <2>1. CASE q = p
      BY <1>1, <2>1 DEF Running, Creating
    <2>2. CASE q # p
      BY <1>1, <2>2 DEF Running
    <2> QED BY <2>1, <2>2
  <1> QED BY <1>2, <1>3, <1>5, <1>6

LEMMA TruncateStep ==
  ASSUME ClockInv, NEW p \in CProcs, Truncate(p)
  PROVE  ClockInv'
  <1>1. shm[p].role = "opened" /\ UNCHANGED <<cName, segs, ticking, creators, maps>>
    BY DEF Truncate
  <1>2. maps \in [CProcs -> SUBSET (CSegs \cup {NoSeg})] /\ maps[p] = {}
    BY <1>1 DEF ClockInv, ClockShape, Holdings
  <1>3. CASE Becomes(p, "sized", shm[p].seg) /\ UNCHANGED fds
    BY <1>1, <1>2, <1>3, AdvanceStep DEF Creating
  <1>4. CASE Gives(fds, p, shm[p].seg) /\ Becomes(p, "none", NoSeg)
    <2>1. Gives(maps, p, shm[p].seg)
      BY <1>1, <1>2, NothingToGive DEF Gives
    <2> QED BY <1>1, <1>4, <2>1, GoStep
  <1> QED BY <1>3, <1>4 DEF Truncate

LEMMA MapStep ==
  ASSUME ClockInv, NEW p \in CProcs, Map(p)
  PROVE  ClockInv'
  <1>1. shm[p].role = "sized" /\ UNCHANGED <<cName, segs, ticking, creators>>
    BY DEF Map
  <1>2. /\ maps \in [CProcs -> SUBSET (CSegs \cup {NoSeg})] /\ maps[p] = {}
        /\ shm[p].seg \in CSegs \cup {NoSeg}
    BY <1>1 DEF ClockInv, ClockShape, Holdings
  <1>3. CASE Takes(maps, p, shm[p].seg) /\ Becomes(p, "mapped", shm[p].seg) /\ UNCHANGED fds
    <2>1. /\ maps' \in [CProcs -> SUBSET (CSegs \cup {NoSeg})] /\ maps'[p] = maps[p] \cup {shm[p].seg}
          /\ \A q \in CProcs : q # p => maps'[q] = maps[q]
      BY <1>2, <1>3, TakesFact DEF Takes
    <2> QED BY <1>1, <1>2, <1>3, <2>1, AdvanceStep DEF Creating
  <1>4. CASE Gives(fds, p, shm[p].seg) /\ Becomes(p, "none", NoSeg) /\ UNCHANGED maps
    <2>1. Gives(maps, p, shm[p].seg)
      BY <1>2, <1>4, NothingToGive DEF Gives
    <2> QED BY <1>1, <1>4, <2>1, GoStep
  <1> QED BY <1>3, <1>4 DEF Map

LEMMA NewClockStep ==
  ASSUME ClockInv, NEW p \in CProcs, NewClock(p)
  PROVE  ClockInv'
  <1>1. shm[p].role = "mapped" /\ UNCHANGED <<segs, creators>>
    BY DEF NewClock
  <1>2. CASE /\ ticking' = ticking \cup {shm[p].seg} /\ Becomes(p, "owner", shm[p].seg)
             /\ UNCHANGED <<cName, fds, maps>>
    <2>1. maps \in [CProcs -> SUBSET (CSegs \cup {NoSeg})] /\ maps[p] = {shm[p].seg}
      BY <1>1 DEF ClockInv, ClockShape, Holdings
    <2> QED BY <1>1, <1>2, <2>1, AdvanceStep DEF Creating
  <1>3. CASE /\ Gives(maps, p, shm[p].seg) /\ Gives(fds, p, shm[p].seg) /\ cName' = NoSeg
             /\ Becomes(p, "none", NoSeg) /\ UNCHANGED ticking
    BY <1>1, <1>3, GoStep DEF Creating
  <1> QED BY <1>2, <1>3 DEF NewClock

LEMMA DropStep ==
  ASSUME ClockInv, NEW p \in CProcs, DropClockShmem(p)
  PROVE  ClockInv'
  BY GoStep DEF DropClockShmem, Creating

\* A ClockShmem that does not create anything under the name.
LEMMA OpenClockStep ==
  ASSUME ClockInv, NEW p \in CProcs, OpenClock(p)
  PROVE  ClockInv'
  <1> USE DEF ClockInv
  <1>1. shm[p].role = "none" /\ cName # NoSeg /\ UNCHANGED <<cName, segs, ticking, creators>>
    BY DEF OpenClock, NoShm
  <1>2. CASE Takes(fds, p, cName) /\ Takes(maps, p, cName) /\ Becomes(p, "observer", cName)
    <2>0. cName \in CSegs \cup {NoSeg}
      BY <1>1 DEF Reached, ClockShape
    <2>1. /\ shm' \in [CProcs -> [role : Roles, seg : CSegs \cup {NoSeg}]]
          /\ shm'[p].role = "observer" /\ shm'[p].seg = cName
          /\ \A q \in CProcs : q # p => shm'[q] = shm[q]
      BY <1>2, <2>0, BecomesFact DEF Roles
    <2>2. /\ fds' \in [CProcs -> SUBSET (CSegs \cup {NoSeg})]
          /\ fds'[p] = fds[p] \cup {cName} /\ \A q \in CProcs : q # p => fds'[q] = fds[q]
      BY <1>2, <2>0, TakesFact DEF Takes, ClockShape
    <2>3. /\ maps' \in [CProcs -> SUBSET (CSegs \cup {NoSeg})]
          /\ maps'[p] = maps[p] \cup {cName} /\ \A q \in CProcs : q # p => maps'[q] = maps[q]
      BY <1>2, <2>0, TakesFact DEF Takes, ClockShape
    <2>4. ClockShape'
      BY <1>1, <2>1, <2>2, <2>3 DEF ClockShape
    <2>5. Holdings'
      <3>1. fds'[p] = {cName} /\ maps'[p] = {cName}
        BY <1>1, <2>2, <2>3 DEF Holdings, Creating
      <3>2. ASSUME NEW q \in CProcs, q # p
            PROVE  shm'[q] = shm[q] /\ fds'[q] = fds[q] /\ maps'[q] = maps[q]
        BY <2>1, <2>2, <2>3, <3>2
      <3> QED BY <2>1, <3>1, <3>2 DEF Holdings
    <2>6. Reached' /\ Running'
      BY <1>1, <2>1 DEF Reached, Running, Creating
    <2> QED BY <2>4, <2>5, <2>6
  <1>3. CASE UNCHANGED <<fds, maps, shm>>
    BY <1>1, <1>3 DEF ClockShape, Holdings, Reached, Running
  <1> QED BY <1>2, <1>3 DEF OpenClock

LEMMA InitFromPtrStep ==
  ASSUME ClockInv, NEW p \in CProcs, InitFromPtr(p)
  PROVE  ClockInv'
  <1> USE DEF ClockInv
  <1>1. shm[p].role = "none" /\ UNCHANGED <<cName, creators, fds, maps>>
    BY DEF InitFromPtr, NoShm
  <1>2. PICK s \in CSegs \ segs :
          /\ segs' = segs \cup {s}
          /\ \/ ticking' = ticking \cup {s} /\ Becomes(p, "ownerPtr", s)
             \/ UNCHANGED <<ticking, shm>>
    BY DEF InitFromPtr
  <1>3. CASE ticking' = ticking \cup {s} /\ Becomes(p, "ownerPtr", s)
    <2>1. /\ shm' \in [CProcs -> [role : Roles, seg : CSegs \cup {NoSeg}]]
          /\ shm'[p].role = "ownerPtr" /\ shm'[p].seg = s
          /\ \A q \in CProcs : q # p => shm'[q] = shm[q]
      BY <1>3, BecomesFact DEF Roles
    <2>2. ClockShape'
      BY <1>1, <1>2, <2>1 DEF ClockShape
    <2>3. Holdings'
      <3>1. fds'[p] = {} /\ maps'[p] = {}
        BY <1>1 DEF Holdings, Creating
      <3>2. ASSUME NEW q \in CProcs, q # p
            PROVE  shm'[q] = shm[q] /\ fds'[q] = fds[q] /\ maps'[q] = maps[q]
        BY <1>1, <2>1, <3>2
      <3> QED BY <2>1, <3>1, <3>2 DEF Holdings, Creating
    <2>4. Reached'
      <3>1. creators[s] = {} /\ \A q \in CProcs : shm[q].role = "ownerPtr" => shm[q].seg # s
        BY <1>2 DEF Reached
      <3> QED BY <1>1, <1>2, <2>1, <3>1 DEF Reached, Creating
    <2>5. Running'
      BY <1>1, <1>3, <2>1 DEF Running, Creating
    <2> QED BY <2>2, <2>3, <2>4, <2>5
  <1>4. CASE UNCHANGED <<ticking, shm>>
    BY <1>1, <1>2, <1>4 DEF ClockShape, Holdings, Reached, Running
  <1> QED BY <1>2, <1>3, <1>4

LEMMA FromPtrStep ==
  ASSUME ClockInv, NEW p \in CProcs, FromPtr(p)
  PROVE  ClockInv'
  <1> USE DEF ClockInv
  <1>1. shm[p].role = "none" /\ UNCHANGED <<cName, segs, ticking, creators, fds, maps>>
    BY DEF FromPtr, NoShm
  <1>2. PICK o \in CProcs : shm[o].role = "ownerPtr" /\ Becomes(p, "observerPtr", shm[o].seg)
    BY DEF FromPtr
  <1>3. /\ shm' \in [CProcs -> [role : Roles, seg : CSegs \cup {NoSeg}]]
        /\ shm'[p].role = "observerPtr" /\ \A q \in CProcs : q # p => shm'[q] = shm[q]
    <2>1. shm[o].seg \in CSegs \cup {NoSeg}
      BY DEF ClockShape
    <2> QED BY <1>2, <2>1, BecomesFact DEF Roles
  <1>4. ClockShape' /\ Reached' /\ Running'
    <2>1. ClockShape'
      BY <1>1, <1>3 DEF ClockShape
    <2>2. Reached'
      BY <1>1, <1>3 DEF Reached, Creating
    <2>3. Running'
      BY <1>1, <1>3 DEF Running, Creating
    <2> QED BY <2>1, <2>2, <2>3
  <1>5. Holdings'
    <2>1. fds'[p] = {} /\ maps'[p] = {}
      BY <1>1 DEF Holdings, Creating
    <2>2. ASSUME NEW q \in CProcs, q # p
          PROVE  shm'[q] = shm[q] /\ fds'[q] = fds[q] /\ maps'[q] = maps[q]
      BY <1>1, <1>3, <2>2
    <2> QED BY <1>3, <2>1, <2>2 DEF Holdings, Creating
  <1> QED BY <1>4, <1>5

LEMMA ClockStep ==
  ASSUME ClockInv, [ClNext]_clVars
  PROVE  ClockInv'
  <1>1. ASSUME UNCHANGED <<cName, segs, ticking, creators, shm, fds, maps>> PROVE ClockInv'
    BY <1>1 DEF ClockInv, ClockShape, Holdings, Reached, Running
  <1>2. ASSUME NEW p \in CProcs, LeaveClock(p) \/ Recalibrate(p) \/ RefreshEpoch(p)
        PROVE  ClockInv'
    BY <1>1, <1>2 DEF LeaveClock, Recalibrate, RefreshEpoch
  <1>4. ASSUME NEW p \in CProcs, JoinClock(p) PROVE ClockInv'
    <2>1. CASE DieOnAccess(p)
      <3>1. /\ Becomes(p, "none", NoSeg) /\ Gives(maps, p, shm[p].seg) /\ Gives(fds, p, shm[p].seg)
            /\ UNCHANGED <<cName, segs, ticking, creators>>
        BY <1>4, <2>1 DEF JoinClock, DieOnAccess
      <3> QED BY <3>1, GoStep
    <2>2. CASE UNCHANGED <<shm, fds, maps, cached>>
      BY <1>1, <1>4, <2>2 DEF JoinClock
    <2> QED BY <1>4, <2>1, <2>2 DEF JoinClock
  <1>3. CASE UNCHANGED clVars
    BY <1>1, <1>3 DEF clVars
  <1> QED BY <1>2, <1>3, <1>4, OpenCreateStep, TruncateStep, MapStep, NewClockStep, OpenClockStep,
            InitFromPtrStep, FromPtrStep, DropStep DEF ClNext

-----------------------------------------------------------------------------
\* The inductive invariant of the clock segments.
THEOREM ClockInvariant == ClSpec => []ClockInv
  <1>1. ClInit => ClockInv
    BY ClockInitInv
  <1>2. ClockInv /\ [ClNext]_clVars => ClockInv'
    BY ClockStep
  <1> QED BY <1>1, <1>2, PTL DEF ClSpec

\* Whatever processes create, open and drop clocks under one name or in memory of their own,
\* and whichever of their system calls fail: descriptors and mappings are exactly those of
\* the ClockShmem a process has, and an owner's clock runs, and its name leads to it, until
\* the owner or another creator under that name ends it (ClockShmem::init, open, Drop).
THEOREM ClocksAreOwned == ClSpec => []ClockOwned
  <1>1. ClockInv => ClockOwned
    <2> SUFFICES ASSUME ClockInv, NEW p \in CProcs
                 PROVE  /\ fds[p] = IF shm[p].role \in {"opened", "sized", "mapped", "owner", "observer"}
                                    THEN {shm[p].seg} ELSE {}
                        /\ maps[p] = IF shm[p].role \in {"mapped", "owner", "observer"}
                                     THEN {shm[p].seg} ELSE {}
                        /\ shm[p].role = "owner" /\ creators[shm[p].seg] = {p} => shm[p].seg \in ticking
                        /\ shm[p].role = "owner" /\ (\A c \in CSegs : creators[c] \subseteq {p})
                              => cName = shm[p].seg
                        /\ shm[p].role = "ownerPtr" => shm[p].seg \in ticking
      BY Zenon DEF ClockOwned
    <2>1. Creating \cup {"observer"} = {"opened", "sized", "mapped", "owner", "observer"}
      BY DEF Creating
    <2>2. fds[p] = IF shm[p].role \in Creating \cup {"observer"} THEN {shm[p].seg} ELSE {}
      BY DEF ClockInv, Holdings
    <2> QED BY <2>1, <2>2 DEF ClockInv, Holdings, Running, Creating
  <1> QED BY <1>1, ClockInvariant, PTL

-----------------------------------------------------------------------------
(***************************************************************************)
(* Proofs about the thread-local scratch allocator, for any number of      *)
(* threads, allocators and frames.  That guards and frames match is not    *)
(* inductive: a frame pushed twice, or with two guards, would be popped    *)
(* with one of them.  FramesOnce rules that out.                           *)
(***************************************************************************)

FramesOnce ==
  /\ \A t \in SThreads : \A i \in 1..Len(frames[t]) : frames[t][i] \in usedIds
  /\ \A t \in SThreads : \A i, j \in 1..Len(frames[t]) : frames[t][i] = frames[t][j] => i = j
  /\ \A g \in guards : g.frame \in usedIds
  /\ \A g, h \in guards : g.frame = h.frame => g = h

\* A prepare is open in a frame: whatever pops the frame ends it.
PreparedInFrame == \A t \in SThreads : prepared[t] => frames[t] # <<>>

ScratchInv == ScratchTypeOK /\ PreparedInFrame /\ AttachedIsAlive /\ AllocatorUsable /\ FramesOnce
              /\ GuardsMatchFrames

\* The frame on top goes, the others stay.
LEMMA FrontIs ==
  ASSUME NEW S, NEW s \in Seq(S), s # <<>>
  PROVE  /\ Front(s) \in Seq(S) /\ Len(s) \in Nat \ {0} /\ Len(Front(s)) = Len(s) - 1
         /\ \A i \in 1..(Len(s) - 1) : Front(s)[i] = s[i]
  <1>1. Len(s) \in Nat \ {0}
    BY EmptySeq
  <1>2. Front(s) = SubSeq(s, 1, Len(s) - 1)
    BY DEF Front
  <1>3. /\ SubSeq(s, 1, Len(s) - 1) \in Seq(S) /\ Len(SubSeq(s, 1, Len(s) - 1)) = Len(s) - 1
        /\ \A i \in 1..(Len(s) - 1) : SubSeq(s, 1, Len(s) - 1)[i] = s[i]
    <2>1. 1 \in Int /\ Len(s) - 1 \in Int /\ \A i \in 1..(Len(s) - 1) : s[i] \in S
      BY <1>1
    <2>2. /\ SubSeq(s, 1, Len(s) - 1) \in Seq(S)
          /\ Len(SubSeq(s, 1, Len(s) - 1)) = IF 1 <= Len(s) - 1 THEN Len(s) - 1 - 1 + 1 ELSE 0
          /\ \A i \in 1..(Len(s) - 1 - 1 + 1) : SubSeq(s, 1, Len(s) - 1)[i] = s[1 + i - 1]
      BY <2>1, SubSeqProperties
    <2>3. Len(s) - 1 - 1 + 1 = Len(s) - 1 /\ (~(1 <= Len(s) - 1) => Len(s) - 1 = 0)
      <3>1. \A n \in Nat \ {0} : n - 1 - 1 + 1 = n - 1 /\ (~(1 <= n - 1) => n - 1 = 0)
        OBVIOUS
      <3> QED BY <1>1, <3>1
    <2>4. \A i \in 1..(Len(s) - 1) : 1 + i - 1 = i
      BY <1>1
    <2>5. \A i \in 1..(Len(s) - 1) : SubSeq(s, 1, Len(s) - 1)[i] = s[i]
      BY <2>2, <2>3, <2>4
    <2>6. Len(SubSeq(s, 1, Len(s) - 1)) = Len(s) - 1
      BY <2>2, <2>3
    <2> QED BY <2>2, <2>5, <2>6
  <1> QED BY <1>1, <1>2, <1>3

LEMMA ScratchInitInv == ScratchInit => ScratchInv
  <1> SUFFICES ASSUME ScratchInit PROVE ScratchInv
    OBVIOUS
  <1>1. ScratchTypeOK
    <2>1. frames \in [SThreads -> Seq(FrameIds)] /\ \A t \in SThreads : Len(frames[t]) <= SFrameMax
      <3>1. frames = [t \in SThreads |-> <<>>] /\ SFrameMax \in Nat
        BY ScratchAssumption DEF ScratchInit
      <3>2. <<>> \in Seq(FrameIds) /\ Len(<<>>) = 0
        OBVIOUS
      <3>3. \A t \in SThreads : frames[t] = <<>>
        BY <3>1
      <3> QED BY <3>1, <3>2, <3>3
    <2>2. 0 \in 0..DraftMax
      BY ScratchAssumption
    <2> QED BY <2>1, <2>2 DEF ScratchInit, ScratchTypeOK
  <1>2. PreparedInFrame /\ AttachedIsAlive /\ AllocatorUsable /\ FramesOnce
    BY DEF ScratchInit, PreparedInFrame, AttachedIsAlive, AllocatorUsable, Alive, FramesOnce
  <1>3. GuardsMatchFrames
    <2>1. ToSet(<<>>) = {}
      BY DEF ToSet
    <2> QED BY <2>1 DEF ScratchInit, GuardsMatchFrames
  <1> QED BY <1>1, <1>2, <1>3 DEF ScratchInv

\* Types: every call leaves the library's state and the values held well formed.
LEMMA ScratchTypes ==
  ASSUME ScratchTypeOK, PreparedInFrame, AttachedIsAlive, ScratchNext
  PROVE  ScratchTypeOK'
  <1>0. SFrameMax \in Nat /\ NoMem \notin SThreads /\ NoMem \notin Allocators
    BY ScratchAssumption
  <1>d. ASSUME NEW t \in SThreads, DetachThread(t)
        PROVE  /\ attachedMem' \in [SThreads -> Allocators \cup {NoMem}]
               /\ frames' \in [SThreads -> Seq(FrameIds)]
               /\ \A u \in SThreads : Len(frames'[u]) <= SFrameMax
               /\ prepared' \in [SThreads -> BOOLEAN]
    <2>1. <<>> \in Seq(FrameIds) /\ Len(<<>>) = 0
      OBVIOUS
    <2>2. frames' \in [SThreads -> Seq(FrameIds)]
      BY <1>d, <2>1 DEF DetachThread, ScratchTypeOK
    <2>3. \A u \in SThreads : frames'[u] = <<>> \/ frames'[u] = frames[u]
      BY <1>d DEF DetachThread, ScratchTypeOK
    <2>4. \A u \in SThreads : Len(frames'[u]) <= SFrameMax
      BY <1>0, <2>1, <2>3 DEF ScratchTypeOK
    <2> QED BY <1>d, <2>2, <2>4 DEF DetachThread, ScratchTypeOK
  <1>1. ASSUME NEW t \in SThreads, NEW k \in Allocators, ScratchNew(t, k) PROVE ScratchTypeOK'
    <2>1. CASE attachedMem[t] = NoMem
      BY <1>1, <2>1 DEF ScratchNew, ScratchTypeOK
    <2>2. CASE attachedMem[t] # NoMem
      <3>1. DetachThread(t) /\ intruder' = TRUE /\ disturbed' = TRUE /\ UNCHANGED <<home, guards, usedIds, chunks, drafts>>
        BY <1>1, <2>2 DEF ScratchNew
      <3> QED BY <1>0, <3>1, <1>d DEF ScratchTypeOK
    <2> QED BY <2>1, <2>2
  <1>2. ASSUME NEW k \in Allocators, ScratchDrop(k) PROVE ScratchTypeOK'
    <2>1. home[k] \in SThreads
      BY <1>2 DEF ScratchDrop, ScratchTypeOK
    <2> QED BY <1>2, <2>1, <1>d DEF ScratchDrop, ScratchTypeOK
  <1>3. ASSUME NEW t \in SThreads, NEW f \in FrameIds, PushFrame(t, f) PROVE ScratchTypeOK'
    <2>1. /\ Append(frames[t], f) \in Seq(FrameIds) /\ Len(Append(frames[t], f)) <= SFrameMax
      BY <1>0, <1>3 DEF PushFrame, ScratchTypeOK
    <2>2. frames' = [frames EXCEPT ![t] = Append(@, f)]
      BY <1>3 DEF PushFrame
    <2>3. frames' \in [SThreads -> Seq(FrameIds)] /\ \A u \in SThreads : Len(frames'[u]) <= SFrameMax
      BY <2>1, <2>2 DEF ScratchTypeOK
    <2> QED BY <1>3, <2>3 DEF PushFrame, ScratchTypeOK
  <1>4. ASSUME NEW t \in SThreads, frames[t] # <<>>, frames' = [frames EXCEPT ![t] = Front(@)]
        PROVE  frames' \in [SThreads -> Seq(FrameIds)] /\ \A u \in SThreads : Len(frames'[u]) <= SFrameMax
    <2>1. frames[t] \in Seq(FrameIds) /\ Len(frames[t]) <= SFrameMax
      BY DEF ScratchTypeOK
    <2>2. Front(frames[t]) \in Seq(FrameIds) /\ Len(Front(frames[t])) <= SFrameMax
      BY <1>0, <1>4, <2>1, FrontIs
    <2> QED BY <1>4, <2>2 DEF ScratchTypeOK
  <1>5. ASSUME NEW t \in SThreads, PopFrame(t) PROVE ScratchTypeOK'
    BY <1>4, <1>5 DEF PopFrame, ScratchTypeOK
  <1>6. ASSUME NEW t \in SThreads, NEW g \in guards, DropGuard(g, t) PROVE ScratchTypeOK'
    <2>1. CASE frames[t] = <<>>
      BY <1>6, <2>1 DEF DropGuard, ScratchTypeOK
    <2>2. CASE frames[t] # <<>>
      BY <1>4, <1>6, <2>2 DEF DropGuard, ScratchTypeOK
    <2> QED BY <2>1, <2>2
  <1>a. ASSUME NEW t \in SThreads, frames[t] # <<>>, attachedMem[t] # NoMem
        PROVE  [frame |-> Top(t), mem |-> attachedMem[t]] \in [frame: FrameIds, mem: Allocators]
    <2>1. frames[t] \in Seq(FrameIds) /\ attachedMem[t] \in Allocators
      BY <1>a DEF ScratchTypeOK
    <2>2. Len(frames[t]) \in 1..Len(frames[t])
      BY <1>a, <2>1, FrontIs
    <2>3. Top(t) \in FrameIds
      BY <2>1, <2>2 DEF Top
    <2> QED BY <2>1, <2>3
  <1>b. ASSUME NEW t \in SThreads, drafts[t] > 0, drafts' = [drafts EXCEPT ![t] = @ - 1]
        PROVE  drafts' \in [SThreads -> 0..DraftMax]
    <2>1. DraftMax \in Nat /\ drafts[t] \in 0..DraftMax
      BY ScratchAssumption DEF ScratchTypeOK
    <2>2. drafts[t] - 1 \in 0..DraftMax
      BY <1>b, <2>1
    <2> QED BY <1>b, <2>2 DEF ScratchTypeOK
  <1>7. ASSUME NEW t \in SThreads, ScratchAllocate(t) PROVE ScratchTypeOK'
    BY <1>7, <1>a DEF ScratchAllocate, ScratchTypeOK
  <1>p. ASSUME NEW t \in SThreads, Publish(t) PROVE ScratchTypeOK'
    <2>1. /\ drafts' \in [SThreads -> 0..DraftMax] /\ prepared' = [prepared EXCEPT ![t] = FALSE]
          /\ UNCHANGED <<home, attachedMem, frames, guards, usedIds, intruder, disturbed>>
      BY <1>p, <1>b DEF Publish
    <2>2. chunks' \subseteq [frame: FrameIds, mem: Allocators]
      <3>1. CASE prepared[t]
        <4>1. frames[t] # <<>> /\ attachedMem[t] # NoMem
          BY <3>1 DEF PreparedInFrame, AttachedIsAlive
        <4> QED BY <1>p, <1>a, <3>1, <4>1 DEF Publish, ScratchTypeOK
      <3>2. CASE ~prepared[t]
        BY <1>p, <3>2 DEF Publish, ScratchTypeOK
      <3> QED BY <3>1, <3>2
    <2> QED BY <2>1, <2>2 DEF ScratchTypeOK
  <1>8. ASSUME NEW t \in SThreads, PrepareAlloc(t) PROVE ScratchTypeOK'
    <2>1. DraftMax \in Nat /\ drafts[t] \in 0..DraftMax
      BY ScratchAssumption DEF ScratchTypeOK
    <2>2. drafts[t] + 1 \in 0..DraftMax
      BY <1>8, <2>1 DEF PrepareAlloc
    <2> QED BY <1>8, <2>2 DEF PrepareAlloc, ScratchTypeOK
  <1>c. ASSUME NEW t \in SThreads, Cancel(t) PROVE ScratchTypeOK'
    BY <1>c, <1>b DEF Cancel, ScratchTypeOK
  <1>t. ASSUME NEW c \in chunks, NEW t \in SThreads, Trim(c, t) PROVE ScratchTypeOK'
    BY <1>t DEF Trim, ScratchTypeOK
  <1>9. ASSUME NEW c \in chunks, DropChunk(c) PROVE ScratchTypeOK'
    BY <1>9 DEF DropChunk, ScratchTypeOK
  <1> QED BY <1>1, <1>2, <1>3, <1>5, <1>6, <1>7, <1>p, <1>8, <1>c, <1>9, <1>t DEF ScratchNext

\* Detaching a thread keeps the attachments of the others.
LEMMA AttachedStep ==
  ASSUME ScratchTypeOK, PreparedInFrame, AttachedIsAlive, ScratchNext
  PROVE  PreparedInFrame' /\ AttachedIsAlive'
  <1>0. NoMem \notin SThreads /\ NoMem \notin Allocators
    BY ScratchAssumption
  <1>1. ASSUME NEW t \in SThreads, NEW k \in Allocators, ScratchNew(t, k)
        PROVE  PreparedInFrame' /\ AttachedIsAlive'
    <2>1. CASE attachedMem[t] = NoMem
      <3>1. /\ home' = [home EXCEPT ![k] = t] /\ attachedMem' = [attachedMem EXCEPT ![t] = k]
            /\ UNCHANGED <<frames, prepared>> /\ home[k] = NoMem
        BY <1>1, <2>1 DEF ScratchNew
      <3>2. \A u \in SThreads : attachedMem[u] # k
        BY <1>0, <3>1 DEF AttachedIsAlive, ScratchTypeOK
      <3> QED BY <1>0, <2>1, <3>1, <3>2 DEF PreparedInFrame, AttachedIsAlive, ScratchTypeOK
    <2>2. CASE attachedMem[t] # NoMem
      <3>1. DetachThread(t) /\ UNCHANGED home
        BY <1>1, <2>2 DEF ScratchNew
      <3>2. \A u \in SThreads : u # t => /\ attachedMem'[u] = attachedMem[u] /\ frames'[u] = frames[u]
                                       /\ prepared'[u] = prepared[u]
        BY <3>1 DEF DetachThread, ScratchTypeOK
      <3>3. attachedMem'[t] = NoMem /\ frames'[t] = <<>> /\ ~prepared'[t]
        BY <3>1 DEF DetachThread, ScratchTypeOK
      <3> QED BY <3>1, <3>2, <3>3 DEF PreparedInFrame, AttachedIsAlive
    <2> QED BY <2>1, <2>2
  <1>2. ASSUME NEW k \in Allocators, ScratchDrop(k) PROVE PreparedInFrame' /\ AttachedIsAlive'
    <2>1. home[k] \in SThreads
      BY <1>2 DEF ScratchDrop, ScratchTypeOK
    <2> QED BY <1>0, <1>2, <2>1
        DEF ScratchDrop, DetachThread, PreparedInFrame, AttachedIsAlive, ScratchTypeOK
  <1>3. ASSUME NEW t \in SThreads, NEW f \in FrameIds, PushFrame(t, f)
        PROVE  PreparedInFrame' /\ AttachedIsAlive'
    BY <1>3 DEF PushFrame, PreparedInFrame, AttachedIsAlive, ScratchTypeOK
  <1>4. ASSUME NEW t \in SThreads, frames[t] # <<>>, frames' = [frames EXCEPT ![t] = Front(@)],
               prepared' = [prepared EXCEPT ![t] = FALSE], UNCHANGED <<home, attachedMem>>
        PROVE  PreparedInFrame' /\ AttachedIsAlive'
    BY <1>4 DEF PreparedInFrame, AttachedIsAlive, ScratchTypeOK
  <1>5. ASSUME NEW t \in SThreads, PopFrame(t) PROVE PreparedInFrame' /\ AttachedIsAlive'
    BY <1>4, <1>5 DEF PopFrame
  <1>6. ASSUME NEW t \in SThreads, NEW g \in guards, DropGuard(g, t)
        PROVE  PreparedInFrame' /\ AttachedIsAlive'
    <2>1. CASE frames[t] = <<>>
      BY <1>6, <2>1 DEF DropGuard, PreparedInFrame, AttachedIsAlive
    <2>2. CASE frames[t] # <<>>
      BY <1>4, <1>6, <2>2 DEF DropGuard
    <2> QED BY <2>1, <2>2
  <1>7. ASSUME NEW t \in SThreads, ScratchAllocate(t) \/ Publish(t) \/ Cancel(t)
        PROVE  PreparedInFrame' /\ AttachedIsAlive'
    BY <1>7 DEF ScratchAllocate, Publish, Cancel, PreparedInFrame, AttachedIsAlive, ScratchTypeOK
  <1>8. ASSUME NEW t \in SThreads, PrepareAlloc(t) PROVE PreparedInFrame' /\ AttachedIsAlive'
    BY <1>8 DEF PrepareAlloc, PreparedInFrame, AttachedIsAlive, ScratchTypeOK
  <1>9. ASSUME NEW c \in chunks, DropChunk(c) PROVE PreparedInFrame' /\ AttachedIsAlive'
    BY <1>9 DEF DropChunk, PreparedInFrame, AttachedIsAlive
  <1>t. ASSUME NEW c \in chunks, NEW t \in SThreads, Trim(c, t) PROVE PreparedInFrame' /\ AttachedIsAlive'
    BY <1>t DEF Trim, PreparedInFrame, AttachedIsAlive, ScratchTypeOK
  <1> QED BY <1>1, <1>2, <1>3, <1>5, <1>6, <1>7, <1>8, <1>9, <1>t DEF ScratchNext

\* Only new and drop attach and detach; without an intruder the thread of the
\* allocator has no other.
LEMMA UsableStep ==
  ASSUME ScratchTypeOK, AttachedIsAlive, AllocatorUsable, ScratchNext
  PROVE  AllocatorUsable'
  <1>0. NoMem \notin SThreads /\ NoMem \notin Allocators
    BY ScratchAssumption
  <1>1. ASSUME NEW t \in SThreads, NEW k \in Allocators, ScratchNew(t, k) PROVE AllocatorUsable'
    <2>1. CASE attachedMem[t] = NoMem
      <3>1. /\ home' = [home EXCEPT ![k] = t] /\ attachedMem' = [attachedMem EXCEPT ![t] = k]
            /\ UNCHANGED intruder
        BY <1>1, <2>1 DEF ScratchNew
      <3> SUFFICES ASSUME ~intruder, NEW j \in Allocators, home'[j] # NoMem
                   PROVE  attachedMem'[home'[j]] = j
        BY <3>1 DEF AllocatorUsable, Alive
      <3>2. CASE j = k
        BY <3>1, <3>2 DEF ScratchTypeOK
      <3>3. CASE j # k
        <4>1. home'[j] = home[j] /\ home[j] \in SThreads /\ attachedMem[home[j]] = j
          BY <3>1, <3>3 DEF AllocatorUsable, Alive, ScratchTypeOK
        <4>2. home[j] # t
          BY <1>0, <2>1, <4>1
        <4> QED BY <3>1, <4>1, <4>2 DEF ScratchTypeOK
      <3> QED BY <3>2, <3>3
    <2>2. CASE attachedMem[t] # NoMem
      BY <1>1, <2>2 DEF ScratchNew, AllocatorUsable
    <2> QED BY <2>1, <2>2
  <1>2. ASSUME NEW k \in Allocators, ScratchDrop(k) PROVE AllocatorUsable'
    <2>1. /\ home[k] \in SThreads /\ home' = [home EXCEPT ![k] = NoMem]
          /\ attachedMem' = [attachedMem EXCEPT ![home[k]] = NoMem]
          /\ intruder' = (intruder \/ OnThread(home[k]) # {k})
      BY <1>2 DEF ScratchDrop, DetachThread, ScratchTypeOK
    <2> SUFFICES ASSUME ~intruder', NEW j \in Allocators, home'[j] # NoMem
                 PROVE  attachedMem'[home'[j]] = j
      BY DEF AllocatorUsable, Alive
    <2>2. ~intruder /\ OnThread(home[k]) = {k}
      BY <2>1
    <2>3. j # k /\ home'[j] = home[j] /\ home[j] \in SThreads
      BY <2>1 DEF ScratchTypeOK
    <2>4. attachedMem[home[j]] = j
      BY <2>2, <2>3, <1>0 DEF AllocatorUsable, Alive
    <2>5. home[j] # home[k]
      BY <2>2, <2>3 DEF OnThread
    <2> QED BY <2>1, <2>3, <2>4, <2>5 DEF ScratchTypeOK
  <1>3. ASSUME UNCHANGED <<home, attachedMem, intruder>> PROVE AllocatorUsable'
    BY <1>3 DEF AllocatorUsable, Alive
  <1> QED BY <1>1, <1>2, <1>3
      DEF ScratchNext, PushFrame, PopFrame, DropGuard, ScratchAllocate, DropChunk, PrepareAlloc,
          Publish, Cancel, Trim

\* The frames whose guards are held for thread t.
GuardedOn(t) == {g.frame : g \in {x \in guards : x.thread = t}}

\* A pop leaves the frames of the thread distinct and takes the top one only.
LEMMA PopOnce ==
  ASSUME ScratchTypeOK, FramesOnce, NEW t \in SThreads, frames[t] # <<>>,
         frames' = [frames EXCEPT ![t] = Front(@)]
  PROVE  /\ \A u \in SThreads : u # t => frames'[u] = frames[u]
         /\ Len(frames[t]) \in Nat \ {0} /\ Len(frames'[t]) = Len(frames[t]) - 1
         /\ \A i \in 1..(Len(frames[t]) - 1) : frames'[t][i] = frames[t][i]
         /\ ToSet(frames'[t]) = ToSet(frames[t]) \ {Top(t)}
         /\ \A u \in SThreads : \A i \in 1..Len(frames'[u]) : frames'[u][i] \in usedIds
         /\ \A u \in SThreads : \A i, j \in 1..Len(frames'[u]) : frames'[u][i] = frames'[u][j] => i = j
  <1>1. PICK s \in Seq(FrameIds) : s = frames[t]
    BY DEF ScratchTypeOK
  <1>2. /\ Front(s) \in Seq(FrameIds) /\ Len(s) \in Nat \ {0} /\ Len(Front(s)) = Len(s) - 1
        /\ \A i \in 1..(Len(s) - 1) : Front(s)[i] = s[i]
    BY <1>1, FrontIs
  <1>3. frames'[t] = Front(s) /\ \A u \in SThreads : u # t => frames'[u] = frames[u]
    BY <1>1 DEF ScratchTypeOK
  <1>4. \A i, j \in 1..Len(s) : s[i] = s[j] => i = j
    BY <1>1 DEF FramesOnce
  <1>5. ToSet(Front(s)) = {s[i] : i \in 1..(Len(s) - 1)}
    <2>1. ToSet(Front(s)) = {Front(s)[i] : i \in 1..(Len(s) - 1)}
      BY <1>2 DEF ToSet
    <2> QED BY <1>2, <2>1
  <1>6. ToSet(s) = {s[i] : i \in 1..Len(s)}
    BY DEF ToSet
  <1>7. {s[i] : i \in 1..(Len(s) - 1)} = {s[i] : i \in 1..Len(s)} \ {s[Len(s)]}
    <2>1. \A i \in 1..Len(s) : i \in 1..(Len(s) - 1) <=> i # Len(s)
      BY <1>2
    <2>2. Len(s) \in 1..Len(s) /\ 1..(Len(s) - 1) \subseteq 1..Len(s)
      BY <1>2
    <2>3. \A i \in 1..Len(s) : s[i] = s[Len(s)] => i = Len(s)
      BY <1>4, <2>2
    <2> QED BY <2>1, <2>2, <2>3
  <1>8. ToSet(frames'[t]) = ToSet(frames[t]) \ {Top(t)}
    BY <1>1, <1>3, <1>5, <1>6, <1>7 DEF Top
  <1>9. \A i \in 1..(Len(s) - 1) : i \in 1..Len(s)
    BY <1>2
  <1>10. \A i \in 1..Len(s) : s[i] \in usedIds
    BY <1>1 DEF FramesOnce
  <1>11. ASSUME NEW u \in SThreads, NEW i \in 1..Len(frames'[u]) PROVE frames'[u][i] \in usedIds
    <2>1. CASE u = t
      BY <1>2, <1>3, <1>9, <1>10, <2>1
    <2>2. CASE u # t
      BY <1>3, <2>2 DEF FramesOnce
    <2> QED BY <2>1, <2>2
  <1>12. ASSUME NEW u \in SThreads, NEW i \in 1..Len(frames'[u]), NEW j \in 1..Len(frames'[u]),
                frames'[u][i] = frames'[u][j]
         PROVE  i = j
    <2>1. CASE u = t
      <3>1. i \in 1..(Len(s) - 1) /\ j \in 1..(Len(s) - 1) /\ Front(s)[i] = Front(s)[j]
        BY <1>2, <1>3, <1>12, <2>1
      <3>2. i \in 1..Len(s) /\ j \in 1..Len(s) /\ s[i] = s[j]
        BY <1>2, <1>9, <3>1
      <3> QED BY <1>4, <3>2
    <2>2. CASE u # t
      BY <1>3, <1>12, <2>2 DEF FramesOnce
    <2> QED BY <2>1, <2>2
  <1> QED BY <1>1, <1>2, <1>3, <1>8, <1>11, <1>12

\* Each frame keeps its one guard, and each guard its frame, as long as guards
\* are dropped innermost first on their own thread.
LEMMA FramesStep ==
  ASSUME ScratchTypeOK, FramesOnce, GuardsMatchFrames, ScratchNext
  PROVE  FramesOnce' /\ GuardsMatchFrames'
  <1>1. ASSUME NEW t \in SThreads, DetachThread(t), disturbed', UNCHANGED <<guards, usedIds>>
        PROVE  FramesOnce' /\ GuardsMatchFrames'
    <2>1. \A u \in SThreads : frames'[u] = <<>> \/ frames'[u] = frames[u]
      BY <1>1 DEF DetachThread, ScratchTypeOK
    <2> QED BY <1>1, <2>1 DEF FramesOnce, GuardsMatchFrames
  <1>2. ASSUME UNCHANGED <<frames, guards, usedIds, disturbed>> PROVE FramesOnce' /\ GuardsMatchFrames'
    BY <1>2 DEF FramesOnce, GuardsMatchFrames
  <1>3. ASSUME NEW t \in SThreads, NEW k \in Allocators, ScratchNew(t, k)
        PROVE  FramesOnce' /\ GuardsMatchFrames'
    BY <1>1, <1>2, <1>3 DEF ScratchNew
  <1>4. ASSUME NEW k \in Allocators, ScratchDrop(k) PROVE FramesOnce' /\ GuardsMatchFrames'
    <2>1. /\ home[k] \in SThreads /\ DetachThread(home[k]) /\ UNCHANGED <<guards, usedIds>>
          /\ disturbed' = (disturbed \/ frames[home[k]] # <<>>)
      BY <1>4 DEF ScratchDrop, ScratchTypeOK
    <2>2. CASE disturbed'
      BY <1>1, <2>1, <2>2
    <2>3. CASE ~disturbed'
      <3>1. ~disturbed /\ frames[home[k]] = <<>> /\ disturbed' = disturbed
        BY <2>1, <2>3 DEF ScratchTypeOK
      <3>2. frames' = frames
        BY <2>1, <3>1 DEF DetachThread, ScratchTypeOK
      <3> QED BY <1>2, <2>1, <3>1, <3>2
    <2> QED BY <2>2, <2>3
  <1>5. ASSUME NEW t \in SThreads, NEW f \in FrameIds, PushFrame(t, f)
        PROVE  FramesOnce' /\ GuardsMatchFrames'
    <2> DEFINE g == [frame |-> f, thread |-> t]
    <2>1. PICK s \in Seq(FrameIds) : s = frames[t]
      BY DEF ScratchTypeOK
    <2>2. /\ f \notin usedIds /\ usedIds' = usedIds \cup {f} /\ guards' = guards \cup {g}
          /\ frames'[t] = Append(s, f) /\ \A u \in SThreads : u # t => frames'[u] = frames[u]
          /\ disturbed' = disturbed
      BY <1>5, <2>1 DEF PushFrame, ScratchTypeOK
    <2>3. /\ Len(s) \in Nat /\ Len(Append(s, f)) = Len(s) + 1 /\ Append(s, f)[Len(s) + 1] = f
          /\ \A i \in 1..Len(s) : Append(s, f)[i] = s[i]
      BY AppendProperties
    <2>4. \A i \in 1..(Len(s) + 1) : i \in 1..Len(s) \/ i = Len(s) + 1
      BY <2>3
    <2>5. /\ \A i \in 1..Len(s) : s[i] \in usedIds
          /\ \A i, j \in 1..Len(s) : s[i] = s[j] => i = j
      BY <2>1 DEF FramesOnce
    <2>6. \A i \in 1..(Len(s) + 1) : Append(s, f)[i] \in usedIds \cup {f}
      BY <2>3, <2>4, <2>5
    <2>7. \A i, j \in 1..(Len(s) + 1) : Append(s, f)[i] = Append(s, f)[j] => i = j
      BY <2>2, <2>3, <2>4, <2>5
    <2>8. \A u \in SThreads : \A i \in 1..Len(frames'[u]) : frames'[u][i] \in usedIds'
      BY <2>2, <2>3, <2>6 DEF FramesOnce
    <2>9. ASSUME NEW u \in SThreads
          PROVE  \A i, j \in 1..Len(frames'[u]) : frames'[u][i] = frames'[u][j] => i = j
      <3>1. CASE u = t
        BY <2>2, <2>3, <2>7, <3>1
      <3>2. CASE u # t
        BY <2>2, <3>2 DEF FramesOnce
      <3> QED BY <3>1, <3>2
    <2>10. g.frame = f /\ g.thread = t
      OBVIOUS
    <2> HIDE DEF g
    <2>11. /\ \A x \in guards' : x.frame \in usedIds'
           /\ \A x, y \in guards' : x.frame = y.frame => x = y
      BY <2>2, <2>10 DEF FramesOnce
    <2>12. FramesOnce'
      BY <2>8, <2>9, <2>11 DEF FramesOnce
    <2>13. ASSUME ~disturbed, NEW u \in SThreads PROVE ToSet(frames'[u]) = GuardedOn(u)'
      <3>1. ToSet(frames[u]) = GuardedOn(u)
        BY <2>13 DEF GuardsMatchFrames, GuardedOn
      <3>2. CASE u # t
        <4>1. GuardedOn(u)' = GuardedOn(u)
          BY <2>2, <2>10, <3>2 DEF GuardedOn
        <4> QED BY <2>2, <3>1, <3>2, <4>1
      <3>3. CASE u = t
        <4>1. GuardedOn(t)' = GuardedOn(t) \cup {f}
          BY <2>2, <2>10 DEF GuardedOn
        <4>2. ToSet(Append(s, f)) = {Append(s, f)[i] : i \in 1..(Len(s) + 1)}
          BY <2>3 DEF ToSet
        <4>3. ToSet(s) = {s[i] : i \in 1..Len(s)}
          BY DEF ToSet
        <4>4. Len(s) + 1 \in 1..(Len(s) + 1) /\ 1..Len(s) \subseteq 1..(Len(s) + 1)
          BY <2>3
        <4>5. ToSet(Append(s, f)) = ToSet(s) \cup {f}
          BY <2>3, <2>4, <4>2, <4>3, <4>4
        <4> QED BY <2>1, <2>2, <3>1, <3>3, <4>1, <4>5
      <3> QED BY <3>2, <3>3
    <2> QED BY <2>2, <2>12, <2>13 DEF GuardsMatchFrames, GuardedOn
  <1>6. ASSUME NEW t \in SThreads, PopFrame(t) PROVE FramesOnce' /\ GuardsMatchFrames'
    <2>1. /\ frames[t] # <<>> /\ frames' = [frames EXCEPT ![t] = Front(@)]
          /\ disturbed' = TRUE /\ UNCHANGED <<guards, usedIds>>
      BY <1>6 DEF PopFrame
    <2>2. /\ \A u \in SThreads : \A i \in 1..Len(frames'[u]) : frames'[u][i] \in usedIds
          /\ \A u \in SThreads : \A i, j \in 1..Len(frames'[u]) : frames'[u][i] = frames'[u][j] => i = j
      BY <2>1, PopOnce
    <2>3. FramesOnce'
      BY <2>1, <2>2 DEF FramesOnce
    <2> QED BY <2>1, <2>3 DEF GuardsMatchFrames
  <1>7. ASSUME NEW t \in SThreads, NEW g \in guards, DropGuard(g, t)
        PROVE  FramesOnce' /\ GuardsMatchFrames'
    <2>1. guards' = guards \ {g} /\ usedIds' = usedIds
      BY <1>7 DEF DropGuard
    <2>2. CASE frames[t] = <<>>
      <3>1. frames' = frames /\ disturbed' = (disturbed \/ t # g.thread)
        BY <1>7, <2>2 DEF DropGuard
      <3>2. FramesOnce'
        BY <2>1, <3>1 DEF FramesOnce
      <3>3. ASSUME ~disturbed' PROVE FALSE
        <4>1. ~disturbed /\ t = g.thread
          BY <3>1, <3>3 DEF ScratchTypeOK
        <4>2. ToSet(frames[t]) = GuardedOn(t)
          BY <4>1 DEF GuardsMatchFrames, GuardedOn
        <4>3. g.frame \in GuardedOn(t)
          BY <4>1 DEF GuardedOn
        <4> QED BY <2>2, <4>2, <4>3 DEF ToSet
      <3> QED BY <3>2, <3>3 DEF GuardsMatchFrames
    <2>3. CASE frames[t] # <<>>
      <3>1. /\ frames' = [frames EXCEPT ![t] = Front(@)]
            /\ disturbed' = (disturbed \/ t # g.thread \/ Top(t) # g.frame)
        BY <1>7, <2>3 DEF DropGuard
      <3>2. /\ \A u \in SThreads : u # t => frames'[u] = frames[u]
            /\ ToSet(frames'[t]) = ToSet(frames[t]) \ {Top(t)}
            /\ \A u \in SThreads : \A i \in 1..Len(frames'[u]) : frames'[u][i] \in usedIds
            /\ \A u \in SThreads : \A i, j \in 1..Len(frames'[u]) : frames'[u][i] = frames'[u][j] => i = j
        BY <2>3, <3>1, PopOnce
      <3>3. FramesOnce'
        BY <2>1, <3>2 DEF FramesOnce
      <3>4. ASSUME ~disturbed', NEW u \in SThreads PROVE ToSet(frames'[u]) = GuardedOn(u)'
        <4>1. ~disturbed /\ t = g.thread /\ Top(t) = g.frame
          BY <3>1, <3>4 DEF ScratchTypeOK
        <4>2. ToSet(frames[u]) = GuardedOn(u)
          BY <4>1 DEF GuardsMatchFrames, GuardedOn
        <4>3. CASE u # t
          <5>1. GuardedOn(u)' = GuardedOn(u)
            BY <2>1, <4>1, <4>3 DEF GuardedOn
          <5> QED BY <3>2, <4>2, <4>3, <5>1
        <4>4. CASE u = t
          <5>1. \A x \in guards : x.frame = g.frame => x = g
            BY DEF FramesOnce
          <5>2. GuardedOn(t)' = GuardedOn(t) \ {g.frame}
            BY <2>1, <5>1 DEF GuardedOn
          <5> QED BY <3>2, <4>1, <4>2, <4>4, <5>2
        <4> QED BY <4>3, <4>4
      <3> QED BY <3>3, <3>4 DEF GuardsMatchFrames, GuardedOn
    <2> QED BY <2>2, <2>3
  <1>8. ASSUME NEW t \in SThreads, ScratchAllocate(t) \/ PrepareAlloc(t) \/ Publish(t) \/ Cancel(t)
        PROVE  FramesOnce' /\ GuardsMatchFrames'
    BY <1>2, <1>8 DEF ScratchAllocate, PrepareAlloc, Publish, Cancel
  <1>9. ASSUME NEW c \in chunks, DropChunk(c) PROVE FramesOnce' /\ GuardsMatchFrames'
    BY <1>2, <1>9 DEF DropChunk
  <1>t. ASSUME NEW c \in chunks, NEW t \in SThreads, Trim(c, t) PROVE FramesOnce' /\ GuardsMatchFrames'
    BY <1>2, <1>t DEF Trim
  <1> QED BY <1>3, <1>4, <1>5, <1>6, <1>7, <1>8, <1>9, <1>t DEF ScratchNext

\* The invariant of the scratch allocator, step by step.
THEOREM ScratchInvariant == ScratchSpec => []ScratchInv
  <1>1. ScratchInit => ScratchInv
    BY ScratchInitInv
  <1>2. ScratchInv /\ [ScratchNext]_scratchVars => ScratchInv'
    <2>1. ASSUME ScratchInv, ScratchNext PROVE ScratchInv'
      BY <2>1, ScratchTypes, AttachedStep, UsableStep, FramesStep DEF ScratchInv
    <2>2. ASSUME ScratchInv, UNCHANGED scratchVars PROVE ScratchInv'
      BY <2>2 DEF scratchVars, ScratchInv, ScratchTypeOK, PreparedInFrame, AttachedIsAlive,
                  AllocatorUsable, Alive, FramesOnce, GuardsMatchFrames
    <2> QED BY <2>1, <2>2
  <1> QED BY <1>1, <1>2, PTL DEF ScratchSpec

\* ScratchSound: the memory attached to a thread is allocated and its own, an
\* allocator works until it is dropped unless a second one is made or dropped
\* on its thread, and the open frames are those whose ScratchFrame is held.
THEOREM ScratchAlwaysSound == ScratchSpec => []ScratchSound
  <1>1. ScratchInv => ScratchSound
    BY DEF ScratchInv, ScratchSound
  <1> QED BY <1>1, ScratchInvariant, PTL

-----------------------------------------------------------------------------
(***************************************************************************)
(* Virtual allocators.  MemoryReturnsHome is inductive with the types.     *)
(***************************************************************************)

VaInv == VaTypeOK /\ MemoryReturnsHome

LEMMA VaStep == VaInv /\ VaNext => VaInv'
  <1> SUFFICES ASSUME VaInv, NEW v \in Vallocs,
                      \/ NewLibc(v) \/ NewNull(v) \/ (\E e \in BOOLEAN : NewBacktracing(v, e))
                      \/ DropAllocator(v)
                      \/ (\E s \in Sizes, p \in BOOLEAN, b \in VBlocks : VAllocate(v, s, p, b))
                      \/ (\E m \in memory : m.from = v /\ DropMemory(m))
               PROVE  VaInv'
    BY DEF VaNext
  <1>1. ASSUME NEW k \in {"libc", "null", "backtracing"}, NEW e \in BOOLEAN,
               kind[v] \in {"none", "dropped"}, kind' = [kind EXCEPT ![v] = k],
               inner' = [inner EXCEPT ![v] = e], vret' = "ok", UNCHANGED <<taken, memory>>
        PROVE  VaInv'
    <2>1. \A m \in memory : m.from # v
      BY <1>1 DEF VaInv, MemoryReturnsHome
    <2>2. VaTypeOK'
      BY <1>1 DEF VaInv, VaTypeOK
    <2>3. MemoryReturnsHome'
      BY <1>1, <2>1 DEF VaInv, VaTypeOK, MemoryReturnsHome
    <2> QED BY <2>2, <2>3 DEF VaInv
  <1>2. CASE NewLibc(v)
    BY <1>1, <1>2 DEF NewLibc
  <1>3. CASE NewNull(v)
    BY <1>1, <1>3 DEF NewNull
  <1>4. CASE \E e \in BOOLEAN : NewBacktracing(v, e)
    BY <1>1, <1>4 DEF NewBacktracing
  <1>5. CASE DropAllocator(v)
    <2>1. VaTypeOK'
      BY <1>5 DEF DropAllocator, VaInv, VaTypeOK
    <2>2. MemoryReturnsHome'
      BY <1>5 DEF DropAllocator, VaInv, VaTypeOK, MemoryReturnsHome
    <2> QED BY <2>1, <2>2 DEF VaInv
  <1>6. ASSUME NEW s \in Sizes, NEW p \in BOOLEAN, NEW b \in VBlocks, VAllocate(v, s, p, b)
        PROVE  VaInv'
    <2>1. Refusal(v, s, p) \in VallocErrors \cup {"none"}
      BY DEF Refusal, VallocErrors
    <2>2. CASE vret' \in VallocErrors \cup {"crash"} /\ UNCHANGED <<taken, memory, kind, inner>>
      BY <2>2 DEF VaInv, VaTypeOK, MemoryReturnsHome
    <2>3. CASE /\ Refusal(v, s, p) = "none" /\ taken[b] = NoValloc
               /\ taken' = [taken EXCEPT ![b] = v]
               /\ memory' = memory \cup {[block |-> b, from |-> v, size |-> s]}
               /\ vret' = "ok" /\ UNCHANGED <<kind, inner>>
      <3> DEFINE n == [block |-> b, from |-> v, size |-> s]
      <3>1. kind[v] # "null" /\ s # 0
        BY <2>3 DEF Refusal
      <3>2. n \in [block : VBlocks, from : Vallocs, size : Sizes \ {0}] /\ n.block = b /\ n.from = v
        BY <3>1
      <3>3. memory' = memory \cup {n}
        BY <2>3
      <3> HIDE DEF n
      <3>4. VaTypeOK'
        BY <2>3, <3>2, <3>3 DEF VaInv, VaTypeOK
      <3>5. \A m \in memory : m.block # b /\ m.block \in VBlocks
        BY <2>3, VallocAssumption DEF VaInv, VaTypeOK, MemoryReturnsHome
      <3>6. \A c \in VBlocks : taken'[c] = IF c = b THEN v ELSE taken[c]
        BY <2>3 DEF VaInv, VaTypeOK
      <3>7. kind[v] \in {"libc", "backtracing"}
        BY <1>6, <3>1 DEF VAllocate
      <3>8. \A m \in memory' : taken'[m.block] = m.from /\ kind'[m.from] \in {"libc", "backtracing"}
        BY <2>3, <3>2, <3>3, <3>5, <3>6, <3>7 DEF VaInv, MemoryReturnsHome
      <3>9. \A m, o \in memory' : m.block = o.block => m = o
        BY <3>2, <3>3, <3>5 DEF VaInv, MemoryReturnsHome
      <3>10. \A c \in VBlocks : taken'[c] # NoValloc => \E m \in memory' : m.block = c
        BY <3>2, <3>3, <3>6 DEF VaInv, MemoryReturnsHome
      <3> QED BY <3>4, <3>8, <3>9, <3>10 DEF VaInv, MemoryReturnsHome
    <2> QED BY <1>6, <2>1, <2>2, <2>3 DEF VAllocate, VallocErrors
  <1>7. ASSUME NEW m \in memory, DropMemory(m) PROVE VaInv'
    <2>1. /\ memory' = memory \ {m} /\ taken' = [taken EXCEPT ![m.block] = NoValloc]
          /\ UNCHANGED <<kind, inner, vret>> /\ m.block \in VBlocks
      BY <1>7 DEF DropMemory, VaInv, VaTypeOK
    <2>2. VaTypeOK'
      BY <2>1 DEF VaInv, VaTypeOK
    <2>3. \A c \in VBlocks : taken'[c] = IF c = m.block THEN NoValloc ELSE taken[c]
      BY <2>1 DEF VaInv, VaTypeOK
    <2>4. \A o \in memory' : o \in memory /\ o.block # m.block /\ o.block \in VBlocks
      BY <2>1 DEF VaInv, VaTypeOK, MemoryReturnsHome
    <2>5. \A c \in VBlocks : taken'[c] # NoValloc => \E o \in memory' : o.block = c
      BY <2>1, <2>3 DEF VaInv, MemoryReturnsHome
    <2> QED BY <2>1, <2>2, <2>3, <2>4, <2>5 DEF VaInv, MemoryReturnsHome
  <1> QED BY <1>2, <1>3, <1>4, <1>5, <1>6, <1>7

\* MemoryReturnsHome: AllocatedMemory goes back to the allocator it borrows,
\* whatever allocators are made and dropped in between.
THEOREM MemoryAlwaysReturns == VaSpec => [](VaTypeOK /\ MemoryReturnsHome)
  <1>1. VaInit => VaInv
    BY DEF VaInit, VaInv, VaTypeOK, MemoryReturnsHome
  <1>2. VaInv /\ UNCHANGED vaVars => VaInv'
    BY DEF vaVars, VaInv, VaTypeOK, MemoryReturnsHome
  <1> QED BY <1>1, <1>2, VaStep, PTL DEF VaSpec, VaInv

-----------------------------------------------------------------------------
(***************************************************************************)
(* The virtual machine.                                                    *)
(***************************************************************************)

VmInv == VmTypeOK /\ vmLimits \in [heap: Nat, cu: Nat] /\ MachineWithinLimits

LEMMA VmStep == VmInv /\ VmNext => VmInv'
  <1> SUFFICES ASSUME VmInv, VmNext PROVE VmInv'
    OBVIOUS
  <1> USE SvmAssumption DEF VmInv, VmTypeOK, MachineWithinLimits
  <1>1. CASE NewVm
    BY <1>1 DEF NewVm
  <1>2. CASE SetupForExecution
    BY <1>2 DEF SetupForExecution
  <1>3. CASE Validate
    BY <1>3 DEF Validate, Stale
  <1>4. CASE Execute
    <2>1. PICK cu \in 0..vmLimits.cu : vmLimits' = [vmLimits EXCEPT !.cu = cu]
      BY <1>4 DEF Execute
    <2>2. vmLimits' \in [heap: Nat, cu: Nat] /\ vmLimits'.heap = vmLimits.heap /\ vmLimits'.cu <= vmLimits.cu
      BY <2>1
    <2>3. /\ followed' = followed \cup Stale
          /\ UNCHANGED <<vm, vmProg, vmRegions, vmVersion, owned>>
      BY <1>4 DEF Execute
    <2>4. VmTypeOK'
      BY <2>3 DEF Stale
    <2>5. vm' \in {"inited", "ready"} =>
            vmLimits'.heap <= HeapLimit /\ vmLimits'.cu <= CuLimit /\ vmProg' \in Programs
      BY <2>2, <2>3
    <2>6. "program" \in followed' => owned' # Programs
      BY <2>3 DEF Stale
    <2> QED BY <2>2, <2>4, <2>5, <2>6
  <1>5. CASE DropVm
    BY <1>5 DEF DropVm
  <1>6. ASSUME NEW p \in Programs, FreeProgram(p) PROVE VmInv'
    BY <1>6 DEF FreeProgram
  <1>7. ASSUME NEW p \in Programs, NEW heap \in Nat, NEW cu \in Nat, NEW version \in 0..2,
               NEW regions \in BOOLEAN, InitWithConfig(p, heap, cu, version, regions)
        PROVE  VmInv'
    <2>1. CASE UNCHANGED <<vm, vmProg, vmRegions, vmLimits, vmVersion, owned, followed>>
      BY <2>1
    <2>2. CASE /\ heap <= HeapLimit /\ cu <= CuLimit /\ vm' = "inited" /\ vmProg' = p
               /\ vmLimits' = [heap |-> heap, cu |-> cu]
               /\ vmRegions' = (IF regions THEN "gone" ELSE "null")
               /\ vmVersion' = version /\ UNCHANGED <<owned, followed>>
      BY <2>2
    <2> QED BY <1>7, <2>1, <2>2 DEF InitWithConfig
  <1>8. ASSUME NEW p \in Programs, NEW heap \in {0, HeapLimit, HeapLimit + 1},
               NEW cu \in {0, CuLimit, CuLimit + 1}, NEW version \in 0..3,
               InitVm(p, heap, cu, version) \/ InitWithConfig(p, heap, cu, version % 3, TRUE)
        PROVE  VmInv'
    <2>1. heap \in Nat /\ cu \in Nat /\ version % 3 \in 0..2
      OBVIOUS
    <2>2. CASE InitWithConfig(p, heap, cu, version % 3, TRUE)
      BY <1>7, <2>1, <2>2
    <2>3. CASE InitVm(p, heap, cu, version)
      <3>1. CASE version > 2
        BY <2>3, <3>1 DEF InitVm
      <3>2. CASE ~(version > 2)
        <4>1. InitWithConfig(p, heap, cu, version, FALSE)
          BY ONLY <2>3, <3>2, Zenon DEF InitVm
        <4>2. version \in 0..2
          BY <3>2
        <4> QED BY <1>7, <2>1, <4>1, <4>2
      <3> QED BY <3>1, <3>2
    <2> QED BY <1>8, <2>2, <2>3
  <1> HIDE DEF VmInv, VmTypeOK, MachineWithinLimits
  <1> QED BY <1>1, <1>2, <1>3, <1>4, <1>5, <1>6, <1>8 DEF VmNext

\* MachineWithinLimits: no order of calls, refused ones included, takes an
\* initialised machine beyond its limits.
THEOREM MachineStaysWithin == VmSpec => [](VmTypeOK /\ MachineWithinLimits)
  <1>1. VmInit => VmInv
    BY DEF VmInit, VmInv, VmTypeOK, MachineWithinLimits
  <1>2. VmInv /\ UNCHANGED vmVars => VmInv'
    BY DEF vmVars, VmInv, VmTypeOK, MachineWithinLimits
  <1>3. VmInv => VmTypeOK /\ MachineWithinLimits
    BY DEF VmInv
  <1> QED BY <1>1, <1>2, <1>3, VmStep, PTL DEF VmSpec

-----------------------------------------------------------------------------
(***************************************************************************)
(* The program loader.  What align_offset returns is aligned and less than *)
(* the alignment away: the slack that load adds to a Vec is enough,        *)
(* wherever the Vec starts.                                                *)
(***************************************************************************)

LEMMA AlignUpIs ==
  ASSUME NEW a \in Nat
  PROVE  AlignUp(a) \in Nat /\ AlignUp(a) % ProgAlign = 0 /\ a <= AlignUp(a) /\ AlignUp(a) < a + ProgAlign
  <1>1. PICK P \in Nat \ {0} : P = ProgAlign
    BY SbpfAssumption
  <1> DEFINE q == (a + P - 1) \div P
  <1>2. q \in Nat /\ q * P <= a + P - 1 /\ a + P - 1 < q * P + P
    OBVIOUS
  <1> HIDE DEF q
  <1>3. (q * P) % P = 0 /\ q * P \in Nat
    BY <1>2
  <1>4. AlignUp(a) = q * P
    BY <1>1 DEF AlignUp, q
  <1> QED BY <1>1, <1>2, <1>3, <1>4

\* An instruction and its raw word (SbpfIxn::from, to_raw).
LEMMA IxnConverts ==
  ASSUME NEW raw \in Nat
  PROVE  ToRaw(FromRaw(raw)) = raw
  BY DEF ToRaw, FromRaw

SbInv ==
  /\ SbTypeOK /\ ProgramHoused
  /\ elf \in [prog: Nat, rodata: Nat]
  /\ program \in [live: BOOLEAN, at: Nat, rodata: Nat]

LEMMA NothingHoused ==
  /\ NoProgram \in [live: BOOLEAN, at: Nat, rodata: Nat] /\ NoProgram.live = FALSE
  /\ NoElf \in [prog: Nat, rodata: Nat]
  BY DEF NoProgram, NoElf

LEMMA SbStep == SbInv /\ SbNext => SbInv'
  <1> SUFFICES ASSUME SbInv, SbNext PROVE SbInv'
    OBVIOUS
  <1>1. ASSUME NEW p \in 0..FootMax, NEW r \in 0..FootMax,
               NEW code \in {"ok", "parser", "version", "other"},
               ParseElf([prog |-> p, rodata |-> r], code)
        PROVE  SbInv'
    <2> DEFINE info == [prog |-> p, rodata |-> r]
    <2>1. p \in Nat /\ r \in Nat
      BY SbpfAssumption
    <2>2. info \in [prog: Nat, rodata: Nat]
      BY <2>1
    <2> HIDE DEF info
    <2>3. /\ loadState = "idle" /\ UNCHANGED <<buffers, program, ixn>>
          /\ elf' \in {elf, info}
          /\ loadState' \in {"ElfParserError", "UnsupportedSbpfVersion", "InvalidElf", "InvalidBuffer", "parsed"}
      BY <1>1 DEF ParseElf, ElfError, info
    <2>4. ~program.live /\ program'.live = program.live
      BY <2>3 DEF SbInv, ProgramHoused
    <2>5. elf' \in [prog: Nat, rodata: Nat] /\ SbTypeOK'
      BY <2>2, <2>3 DEF SbInv, SbTypeOK
    <2>6. ProgramHoused'
      BY <2>3, <2>4 DEF SbInv, ProgramHoused
    <2> QED BY <2>3, <2>5, <2>6 DEF SbInv
  <1>2. ASSUME NEW p \in 1..AddrMax, NEW r \in 1..AddrMax, NEW made \in BOOLEAN, Place(p, r, made)
        PROVE  SbInv'
    <2>1. CASE ~made
      <3>1. /\ loadState = "parsed" /\ loadState' = "NullPointer" /\ UNCHANGED <<buffers, program, elf, ixn>>
        BY <1>2, <2>1 DEF Place
      <3>2. ~program.live
        BY <3>1 DEF SbInv, ProgramHoused
      <3> QED BY <3>1, <3>2 DEF SbInv, SbTypeOK, ProgramHoused
    <2>2. CASE made
      <3>1. /\ loadState' = "placed" /\ UNCHANGED <<elf, ixn>>
            /\ buffers' = [progAt |-> p, progLen |-> elf.prog + ProgAlign,
                           rodataAt |-> IF elf.rodata = 0 THEN 0 ELSE r,
                           rodataLen |-> IF elf.rodata = 0 THEN 0 ELSE elf.rodata + ProgAlign]
            /\ program' = [live |-> TRUE, at |-> AlignUp(p),
                           rodata |-> IF elf.rodata = 0 THEN 0 ELSE AlignUp(r)]
        BY <1>2, <2>2 DEF Place
      <3>2. p \in Nat /\ r \in Nat /\ ProgAlign \in Nat \ {0} /\ elf.prog \in Nat /\ elf.rodata \in Nat
        BY SbpfAssumption DEF SbInv
      <3>3. /\ AlignUp(p) \in Nat /\ AlignUp(p) % ProgAlign = 0 /\ p <= AlignUp(p) /\ AlignUp(p) < p + ProgAlign
            /\ AlignUp(r) \in Nat /\ AlignUp(r) % ProgAlign = 0 /\ r <= AlignUp(r) /\ AlignUp(r) < r + ProgAlign
        BY <3>2, AlignUpIs
      <3>4. /\ program'.live = TRUE /\ program'.at = AlignUp(p)
            /\ program'.rodata = (IF elf.rodata = 0 THEN 0 ELSE AlignUp(r))
            /\ buffers'.progAt = p /\ buffers'.progLen = elf.prog + ProgAlign
            /\ buffers'.rodataAt = (IF elf.rodata = 0 THEN 0 ELSE r)
            /\ buffers'.rodataLen = (IF elf.rodata = 0 THEN 0 ELSE elf.rodata + ProgAlign)
        BY <3>1
      <3>5. program' \in [live: BOOLEAN, at: Nat, rodata: Nat]
        BY <3>1, <3>3
      <3>6. 0 % ProgAlign = 0
        BY <3>2
      <3>7. program'.at % ProgAlign = 0 /\ program'.rodata % ProgAlign = 0
        BY <3>3, <3>4, <3>6
      <3>8. /\ buffers'.progAt <= program'.at
            /\ program'.at + elf'.prog <= buffers'.progAt + buffers'.progLen
        BY <3>1, <3>2, <3>3, <3>4
      <3>9. elf'.rodata > 0 =>
              /\ buffers'.rodataAt <= program'.rodata
              /\ program'.rodata + elf'.rodata <= buffers'.rodataAt + buffers'.rodataLen
        BY <3>1, <3>2, <3>3, <3>4
      <3>10. program'.live = (loadState' \in {"placed", "loaded"})
        BY <3>1, <3>4
      <3>11. ixn'.back = ixn'.raw
        BY <3>1 DEF SbInv, ProgramHoused
      <3>12. ProgramHoused'
        BY <3>7, <3>8, <3>9, <3>10, <3>11 DEF ProgramHoused
      <3> QED BY <3>1, <3>5, <3>12 DEF SbInv, SbTypeOK
    <2> QED BY <2>1, <2>2
  <1>3. ASSUME program' = NoProgram, loadState' \in {"idle", "LoadFailed"}, elf' \in {elf, NoElf}, UNCHANGED ixn
        PROVE  SbInv'
    BY <1>3, NothingHoused DEF SbInv, SbTypeOK, ProgramHoused
  <1>4. ASSUME NEW ok \in BOOLEAN, Load(ok) PROVE SbInv'
    <2>1. CASE ok
      BY <1>4, <2>1 DEF Load, SbInv, SbTypeOK, ProgramHoused
    <2>2. CASE ~ok
      BY <1>3, <1>4, <2>2 DEF Load
    <2> QED BY <2>1, <2>2
  <1>5. CASE DropProgram
    BY <1>3, <1>5 DEF DropProgram
  <1>6. ASSUME NEW raw \in 0..RawMax, Instruction(raw) PROVE SbInv'
    <2>1. raw \in Nat
      BY SbpfAssumption
    <2>2. ixn'.back = ixn'.raw
      BY <1>6, <2>1, IxnConverts DEF Instruction
    <2> QED BY <1>6, <2>2 DEF Instruction, SbInv, SbTypeOK, ProgramHoused
  <1> QED BY <1>1, <1>2, <1>4, <1>5, <1>6 DEF SbNext

\* ProgramHoused: the C program and its read-only data are inside the Vecs of
\* load wherever these start and whatever the alignment, and exist exactly
\* while an SbpfProgram owns them.
THEOREM ProgramAlwaysHoused == SbSpec => [](SbTypeOK /\ ProgramHoused)
  <1>1. SbInit => SbInv
    BY NothingHoused DEF SbInit, SbInv, SbTypeOK, ProgramHoused, NoIxn
  <1>2. SbInv /\ UNCHANGED sbVars => SbInv'
    BY DEF sbVars, SbInv, SbTypeOK, ProgramHoused
  <1>3. SbInv => SbTypeOK /\ ProgramHoused
    BY DEF SbInv
  <1> QED BY <1>1, <1>2, <1>3, SbStep, PTL DEF SbSpec

-----------------------------------------------------------------------------
(***************************************************************************)
(* Shared memory.  JoinsAreMapped counts joins: that a new join is not one *)
(* of those held needs a number that is free, and there is one because     *)
(* fewer than JoinMax are held.                                            *)
(***************************************************************************)

ShInv ==
  /\ ShmemTypeOK /\ JoinsAreMapped
  /\ \A p \in ShProcs, n \in Names : IsFiniteSet(joins[p][n])

\* The part of the invariant about one process and one name.
Counted(m, js, lost) ==
  /\ m \in [region: Regions \cup {NoRegion}, refs: 0..JoinMax, mode: Modes]
  /\ js \in SUBSET [nr: 1..JoinMax, region: Regions, mode: Modes] /\ lost \in 0..JoinMax
  /\ IsFiniteSet(js) /\ m.refs = Cardinality(js) + lost
  /\ \A j \in js : j.region = m.region /\ j.mode = m.mode
  /\ m.refs = 0 <=> m.region = NoRegion

LEMMA FreeNumber ==
  ASSUME NEW js, IsFiniteSet(js), Cardinality(js) < JoinMax
  PROVE  \E i \in 1..JoinMax : \A j \in js : j.nr # i
  <1>0. JoinMax \in Nat /\ Cardinality(js) \in Nat
    BY ShmemAssumption, FS_CardinalityType
  <1>1. ASSUME \A i \in 1..JoinMax : \E j \in js : j.nr = i PROVE FALSE
    <2> DEFINE f == [i \in 1..JoinMax |-> CHOOSE j \in js : j.nr = i]
    <2>1. \A i \in 1..JoinMax : f[i] \in js /\ f[i].nr = i
      BY <1>1
    <2>2. f \in [1..JoinMax -> js]
      BY <2>1
    <2> HIDE DEF f
    <2>3. f \in Injection(1..JoinMax, js)
      BY <2>1, <2>2 DEF Injection, IsInjective
    <2>4. Cardinality(1..JoinMax) <= Cardinality(js)
      BY <2>3, FS_Injection
    <2>5. Cardinality(1..JoinMax) = JoinMax
      BY <1>0, FS_Interval
    <2> QED BY <1>0, <2>4, <2>5
  <1> QED BY <1>1

LEMMA ShStep == ShInv /\ ShmemNext => ShInv'
  <1> SUFFICES ASSUME ShInv, ShmemNext PROVE ShInv'
    OBVIOUS
  <1>0. JoinMax \in Nat \ {0}
    BY ShmemAssumption
  <1>1. \A p \in ShProcs, n \in Names : Counted(mapped[p][n], joins[p][n], forgotten[p][n])
    BY DEF ShInv, ShmemTypeOK, JoinsAreMapped, Counted
  <1>2. ASSUME NEW p \in ShProcs, NEW n \in Names, NEW m, NEW js, NEW lost, Counted(m, js, lost),
               mapped' = [mapped EXCEPT ![p][n] = m], joins' = [joins EXCEPT ![p][n] = js],
               forgotten' = [forgotten EXCEPT ![p][n] = lost],
               UNCHANGED <<linked, created, acquired>>
        PROVE  ShInv'
    <2>1. /\ mapped' \in [ShProcs -> [Names -> [region: Regions \cup {NoRegion}, refs: 0..JoinMax, mode: Modes]]]
          /\ \A q \in ShProcs, k \in Names : mapped'[q][k] = IF q = p /\ k = n THEN m ELSE mapped[q][k]
      BY <1>2 DEF ShInv, ShmemTypeOK, Counted
    <2>2. /\ joins' \in [ShProcs -> [Names -> SUBSET [nr: 1..JoinMax, region: Regions, mode: Modes]]]
          /\ \A q \in ShProcs, k \in Names : joins'[q][k] = IF q = p /\ k = n THEN js ELSE joins[q][k]
      BY <1>2 DEF ShInv, ShmemTypeOK, Counted
    <2>6. /\ forgotten' \in [ShProcs -> [Names -> 0..JoinMax]]
          /\ \A q \in ShProcs, k \in Names : forgotten'[q][k] = IF q = p /\ k = n THEN lost ELSE forgotten[q][k]
      BY <1>2 DEF ShInv, ShmemTypeOK, Counted
    <2>3. ASSUME NEW q \in ShProcs, NEW k \in Names
          PROVE  Counted(mapped'[q][k], joins'[q][k], forgotten'[q][k])
      <3>1. CASE q = p /\ k = n
        BY <1>2, <2>1, <2>2, <2>6, <3>1
      <3>2. CASE ~(q = p /\ k = n)
        BY <1>1, <2>1, <2>2, <2>6, <3>2
      <3> QED BY <3>1, <3>2
    <2>4. JoinsAreMapped' /\ \A q \in ShProcs, k \in Names : IsFiniteSet(joins'[q][k])
      BY <2>3 DEF Counted, JoinsAreMapped
    <2>5. ShmemTypeOK'
      BY <1>2, <2>1, <2>2, <2>6 DEF ShInv, ShmemTypeOK
    <2> QED BY <2>4, <2>5 DEF ShInv
  <1>3. ASSUME ShmemTypeOK', UNCHANGED <<mapped, joins, forgotten>> PROVE ShInv'
    BY <1>3 DEF ShInv, JoinsAreMapped
  <1>4. ASSUME NEW n \in Names, Unlink(n) PROVE ShInv'
    BY <1>3, <1>4 DEF Unlink, ShInv, ShmemTypeOK
  <1>5. ASSUME NEW n \in Names, NEW r \in Regions, Create(n, r) PROVE ShInv'
    BY <1>3, <1>5 DEF Create, ShInv, ShmemTypeOK
  <1>6. ASSUME NEW p \in ShProcs, Acquire(p) \/ Release(p) PROVE ShInv'
    <2>a. acquired \in [ShProcs -> 0..1] /\ 0 \in 0..1 /\ 1 \in 0..1
      BY DEF ShInv, ShmemTypeOK
    <2>b. acquired' = [acquired EXCEPT ![p] = 1] \/ acquired' = [acquired EXCEPT ![p] = 0]
      BY <1>6 DEF Acquire, Release
    <2>c. UNCHANGED <<linked, created, mapped, joins, forgotten>>
      BY <1>6 DEF Acquire, Release
    <2>1. acquired' \in [ShProcs -> 0..1] /\ UNCHANGED <<linked, created, mapped, joins, forgotten>>
      BY <2>a, <2>b, <2>c
    <2> QED BY <1>3, <2>1 DEF ShInv, ShmemTypeOK
  <1>7. ASSUME NEW p \in ShProcs, NEW n \in Names, NEW mode \in Modes, Join(p, n, mode) PROVE ShInv'
    <2> DEFINE m    == mapped[p][n]
               js   == joins[p][n]
               lost == forgotten[p][n]
               new  == IF m.refs > 0 THEN [m EXCEPT !.refs = @ + 1]
                       ELSE [region |-> linked[n], refs |-> 1, mode |-> mode]
               nr   == CHOOSE i \in 1..JoinMax : \A j \in js : j.nr # i
               own  == [nr |-> nr, region |-> new.region, mode |-> new.mode]
    <2>1. Counted(m, js, lost)
      BY <1>1
    <2>2. /\ m.refs < JoinMax /\ new.region # NoRegion /\ UNCHANGED <<linked, created, acquired>>
          /\ mapped' = [mapped EXCEPT ![p][n] = new]
          /\ \/ joins' = [joins EXCEPT ![p][n] = js \cup {own}] /\ UNCHANGED forgotten
             \/ forgotten' = [forgotten EXCEPT ![p][n] = lost + 1] /\ UNCHANGED joins
      BY <1>7 DEF Join
    <2>3. linked[n] \in Regions \cup {NoRegion}
      BY DEF ShInv, ShmemTypeOK
    <2>13. /\ forgotten = [forgotten EXCEPT ![p][n] = lost]
           /\ joins = [joins EXCEPT ![p][n] = js]
      BY DEF ShInv, ShmemTypeOK
    <2> HIDE DEF m, js, lost
    <2>4. /\ m \in [region: Regions \cup {NoRegion}, refs: 0..JoinMax, mode: Modes] /\ m.refs \in 0..JoinMax
          /\ IsFiniteSet(js) /\ js \in SUBSET [nr: 1..JoinMax, region: Regions, mode: Modes]
          /\ m.refs = Cardinality(js) + lost /\ Cardinality(js) \in Nat /\ lost \in Nat
          /\ \A j \in js : j.region = m.region /\ j.mode = m.mode
      BY <1>0, <2>1, FS_CardinalityType DEF Counted
    <2>6. /\ new \in [region: Regions \cup {NoRegion}, refs: 0..JoinMax, mode: Modes]
          /\ new.refs = m.refs + 1
      <3>1. CASE m.refs > 0
        BY <1>0, <2>2, <2>4, <3>1
      <3>2. CASE ~(m.refs > 0)
        BY <1>0, <2>3, <2>4, <3>2
      <3> QED BY <3>1, <3>2
    <2>7. \A j \in js : j.region = new.region /\ j.mode = new.mode
      <3>1. CASE m.refs > 0
        BY <2>4, <3>1
      <3>2. CASE ~(m.refs > 0)
        <4>1. Cardinality(js) = 0
          BY <2>4, <3>2
        <4>2. js = {}
          BY <2>4, <4>1, FS_EmptySet
        <4> QED BY <4>2
      <3> QED BY <3>1, <3>2
    <2> HIDE DEF new
    <2>11. new.refs # 0 /\ new.region # NoRegion
      BY <2>2, <2>4, <2>6
    <2>20. CASE joins' = [joins EXCEPT ![p][n] = js \cup {own}] /\ UNCHANGED forgotten
      <3>1. Cardinality(js) < JoinMax
        BY <1>0, <2>2, <2>4
      <3>2. nr \in 1..JoinMax /\ \A j \in js : j.nr # nr
        <4>1. \E i \in 1..JoinMax : \A j \in js : j.nr # i
          BY <2>4, <3>1, FreeNumber
        <4> QED BY <4>1
      <3> HIDE DEF nr
      <3>3. own \in [nr: 1..JoinMax, region: Regions, mode: Modes] /\ own.nr = nr
            /\ own.region = new.region /\ own.mode = new.mode
        BY <2>2, <2>6, <3>2
      <3>8. joins' = [joins EXCEPT ![p][n] = js \cup {own}]
        BY <2>20
      <3> HIDE DEF own
      <3>4. own \notin js
        BY <3>2, <3>3
      <3>5. IsFiniteSet(js \cup {own}) /\ Cardinality(js \cup {own}) = Cardinality(js) + 1
        BY <2>4, <3>4, FS_AddElement
      <3>6. new.refs = Cardinality(js \cup {own}) + lost
        BY <2>4, <2>6, <3>5
      <3>7. Counted(new, js \cup {own}, lost)
        BY <2>1, <2>4, <2>6, <2>7, <2>11, <3>3, <3>5, <3>6 DEF Counted
      <3> QED BY <1>2, <2>2, <2>13, <2>20, <3>7, <3>8
    <2>21. CASE forgotten' = [forgotten EXCEPT ![p][n] = lost + 1] /\ UNCHANGED joins
      <3>1. lost + 1 \in 0..JoinMax
        BY <1>0, <2>2, <2>4
      <3>2. new.refs = Cardinality(js) + (lost + 1)
        BY <2>4, <2>6
      <3>3. Counted(new, js, lost + 1)
        BY <2>4, <2>6, <2>7, <2>11, <3>1, <3>2 DEF Counted
      <3> QED BY <1>2, <2>2, <2>13, <2>21, <3>3
    <2> QED BY <2>2, <2>20, <2>21
  <1>8. ASSUME NEW p \in ShProcs, NEW n \in Names, NEW j \in joins[p][n], Leave(p, n, j) PROVE ShInv'
    <2> DEFINE m    == mapped[p][n]
               js   == joins[p][n]
               lost == forgotten[p][n]
               new  == IF m.refs = 1 THEN Unmapped ELSE [m EXCEPT !.refs = @ - 1]
    <2>1. Counted(m, js, lost) /\ j \in js
      BY <1>1
    <2>2. /\ mapped' = [mapped EXCEPT ![p][n] = new] /\ joins' = [joins EXCEPT ![p][n] = js \ {j}]
          /\ UNCHANGED <<linked, created, forgotten, acquired>>
      BY <1>8 DEF Leave
    <2>3. forgotten = [forgotten EXCEPT ![p][n] = lost]
      BY DEF ShInv, ShmemTypeOK
    <2> HIDE DEF m, js, lost
    <2>4. /\ m \in [region: Regions \cup {NoRegion}, refs: 0..JoinMax, mode: Modes] /\ m.refs \in 0..JoinMax
          /\ IsFiniteSet(js) /\ js \in SUBSET [nr: 1..JoinMax, region: Regions, mode: Modes]
          /\ m.refs = Cardinality(js) + lost /\ lost \in 0..JoinMax /\ lost \in Nat
          /\ (\A k \in js : k.region = m.region /\ k.mode = m.mode)
          /\ (m.refs = 0 <=> m.region = NoRegion)
      BY <1>0, <2>1 DEF Counted
    <2>5. /\ IsFiniteSet(js \ {j}) /\ Cardinality(js \ {j}) = Cardinality(js) - 1
          /\ Cardinality(js) \in Nat /\ Cardinality(js \ {j}) \in Nat
      BY <2>1, <2>4, FS_RemoveElement, FS_CardinalityType
    <2>6. m.refs # 0 /\ m.refs - 1 = Cardinality(js \ {j}) + lost
      BY <2>4, <2>5
    <2>7. Counted(new, js \ {j}, lost)
      <3>1. CASE m.refs = 1
        <4>0. Cardinality(js \ {j}) = 0 /\ lost = 0
          BY <2>4, <2>5, <2>6, <3>1
        <4>1. js \ {j} = {}
          BY <2>5, <4>0, FS_EmptySet
        <4>2. new = Unmapped
          BY <3>1
        <4>3. /\ Unmapped \in [region: Regions \cup {NoRegion}, refs: 0..JoinMax, mode: Modes]
              /\ Unmapped.refs = 0 /\ Unmapped.region = NoRegion
          BY <1>0 DEF Unmapped, Modes
        <4> HIDE DEF new
        <4>4. new.refs = Cardinality(js \ {j}) + lost
          BY <4>0, <4>2, <4>3
        <4> QED BY <1>0, <2>4, <2>5, <4>0, <4>1, <4>2, <4>3, <4>4 DEF Counted
      <3>2. CASE m.refs # 1
        <4>1. /\ new \in [region: Regions \cup {NoRegion}, refs: 0..JoinMax, mode: Modes]
              /\ new.refs = m.refs - 1 /\ new.region = m.region /\ new.mode = m.mode
          BY <1>0, <2>4, <2>6, <3>2
        <4>2. new.refs # 0
          BY <2>4, <3>2, <4>1
        <4> HIDE DEF new
        <4> QED BY <2>4, <2>5, <2>6, <4>1, <4>2 DEF Counted
      <3> QED BY <3>1, <3>2
    <2> HIDE DEF new
    <2> QED BY <1>2, <2>2, <2>3, <2>7
  <1> QED BY <1>4, <1>5, <1>6, <1>7, <1>8 DEF ShmemNext

\* JoinsAreMapped: a ShmemJoin points into the region it was joined to, however
\* the name was unlinked, created again and joined since.
THEOREM JoinsAlwaysMapped == ShmemSpec => [](ShmemTypeOK /\ JoinsAreMapped)
  <1>1. ShmemInit => ShInv
    <2> SUFFICES ASSUME ShmemInit PROVE ShInv
      OBVIOUS
    <2>0. JoinMax \in Nat /\ 0 \in 0..JoinMax /\ 0 = 0 + 0
      BY ShmemAssumption
    <2>1. Unmapped \in [region: Regions \cup {NoRegion}, refs: 0..JoinMax, mode: Modes]
      BY <2>0 DEF Unmapped, Modes
    <2>2. ShmemTypeOK
      BY <2>0, <2>1 DEF ShmemInit, ShmemTypeOK
    <2>3. \A p \in ShProcs, n \in Names : mapped[p][n] = Unmapped /\ joins[p][n] = {} /\ forgotten[p][n] = 0
      BY DEF ShmemInit
    <2>4. Unmapped.refs = 0 /\ Unmapped.region = NoRegion
      BY DEF Unmapped
    <2>5. IsFiniteSet({}) /\ Cardinality({}) = 0
      BY FS_EmptySet
    <2>6. JoinsAreMapped
      BY <2>0, <2>3, <2>4, <2>5 DEF JoinsAreMapped
    <2> QED BY <2>2, <2>3, <2>5, <2>6 DEF ShInv
  <1>2. ShInv /\ UNCHANGED shmemVars => ShInv'
    BY DEF shmemVars, ShInv, ShmemTypeOK, JoinsAreMapped
  <1>3. ShInv => ShmemTypeOK /\ JoinsAreMapped
    BY DEF ShInv
  <1> QED BY <1>1, <1>2, <1>3, ShStep, PTL DEF ShmemSpec

-----------------------------------------------------------------------------
(***************************************************************************)
(* Checkpoint streams.  Frames lie one behind the other and hold buffers   *)
(* of their own style; nothing is written while a reader exists; a reader  *)
(* is as far into its frame as it has restored buffers.                    *)
(***************************************************************************)

FrameWritten(f) ==
  /\ f.lo <= f.hi /\ f.hi <= Len(ckFile)
  /\ \A i \in (f.lo + 1)..f.hi : ckFile[i].style = f.style

WriterAt ==
  writer = "frame" =>
    /\ ckStart <= Len(ckFile) /\ \A f \in ckIndex : f.hi <= ckStart
    /\ \A i \in (ckStart + 1)..Len(ckFile) : ckFile[i].style = ckStyle

ReaderAt ==
  /\ readFrame \in ckIndex \/ readFrame.lo = readFrame.hi
  /\ reader # "none" => writer = "done"
  /\ reader = "none" => got = <<>>
  /\ reader = "frame" => rAt = readFrame.lo + Len(got)
  /\ \A i \in 1..Len(got) : /\ readFrame.lo + i <= Len(ckFile)
                            /\ got[i] = ckFile[readFrame.lo + i].data

Apart == \A f, g \in ckIndex : f # g => f.hi <= g.lo \/ g.hi <= f.lo

CkInv ==
  /\ CheckptTypeOK /\ (\A f \in ckIndex : FrameWritten(f)) /\ WriterAt /\ ReaderAt /\ Apart

CkFrames == [lo: 0..FileMax, hi: 0..FileMax, style: Styles]

LEMMA CkTypes ==
  ASSUME CheckptTypeOK
  PROVE  /\ Len(ckFile) \in Nat /\ FileMax \in Nat /\ ckStart \in Nat /\ rAt \in Nat /\ Len(got) \in Nat
         /\ Len(ckFile) \in 0..FileMax
         /\ \A f \in ckIndex \cup {readFrame} : f \in CkFrames
         /\ \A f \in CkFrames : /\ f.lo \in Nat /\ f.hi \in Nat /\ f.lo \in 0..FileMax
                                /\ f.style \in Styles
  <1>1. FileMax \in Nat
    BY CheckptAssumption
  <1>2. \A f \in CkFrames : f.lo \in Nat /\ f.hi \in Nat /\ f.lo \in 0..FileMax /\ f.style \in Styles
    BY <1>1 DEF CkFrames
  <1>3. \A f \in ckIndex \cup {readFrame} : f \in CkFrames
    BY DEF CheckptTypeOK, CkFrames
  <1>4. Len(ckFile) \in Nat /\ Len(ckFile) <= FileMax /\ Len(got) \in Nat
    BY DEF CheckptTypeOK
  <1>5. Len(ckFile) \in 0..FileMax
    BY <1>1, <1>4
  <1>6. ckStart \in Nat /\ rAt \in Nat
    BY <1>1 DEF CheckptTypeOK
  <1> QED BY <1>1, <1>2, <1>3, <1>4, <1>5, <1>6

\* The writer's calls that leave the file and the index alone, refused and failed ones among
\* them.
LEMMA WriterQuiet ==
  ASSUME CkInv, UNCHANGED <<ckFile, ckIndex, rAt, rStyle, readFrame, got, reader>>,
         reader = "none", CheckptTypeOK', WriterAt'
  PROVE  CkInv'
  BY DEF CkInv, FrameWritten, ReaderAt, Apart

LEMMA WriterGivesUp ==
  ASSUME CkInv, UNCHANGED <<ckStyle, ckStart, ckFile, ckIndex, rAt, rStyle, readFrame, got, reader>>,
         writer # "done", writer' = "failed" \/ writer' = writer
  PROVE  CkInv'
  <1>1. reader = "none"
    BY DEF CkInv, ReaderAt
  <1>2. CheckptTypeOK' /\ WriterAt'
    BY DEF CkInv, CheckptTypeOK, WriterAt
  <1> QED BY <1>1, <1>2, WriterQuiet

LEMMA CkWrites ==
  ASSUME CkInv, NEW b \in Buffers, CheckptData(b)
  PROVE  CkInv'
  <1>1. writer # "done" /\ reader = "none" /\ got = <<>>
    BY DEF CheckptData, CkInv, ReaderAt
  <1>2. UNCHANGED <<ckStyle, ckStart, ckIndex, reader, rAt, rStyle, readFrame, got>>
    BY DEF CheckptData, Reading
  <1> DEFINE e == [data |-> b, style |-> ckStyle]
  <1>3. CASE writer = "frame" /\ Len(ckFile) < FileMax /\ ckFile' = Append(ckFile, e) /\ writer' = writer
    <2>2. e \in [data: Buffers, style: Styles] /\ e.style = ckStyle
      BY DEF CkInv, CheckptTypeOK
    <2>1. ckFile' = Append(ckFile, e)
      BY <1>3
    <2> HIDE DEF e
    <2>3. Len(ckFile) \in Nat /\ FileMax \in Nat /\ ckFile \in Seq([data: Buffers, style: Styles])
      BY CkTypes DEF CkInv, CheckptTypeOK
    <2>4. /\ ckFile' \in Seq([data: Buffers, style: Styles]) /\ Len(ckFile') = Len(ckFile) + 1
          /\ ckFile'[Len(ckFile) + 1] = e
          /\ \A i \in 1..Len(ckFile) : ckFile'[i] = ckFile[i]
      BY <2>1, <2>2, <2>3, AppendProperties
    <2>5. CheckptTypeOK'
      <3>1. Len(ckFile') <= FileMax
        BY <1>3, <2>3, <2>4
      <3> QED BY <1>2, <1>3, <2>4, <3>1 DEF CkInv, CheckptTypeOK
    <2>6. ASSUME NEW f \in ckIndex' PROVE FrameWritten(f)'
      <3>1. f \in ckIndex /\ f.lo \in Nat /\ f.hi \in Nat /\ FrameWritten(f)
        BY <1>2, CkTypes DEF CkInv
      <3>2. f.hi <= Len(ckFile')
        BY <2>3, <2>4, <3>1 DEF FrameWritten
      <3>3. \A i \in (f.lo + 1)..f.hi : i \in 1..Len(ckFile)
        BY <2>3, <3>1 DEF FrameWritten
      <3> QED BY <2>4, <3>1, <3>2, <3>3 DEF FrameWritten
    <2>7. WriterAt'
      <3>1. ckStart \in Nat /\ ckStart <= Len(ckFile)
        BY <1>3, CkTypes DEF CkInv, WriterAt
      <3>2. ASSUME NEW i \in (ckStart + 1)..(Len(ckFile) + 1) PROVE ckFile'[i].style = ckStyle
        <4>1. CASE i = Len(ckFile) + 1
          BY <2>2, <2>4, <4>1
        <4>2. CASE i # Len(ckFile) + 1
          <5>1. i \in 1..Len(ckFile) /\ i \in (ckStart + 1)..Len(ckFile)
            BY <2>3, <3>1, <4>2
          <5> QED BY <1>3, <2>4, <5>1 DEF CkInv, WriterAt
        <4> QED BY <4>1, <4>2
      <3>3. ckStart <= Len(ckFile')
        BY <2>3, <2>4, <3>1
      <3>4. \A f \in ckIndex : f.hi <= ckStart
        BY <1>3 DEF CkInv, WriterAt
      <3> QED BY <1>2, <2>4, <3>2, <3>3, <3>4 DEF WriterAt
    <2>8. ReaderAt'
      BY <1>1, <1>2 DEF CkInv, ReaderAt
    <2>9. Apart'
      BY <1>2 DEF CkInv, Apart
    <2> QED BY <2>5, <2>6, <2>7, <2>8, <2>9 DEF CkInv
  <1>4. CASE ckFile' = ckFile /\ (writer' = "failed" \/ writer' = writer)
    BY <1>1, <1>2, <1>4, WriterGivesUp
  <1> QED BY <1>3, <1>4 DEF CheckptData

LEMMA CkCloses ==
  ASSUME CkInv, CheckptClose
  PROVE  CkInv'
  <1> DEFINE e == [lo |-> ckStart, hi |-> Len(ckFile), style |-> ckStyle]
  <1>1. writer # "done" /\ UNCHANGED <<ckStyle, ckStart, ckFile, reader, rAt, rStyle, readFrame, got>>
    BY DEF CheckptClose, Reading
  <1>2. e.lo = ckStart /\ e.hi = Len(ckFile) /\ e.style = ckStyle
    OBVIOUS
  <1>3. e \in CkFrames
    BY CkTypes DEF CkInv, CheckptTypeOK, CkFrames
  <1>4. CASE writer = "frame" /\ writer' = "idle" /\ ckIndex' = ckIndex \cup {e}
    <2>1. ckIndex' = ckIndex \cup {e}
      BY <1>4
    <2> HIDE DEF e
    <2>2. reader = "none" /\ got = <<>>
      BY <1>1 DEF CkInv, ReaderAt
    <2>3. CheckptTypeOK'
      BY <1>1, <1>3, <1>4, <2>1 DEF CkInv, CheckptTypeOK, CkFrames
    <2>4. FrameWritten(e)
      BY <1>2, <1>4, CkTypes DEF CkInv, WriterAt, FrameWritten
    <2>5. \A f \in ckIndex' : FrameWritten(f)'
      BY <1>1, <2>1, <2>4 DEF CkInv, FrameWritten
    <2>6. WriterAt' /\ ReaderAt'
      BY <1>1, <1>4, <2>1, <2>2 DEF CkInv, WriterAt, ReaderAt
    <2>7. \A f \in ckIndex : f.hi <= e.lo
      BY <1>2, <1>4 DEF CkInv, WriterAt
    <2>8. Apart'
      BY <2>1, <2>7 DEF CkInv, Apart
    <2> QED BY <2>3, <2>5, <2>6, <2>8 DEF CkInv
  <1>5. CASE ckIndex' = ckIndex /\ (writer' = "failed" \/ writer' = writer)
    BY <1>1, <1>5, WriterGivesUp
  <1> QED BY <1>4, <1>5 DEF CheckptClose

LEMMA CkReads ==
  ASSUME CkInv, RestoreData
  PROVE  CkInv'
  <1>1. reader # "none" /\ UNCHANGED <<rStyle, readFrame, writer, ckStyle, ckStart, ckFile, ckIndex>>
    BY DEF RestoreData, Writing
  <1>2. /\ Len(ckFile) \in Nat /\ FileMax \in Nat /\ rAt \in Nat /\ Len(got) \in Nat
        /\ readFrame.lo \in Nat /\ writer = "done"
        /\ reader = "frame" => rAt = readFrame.lo + Len(got)
    BY <1>1, CkTypes DEF CkInv, ReaderAt
  <1>3. (\A f \in ckIndex' : FrameWritten(f)') /\ WriterAt' /\ Apart'
    BY <1>1 DEF CkInv, FrameWritten, WriterAt, Apart
  <1>4. CASE /\ reader = "frame" /\ rAt < Len(ckFile)
             /\ got' = Append(got, ckFile[rAt + 1].data) /\ rAt' = rAt + 1 /\ reader' = reader
    <2>1. /\ got' = Append(got, ckFile[rAt + 1].data) /\ rAt' = rAt + 1 /\ reader' = reader
          /\ rAt = readFrame.lo + Len(got)
      BY <1>2, <1>4
    <2>2. rAt + 1 \in 1..Len(ckFile)
      BY <1>2, <1>4
    <2>3. ckFile[rAt + 1].data \in Buffers /\ got \in Seq(Buffers)
      <3>1. PICK k \in 1..Len(ckFile) : k = rAt + 1
        BY <2>2
      <3>2. ckFile \in Seq([data: Buffers, style: Styles]) /\ got \in Seq(Buffers)
        BY DEF CkInv, CheckptTypeOK
      <3>3. ckFile[k] \in [data: Buffers, style: Styles]
        BY <3>2, ElementOfSeq
      <3>4. ckFile[k].data \in Buffers
        BY <3>3
      <3> QED BY <3>1, <3>2, <3>4
    <2>4. /\ got' \in Seq(Buffers) /\ Len(got') = Len(got) + 1
          /\ got'[Len(got) + 1] = ckFile[rAt + 1].data
          /\ \A i \in 1..Len(got) : got'[i] = got[i]
      BY <2>1, <2>3, AppendProperties
    <2>5. rAt' \in 0..FileMax
      <3>1. Len(ckFile) <= FileMax
        BY DEF CkInv, CheckptTypeOK
      <3>2. rAt + 1 <= FileMax /\ rAt + 1 \in Nat
        BY ONLY <1>2, <2>2, <3>1
      <3> QED BY <1>2, <2>1, <3>2
    <2>6. CheckptTypeOK'
      BY <1>1, <2>1, <2>4, <2>5 DEF CkInv, CheckptTypeOK
    <2>7. rAt' = readFrame.lo + Len(got')
      <3>1. rAt' = rAt + 1 /\ Len(got') = Len(got) + 1 /\ rAt = readFrame.lo + Len(got)
        BY <2>1, <2>4
      <3> QED BY ONLY <1>2, <3>1
    <2>8. ASSUME NEW i \in 1..(Len(got) + 1)
          PROVE  readFrame.lo + i <= Len(ckFile) /\ got'[i] = ckFile[readFrame.lo + i].data
      <3>1. CASE i = Len(got) + 1
        <4>1. readFrame.lo + i = rAt + 1
          BY <1>2, <2>1, <3>1
        <4>2. rAt + 1 <= Len(ckFile)
          BY <2>2
        <4> QED BY <2>4, <3>1, <4>1, <4>2
      <3>2. CASE i # Len(got) + 1
        <4>1. i \in 1..Len(got)
          BY <1>2, <3>2
        <4> QED BY <2>4, <4>1 DEF CkInv, ReaderAt
      <3> QED BY <3>1, <3>2
    <2>9. ReaderAt'
      BY <1>1, <1>2, <2>1, <2>4, <2>7, <2>8 DEF CkInv, ReaderAt
    <2> QED BY <1>3, <2>6, <2>9 DEF CkInv
  <1>5. CASE UNCHANGED <<got, rAt>> /\ (reader' = "failed" \/ reader' = reader)
    <2>1. CheckptTypeOK' /\ ReaderAt'
      BY <1>1, <1>2, <1>5 DEF CkInv, CheckptTypeOK, ReaderAt
    <2> QED BY <1>3, <2>1 DEF CkInv
  <1> QED BY <1>4, <1>5 DEF RestoreData

\* What leaves the file and its index alone keeps the frames as they are.
LEMMA ReaderMoves ==
  ASSUME CkInv, UNCHANGED <<writer, ckStyle, ckStart, ckFile, ckIndex>>, CheckptTypeOK', ReaderAt'
  PROVE  CkInv'
  BY DEF CkInv, FrameWritten, WriterAt, Apart

LEMMA CkSeeks ==
  ASSUME CkInv, NEW f \in ckIndex, RestoreSeek(f)
  PROVE  CkInv'
  <1>1. /\ UNCHANGED <<rStyle, readFrame, got, writer, ckStyle, ckStart, ckFile, ckIndex>>
        /\ reader # "none" /\ f.lo \in 0..FileMax
    BY CkTypes DEF RestoreSeek, Writing, CkInv
  <1>2. rAt' \in 0..FileMax /\ (reader' = "failed" \/ reader' = reader)
    BY <1>1 DEF RestoreSeek, CkInv, CheckptTypeOK
  <1>3. reader' = "frame" => reader = "frame" /\ rAt' = rAt
    BY DEF RestoreSeek
  <1>4. CheckptTypeOK'
    BY <1>1, <1>2 DEF CkInv, CheckptTypeOK
  <1>5. ReaderAt'
    BY <1>1, <1>2, <1>3 DEF CkInv, ReaderAt
  <1> QED BY <1>1, <1>4, <1>5, ReaderMoves

LEMMA CkOpens ==
  ASSUME CkInv, NEW s \in Styles, RestoreOpen(s)
  PROVE  CkInv'
  <1> DEFINE here == {f \in ckIndex : f.lo = rAt}
             nothing == [NoFrame EXCEPT !.lo = rAt, !.hi = rAt]
  <1>1. UNCHANGED <<rAt, writer, ckStyle, ckStart, ckFile, ckIndex>> /\ reader # "none"
    BY DEF RestoreOpen, Writing
  <1>2. CASE /\ reader = "idle" /\ reader' = "frame" /\ rStyle' = s /\ got' = <<>>
             /\ (readFrame' \in here \/ readFrame' = nothing)
    <2>1. rAt \in 0..FileMax /\ rAt \in Nat
      BY CkTypes DEF CkInv, CheckptTypeOK
    <2>2. nothing \in CkFrames /\ nothing.lo = rAt /\ nothing.hi = rAt
      BY <2>1 DEF NoFrame, CkFrames, Styles
    <2>3. \A f \in here : f \in CkFrames /\ f \in ckIndex /\ f.lo = rAt
      BY CkTypes DEF CkInv
    <2> HIDE DEF here, nothing
    <2>4. /\ readFrame' \in CkFrames /\ readFrame'.lo = rAt
          /\ (readFrame' \in ckIndex \/ readFrame'.lo = readFrame'.hi)
      BY <1>2, <2>2, <2>3
    <2>5. CheckptTypeOK'
      BY <1>1, <1>2, <2>4 DEF CkInv, CheckptTypeOK, CkFrames
    <2>6. Len(got') = 0 /\ rAt = rAt + 0
      BY <1>2, <2>1
    <2>7. ReaderAt'
      BY <1>1, <1>2, <2>4, <2>6 DEF CkInv, ReaderAt
    <2> QED BY <1>1, <2>5, <2>7, ReaderMoves
  <1>3. CASE UNCHANGED <<rStyle, got, readFrame>> /\ (reader' = "failed" \/ reader' = reader)
    <2>1. CheckptTypeOK' /\ ReaderAt'
      BY <1>1, <1>3 DEF CkInv, CheckptTypeOK, ReaderAt
    <2> QED BY <1>1, <2>1, ReaderMoves
  <1> QED BY <1>2, <1>3 DEF RestoreOpen

LEMMA CkStep == CkInv /\ CheckptNext => CkInv'
  <1> SUFFICES ASSUME CkInv, CheckptNext PROVE CkInv'
    OBVIOUS
  <1>1. CASE CheckptNew
    <2>1. /\ writer = "none" /\ writer' = "idle"
          /\ UNCHANGED <<ckStyle, ckStart, ckFile, ckIndex, reader, rAt, rStyle, readFrame, got>>
      BY <1>1 DEF CheckptNew, Reading
    <2>2. reader = "none"
      BY <2>1 DEF CkInv, ReaderAt
    <2>3. CheckptTypeOK' /\ WriterAt'
      BY <2>1 DEF CkInv, CheckptTypeOK, WriterAt
    <2> QED BY <2>1, <2>2, <2>3, WriterQuiet
  <1>2. ASSUME NEW s \in Styles, CheckptOpen(s) PROVE CkInv'
    <2>1. writer # "done" /\ UNCHANGED <<ckFile, ckIndex, reader, rAt, rStyle, readFrame, got>>
      BY <1>2 DEF CheckptOpen, Reading
    <2>2. reader = "none"
      BY <2>1 DEF CkInv, ReaderAt
    <2>3. CASE writer = "idle" /\ writer' = "frame" /\ ckStyle' = s /\ ckStart' = Len(ckFile)
      <3>1. Len(ckFile) \in 0..FileMax /\ Len(ckFile) \in Nat
        BY CkTypes DEF CkInv
      <3>2. CheckptTypeOK'
        BY <2>1, <2>3, <3>1 DEF CkInv, CheckptTypeOK
      <3>3. \A i \in (Len(ckFile) + 1)..Len(ckFile) : FALSE
        BY <3>1
      <3>4. WriterAt'
        BY <2>1, <2>3, <3>1, <3>3 DEF CkInv, WriterAt, FrameWritten
      <3> QED BY <2>1, <2>2, <3>2, <3>4, WriterQuiet
    <2>4. CASE UNCHANGED <<ckStyle, ckStart>> /\ (writer' = "failed" \/ writer' = writer)
      BY <2>1, <2>4, WriterGivesUp
    <2> QED BY <1>2, <2>3, <2>4 DEF CheckptOpen
  <1>3. CASE CheckptDrop
    <2>1. /\ writer # "done" /\ writer' = "done"
          /\ UNCHANGED <<ckStyle, ckStart, ckFile, ckIndex, reader, rAt, rStyle, readFrame, got>>
      BY <1>3 DEF CheckptDrop, Reading
    <2>2. reader = "none"
      BY <2>1 DEF CkInv, ReaderAt
    <2>3. CheckptTypeOK' /\ WriterAt'
      BY <2>1 DEF CkInv, CheckptTypeOK, WriterAt
    <2> QED BY <2>1, <2>2, <2>3, WriterQuiet
  <1>4. CASE RestoreNew
    BY <1>4, ReaderMoves DEF RestoreNew, Writing, CkInv, CheckptTypeOK, ReaderAt
  <1>5. CASE RestoreClose
    BY <1>5, ReaderMoves DEF RestoreClose, Writing, CkInv, CheckptTypeOK, ReaderAt
  <1> QED BY <1>1, <1>2, <1>3, <1>4, <1>5, CkWrites, CkCloses, CkReads, CkSeeks, CkOpens DEF CheckptNext

\* RestoredIsWritten: with the library as the module describes it, the wrappers' calls in any
\* order, refused and failed ones among them, never mix one frame's buffers with another's.
LEMMA RestoredAlwaysWritten == CheckptSpec => [](CheckptTypeOK /\ RestoredIsWritten)
  <1>1. CheckptInit => CkInv
    <2> SUFFICES ASSUME CheckptInit PROVE CkInv
      OBVIOUS
    <2>1. FileMax \in Nat /\ 0 \in 0..FileMax
      BY CheckptAssumption
    <2>2. NoFrame \in [lo: 0..FileMax, hi: 0..FileMax, style: Styles] /\ NoFrame.lo = NoFrame.hi
      BY <2>1 DEF NoFrame, Styles
    <2>3. CheckptTypeOK
      BY <2>1, <2>2 DEF CheckptInit, CheckptTypeOK, Styles
    <2> QED BY <2>2, <2>3 DEF CheckptInit, CkInv, WriterAt, ReaderAt, Apart
  <1>2. CkInv /\ UNCHANGED checkptVars => CkInv'
    BY DEF checkptVars, CkInv, CheckptTypeOK, FrameWritten, WriterAt, ReaderAt, Apart
  <1>3. ASSUME CkInv PROVE RestoredIsWritten
    <2>1. ASSUME NEW i \in 1..Len(got), i <= readFrame.hi - readFrame.lo
          PROVE  /\ got[i] = ckFile[readFrame.lo + i].data
                 /\ ckFile[readFrame.lo + i].style = readFrame.style
      <3>1. readFrame.lo \in Nat /\ readFrame.hi \in Nat /\ Len(got) \in Nat
        BY <1>3, CkTypes DEF CkInv
      <3>2. readFrame.lo # readFrame.hi
        BY <2>1, <3>1
      <3>3. FrameWritten(readFrame)
        BY <1>3, <3>2 DEF CkInv, ReaderAt
      <3>4. readFrame.lo + i \in (readFrame.lo + 1)..readFrame.hi
        BY <2>1, <3>1
      <3> QED BY <1>3, <3>3, <3>4 DEF CkInv, ReaderAt, FrameWritten
    <2> QED BY <1>3, <2>1 DEF CkInv, Apart, RestoredIsWritten
  <1>4. CkInv => CheckptTypeOK /\ RestoredIsWritten
    BY <1>3 DEF CkInv
  <1> QED BY <1>1, <1>2, <1>4, CkStep, PTL DEF CheckptSpec

-----------------------------------------------------------------------------
(***************************************************************************)
(* The containers.  What a call gives follows from where every element is: *)
(* in a stack, a queue and a deque element i lies i - 1 cells behind the   *)
(* front of the ring, in a vec a value that was set lies at its place.     *)
(***************************************************************************)

RingOf(V) ==
  /\ boxModel \in Seq(V) /\ Len(boxModel) = boxCount
  /\ \A i \in 1..boxCount : boxModel[i] = cells[Cell(i - 1)]

\* Every pointer in a deque is of a string that is alive, and is in it once.
DequeOwns ==
  /\ boxModel \in Seq(Strs)
  /\ \A i \in 1..Len(boxModel) : strings[boxModel[i]] = "alive"
  /\ \A i, j \in 1..Len(boxModel) : boxModel[i] = boxModel[j] => i = j

VecLies ==
  /\ boxModel \in Seq(TVals) /\ Len(boxModel) = boxCount
  /\ members \subseteq 0..boxCount-1
  /\ \A i \in members : cells[i] = boxModel[i + 1]

PoolCounts == members \subseteq 0..Cap-1 /\ (~spoiled => boxCount = Cardinality(members))

BoxLies ==
  boxAlive =>
    /\ boxKind = "stack" => RingOf(TVals) /\ boxFront = 0
    /\ boxKind = "queue" => RingOf(TVals)
    /\ boxKind = "deque" => RingOf(Strs) /\ DequeOwns
    /\ boxKind = "vec"   => VecLies
    /\ boxKind = "pool"  => PoolCounts

AnswerGood == answer.from \in {"stack", "queue", "deque", "vec"} => answer.got = answer.due

TmInv == TmTypeOK /\ BoxLies /\ AnswerGood

StringTypes == [Strs -> {"unborn", "alive", "leaked", "freed"}]

LEMMA TmNumbers ==
  ASSUME TmTypeOK
  PROVE  /\ Cap \in Nat \ {0} /\ boxFront \in 0..Cap-1 /\ boxCount \in 0..Cap
         /\ boxCount \in Nat /\ boxFront \in Nat /\ cells \in [0..Cap-1 -> Memory]
         /\ strings \in StringTypes
  BY TmplAssumption DEF TmTypeOK, StringTypes

LEMMA NothingAnswered == ASSUME answer' = NoAnswer PROVE AnswerGood'
  BY DEF AnswerGood, NoAnswer

\* A look at something else than what is promised says nothing about it.
LEMMA LookedGood ==
  ASSUME NEW from, NEW v, NEW due, Looked(from, v, due),
         from \in {"stack", "queue", "deque", "vec"} => v = due
  PROVE  AnswerGood'
  <1>1. answer' = [from |-> from, got |-> v, due |-> due]
    BY DEF Looked
  <1>2. answer'.from = from /\ answer'.got = v /\ answer'.due = due
    BY <1>1
  <1> QED BY <1>2 DEF AnswerGood

\* Indices in a ring of Cap cells.
LEMMA RingIndex ==
  ASSUME NEW c \in Nat \ {0}, NEW x \in 0..(2 * c - 1)
  PROVE  x % c = (IF x < c THEN x ELSE x - c) /\ x % c \in 0..c-1
  <1>1. CASE x < c
    BY <1>1
  <1>2. CASE x >= c
    <2>1. x = 1 * c + (x - c) /\ x - c \in 0..c-1
      BY <1>2
    <2> QED BY <1>2, <2>1
  <1> QED BY <1>1, <1>2


\* A sequence without repetitions has as many elements as entries.
LEMMA OnceCounts ==
  ASSUME NEW S, NEW s \in Seq(S), \A i, j \in 1..Len(s) : s[i] = s[j] => i = j
  PROVE  Cardinality(ToSet(s)) = Len(s)
  <1>1. Len(s) \in Nat /\ DOMAIN s = 1..Len(s)
    OBVIOUS
  <1>2. ToSet(s) = {s[i] : i \in 1..Len(s)}
    BY <1>1 DEF ToSet
  <1>3. s \in [1..Len(s) -> ToSet(s)]
    <2>1. \A i \in 1..Len(s) : s[i] \in ToSet(s)
      BY <1>2
    <2>2. s = [i \in 1..Len(s) |-> s[i]]
      BY <1>1
    <2> QED BY <2>1, <2>2
  <1>4. s \in Bijection(1..Len(s), ToSet(s))
    <2>1. s \in Injection(1..Len(s), ToSet(s))
      BY <1>1, <1>3 DEF Injection, IsInjective
    <2>2. \A x \in ToSet(s) : \E i \in 1..Len(s) : s[i] = x
      BY <1>2
    <2>3. s \in Surjection(1..Len(s), ToSet(s))
      BY <1>3, <2>2 DEF Surjection
    <2> QED BY <2>1, <2>3 DEF Bijection
  <1>5. ExistsBijection(1..Len(s), ToSet(s))
    BY <1>4 DEF ExistsBijection
  <1>6. IsFiniteSet(1..Len(s)) /\ Cardinality(1..Len(s)) = Len(s)
    BY <1>1, FS_Interval
  <1> QED BY <1>5, <1>6, FS_Bijection


LEMMA OneEntry ==
  ASSUME NEW S, NEW e \in S
  PROVE  <<e>> \in Seq(S)
  OBVIOUS


\* The cell behind the last element is none of those in use.
LEMMA RingApart ==
  ASSUME NEW c \in Nat \ {0}, NEW f \in 0..c-1, NEW n \in 0..c-1, NEW i \in 0..(n - 1)
  PROVE  (f + n) % c \in 0..c-1 /\ (f + i) % c \in 0..c-1 /\ (f + i) % c # (f + n) % c
  <1>1. f + n \in 0..(2 * c - 1) /\ f + i \in 0..(2 * c - 1)
    OBVIOUS
  <1>2. PICK z \in 0..(2 * c - 1) : z = f + n
    BY <1>1
  <1>3. PICK x \in 0..(2 * c - 1) : x = f + i
    BY <1>1
  <1>4. z % c = (IF z < c THEN z ELSE z - c) /\ z % c \in 0..c-1
    BY RingIndex
  <1>5. x % c = (IF x < c THEN x ELSE x - c) /\ x % c \in 0..c-1
    BY RingIndex
  <1>6. (IF x < c THEN x ELSE x - c) # (IF z < c THEN z ELSE z - c)
    BY <1>2, <1>3
  <1> QED BY <1>2, <1>3, <1>4, <1>5, <1>6

\* Steps round the ring add up.
LEMMA RingAdds ==
  ASSUME NEW c \in Nat \ {0}, NEW f \in 0..c-1, NEW k \in 0..c-1, NEW i \in 0..c-1
  PROVE  /\ (f + k) % c \in 0..c-1
         /\ (((f + k) % c) + i) % c = IF k + i < c THEN (f + (k + i)) % c ELSE (f + (k + i - c)) % c
  <1>1. PICK z \in 0..(2 * c - 1) : z = f + k
    OBVIOUS
  <1>2. PICK g \in 0..c-1 : g = z % c /\ g = IF z < c THEN z ELSE z - c
    BY RingIndex
  <1>3. PICK y \in 0..(2 * c - 1) : y = g + i
    OBVIOUS
  <1>4. y % c = IF y < c THEN y ELSE y - c
    BY RingIndex
  <1>5. ASSUME k + i < c PROVE (g + i) % c = (f + (k + i)) % c
    <2>1. PICK x \in 0..(2 * c - 1) : x = f + (k + i)
      BY <1>5
    <2>2. x % c = IF x < c THEN x ELSE x - c
      BY RingIndex
    <2>3. (IF x < c THEN x ELSE x - c) = (IF y < c THEN y ELSE y - c)
      BY <1>1, <1>2, <1>3, <2>1
    <2> QED BY <1>3, <1>4, <2>1, <2>2, <2>3
  <1>6. ASSUME ~(k + i < c) PROVE (g + i) % c = (f + (k + i - c)) % c
    <2>1. PICK x \in 0..(2 * c - 1) : x = f + (k + i - c)
      BY <1>6
    <2>2. x % c = IF x < c THEN x ELSE x - c
      BY RingIndex
    <2>3. (IF x < c THEN x ELSE x - c) = (IF y < c THEN y ELSE y - c)
      BY <1>1, <1>2, <1>3, <1>6, <2>1
    <2> QED BY <1>3, <1>4, <2>1, <2>2, <2>3
  <1>7. g = (f + k) % c
    BY <1>1, <1>2
  <1> QED BY <1>5, <1>6, <1>7

LEMMA CellIn ==
  ASSUME TmTypeOK, NEW i \in 0..Cap-1
  PROVE  Cell(i) \in 0..Cap-1
  BY TmNumbers, RingAdds DEF Cell

\* Where the elements are after a put and a take.
LEMMA PutLastLies ==
  ASSUME TmTypeOK, NEW CONSTANT V \in SUBSET Memory, RingOf(V), NEW v \in V, PutLast(v)
  PROVE  /\ RingOf(V)' /\ boxFront' = boxFront /\ boxCount' \in 0..Cap
         /\ cells' \in [0..Cap-1 -> Memory]
  <1>1. /\ Cap \in Nat \ {0} /\ boxFront \in 0..Cap-1 /\ boxCount \in 0..Cap-1
        /\ cells \in [0..Cap-1 -> Memory] /\ boxModel \in Seq(V) /\ Len(boxModel) = boxCount
    BY TmNumbers DEF PutLast, RingOf
  <1>2. PICK f \in 0..Cap-1, n \in 0..Cap-1 : f = boxFront /\ n = boxCount
    BY <1>1
  <1>3. PICK at \in 0..Cap-1 : at = (f + n) % Cap
    BY <1>1, RingAdds
  <1>4. /\ cells' = [cells EXCEPT ![at] = v] /\ boxCount' = n + 1 /\ boxFront' = f
        /\ boxModel' = Append(boxModel, v)
    BY <1>2, <1>3 DEF PutLast, Cell
  <1>5. /\ boxModel' \in Seq(V) /\ Len(boxModel') = n + 1
        /\ boxModel'[n + 1] = v /\ \A i \in 1..n : boxModel'[i] = boxModel[i]
    BY <1>1, <1>2, <1>4, AppendProperties
  <1>6. ASSUME NEW i \in 1..(n + 1) PROVE boxModel'[i] = cells'[(f + (i - 1)) % Cap]
    <2>1. CASE i = n + 1
      <3>1. f + (i - 1) = f + n
        BY <1>1, <2>1
      <3> QED BY <1>1, <1>3, <1>4, <1>5, <2>1, <3>1
    <2>2. CASE i # n + 1
      <3>1. PICK j \in 0..(n - 1) : j = i - 1 /\ i \in 1..n
        BY <1>1, <2>2
      <3>2. (f + j) % Cap \in 0..Cap-1 /\ (f + j) % Cap # at
        BY <1>1, <1>3, RingApart
      <3>3. boxModel[i] = cells[(f + j) % Cap]
        BY <1>2, <3>1 DEF RingOf, Cell
      <3> QED BY <1>1, <1>4, <1>5, <3>1, <3>2, <3>3
    <2> QED BY <2>1, <2>2
  <1>7. RingOf(V)'
    BY <1>4, <1>5, <1>6 DEF RingOf, Cell
  <1>8. cells' \in [0..Cap-1 -> Memory]
    BY <1>1, <1>4
  <1>9. boxCount' \in 0..Cap
    BY <1>1, <1>4
  <1> QED BY <1>2, <1>4, <1>7, <1>8, <1>9

\* A sequence with one element more in front.
LEMMA InFront ==
  ASSUME NEW V, NEW v \in V, NEW q \in Seq(V)
  PROVE  /\ <<v>> \o q \in Seq(V) /\ Len(<<v>> \o q) = Len(q) + 1 /\ (<<v>> \o q)[1] = v
         /\ \A i \in 2..(Len(q) + 1) : i - 1 \in 1..Len(q) /\ (<<v>> \o q)[i] = q[i - 1]
  <1>1. PICK one \in Seq(V) : one = <<v>>
    BY OneEntry
  <1>2. Len(one) = 1 /\ one[1] = v /\ Len(q) \in Nat
    BY <1>1
  <1>3. /\ one \o q \in Seq(V) /\ Len(one \o q) = Len(one) + Len(q)
        /\ \A i \in 1..(Len(one) + Len(q)) : (one \o q)[i] = IF i <= Len(one) THEN one[i] ELSE q[i - Len(one)]
    BY ONLY ConcatProperties, q \in Seq(V), one \in Seq(V)
  <1>4. Len(one \o q) = Len(q) + 1
    BY <1>2, <1>3
  <1>5. (one \o q)[1] = v
    BY <1>2, <1>3
  <1>6. \A i \in 2..(Len(q) + 1) : i - 1 \in 1..Len(q) /\ (one \o q)[i] = q[i - 1]
    BY <1>2, <1>3
  <1> QED BY <1>1, <1>3, <1>4, <1>5, <1>6

LEMMA PutFirstLies ==
  ASSUME TmTypeOK, NEW CONSTANT V \in SUBSET Memory, RingOf(V), NEW v \in V, PutFirst(v)
  PROVE  /\ RingOf(V)' /\ boxFront' \in 0..Cap-1 /\ boxCount' \in 0..Cap
         /\ cells' \in [0..Cap-1 -> Memory]
  <1>1. /\ Cap \in Nat \ {0} /\ boxFront \in 0..Cap-1 /\ boxCount \in 0..Cap-1
        /\ cells \in [0..Cap-1 -> Memory] /\ boxModel \in Seq(V) /\ Len(boxModel) = boxCount
    BY TmNumbers DEF PutFirst, RingOf
  <1>2. PICK f \in 0..Cap-1, n \in 0..Cap-1, k \in 0..Cap-1 : f = boxFront /\ n = boxCount /\ k = Cap - 1
    BY <1>1
  <1>3. PICK g \in 0..Cap-1 : g = (f + k) % Cap
    BY <1>1, RingAdds
  <1>4. /\ cells' = [cells EXCEPT ![g] = v] /\ boxCount' = n + 1 /\ boxFront' = g
        /\ boxModel' = <<v>> \o boxModel
    BY <1>2, <1>3 DEF PutFirst, Cell
  <1>5. /\ boxModel' \in Seq(V) /\ Len(boxModel') = n + 1 /\ boxModel'[1] = v
        /\ \A i \in 2..(n + 1) : i - 1 \in 1..n /\ boxModel'[i] = boxModel[i - 1]
    BY <1>1, <1>2, <1>4, InFront
  <1>6. ASSUME NEW i \in 1..(n + 1) PROVE boxModel'[i] = cells'[(g + (i - 1)) % Cap]
    <2>1. CASE i = 1
      <3>1. PICK z \in 0..(2 * Cap - 1) : z = g + (i - 1) /\ z = g /\ z < Cap
        BY <1>1, <2>1
      <3>2. z % Cap = g
        BY <1>1, <3>1, RingIndex
      <3> QED BY <1>1, <1>4, <1>5, <2>1, <3>1, <3>2
    <2>2. CASE i # 1
      <3>1. PICK j \in 0..(n - 1) : j = (i - 1) - 1 /\ i \in 2..(n + 1) /\ i - 1 \in 1..n
        BY <1>1, <2>2
      <3>2. PICK m \in 0..Cap-1 : m = i - 1
        BY <1>1, <3>1
      <3>3. (g + m) % Cap = (f + j) % Cap
        <4>1. ~(k + m < Cap) /\ k + m - Cap = j
          BY <1>1, <1>2, <3>1, <3>2
        <4>3. (((f + k) % Cap) + m) % Cap
                = IF k + m < Cap THEN (f + (k + m)) % Cap ELSE (f + (k + m - Cap)) % Cap
          <5>1. Cap \in Nat \ {0} /\ f \in 0..Cap-1 /\ k \in 0..Cap-1 /\ m \in 0..Cap-1
            BY <1>1
          <5> QED BY ONLY <5>1, RingAdds, Zenon
        <4>2. (((f + k) % Cap) + m) % Cap = (f + (k + m - Cap)) % Cap
          BY <4>1, <4>3
        <4> QED BY <1>3, <4>1, <4>2
      <3>4. (f + j) % Cap \in 0..Cap-1 /\ (f + j) % Cap # g
        <4>1. j \in 0..(k - 1)
          BY <1>1, <1>2, <3>1
        <4> QED BY <1>1, <1>3, <4>1, RingApart
      <3>5. boxModel[i - 1] = cells[(f + j) % Cap]
        BY <1>2, <3>1 DEF RingOf, Cell
      <3> QED BY <1>1, <1>4, <1>5, <3>1, <3>2, <3>3, <3>4, <3>5
    <2> QED BY <2>1, <2>2
  <1>7. RingOf(V)'
    BY <1>4, <1>5, <1>6 DEF RingOf, Cell
  <1>8. cells' \in [0..Cap-1 -> Memory]
    BY <1>1, <1>4
  <1>9. boxCount' \in 0..Cap
    BY <1>1, <1>4
  <1> QED BY <1>3, <1>4, <1>7, <1>8, <1>9

\* What a take gives is the element at that end of the model.
LEMMA TakeLastLies ==
  ASSUME TmTypeOK, NEW CONSTANT V \in SUBSET Memory, RingOf(V), TakeLast
  PROVE  /\ RingOf(V)' /\ boxFront' = boxFront /\ boxCount' \in 0..Cap /\ cells' = cells
         /\ AnswerGood' /\ boxModel # <<>> /\ boxModel' = Front(boxModel)
         /\ answer'.got = Last(boxModel)
  <1>1. /\ Cap \in Nat \ {0} /\ boxCount \in 1..Cap /\ boxModel \in Seq(V) /\ Len(boxModel) = boxCount
    BY TmNumbers DEF TakeLast, RingOf
  <1>2. /\ boxCount' = boxCount - 1 /\ boxModel' = Front(boxModel) /\ UNCHANGED <<cells, boxFront>>
        /\ answer' = [from |-> boxKind, got |-> cells[Cell(boxCount - 1)], due |-> Last(boxModel)]
    BY DEF TakeLast, Took
  <1>3. boxModel # <<>>
    BY <1>1
  <1>4. Last(boxModel) = cells[Cell(boxCount - 1)]
    <2>1. boxCount \in 1..boxCount
      BY <1>1
    <2> QED BY <1>1, <2>1 DEF RingOf, Last
  <1>5. /\ boxModel' \in Seq(V) /\ Len(boxModel') = boxCount - 1
        /\ \A i \in 1..(boxCount - 1) : boxModel'[i] = boxModel[i]
    BY <1>1, <1>2, <1>3, FrontIs
  <1>6. \A i \in 1..(boxCount - 1) : i \in 1..boxCount
    BY <1>1
  <1>7. RingOf(V)'
    BY <1>2, <1>5, <1>6 DEF RingOf, Cell
  <1>8. boxCount' \in 0..Cap
    BY <1>1, <1>2
  <1>9. answer'.got = Last(boxModel) /\ answer'.due = Last(boxModel)
    BY <1>2, <1>4
  <1> QED BY <1>2, <1>3, <1>7, <1>8, <1>9 DEF AnswerGood

LEMMA TakeFirstLies ==
  ASSUME TmTypeOK, NEW CONSTANT V \in SUBSET Memory, RingOf(V), TakeFirst
  PROVE  /\ RingOf(V)' /\ boxFront' \in 0..Cap-1 /\ boxCount' \in 0..Cap /\ cells' = cells
         /\ AnswerGood' /\ boxModel # <<>> /\ boxModel' = Tail(boxModel)
         /\ answer'.got = Head(boxModel)
  <1>1. /\ Cap \in Nat \ {0} /\ boxFront \in 0..Cap-1 /\ boxCount \in 1..Cap
        /\ boxModel \in Seq(V) /\ Len(boxModel) = boxCount
    BY TmNumbers DEF TakeFirst, RingOf
  <1>2. /\ boxFront' = Cell(1) /\ boxCount' = boxCount - 1 /\ boxModel' = Tail(boxModel) /\ cells' = cells
        /\ answer' = [from |-> boxKind, got |-> cells[boxFront], due |-> Head(boxModel)]
    BY DEF TakeFirst, Took
  <1>3. PICK f \in 0..Cap-1, n \in 1..Cap : f = boxFront /\ n = boxCount
    BY <1>1
  <1>4. PICK z \in 0..(2 * Cap - 1) : z = f + 1
    BY <1>1
  <1>5. PICK g \in 0..Cap-1 : g = (f + 1) % Cap
    BY <1>1, <1>4, RingIndex
  <1>6. boxModel # <<>> /\ 1 \in 1..n
    BY <1>1, <1>3
  <1>7. /\ boxModel' \in Seq(V) /\ Len(boxModel') = n - 1 /\ Head(boxModel) = boxModel[1]
        /\ \A i \in 1..(n - 1) : boxModel'[i] = boxModel[i + 1]
    BY <1>1, <1>2, <1>3, <1>6, HeadTailProperties
  <1>8. Head(boxModel) = cells[boxFront]
    <2>1. PICK y \in 0..(2 * Cap - 1) : y = f + (1 - 1) /\ y = f /\ y < Cap
      BY <1>1
    <2>2. y % Cap = f
      BY <1>1, <2>1, RingIndex
    <2>3. boxModel[1] = cells[(f + (1 - 1)) % Cap]
      BY <1>3, <1>6 DEF RingOf, Cell
    <2> QED BY <1>3, <1>7, <2>1, <2>2, <2>3
  <1>9. ASSUME NEW i \in 1..(n - 1) PROVE boxModel'[i] = cells[(g + (i - 1)) % Cap]
    <2>1. PICK k \in 1..n, j \in 0..Cap-1, one \in 0..Cap-1 : k = i + 1 /\ j = i - 1 /\ one = 1
      BY <1>1
    <2>2. boxModel[k] = cells[(f + (k - 1)) % Cap]
      BY <1>3, <2>1 DEF RingOf, Cell
    <2>3. one + j < Cap /\ one + j = k - 1
      BY <1>1, <2>1
    <2>4. (((f + one) % Cap) + j) % Cap = (f + (one + j)) % Cap
      BY <1>1, <2>3, RingAdds
    <2> QED BY <1>5, <1>7, <2>1, <2>2, <2>3, <2>4
  <1>a. boxFront' = g /\ boxCount' = n - 1
    BY <1>2, <1>3, <1>5 DEF Cell
  <1>b. RingOf(V)'
    BY <1>2, <1>7, <1>9, <1>a DEF RingOf, Cell
  <1>c. boxCount' \in 0..Cap
    BY <1>1, <1>a
  <1>d. answer'.got = Head(boxModel) /\ answer'.due = Head(boxModel)
    BY <1>2, <1>8
  <1> QED BY <1>2, <1>6, <1>a, <1>b, <1>c, <1>d DEF AnswerGood

\* What ends up in a deque after a push and after a pop.
LEMMA PushOwns ==
  ASSUME TmTypeOK, DequeOwns, NEW s \in Strs, strings[s] = "unborn",
         strings' = [strings EXCEPT ![s] = "alive"],
         boxModel' = <<s>> \o boxModel \/ boxModel' = Append(boxModel, s)
  PROVE  DequeOwns' /\ Len(boxModel') = Len(boxModel) + 1
  <1>1. boxModel \in Seq(Strs) /\ Len(boxModel) \in Nat
    BY DEF DequeOwns
  <1>2. strings \in [Strs -> {"unborn", "alive", "leaked", "freed"}]
    BY DEF TmTypeOK
  <1>3. \A i \in 1..Len(boxModel) : boxModel[i] \in Strs /\ boxModel[i] # s /\ strings'[boxModel[i]] = "alive"
    BY <1>1, <1>2 DEF DequeOwns
  <1>4. strings'[s] = "alive"
    BY <1>2
  <1>5. ASSUME boxModel' = Append(boxModel, s) PROVE DequeOwns' /\ Len(boxModel') = Len(boxModel) + 1
    <2>1. /\ boxModel' \in Seq(Strs) /\ Len(boxModel') = Len(boxModel) + 1 /\ boxModel'[Len(boxModel) + 1] = s
          /\ \A i \in 1..Len(boxModel) : boxModel'[i] = boxModel[i]
      BY <1>1, <1>5, AppendProperties
    <2>2. \A i \in 1..(Len(boxModel) + 1) : i \in 1..Len(boxModel) \/ i = Len(boxModel) + 1
      BY <1>1
    <2>3. \A i \in 1..Len(boxModel') : strings'[boxModel'[i]] = "alive"
      BY <1>3, <1>4, <2>1, <2>2
    <2>4. \A i, j \in 1..Len(boxModel') : boxModel'[i] = boxModel'[j] => i = j
      BY <1>3, <2>1, <2>2 DEF DequeOwns
    <2> QED BY <2>1, <2>3, <2>4 DEF DequeOwns
  <1>6. ASSUME boxModel' = <<s>> \o boxModel PROVE DequeOwns' /\ Len(boxModel') = Len(boxModel) + 1
    <2>0. PICK d \in Seq(Strs) : d = boxModel
      BY <1>1
    <2>a. PICK one \in Seq(Strs) : one = <<s>>
      BY OneEntry
    <2>1. d = boxModel /\ one = <<s>>
      BY <2>0, <2>a
    <2>2. Len(one) = 1 /\ one[1] = s /\ Len(d) \in Nat
      BY <2>1
    <2>3. /\ one \o d \in Seq(Strs) /\ Len(one \o d) = Len(one) + Len(d)
          /\ \A i \in 1..(Len(one) + Len(d)) : (one \o d)[i] = IF i <= Len(one) THEN one[i] ELSE d[i - Len(one)]
      BY ONLY ConcatProperties, d \in Seq(Strs), one \in Seq(Strs)
    <2>4. Len(one \o d) = Len(d) + 1
      BY <2>2, <2>3
    <2>5. (one \o d)[1] = s
      BY <2>2, <2>3
    <2>6. \A i \in 2..(Len(d) + 1) : i - 1 \in 1..Len(d) /\ (one \o d)[i] = d[i - 1]
      BY <2>2, <2>3
    <2>7. \A i \in 1..(Len(d) + 1) : i = 1 \/ i \in 2..(Len(d) + 1)
      BY <2>2
    <2>8. \A i \in 1..(Len(d) + 1) : strings'[(one \o d)[i]] = "alive"
      BY <1>3, <1>4, <2>1, <2>5, <2>6, <2>7
    <2>9. ASSUME NEW i \in 1..(Len(d) + 1), NEW j \in 1..(Len(d) + 1), (one \o d)[i] = (one \o d)[j]
          PROVE  i = j
      <3>1. CASE i = 1
        BY <1>3, <2>1, <2>5, <2>6, <2>7, <2>9, <3>1
      <3>2. CASE j = 1
        BY <1>3, <2>1, <2>5, <2>6, <2>7, <2>9, <3>2
      <3>3. CASE i # 1 /\ j # 1
        <4>1. PICK k \in 1..Len(d) : k = i - 1 /\ (one \o d)[i] = d[k]
          BY <2>6, <2>7, <3>3
        <4>2. PICK l \in 1..Len(d) : l = j - 1 /\ (one \o d)[j] = d[l]
          BY <2>6, <2>7, <3>3
        <4>3. k = l
          BY <2>1, <2>9, <4>1, <4>2 DEF DequeOwns
        <4> QED BY <4>1, <4>2, <4>3
      <3> QED BY <3>1, <3>2, <3>3
    <2> QED BY <1>6, <2>1, <2>3, <2>4, <2>8, <2>9 DEF DequeOwns
  <1> QED BY <1>5, <1>6

LEMMA PopOwns ==
  ASSUME TmTypeOK, DequeOwns, boxModel # <<>>,
         \/ boxModel' = Tail(boxModel) /\ strings' = [strings EXCEPT ![Head(boxModel)] = "leaked"]
         \/ boxModel' = Front(boxModel) /\ strings' = [strings EXCEPT ![Last(boxModel)] = "leaked"]
  PROVE  DequeOwns' /\ strings' \in [Strs -> {"unborn", "alive", "leaked", "freed"}]
  <1>1. boxModel # <<>> /\ boxModel \in Seq(Strs)
    BY DEF DequeOwns
  <1>2. /\ Len(boxModel) \in Nat \ {0} /\ Front(boxModel) \in Seq(Strs) /\ Len(Front(boxModel)) = Len(boxModel) - 1
        /\ \A i \in 1..(Len(boxModel) - 1) : Front(boxModel)[i] = boxModel[i]
    BY <1>1, FrontIs
  <1>3. /\ Tail(boxModel) \in Seq(Strs) /\ Len(Tail(boxModel)) = Len(boxModel) - 1
        /\ \A i \in 1..(Len(boxModel) - 1) : Tail(boxModel)[i] = boxModel[i + 1]
        /\ Head(boxModel) = boxModel[1]
    BY <1>1, HeadTailProperties
  <1>4. \A i \in 1..(Len(boxModel) - 1) : /\ i \in 1..Len(boxModel) /\ i + 1 \in 1..Len(boxModel)
                                       /\ i # Len(boxModel) /\ i + 1 # 1
    BY <1>2
  <1>5. 1 \in 1..Len(boxModel) /\ Len(boxModel) \in 1..Len(boxModel)
    BY <1>2
  <1>6. /\ \A i \in 1..Len(boxModel) : strings[boxModel[i]] = "alive" /\ boxModel[i] \in Strs
        /\ \A i, j \in 1..Len(boxModel) : boxModel[i] = boxModel[j] => i = j
        /\ strings \in [Strs -> {"unborn", "alive", "leaked", "freed"}]
    BY <1>1 DEF DequeOwns, TmTypeOK
  <1>7. CASE boxModel' = Tail(boxModel) /\ strings' = [strings EXCEPT ![Head(boxModel)] = "leaked"]
    <2>1. ASSUME NEW i \in 1..(Len(boxModel) - 1) PROVE strings'[boxModel'[i]] = "alive"
      <3>1. PICK k \in 1..Len(boxModel) : k = i + 1 /\ k # 1
        BY <1>4
      <3>2. boxModel'[i] = boxModel[k]
        BY <1>3, <1>7, <3>1
      <3>3. boxModel[k] # boxModel[1]
        BY <1>5, <1>6, <3>1
      <3> QED BY <1>3, <1>6, <1>7, <3>2, <3>3
    <2>2. ASSUME NEW i \in 1..(Len(boxModel) - 1), NEW j \in 1..(Len(boxModel) - 1), boxModel'[i] = boxModel'[j]
          PROVE  i = j
      <3>1. PICK k \in 1..Len(boxModel) : k = i + 1
        BY <1>4
      <3>2. PICK l \in 1..Len(boxModel) : l = j + 1
        BY <1>4
      <3>3. boxModel[k] = boxModel[l]
        BY <1>3, <1>7, <2>2, <3>1, <3>2
      <3>4. k = l
        BY <1>6, <3>3
      <3> QED BY <3>1, <3>2, <3>4
    <2>3. strings' \in [Strs -> {"unborn", "alive", "leaked", "freed"}]
      BY <1>6, <1>7
    <2> QED BY <1>2, <1>3, <1>7, <2>1, <2>2, <2>3 DEF DequeOwns
  <1>8. CASE boxModel' = Front(boxModel) /\ strings' = [strings EXCEPT ![Last(boxModel)] = "leaked"]
    <2>0. Last(boxModel) = boxModel[Len(boxModel)]
      BY DEF Last
    <2>1. \A i \in 1..(Len(boxModel) - 1) : strings'[boxModel'[i]] = "alive"
      BY <1>2, <1>4, <1>5, <1>6, <1>8, <2>0
    <2>2. \A i, j \in 1..(Len(boxModel) - 1) : boxModel'[i] = boxModel'[j] => i = j
      BY <1>2, <1>4, <1>6, <1>8
    <2>3. strings' \in [Strs -> {"unborn", "alive", "leaked", "freed"}]
      BY <1>6, <1>8
    <2> QED BY <1>2, <1>8, <2>1, <2>2, <2>3 DEF DequeOwns
  <1> QED BY <1>7, <1>8

LEMMA TmStack == TmInv /\ FdStack => TmInv'
  <1> SUFFICES ASSUME TmInv, FdStack PROVE TmInv'
    OBVIOUS
  <1>1. TmTypeOK /\ RingOf(TVals) /\ boxFront = 0 /\ boxAlive /\ boxKind = "stack" /\ TVals \in SUBSET Memory
    BY DEF TmInv, FdStack, BoxLies, Memory
  <1>2. UNCHANGED <<boxKind, boxAlive, strings>>
    BY DEF FdStack, box
  <1>3. ASSUME NEW v \in TVals, PutLast(v), UNCHANGED <<members, spoiled>> PROVE TmInv'
    <2>1. /\ RingOf(TVals)' /\ boxFront' = boxFront /\ boxCount' \in 0..Cap
          /\ cells' \in [0..Cap-1 -> Memory]
      BY <1>1, <1>3, PutLastLies
    <2>2. AnswerGood'
      BY <1>3, NothingAnswered DEF PutLast
    <2>3. TmTypeOK'
      BY <1>1, <1>2, <1>3, <2>1 DEF TmTypeOK
    <2> QED BY <1>1, <1>2, <2>1, <2>2, <2>3 DEF TmInv, BoxLies
  <1>4. ASSUME TakeLast, UNCHANGED <<members, spoiled>> PROVE TmInv'
    <2>1. /\ RingOf(TVals)' /\ boxFront' = boxFront /\ boxCount' \in 0..Cap /\ cells' = cells
          /\ AnswerGood'
      BY <1>1, <1>4, TakeLastLies
    <2>2. TmTypeOK'
      BY <1>1, <1>2, <1>4, <2>1 DEF TmTypeOK
    <2> QED BY <1>1, <1>2, <2>1, <2>2 DEF TmInv, BoxLies
  <1>5. ASSUME boxCount > 0, Looked("stack", cells[boxCount - 1], Last(boxModel)) PROVE TmInv'
    <2>1. /\ Cap \in Nat \ {0} /\ boxCount \in 1..Cap /\ Len(boxModel) = boxCount
      BY <1>1, <1>5, TmNumbers DEF RingOf
    <2>2. Last(boxModel) = cells[boxCount - 1]
      <3>1. PICK z \in 0..(2 * Cap - 1) : z = boxFront + (boxCount - 1) /\ z = boxCount - 1 /\ z < Cap
        BY <1>1, <2>1
      <3>2. z % Cap = z
        BY <2>1, <3>1, RingIndex
      <3>3. boxCount \in 1..boxCount
        BY <2>1
      <3>4. boxModel[boxCount] = cells[Cell(boxCount - 1)]
        BY <1>1, <3>3 DEF RingOf
      <3> QED BY <2>1, <3>1, <3>2, <3>4 DEF Cell, Last
    <2>3. AnswerGood'
      BY <1>5, <2>2, LookedGood
    <2>4. UNCHANGED <<cells, boxFront, boxCount, members, spoiled, boxModel>>
      BY <1>5 DEF Looked
    <2>5. RingOf(TVals)'
      BY <1>1, <2>4 DEF RingOf, Cell
    <2>6. TmTypeOK'
      BY <1>1, <1>2, <2>4 DEF TmTypeOK
    <2> QED BY <1>1, <1>2, <2>3, <2>4, <2>5, <2>6 DEF TmInv, BoxLies
  <1> QED BY <1>3, <1>4, <1>5 DEF FdStack

LEMMA TmQueue == TmInv /\ FdQueue => TmInv'
  <1> SUFFICES ASSUME TmInv, FdQueue PROVE TmInv'
    OBVIOUS
  <1>1. TmTypeOK /\ RingOf(TVals) /\ boxAlive /\ boxKind = "queue" /\ TVals \in SUBSET Memory
    BY DEF TmInv, FdQueue, BoxLies, Memory
  <1>2. UNCHANGED <<boxKind, boxAlive, strings>>
    BY DEF FdQueue, box
  <1>3. ASSUME NEW v \in TVals, PutLast(v), UNCHANGED <<members, spoiled>> PROVE TmInv'
    <2>1. /\ RingOf(TVals)' /\ boxFront' = boxFront /\ boxCount' \in 0..Cap
          /\ cells' \in [0..Cap-1 -> Memory]
      BY <1>1, <1>3, PutLastLies
    <2>2. AnswerGood'
      BY <1>3, NothingAnswered DEF PutLast
    <2>3. TmTypeOK'
      BY <1>1, <1>2, <1>3, <2>1 DEF TmTypeOK
    <2> QED BY <1>1, <1>2, <2>1, <2>2, <2>3 DEF TmInv, BoxLies
  <1>4. ASSUME TakeFirst, UNCHANGED <<members, spoiled>> PROVE TmInv'
    <2>1. /\ RingOf(TVals)' /\ boxFront' \in 0..Cap-1 /\ boxCount' \in 0..Cap /\ cells' = cells
          /\ AnswerGood'
      BY <1>1, <1>4, TakeFirstLies
    <2>2. TmTypeOK'
      BY <1>1, <1>2, <1>4, <2>1 DEF TmTypeOK
    <2> QED BY <1>1, <1>2, <2>1, <2>2 DEF TmInv, BoxLies
  <1>5. ASSUME NEW from, boxCount > 0, from = IF boxFront = 0 THEN "queue" ELSE "queuePeek",
               Looked(from, cells[0], Head(boxModel))
        PROVE  TmInv'
    <2>1. /\ Cap \in Nat \ {0} /\ boxCount \in 1..Cap /\ boxModel \in Seq(TVals) /\ Len(boxModel) = boxCount
      BY <1>1, <1>5, TmNumbers DEF RingOf
    <2>2. ASSUME boxFront = 0 PROVE cells[0] = Head(boxModel)
      <3>1. PICK z \in 0..(2 * Cap - 1) : z = boxFront + (1 - 1) /\ z = 0 /\ z < Cap
        BY <2>1, <2>2
      <3>2. z % Cap = z
        BY <2>1, <3>1, RingIndex
      <3>3. 1 \in 1..boxCount
        BY <2>1
      <3>4. boxModel[1] = cells[Cell(1 - 1)]
        BY <1>1, <3>3 DEF RingOf
      <3>5. Head(boxModel) = boxModel[1]
        BY <2>1
      <3> QED BY <3>1, <3>2, <3>4, <3>5 DEF Cell
    <2>3. from \in {"stack", "queue", "deque", "vec"} => cells[0] = Head(boxModel)
      BY <1>5, <2>2
    <2>4. AnswerGood'
      BY <1>5, <2>3, LookedGood
    <2>5. UNCHANGED <<cells, boxFront, boxCount, members, spoiled, boxModel>>
      BY <1>5 DEF Looked
    <2>6. RingOf(TVals)'
      BY <1>1, <2>5 DEF RingOf, Cell
    <2>7. TmTypeOK'
      BY <1>1, <1>2, <2>5 DEF TmTypeOK
    <2> QED BY <1>1, <1>2, <2>4, <2>5, <2>6, <2>7 DEF TmInv, BoxLies
  <1> QED BY <1>3, <1>4, <1>5 DEF FdQueue

LEMMA TmDeque == TmInv /\ CStrDeque => TmInv'
  <1> SUFFICES ASSUME TmInv, CStrDeque PROVE TmInv'
    OBVIOUS
  <1>1. /\ TmTypeOK /\ RingOf(Strs) /\ DequeOwns /\ boxAlive /\ boxKind = "deque"
        /\ Strs \in SUBSET Memory /\ strings \in StringTypes
    BY TmNumbers DEF TmInv, CStrDeque, BoxLies, Memory
  <1>2. UNCHANGED <<boxKind, boxAlive, members, spoiled>>
    BY DEF CStrDeque, box
  <1>3. ASSUME NEW s \in Strs, strings[s] = "unborn", PutFirst(s) \/ PutLast(s),
               strings' = [strings EXCEPT ![s] = "alive"]
        PROVE  TmInv'
    <2>1. /\ RingOf(Strs)' /\ boxFront' \in 0..Cap-1 /\ boxCount' \in 0..Cap
          /\ cells' \in [0..Cap-1 -> Memory]
      <3>1. CASE PutFirst(s)
        BY <1>1, <3>1, PutFirstLies
      <3>2. CASE PutLast(s)
        BY <1>1, <3>2, PutLastLies, TmNumbers
      <3> QED BY <1>3, <3>1, <3>2
    <2>2. answer' = NoAnswer /\ (boxModel' = <<s>> \o boxModel \/ boxModel' = Append(boxModel, s))
      BY <1>3 DEF PutFirst, PutLast
    <2>3. DequeOwns'
      BY <1>1, <1>3, <2>2, PushOwns
    <2>4. strings' \in StringTypes
      BY <1>1, <1>3 DEF StringTypes
    <2>5. TmTypeOK'
      BY <1>1, <1>2, <2>1, <2>4 DEF TmTypeOK, StringTypes
    <2>6. AnswerGood'
      BY <2>2, NothingAnswered
    <2> QED BY <1>1, <1>2, <2>1, <2>3, <2>5, <2>6 DEF TmInv, BoxLies
  <1>4. ASSUME NEW s \in Strs, strings[s] = "unborn", strings' = [strings EXCEPT ![s] = "freed"],
               answer' = NoAnswer, UNCHANGED <<cells, boxFront, boxCount, boxModel>>
        PROVE  TmInv'
    <2>1. \A i \in 1..Len(boxModel) : boxModel[i] \in Strs /\ boxModel[i] # s
      BY <1>1, <1>4 DEF DequeOwns
    <2>2. DequeOwns'
      BY <1>1, <1>4, <2>1 DEF DequeOwns, StringTypes
    <2>3. strings' \in StringTypes
      BY <1>1, <1>4 DEF StringTypes
    <2>4. TmTypeOK'
      BY <1>1, <1>2, <1>4, <2>3 DEF TmTypeOK, StringTypes
    <2>5. RingOf(Strs)'
      BY <1>1, <1>4 DEF RingOf, Cell
    <2>6. AnswerGood'
      BY <1>4, NothingAnswered
    <2> QED BY <1>1, <1>2, <2>2, <2>4, <2>5, <2>6 DEF TmInv, BoxLies
  <1>5. ASSUME TakeFirst \/ TakeLast, strings' = [strings EXCEPT ![answer'.got] = "leaked"]
        PROVE  TmInv'
    <2>1. /\ RingOf(Strs)' /\ boxFront' \in 0..Cap-1 /\ boxCount' \in 0..Cap /\ cells' = cells
          /\ AnswerGood' /\ boxModel # <<>>
          /\ \/ boxModel' = Tail(boxModel) /\ answer'.got = Head(boxModel)
             \/ boxModel' = Front(boxModel) /\ answer'.got = Last(boxModel)
      <3>1. CASE TakeFirst
        BY <1>1, <3>1, TakeFirstLies
      <3>2. CASE TakeLast
        BY <1>1, <3>2, TakeLastLies, TmNumbers
      <3> QED BY <1>5, <3>1, <3>2
    <2>2. \/ boxModel' = Tail(boxModel) /\ strings' = [strings EXCEPT ![Head(boxModel)] = "leaked"]
          \/ boxModel' = Front(boxModel) /\ strings' = [strings EXCEPT ![Last(boxModel)] = "leaked"]
      BY <1>5, <2>1
    <2>3. DequeOwns' /\ strings' \in [Strs -> {"unborn", "alive", "leaked", "freed"}]
      BY <1>1, <2>1, <2>2, PopOwns
    <2>4. TmTypeOK'
      BY <1>1, <1>2, <2>1, <2>3 DEF TmTypeOK
    <2> QED BY <1>1, <1>2, <2>1, <2>3, <2>4 DEF TmInv, BoxLies
  <1>6. PopString => TmInv'
    BY <1>5 DEF PopString
  <1>7. ASSUME NEW s \in Strs, PushString(s) PROVE TmInv'
    BY <1>3, <1>4, <1>7 DEF PushString
  <1> QED BY <1>6, <1>7 DEF CStrDeque

\* A pool that was never given back what it had not handed out counts what it hands out,
\* and so never more than its cells.
LEMMA TmPool == TmInv /\ FdPool => TmInv'
  <1> SUFFICES ASSUME TmInv, FdPool PROVE TmInv'
    OBVIOUS
  <1>1. TmTypeOK /\ PoolCounts /\ boxAlive /\ boxKind = "pool"
    BY DEF TmInv, FdPool, BoxLies
  <1>2. members \subseteq 0..Cap-1 /\ (~spoiled => boxCount = Cardinality(members)) /\ spoiled \in BOOLEAN
    BY <1>1 DEF PoolCounts, TmTypeOK
  <1>3. Cap \in Nat \ {0} /\ IsFiniteSet(0..Cap-1) /\ Cardinality(0..Cap-1) = Cap
    <2>1. Cap \in Nat \ {0} /\ 0 \in Int /\ Cap - 1 \in Int
      BY <1>1, TmNumbers
    <2>2. IsFiniteSet(0..Cap-1) /\ Cardinality(0..Cap-1) = IF 0 > Cap - 1 THEN 0 ELSE Cap - 1 - 0 + 1
      BY <2>1, FS_Interval
    <2> QED BY <2>1, <2>2
  <1>4. IsFiniteSet(members)
    BY <1>2, <1>3, FS_Subset
  <1>5. UNCHANGED <<boxKind, boxAlive, cells, boxFront, strings, boxModel>> /\ answer' = NoAnswer
    BY DEF FdPool, box
  <1>6. PICK i \in 0..Cap-1 : PoolAcquire(i) \/ PoolRelease(i)
    BY DEF FdPool
  <1>7. /\ members' \subseteq 0..Cap-1 /\ spoiled' \in BOOLEAN
        /\ spoiled' => boxCount' \in 0..Cap
        /\ ~spoiled' => boxCount' = Cardinality(members')
    <2>1. CASE PoolAcquire(i) /\ spoiled
      BY <1>2, <2>1 DEF PoolAcquire
    <2>2. CASE PoolAcquire(i) /\ ~spoiled
      <3>1. i \notin members /\ members' = members \cup {i} /\ boxCount' = boxCount + 1 /\ spoiled' = spoiled
        BY <2>2 DEF PoolAcquire
      <3>2. Cardinality(members \cup {i}) = Cardinality(members) + 1
        BY <1>4, <3>1, FS_AddElement
      <3> QED BY <1>2, <2>2, <3>1, <3>2
    <2>3. CASE PoolRelease(i) /\ spoiled'
      BY <1>2, <2>3 DEF PoolRelease
    <2>4. CASE PoolRelease(i) /\ ~spoiled'
      <3>1. ~spoiled /\ i \in members /\ members' = members \ {i} /\ boxCount' = boxCount - 1
        BY <2>4 DEF PoolRelease
      <3>2. Cardinality(members \ {i}) = Cardinality(members) - 1
        BY <1>4, <3>1, FS_RemoveElement
      <3>3. spoiled' \in BOOLEAN
        BY <2>4 DEF PoolRelease
      <3>4. boxCount = Cardinality(members)
        BY <1>2, <3>1
      <3> QED BY <1>2, <2>4, <3>1, <3>2, <3>3, <3>4
    <2> QED BY <1>6, <2>1, <2>2, <2>3, <2>4
  <1>8. Cardinality(members') \in 0..Cap
    <2>1. IsFiniteSet(members') /\ Cardinality(members') <= Cap
      BY <1>3, <1>7, FS_Subset
    <2>2. Cardinality(members') \in Nat
      BY <2>1, FS_CardinalityType
    <2> QED BY <1>3, <2>1, <2>2
  <1>9. boxCount' \in 0..Cap
    BY <1>7, <1>8
  <1>a. TmTypeOK'
    BY <1>1, <1>5, <1>7, <1>9 DEF TmTypeOK
  <1>b. PoolCounts'
    BY <1>7 DEF PoolCounts
  <1>c. AnswerGood'
    BY <1>5, NothingAnswered
  <1> QED BY <1>1, <1>5, <1>a, <1>b, <1>c DEF TmInv, BoxLies

\* A vec: a push makes room, a pop forgets that the last place was set.
LEMMA TmVec == TmInv /\ FdVec => TmInv'
  <1> SUFFICES ASSUME TmInv, FdVec PROVE TmInv'
    OBVIOUS
  <1>1. TmTypeOK /\ VecLies /\ boxAlive /\ boxKind = "vec" /\ TVals \in SUBSET Memory
    BY DEF TmInv, FdVec, BoxLies, Memory
  <1>2. UNCHANGED <<boxKind, boxAlive, boxFront, spoiled, strings>>
    BY DEF FdVec, box
  <1>3. /\ Cap \in Nat \ {0} /\ boxCount \in 0..Cap /\ cells \in [0..Cap-1 -> Memory]
        /\ boxModel \in Seq(TVals) /\ Len(boxModel) = boxCount /\ members \subseteq 0..boxCount-1
        /\ \A i \in members : cells[i] = boxModel[i + 1]
    BY <1>1, TmNumbers DEF VecLies
  <1>4. \A i \in 0..boxCount-1 : i \in 0..Cap-1 /\ i + 1 \in 1..boxCount
    BY <1>3
  <1>5. ASSUME VecLies', AnswerGood', boxCount' \in 0..Cap, cells' \in [0..Cap-1 -> Memory] PROVE TmInv'
    <2>1. TmTypeOK'
      BY <1>1, <1>2, <1>5 DEF TmTypeOK
    <2> QED BY <1>1, <1>2, <1>5, <2>1 DEF TmInv, BoxLies
  <1>6. ASSUME NEW v \in TVals, VecPush(v) PROVE TmInv'
    <2>1. /\ boxCount < Cap /\ boxCount' = boxCount + 1 /\ boxModel' = Append(boxModel, v)
          /\ cells' = cells /\ members' = members /\ answer' = NoAnswer
      BY <1>6 DEF VecPush
    <2>2. /\ boxModel' \in Seq(TVals) /\ Len(boxModel') = boxCount + 1
          /\ \A i \in 1..boxCount : boxModel'[i] = boxModel[i]
      BY <1>3, <2>1, AppendProperties
    <2>3. \A i \in members : i + 1 \in 1..boxCount
      BY <1>3, <1>4
    <2>4. members' \subseteq 0..boxCount'-1
      BY <1>3, <2>1
    <2>5. VecLies'
      BY <1>3, <2>1, <2>2, <2>3, <2>4 DEF VecLies
    <2>6. boxCount' \in 0..Cap /\ cells' \in [0..Cap-1 -> Memory]
      BY <1>3, <2>1
    <2> QED BY <1>5, <2>1, <2>5, <2>6, NothingAnswered
  <1>7. ASSUME VecPop PROVE TmInv'
    <2>1. /\ boxCount > 0 /\ boxCount' = boxCount - 1 /\ boxModel' = Front(boxModel)
          /\ members' = members \ {boxCount - 1} /\ cells' = cells /\ answer' = NoAnswer
      BY <1>7 DEF VecPop
    <2>2. /\ boxModel' \in Seq(TVals) /\ Len(boxModel') = boxCount - 1
          /\ \A i \in 1..(boxCount - 1) : boxModel'[i] = boxModel[i]
      <3>1. boxModel # <<>>
        BY <1>3, <2>1
      <3> QED BY <1>3, <2>1, <3>1, FrontIs
    <2>3. \A i \in members' : i \in members /\ i + 1 \in 1..(boxCount - 1)
      BY <1>3, <2>1
    <2>4. members' \subseteq 0..boxCount'-1
      BY <1>3, <2>1
    <2>5. VecLies'
      BY <1>3, <2>1, <2>2, <2>3, <2>4 DEF VecLies
    <2>6. boxCount' \in 0..Cap /\ cells' \in [0..Cap-1 -> Memory]
      BY <1>3, <2>1
    <2> QED BY <1>5, <2>1, <2>5, <2>6, NothingAnswered
  <1>8. ASSUME NEW i \in 0..boxCount-1, NEW v \in TVals, VecSet(i, v) PROVE TmInv'
    <2>1. /\ cells' = [cells EXCEPT ![i] = v] /\ boxModel' = [boxModel EXCEPT ![i + 1] = v]
          /\ members' = members \cup {i} /\ answer' = NoAnswer /\ boxCount' = boxCount
      BY <1>8 DEF VecSet
    <2>2. /\ boxModel' \in Seq(TVals) /\ Len(boxModel') = boxCount /\ boxModel'[i + 1] = v
          /\ \A j \in 1..boxCount : j # i + 1 => boxModel'[j] = boxModel[j]
      BY <1>3, <1>4, <2>1
    <2>3. cells' \in [0..Cap-1 -> Memory] /\ cells'[i] = v /\ \A j \in 0..Cap-1 : j # i => cells'[j] = cells[j]
      BY <1>1, <1>3, <1>4, <2>1
    <2>4. ASSUME NEW j \in members' PROVE cells'[j] = boxModel'[j + 1]
      <3>1. CASE j = i
        BY <2>2, <2>3, <3>1
      <3>2. CASE j # i
        <4>1. j \in members /\ j \in 0..boxCount-1
          BY <1>3, <2>1, <3>2
        <4>2. j \in 0..Cap-1 /\ j + 1 \in 1..boxCount /\ j + 1 # i + 1
          BY <1>4, <3>2, <4>1
        <4> QED BY <1>3, <2>2, <2>3, <3>2, <4>1, <4>2
      <3> QED BY <3>1, <3>2
    <2>5. members' \subseteq 0..boxCount'-1
      BY <1>3, <2>1
    <2>6. VecLies'
      BY <2>1, <2>2, <2>4, <2>5 DEF VecLies
    <2> QED BY <1>3, <1>5, <2>1, <2>3, <2>6, NothingAnswered
  <1>9. ASSUME NEW i \in 0..boxCount-1, VecGet(i) PROVE TmInv'
    <2>1. UNCHANGED <<cells, boxFront, boxCount, members, spoiled, boxModel>>
      BY <1>9 DEF VecGet, Looked
    <2>2. AnswerGood'
      <3>1. PICK from : /\ from = IF i \in members THEN "vec" ELSE "vecPush"
                        /\ Looked(from, cells[i], boxModel[i + 1])
        BY <1>9 DEF VecGet
      <3>2. from \in {"stack", "queue", "deque", "vec"} => cells[i] = boxModel[i + 1]
        BY <1>3, <3>1
      <3> QED BY <3>1, <3>2, LookedGood
    <2>3. VecLies'
      BY <1>1, <2>1 DEF VecLies
    <2> QED BY <1>3, <1>5, <2>1, <2>2, <2>3
  <1> QED BY <1>6, <1>7, <1>8, <1>9 DEF FdVec

\* Maps, sets and heaps: no answer of theirs is promised.
LEMMA TmOthers == TmInv /\ (FdMap \/ FdSet \/ FdHeap) => TmInv'
  <1> SUFFICES ASSUME TmInv, FdMap \/ FdSet \/ FdHeap PROVE TmInv'
    OBVIOUS
  <1>1. TmTypeOK
    BY DEF TmInv
  <1>2. Cap \in Nat \ {0} /\ boxCount \in 0..Cap
    BY <1>1, TmNumbers
  <1>3. UNCHANGED <<boxKind, boxAlive, cells, boxFront, strings>> /\ boxKind \in {"map", "set", "heap"}
    <2>1. CASE FdMap
      BY <2>1 DEF FdMap, box, MapInsert, MapGet, MapRemove, MapClear, Looked
    <2>2. CASE FdSet
      BY <2>2 DEF FdSet, box
    <2>3. CASE FdHeap
      BY <2>3 DEF FdHeap, box
    <2> QED BY <2>1, <2>2, <2>3
  <1>4. spoiled' \in BOOLEAN /\ boxCount' \in 0..Cap
    <2>1. spoiled \in BOOLEAN
      BY <1>1 DEF TmTypeOK
    <2>2. CASE FdMap
      BY <1>2, <2>1, <2>2 DEF FdMap, MapInsert, MapGet, MapRemove, MapClear, Looked
    <2>3. CASE FdSet
      BY <1>2, <2>1, <2>3 DEF FdSet
    <2>4. CASE FdHeap
      BY <1>2, <2>1, <2>4 DEF FdHeap
    <2> QED BY <2>2, <2>3, <2>4
  <1>5. AnswerGood'
    <2>1. CASE FdMap
      <3>1. ASSUME MapGet PROVE AnswerGood'
        <4>1. PICK i \in 1..Len(boxModel), v \in Memory : Looked("mapGet", v, boxModel[i][2])
          BY <3>1 DEF MapGet
        <4> QED BY <4>1, LookedGood
      <3>2. (\E k, v \in TVals : MapInsert(k, v)) \/ MapRemove \/ MapClear => answer' = NoAnswer
        BY DEF MapInsert, MapRemove, MapClear
      <3> QED BY <2>1, <3>1, <3>2, NothingAnswered DEF FdMap
    <2>2. CASE FdSet
      BY <2>2, NothingAnswered DEF FdSet
    <2>3. CASE FdHeap
      BY <2>3, NothingAnswered DEF FdHeap
    <2> QED BY <2>1, <2>2, <2>3
  <1>6. TmTypeOK'
    BY <1>1, <1>3, <1>4 DEF TmTypeOK
  <1>7. BoxLies'
    BY <1>3 DEF BoxLies
  <1> QED BY <1>5, <1>6, <1>7 DEF TmInv

LEMMA TmStep == TmInv /\ TmNext => TmInv'
  <1> SUFFICES ASSUME TmInv, TmNext PROVE TmInv'
    OBVIOUS
  <1>1. TmTypeOK
    BY DEF TmInv
  <1>2. /\ Cap \in Nat \ {0} /\ boxFront \in 0..Cap-1 /\ boxCount \in 0..Cap /\ strings \in StringTypes
    BY <1>1, TmNumbers
  <1>3. CASE NewBox
    <2>1. 0 \in 0..Cap-1 /\ 0 \in 0..Cap /\ FALSE \in BOOLEAN
      BY <1>2
    <2>2. TmTypeOK'
      BY <1>1, <1>3, <2>1 DEF NewBox, TmTypeOK
    <2>3. AnswerGood'
      BY <1>3, NothingAnswered DEF NewBox
    <2>4. Cardinality({}) = 0
      BY FS_EmptySet
    <2>5. boxModel' = <<>> /\ boxCount' = 0 /\ boxFront' = 0 /\ members' = {} /\ strings' = strings
      BY <1>3 DEF NewBox
    <2>6. RingOf(TVals)' /\ RingOf(Strs)'
      BY <2>5 DEF RingOf
    <2>7. DequeOwns' /\ VecLies' /\ PoolCounts'
      BY <2>4, <2>5 DEF DequeOwns, VecLies, PoolCounts
    <2> QED BY <2>2, <2>3, <2>5, <2>6, <2>7 DEF TmInv, BoxLies
  <1>4. CASE DropBox
    <2>1. strings' \in StringTypes
      BY <1>2, <1>4 DEF DropBox, StringTypes
    <2>2. TmTypeOK'
      BY <1>1, <1>4, <2>1 DEF DropBox, TmTypeOK, StringTypes
    <2>3. AnswerGood'
      BY <1>4, NothingAnswered DEF DropBox
    <2> QED BY <1>4, <2>2, <2>3 DEF DropBox, TmInv, BoxLies
  <1> QED BY <1>3, <1>4, TmStack, TmQueue, TmPool, TmDeque, TmVec, TmOthers DEF TmNext

\* ContainersSound: whatever the capacity and the order of the calls, and over any wrap of
\* the ring, a pop and a peek of a stack, a pop of a queue and of a deque, a peek at a queue
\* that starts at cell 0 and a get of a place of a vec that was set give what was put
\* there; the strings in a deque are alive and distinct, and a pool that was given back
\* only what was in use counts what it handed out.
THEOREM ContainersAlwaysSound == TmSpec => [](TmTypeOK /\ ContainersSound)
  <1>1. TmInit => TmInv
    <2> SUFFICES ASSUME TmInit PROVE TmInv
      OBVIOUS
    <2>1. Cap \in Nat \ {0} /\ 0 \in 0..Cap-1 /\ 0 \in 0..Cap
      BY TmplAssumption
    <2>2. cells \in [0..Cap-1 -> Memory]
      BY DEF TmInit, Memory
    <2>3. TmTypeOK
      BY <2>1, <2>2 DEF TmInit, TmTypeOK
    <2> QED BY <2>3 DEF TmInit, TmInv, BoxLies, AnswerGood, NoAnswer
  <1>2. TmInv /\ UNCHANGED tmVars => TmInv'
    <2> SUFFICES ASSUME TmInv, UNCHANGED tmVars PROVE TmInv'
      OBVIOUS
    <2>1. TmTypeOK' /\ AnswerGood'
      BY DEF tmVars, TmInv, TmTypeOK, AnswerGood
    <2>2. BoxLies'
      BY DEF tmVars, TmInv, BoxLies, RingOf, Cell, DequeOwns, VecLies, PoolCounts
    <2> QED BY <2>1, <2>2 DEF TmInv
  <1>3. ASSUME TmInv PROVE ContainersSound
    <2>1. TmTypeOK /\ BoxLies /\ AnswerGood
      BY <1>3 DEF TmInv
    <2>2. ASSUME boxAlive, boxKind = "deque"
          PROVE  /\ \A i \in 1..Len(boxModel) : strings[boxModel[i]] = "alive"
                 /\ Cardinality(ToSet(boxModel)) = Len(boxModel)
      <3>1. DequeOwns
        BY <2>1, <2>2 DEF BoxLies
      <3> QED BY <3>1, OnceCounts DEF DequeOwns
    <2>3. boxAlive /\ boxKind = "pool" /\ ~spoiled => boxCount = Cardinality(members)
      BY <2>1 DEF BoxLies, PoolCounts
    <2> QED BY <2>1, <2>2, <2>3 DEF ContainersSound, AnswerGood
  <1>4. TmInv => TmTypeOK /\ ContainersSound
    BY <1>3 DEF TmInv
  <1> QED BY <1>1, <1>2, <1>4, TmStep, PTL DEF TmSpec

-----------------------------------------------------------------------------
(***************************************************************************)
(* The types of the clock, which rest on the order of its calls: only a    *)
(* complete ClockShmem is joined, and only a sized segment gets a clock.   *)
(***************************************************************************)

ClNumbers ==
  /\ cName \in CSegs \cup {NoSeg} /\ sized \subseteq segs /\ ticking \subseteq sized
  /\ cJoins \in [CProcs -> 0..JoinsMax] /\ epoch \in [CSegs -> 0..EpochMax]
  /\ cached \in [CProcs -> 0..EpochMax]

ClRoles ==
  \A p \in CProcs :
     /\ shm[p].role # "none" => shm[p].seg \in segs
     /\ shm[p].role \in {"sized", "mapped", "owner"} => shm[p].seg \in sized
     /\ cJoins[p] > 0 => shm[p].role \in {"owner", "ownerPtr", "observer", "observerPtr"}

\* A change of one ClockShmem keeps ClRoles when it keeps it for that one.
LEMMA RolesStep ==
  ASSUME ClockShape, ClNumbers, ClRoles, NEW p \in CProcs, NEW role \in Roles,
         NEW s \in CSegs \cup {NoSeg}, Becomes(p, role, s),
         segs \subseteq segs', sized \subseteq sized', cJoins' = cJoins,
         role # "none" => s \in segs',
         role \in {"sized", "mapped", "owner"} => s \in sized',
         role \in {"owner", "ownerPtr", "observer", "observerPtr"} \/ ~(cJoins[p] > 0)
  PROVE  ClRoles'
  <1>1. /\ shm'[p].role = role /\ shm'[p].seg = s
        /\ \A q \in CProcs : q # p => shm'[q] = shm[q]
    BY BecomesFact
  <1>2. ASSUME NEW q \in CProcs
        PROVE  /\ shm'[q].role # "none" => shm'[q].seg \in segs'
               /\ shm'[q].role \in {"sized", "mapped", "owner"} => shm'[q].seg \in sized'
               /\ cJoins'[q] > 0 => shm'[q].role \in {"owner", "ownerPtr", "observer", "observerPtr"}
    <2>1. CASE q = p
      BY <1>1, <2>1
    <2>2. CASE q # p
      BY <1>1, <2>2 DEF ClRoles
    <2> QED BY <2>1, <2>2
  <1> QED BY <1>2 DEF ClRoles

LEMMA ClTypesStep ==
  ASSUME ClockInv, ClNumbers, ClRoles, [ClNext]_clVars
  PROVE  ClNumbers' /\ ClRoles'
  <1>1. ClockShape /\ Reached
    BY DEF ClockInv
  <1>2. JoinsMax \in Nat /\ EpochMax \in Nat /\ 0 \in 0..EpochMax /\ 1 \in 0..EpochMax
    BY ClockAssumption
  <1>3. \A p \in CProcs : shm[p].role \in Roles /\ shm[p].seg \in CSegs \cup {NoSeg}
    BY <1>1 DEF ClockShape
  <1>4. \A p \in CProcs : shm[p].role # "none" => shm[p].seg \in CSegs
    BY <1>1 DEF ClRoles, ClockShape
  <1>5. \A p \in CProcs : shm[p] = NoShm => ~(cJoins[p] > 0)
    BY DEF ClRoles, NoShm
  <1>6. CASE UNCHANGED clVars
    BY <1>6 DEF clVars, ClNumbers, ClRoles
  <1>7. ASSUME NEW p \in CProcs, OpenCreate(p) PROVE ClNumbers' /\ ClRoles'
    <2>1. PICK s \in CSegs : cName' = s /\ segs' = segs \cup {s} /\ Becomes(p, "opened", s)
      BY <1>7 DEF OpenCreate
    <2>2. ~(cJoins[p] > 0) /\ UNCHANGED <<sized, ticking, cJoins, epoch, cached>>
      BY <1>5, <1>7 DEF OpenCreate
    <2>3. ClRoles'
      BY <1>1, <2>1, <2>2, RolesStep DEF Roles, Creating
    <2> QED BY <2>1, <2>2, <2>3 DEF ClNumbers
  <1>8. ASSUME NEW p \in CProcs, Truncate(p) PROVE ClNumbers' /\ ClRoles'
    <2>1. /\ shm[p].role = "opened" /\ shm[p].seg \in CSegs /\ shm[p].seg \in segs
          /\ UNCHANGED <<cName, segs, ticking, creators, maps, cJoins, epoch, cached>>
      BY <1>4, <1>8 DEF Truncate, ClRoles
    <2>2. ~(cJoins[p] > 0)
      BY <2>1 DEF ClRoles
    <2>3. CASE sized' = sized \cup {shm[p].seg} /\ Becomes(p, "sized", shm[p].seg)
      <3>1. PICK s \in CSegs : s = shm[p].seg
        BY <2>1
      <3>2. ClRoles'
        BY <1>1, <2>1, <2>2, <2>3, <3>1, RolesStep DEF Roles, Creating
      <3>3. ClNumbers'
        BY <2>1, <2>3 DEF ClNumbers
      <3> QED BY <3>2, <3>3
    <2>4. CASE Becomes(p, "none", NoSeg) /\ UNCHANGED sized
      <3>1. ClRoles'
        BY <1>1, <2>1, <2>2, <2>4, RolesStep DEF Roles
      <3>2. ClNumbers'
        BY <2>1, <2>4 DEF ClNumbers
      <3> QED BY <3>1, <3>2
    <2> QED BY <1>8, <2>3, <2>4 DEF Truncate
  <1>9. ASSUME NEW p \in CProcs, Map(p) PROVE ClNumbers' /\ ClRoles'
    <2>1. /\ shm[p].role = "sized" /\ shm[p].seg \in CSegs /\ shm[p].seg \in segs /\ shm[p].seg \in sized
          /\ UNCHANGED <<cName, segs, sized, ticking, creators, cJoins, epoch, cached>>
      BY <1>4, <1>9 DEF Map, ClRoles
    <2>2. ~(cJoins[p] > 0)
      BY <2>1 DEF ClRoles
    <2>3. ClNumbers'
      BY <2>1 DEF ClNumbers
    <2>4. CASE Becomes(p, "mapped", shm[p].seg)
      BY <1>1, <2>1, <2>2, <2>3, <2>4, RolesStep DEF Roles, Creating
    <2>5. CASE Becomes(p, "none", NoSeg)
      BY <1>1, <2>1, <2>2, <2>3, <2>5, RolesStep DEF Roles
    <2> QED BY <1>9, <2>4, <2>5 DEF Map
  <1>10. ASSUME NEW p \in CProcs, NewClock(p) PROVE ClNumbers' /\ ClRoles'
    <2>1. /\ shm[p].role = "mapped" /\ shm[p].seg \in CSegs /\ shm[p].seg \in segs /\ shm[p].seg \in sized
          /\ UNCHANGED <<segs, sized, creators, cJoins, cached>>
      BY <1>4, <1>10 DEF NewClock, ClRoles
    <2>2. ~(cJoins[p] > 0)
      BY <2>1 DEF ClRoles
    <2>3. CASE /\ ticking' = ticking \cup {shm[p].seg} /\ epoch' = [epoch EXCEPT ![shm[p].seg] = 1]
               /\ Becomes(p, "owner", shm[p].seg) /\ cName' = cName
      <3>1. ClRoles'
        BY <1>1, <2>1, <2>2, <2>3, RolesStep DEF Roles, Creating
      <3>2. ClNumbers'
        BY <1>2, <2>1, <2>3 DEF ClNumbers
      <3> QED BY <3>1, <3>2
    <2>4. CASE cName' = NoSeg /\ Becomes(p, "none", NoSeg) /\ UNCHANGED <<ticking, epoch>>
      <3>1. ClRoles'
        BY <1>1, <2>1, <2>2, <2>4, RolesStep DEF Roles
      <3>2. ClNumbers'
        BY <2>1, <2>4 DEF ClNumbers
      <3> QED BY <3>1, <3>2
    <2> QED BY <1>10, <2>3, <2>4 DEF NewClock
  <1>11. ASSUME NEW p \in CProcs, OpenClock(p) PROVE ClNumbers' /\ ClRoles'
    <2>1. /\ ~(cJoins[p] > 0) /\ cName \in CSegs /\ cName \in segs
          /\ UNCHANGED <<cName, segs, sized, ticking, creators, cJoins, epoch, cached>>
      BY <1>1, <1>5, <1>11 DEF OpenClock, ClNumbers, Reached
    <2>2. ClNumbers'
      BY <2>1 DEF ClNumbers
    <2>3. CASE Becomes(p, "observer", cName)
      BY <1>1, <2>1, <2>2, <2>3, RolesStep DEF Roles
    <2>4. CASE UNCHANGED shm
      BY <2>1, <2>2, <2>4 DEF ClRoles
    <2> QED BY <1>11, <2>3, <2>4 DEF OpenClock
  <1>12. ASSUME NEW p \in CProcs, InitFromPtr(p) PROVE ClNumbers' /\ ClRoles'
    <2>1. PICK s \in CSegs \ segs :
             /\ segs' = segs \cup {s} /\ sized' = sized \cup {s}
             /\ \/ ticking' = ticking \cup {s} /\ epoch' = [epoch EXCEPT ![s] = 1] /\ Becomes(p, "ownerPtr", s)
                \/ UNCHANGED <<ticking, epoch, shm>>
      BY <1>12 DEF InitFromPtr
    <2>2. ~(cJoins[p] > 0) /\ UNCHANGED <<cName, creators, cJoins, cached>>
      BY <1>5, <1>12 DEF InitFromPtr
    <2>3. CASE ticking' = ticking \cup {s} /\ epoch' = [epoch EXCEPT ![s] = 1] /\ Becomes(p, "ownerPtr", s)
      <3>1. ClRoles'
        BY <1>1, <2>1, <2>2, <2>3, RolesStep DEF Roles
      <3>2. ClNumbers'
        BY <1>2, <2>1, <2>2, <2>3 DEF ClNumbers
      <3> QED BY <3>1, <3>2
    <2>4. CASE UNCHANGED <<ticking, epoch, shm>>
      <3>1. ClRoles'
        BY <2>1, <2>2, <2>4 DEF ClRoles
      <3>2. ClNumbers'
        BY <2>1, <2>2, <2>4 DEF ClNumbers
      <3> QED BY <3>1, <3>2
    <2> QED BY <2>1, <2>3, <2>4
  <1>13. ASSUME NEW p \in CProcs, FromPtr(p) PROVE ClNumbers' /\ ClRoles'
    <2>1. PICK q \in CProcs : shm[q].role = "ownerPtr" /\ Becomes(p, "observerPtr", shm[q].seg)
      BY <1>13 DEF FromPtr
    <2>2. /\ ~(cJoins[p] > 0) /\ shm[q].seg \in CSegs /\ shm[q].seg \in segs
          /\ UNCHANGED <<cName, segs, sized, ticking, creators, cJoins, epoch, cached>>
      BY <1>4, <1>5, <1>13, <2>1 DEF FromPtr, ClRoles
    <2>3. ClRoles'
      BY <1>1, <2>1, <2>2, RolesStep DEF Roles
    <2> QED BY <2>2, <2>3 DEF ClNumbers
  <1>14. ASSUME NEW p \in CProcs, DropClockShmem(p) PROVE ClNumbers' /\ ClRoles'
    <2>1. /\ cJoins[p] = 0 /\ Becomes(p, "none", NoSeg) /\ ticking' \subseteq ticking
          /\ cName' \in {cName, NoSeg} /\ UNCHANGED <<segs, sized, creators, cJoins, epoch, cached>>
      BY <1>14 DEF DropClockShmem
    <2>2. ~(cJoins[p] > 0)
      BY <2>1
    <2>3. ClRoles'
      BY <1>1, <2>1, <2>2, RolesStep DEF Roles
    <2> QED BY <2>1, <2>3 DEF ClNumbers
  <1>15. ASSUME NEW p \in CProcs, JoinClock(p) PROVE ClNumbers' /\ ClRoles'
    <2>1. /\ shm[p].role \in {"owner", "ownerPtr", "observer", "observerPtr"} /\ cJoins[p] < JoinsMax
          /\ UNCHANGED <<cName, segs, sized, ticking, creators, epoch>>
      BY <1>15 DEF JoinClock
    <2>2. CASE /\ UNCHANGED <<shm, fds, maps, cached>>
               /\ (cJoins' = cJoins \/ cJoins' = [cJoins EXCEPT ![p] = @ + 1])
      <3>1. cJoins[p] \in 0..JoinsMax /\ cJoins[p] + 1 \in 0..JoinsMax
        BY <1>2, <2>1 DEF ClNumbers
      <3>2. ClNumbers'
        BY <2>1, <2>2, <3>1 DEF ClNumbers
      <3>3. ClRoles'
        BY <2>1, <2>2 DEF ClNumbers, ClRoles
      <3> QED BY <3>2, <3>3
    <2>3. CASE DieOnAccess(p)
      <3>1. /\ Becomes(p, "none", NoSeg)
            /\ cJoins' = [cJoins EXCEPT ![p] = 0] /\ cached' = [cached EXCEPT ![p] = 0]
        BY <2>3 DEF DieOnAccess
      <3>2. shm'[p].role = "none" /\ \A q \in CProcs : q # p => shm'[q] = shm[q]
        BY <1>1, <3>1, BecomesFact DEF Roles
      <3>3. 0 \in 0..JoinsMax /\ 0 \in 0..EpochMax /\ ~(0 > 0)
        BY <1>2
      <3>4. cJoins'[p] = 0 /\ \A q \in CProcs : q # p => cJoins'[q] = cJoins[q]
        BY <3>1 DEF ClNumbers
      <3>5. ClNumbers'
        BY <2>1, <3>1, <3>3 DEF ClNumbers
      <3>6. ClRoles'
        BY <2>1, <3>2, <3>3, <3>4 DEF ClRoles
      <3> QED BY <3>5, <3>6
    <2> QED BY <1>15, <2>2, <2>3 DEF JoinClock
  <1>16. ASSUME NEW p \in CProcs, LeaveClock(p) PROVE ClNumbers' /\ ClRoles'
    <2>1. /\ cJoins[p] > 0 /\ cJoins' = [cJoins EXCEPT ![p] = @ - 1]
          /\ UNCHANGED <<cName, segs, sized, ticking, creators, shm, fds, maps, epoch, cached>>
      BY <1>16 DEF LeaveClock
    <2>2. cJoins[p] \in 0..JoinsMax /\ cJoins[p] - 1 \in 0..JoinsMax
      BY <1>2, <2>1 DEF ClNumbers
    <2>3. ClNumbers'
      BY <2>1, <2>2 DEF ClNumbers
    <2>4. ClRoles'
      BY <2>1 DEF ClNumbers, ClRoles
    <2> QED BY <2>3, <2>4
  <1>17. ASSUME NEW p \in CProcs, Recalibrate(p) PROVE ClNumbers' /\ ClRoles'
    <2>1. /\ shm[p].seg \in CSegs /\ epoch[shm[p].seg] < EpochMax
          /\ epoch' = [epoch EXCEPT ![shm[p].seg] = @ + 1]
          /\ UNCHANGED <<cName, segs, sized, ticking, creators, shm, fds, maps, cJoins, cached>>
      BY <1>4, <1>17 DEF Recalibrate, ClRoles
    <2>2. epoch[shm[p].seg] + 1 \in 0..EpochMax
      BY <1>2, <2>1 DEF ClNumbers
    <2>3. ClNumbers'
      BY <2>1, <2>2 DEF ClNumbers
    <2>4. ClRoles'
      BY <2>1 DEF ClRoles
    <2> QED BY <2>3, <2>4
  <1>18. ASSUME NEW p \in CProcs, RefreshEpoch(p) PROVE ClNumbers' /\ ClRoles'
    <2>1. /\ shm[p].seg \in CSegs /\ cached' = [cached EXCEPT ![p] = epoch[shm[p].seg]]
          /\ UNCHANGED <<cName, segs, sized, ticking, creators, shm, fds, maps, cJoins, epoch>>
      BY <1>4, <1>18 DEF RefreshEpoch, ClRoles
    <2>2. epoch[shm[p].seg] \in 0..EpochMax
      BY <2>1 DEF ClNumbers
    <2>3. ClNumbers'
      BY <2>1, <2>2 DEF ClNumbers
    <2>4. ClRoles'
      BY <2>1 DEF ClRoles
    <2> QED BY <2>3, <2>4
  <1> QED BY <1>6, <1>7, <1>8, <1>9, <1>10, <1>11, <1>12, <1>13, <1>14, <1>15, <1>16, <1>17, <1>18
          DEF ClNext

\* Descriptors and mappings are of segments that exist, clocks are in segments with a size,
\* and the counts of joins and epochs stay in their ranges.
THEOREM ClockTypeCorrect == ClSpec => []ClTypeOK
  <1>1. ClInit => ClNumbers /\ ClRoles
    <2>1. 0 \in 0..JoinsMax /\ 0 \in 0..EpochMax /\ ~(0 > 0)
      BY ClockAssumption
    <2> QED BY <2>1 DEF ClInit, ClNumbers, ClRoles, NoShm
  <1>2. ClockInv /\ ClNumbers /\ ClRoles /\ [ClNext]_clVars => ClNumbers' /\ ClRoles'
    BY ClTypesStep
  <1>3. ASSUME ClockInv, ClNumbers, ClRoles PROVE ClTypeOK
    <2>1. ASSUME NEW p \in CProcs
          PROVE  /\ fds[p] \subseteq segs /\ maps[p] \subseteq segs
                 /\ cJoins[p] \in 0..JoinsMax /\ cached[p] \in 0..EpochMax
      <3>1. fds[p] = {} \/ (fds[p] = {shm[p].seg} /\ shm[p].role # "none")
        BY <1>3 DEF ClockInv, Holdings, Creating
      <3>2. maps[p] = {} \/ (maps[p] = {shm[p].seg} /\ shm[p].role # "none")
        BY <1>3 DEF ClockInv, Holdings, Creating
      <3>3. shm[p].role # "none" => shm[p].seg \in segs
        BY <1>3 DEF ClRoles
      <3>4. fds[p] \subseteq segs /\ maps[p] \subseteq segs
        BY <3>1, <3>2, <3>3
      <3>5. cJoins[p] \in 0..JoinsMax /\ cached[p] \in 0..EpochMax
        BY <1>3 DEF ClNumbers
      <3> QED BY <3>4, <3>5
    <2>2. segs \subseteq CSegs
      BY <1>3 DEF ClockInv, ClockShape
    <2> QED BY <1>3, <2>1, <2>2 DEF ClNumbers, ClTypeOK
  <1>4. ClockInv /\ ClNumbers /\ ClRoles => ClTypeOK
    BY <1>3
  <1> QED BY <1>1, <1>2, <1>4, ClockInvariant, PTL DEF ClSpec

-----------------------------------------------------------------------------
(***************************************************************************)
(* The components together.  A step is of the component in focus and       *)
(* leaves the others alone, so a behaviour of the composition is a         *)
(* behaviour of each of them.                                              *)
(***************************************************************************)

LEMMA MCStep ==
  ASSUME [MCNext]_memoryVars
  PROVE  /\ [WkspNext]_wkspVars /\ [ShmemNext]_shmemVars /\ [ScratchNext]_scratchVars
         /\ [CheckptNext]_checkptVars /\ [ClNext]_clVars /\ [TmNext]_tmVars
         /\ [VaNext]_vaVars /\ [SbNext]_sbVars /\ [VmNext]_vmVars
  <1>1. CASE MCNext
    BY <1>1 DEF MCNext
  <1>2. CASE UNCHANGED memoryVars
    BY <1>2 DEF memoryVars
  <1> QED BY <1>1, <1>2

LEMMA MCImplements ==
  MCSpec => /\ WkspSpec /\ ShmemSpec /\ ScratchSpec /\ CheckptSpec /\ ClSpec
            /\ TmSpec /\ VaSpec /\ SbSpec /\ VmSpec
  BY MCStep, PTL
     DEF MCSpec, MCInit, WkspSpec, ShmemSpec, ScratchSpec, CheckptSpec, ClSpec, TmSpec,
         VaSpec, SbSpec, VmSpec

\* StorageSound, throughout the composition and for any processes, threads, sizes and
\* capacities: queries, joins, containers, allocators, loaded programs and machines keep
\* what their parts of StorageSound say, the exceptions those name included; the part about
\* checkpoints is as good as the description of the library it rests on.
THEOREM StorageAlwaysSound == MCSpec => []StorageSound
  <1>1. WkspInv => WkspTypeOK /\ QueryTrue
    BY DEF WkspInv
  <1>2. ScratchInv => ScratchTypeOK
    BY DEF ScratchInv
  <1>3. /\ WkspTypeOK /\ QueryTrue
        /\ ShmemTypeOK /\ JoinsAreMapped
        /\ ScratchTypeOK
        /\ CheckptTypeOK /\ RestoredIsWritten
        /\ ClTypeOK
        /\ TmTypeOK /\ ContainersSound
        /\ VaTypeOK /\ MemoryReturnsHome
        /\ SbTypeOK /\ ProgramHoused
        /\ VmTypeOK /\ MachineWithinLimits
        => StorageSound
    BY DEF StorageSound
  <1> QED BY <1>1, <1>2, <1>3, MCImplements, WkspInvariant, JoinsAlwaysMapped,
             ScratchInvariant, RestoredAlwaysWritten, ClockTypeCorrect, ContainersAlwaysSound,
             MemoryAlwaysReturns, ProgramAlwaysHoused, MachineStaysWithin, PTL
=============================================================================
