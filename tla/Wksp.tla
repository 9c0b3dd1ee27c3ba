-------------------------------- MODULE Wksp --------------------------------
\* Memory shared by processes: workspaces, and the named regions under them.
(***************************************************************************)
(* Workspaces (fd_wksp): a shared heap that several processes attach by    *)
(* name.  A WorkspaceAllocation frees its address when it is dropped;      *)
(* free_by_tag, reset, restore and free_gaddr free allocations behind the  *)
(* back of the handles that are still held, here or in another process,    *)
(* and the address may be given out again before such a handle is dropped. *)
(*                                                                         *)
(* The fd_wksp_* functions are external, one atomic step each:             *)
(* fd_wksp_free of an address that is not allocated does nothing.  A call  *)
(* that is refused (a size, tag or alignment that is not valid, no room,   *)
(* no such file) returns its error and changes nothing.                    *)
(***************************************************************************)
EXTENDS Integers, FiniteSets

CONSTANTS
  WProcs,     \* processes
  Gaddrs,     \* the addresses an allocation may get
  Tags,       \* non-zero tags
  AllocMax    \* bound on the number of allocations

ASSUME WkspAssumption == AllocMax \in Nat /\ IsFiniteSet(Gaddrs) /\ 0 \notin Tags

VARIABLES
  attached,   \* processes that hold a Workspace
  part,       \* address -> [tag, id] of the allocation there, or NoPart
  nextId,     \* history: allocations are numbered
  held,       \* WorkspaceAllocations: [proc, gaddr, id]
  rawAddrs,   \* addresses taken out of a handle by into_raw: [proc, gaddr]
  counting,   \* process -> what its query_by_tag has counted, or Idle
  answered,   \* the last query_by_tag: what it gave, what was there, how many it had counted
  snapshot,   \* the last checkpoint file: a set with its contents, or empty
  behindBack  \* history: something freed allocations without their handles

wkspVars == <<attached, part, nextId, held, rawAddrs, counting, answered, snapshot, behindBack>>

NoPart == [tag |-> 0, id |-> 0]      \* FD_WKSP_ALLOC_TAG 0: not allocated
Idle   == [tags |-> {}, count |-> 0]
NoInfo == [gaddr |-> "zero", tag |-> 0]     \* an info of the zeroed buffer
Infos  == [gaddr: Gaddrs, tag: Tags]
Unasked == [infos |-> {}, there |-> {}, counted |-> 0]
Parts  == [tag: Tags, id: Nat]
Busy   == {a \in Gaddrs : part[a] # NoPart}
Tagged(T) == {a \in Busy : part[a].tag \in T}

WkspTypeOK ==
  /\ attached \subseteq WProcs /\ nextId \in 0..AllocMax
  /\ part \in [Gaddrs -> Parts \cup {NoPart}]
  /\ held \subseteq [proc: WProcs, gaddr: Gaddrs, id: 0..(AllocMax - 1)]
  /\ rawAddrs \subseteq [proc: WProcs, gaddr: Gaddrs]
  /\ counting \in [WProcs -> [tags: SUBSET Tags, count: Nat]]
  /\ answered \in [infos: SUBSET (Infos \cup {NoInfo}), there: SUBSET Infos, counted: Nat]
  /\ \A file \in snapshot : file \in [Gaddrs -> Parts \cup {NoPart}]
  /\ behindBack \in BOOLEAN

WkspInit ==
  /\ attached = {} /\ part = [a \in Gaddrs |-> NoPart] /\ nextId = 0
  /\ held = {} /\ rawAddrs = {} /\ counting = [p \in WProcs |-> Idle]
  /\ answered = Unasked
  /\ snapshot = {} /\ behindBack = FALSE

Using(p) == p \in attached /\ counting[p] = Idle
FreeAll(S) == [a \in Gaddrs |-> IF a \in S THEN NoPart ELSE part[a]]

-----------------------------------------------------------------------------
Attach(p) ==
  /\ p \notin attached
  /\ attached' = attached \cup {p}
  /\ UNCHANGED <<part, nextId, held, rawAddrs, counting, answered, snapshot, behindBack>>

\* Drop for a named Workspace; its allocations borrow it, so they are gone by then.
Detach(p) ==
  /\ Using(p) /\ \A h \in held : h.proc # p
  /\ attached' = attached \ {p}
  /\ rawAddrs' = {r \in rawAddrs : r.proc # p}
  /\ UNCHANGED <<part, nextId, held, counting, answered, snapshot, behindBack>>

\* allocate and allocate_at_least.
Allocate(p, a, t) ==
  /\ Using(p) /\ part[a] = NoPart /\ nextId < AllocMax
  /\ part' = [part EXCEPT ![a] = [tag |-> t, id |-> nextId]]
  /\ held' = held \cup {[proc |-> p, gaddr |-> a, id |-> nextId]}
  /\ nextId' = nextId + 1
  /\ UNCHANGED <<attached, rawAddrs, counting, answered, snapshot, behindBack>>

\* Drop for WorkspaceAllocation, and Workspace::free: the address is freed, whoever has
\* it now.
DropAllocation(h) ==
  /\ h \in held /\ Using(h.proc)
  /\ held' = held \ {h}
  /\ part' = FreeAll({h.gaddr})
  /\ UNCHANGED <<attached, nextId, rawAddrs, counting, answered, snapshot, behindBack>>

\* Mutant: the address is freed all the same.
MutIntoRaw(h) ==
  /\ h \in held /\ Using(h.proc)
  /\ held' = held \ {h}
  /\ rawAddrs' = rawAddrs \cup {[proc |-> h.proc, gaddr |-> h.gaddr]}
  /\ part' = FreeAll({h.gaddr})
  /\ UNCHANGED <<attached, nextId, counting, answered, snapshot, behindBack>>

IntoRaw(h) ==
  /\ h \in held /\ Using(h.proc)
  /\ held' = held \ {h}
  /\ rawAddrs' = rawAddrs \cup {[proc |-> h.proc, gaddr |-> h.gaddr]}
  /\ UNCHANGED <<attached, part, nextId, counting, answered, snapshot, behindBack>>

\* free_gaddr of an address that into_raw gave.
FreeGaddr(r) ==
  /\ r \in rawAddrs /\ Using(r.proc)
  /\ rawAddrs' = rawAddrs \ {r}
  /\ part' = FreeAll({r.gaddr})
  /\ UNCHANGED <<attached, nextId, held, counting, answered, snapshot, behindBack>>

FreeByTag(p, T) ==
  /\ Using(p) /\ T # {}
  /\ part' = FreeAll(Tagged(T))
  /\ behindBack' = (behindBack \/ Tagged(T) # {})
  /\ UNCHANGED <<attached, nextId, held, rawAddrs, counting, answered, snapshot>>

Reset(p) ==
  /\ Using(p)
  /\ part' = FreeAll(Gaddrs)
  /\ behindBack' = (behindBack \/ Busy # {})
  /\ UNCHANGED <<attached, nextId, held, rawAddrs, counting, answered, snapshot>>

\* checkpoint and restore: the allocations of the file replace the ones there are.
Checkpoint(p) ==
  /\ Using(p)
  /\ snapshot' = {part}
  /\ UNCHANGED <<attached, part, nextId, held, rawAddrs, counting, answered, behindBack>>

Restore(p) ==
  /\ Using(p)
  /\ \E file \in snapshot :
       /\ part' = file
       /\ behindBack' = (behindBack \/ part # file)
  /\ UNCHANGED <<attached, nextId, held, rawAddrs, counting, answered, snapshot>>

-----------------------------------------------------------------------------
(* query_by_tag makes two library calls: one that counts, and one that     *)
(* fills a zeroed buffer of that many infos.  The second one answers how   *)
(* many there are by then; the buffer is cut to that length, which does    *)
(* nothing when they have become more.                                     *)

QueryCount(p, T) ==
  /\ Using(p) /\ T # {}
  /\ IF Tagged(T) = {}
       THEN UNCHANGED counting
       ELSE counting' = [counting EXCEPT ![p] = [tags |-> T, count |-> Cardinality(Tagged(T))]]
  /\ answered' = Unasked
  /\ UNCHANGED <<attached, part, nextId, held, rawAddrs, snapshot, behindBack>>

InfosOf(T) == {[gaddr |-> a, tag |-> part[a].tag] : a \in Tagged(T)}
Least(m, n) == IF m <= n THEN m ELSE n

\* The library fills the first infos of the buffer, as many as there are or have room.
QueryFetch(p) ==
  /\ p \in attached /\ counting[p] # Idle
  /\ LET room   == counting[p].count
         there  == InfosOf(counting[p].tags)
         actual == Cardinality(there)
         kept   == IF actual < room THEN actual ELSE room       \* truncate
     IN  \E filled \in SUBSET there :
           /\ Cardinality(filled) = Least(room, actual)
           /\ answered' = [infos |-> filled \cup (IF kept > Cardinality(filled) THEN {NoInfo} ELSE {}),
                           there |-> there, counted |-> room]
  /\ counting' = [counting EXCEPT ![p] = Idle]
  /\ UNCHANGED <<attached, part, nextId, held, rawAddrs, snapshot, behindBack>>

WkspNext ==
  \/ \E p \in WProcs :
       \/ Attach(p) \/ Detach(p) \/ Reset(p)
       \/ Checkpoint(p) \/ Restore(p) \/ QueryFetch(p)
       \/ \E T \in SUBSET Tags : FreeByTag(p, T) \/ QueryCount(p, T)
       \/ \E a \in Gaddrs, t \in Tags : Allocate(p, a, t)
  \/ \E h \in held : DropAllocation(h) \/ IntoRaw(h)
  \/ \E r \in rawAddrs : FreeGaddr(r)

WkspSpec == WkspInit /\ [][WkspNext]_wkspVars

-----------------------------------------------------------------------------
\* Every handle still owns its allocation, and no address has two owners, whatever the
\* processes allocate, free and convert, as long as nothing was freed behind the back
\* of its handle (free_by_tag, reset or restore while handles are held).
HandlesOwn ==
  ~behindBack =>
    /\ \A h \in held : part[h.gaddr] # NoPart /\ part[h.gaddr].id = h.id
    /\ \A h, g \in held : h # g => h.gaddr # g.gaddr
    /\ \A h \in held, r \in rawAddrs : h.gaddr # r.gaddr

\* query_by_tag gives infos of allocations that carry one of the tags when it ends, and no
\* info that was never filled in, whatever other processes allocate and free between its
\* two calls; it gives all of them unless they have become more than it had counted.
QueryTrue ==
  /\ answered.infos \subseteq answered.there
  /\ Cardinality(answered.there) <= answered.counted => answered.infos = answered.there

-----------------------------------------------------------------------------
(***************************************************************************)
(* Named shared memory (fd_shmem): regions are created and unlinked by     *)
(* name; a process joins a region by name, any number of times, and leaves *)
(* when the ShmemJoin is dropped.                                          *)
(*                                                                         *)
(* The library is external: it keeps per process one mapping for each name *)
(* with a reference count; unlink removes the name, the pages live until   *)
(* the last mapping is gone; fd_shmem_leave unmaps at count zero.          *)
(***************************************************************************)
CONSTANTS
  ShProcs,    \* processes
  Names,      \* names of regions
  Regions,    \* regions that may be created (bounds their number)
  JoinMax     \* bound on the joins a process holds of one name

ASSUME ShmemAssumption == JoinMax \in Nat \ {0}

VARIABLES
  linked,     \* name -> the region it names now, or NoRegion
  created,    \* regions created so far
  mapped,     \* process, name -> [region, refs, mode] of its mapping
  joins,      \* process, name -> JoinInfo of each ShmemJoin it holds (a set of [nr, info])
  forgotten,  \* process, name -> joins the library counts and no ShmemJoin leaves
  acquired    \* process -> anonymous pages it acquired and has not released

shmemVars == <<linked, created, mapped, joins, forgotten, acquired>>

NoRegion == "none"
Unmapped == [region |-> NoRegion, refs |-> 0, mode |-> "rw"]
Modes    == {"ro", "rw"}

ShmemTypeOK ==
  /\ linked \in [Names -> Regions \cup {NoRegion}] /\ created \subseteq Regions
  /\ mapped \in [ShProcs -> [Names -> [region: Regions \cup {NoRegion}, refs: 0..JoinMax, mode: Modes]]]
  /\ joins \in [ShProcs -> [Names -> SUBSET [nr: 1..JoinMax, region: Regions, mode: Modes]]]
  /\ forgotten \in [ShProcs -> [Names -> 0..JoinMax]]
  /\ acquired \in [ShProcs -> 0..1]

ShmemInit ==
  /\ linked = [n \in Names |-> NoRegion] /\ created = {}
  /\ mapped = [p \in ShProcs |-> [n \in Names |-> Unmapped]]
  /\ joins = [p \in ShProcs |-> [n \in Names |-> {}]]
  /\ forgotten = [p \in ShProcs |-> [n \in Names |-> 0]]
  /\ acquired = [p \in ShProcs |-> 0]

-----------------------------------------------------------------------------
\* create and create_multi.
Create(n, r) ==
  /\ linked[n] = NoRegion /\ r \notin created
  /\ linked' = [linked EXCEPT ![n] = r] /\ created' = created \cup {r}
  /\ UNCHANGED <<mapped, joins, forgotten, acquired>>

Unlink(n) ==
  /\ linked[n] # NoRegion
  /\ linked' = [linked EXCEPT ![n] = NoRegion]
  /\ UNCHANGED <<created, mapped, joins, forgotten, acquired>>

\* join.  A process that has the name mapped gets that mapping again, with the mode of
\* the mapping in the info, whatever mode was asked for and whatever the name is linked
\* to by now.  When the info names a page size or a mode the wrapper does not know, the
\* call returns an error and does not leave: the mapping stays, counted once too often.
Join(p, n, mode) ==
  /\ mapped[p][n].refs < JoinMax
  /\ LET m    == mapped[p][n]
         new  == IF m.refs > 0 THEN [m EXCEPT !.refs = @ + 1]
                 ELSE [region |-> linked[n], refs |-> 1, mode |-> mode]
         nr   == CHOOSE i \in 1..JoinMax : \A j \in joins[p][n] : j.nr # i
     IN  /\ new.region # NoRegion
         /\ mapped' = [mapped EXCEPT ![p][n] = new]
         /\ \/ /\ joins' = [joins EXCEPT ![p][n] =
                              @ \cup {[nr |-> nr, region |-> new.region, mode |-> new.mode]}]
               /\ UNCHANGED forgotten
            \/ /\ forgotten' = [forgotten EXCEPT ![p][n] = @ + 1]
               /\ UNCHANGED joins
  /\ UNCHANGED <<linked, created, acquired>>

\* Drop for ShmemJoin.
Leave(p, n, j) ==
  /\ j \in joins[p][n]
  /\ joins' = [joins EXCEPT ![p][n] = @ \ {j}]
  /\ LET m == mapped[p][n]
     IN  mapped' = [mapped EXCEPT ![p][n] = IF m.refs = 1 THEN Unmapped ELSE [m EXCEPT !.refs = @ - 1]]
  /\ UNCHANGED <<linked, created, forgotten, acquired>>

\* acquire and release of anonymous pages.
Acquire(p) ==
  /\ acquired[p] = 0 /\ acquired' = [acquired EXCEPT ![p] = 1]
  /\ UNCHANGED <<linked, created, mapped, joins, forgotten>>

Release(p) ==
  /\ acquired[p] = 1 /\ acquired' = [acquired EXCEPT ![p] = 0]
  /\ UNCHANGED <<linked, created, mapped, joins, forgotten>>

ShmemNext ==
  \/ \E n \in Names : Unlink(n) \/ \E r \in Regions : Create(n, r)
  \/ \E p \in ShProcs :
       \/ Acquire(p) \/ Release(p)
       \/ \E n \in Names :
            \/ \E mode \in Modes : Join(p, n, mode)
            \/ \E j \in joins[p][n] : Leave(p, n, j)

ShmemSpec == ShmemInit /\ [][ShmemNext]_shmemVars

-----------------------------------------------------------------------------
\* Every ShmemJoin points into a mapping that exists and still is the region it was
\* joined to, with the access the mapping has: the name may be unlinked and created
\* again and other joins of it dropped in the meantime.  The mapping goes with the last
\* ShmemJoin, unless a join failed after the library had made it: that one is never left.
JoinsAreMapped ==
  \A p \in ShProcs, n \in Names :
    /\ mapped[p][n].refs = Cardinality(joins[p][n]) + forgotten[p][n]
    /\ \A j \in joins[p][n] : j.region = mapped[p][n].region /\ j.mode = mapped[p][n].mode
    /\ mapped[p][n].refs = 0 <=> mapped[p][n].region = NoRegion
=============================================================================
