------------------------------- MODULE Valloc -------------------------------
(***************************************************************************)
(* Virtual allocators (fd_valloc lib.rs).                                  *)
(*                                                                         *)
(* An allocator is a value that holds a C virtual allocator; memory comes  *)
(* back as an AllocatedMemory, which borrows the allocator and gives the   *)
(* memory back to it when it is dropped.  The backtracing allocator keeps  *)
(* the address of the allocator it forwards to: that address is taken of a *)
(* local, which is then moved into the result.                             *)
(***************************************************************************)
EXTENDS Integers, FiniteSets

CONSTANTS Vallocs,   \* allocator values of the program
          VBlocks,   \* blocks of the C heap
          Sizes      \* requested sizes, 0 among them

NoValloc == "free"   \* no allocator

ASSUME VallocAssumption == NoValloc \notin Vallocs

VARIABLES kind,    \* allocator -> "none" | "libc" | "null" | "backtracing" | "dropped"
          inner,   \* allocator -> does its forwarding address name a live allocator
          taken,   \* block -> the allocator that took it from the heap; NoValloc: free
          memory,  \* the AllocatedMemory values: [block, from, size]
          vret     \* what the last call returned

vaVars == <<kind, inner, taken, memory, vret>>

VallocErrors == {"InvalidSize", "InvalidAlignment", "AllocationFailed", "InvalidAllocator"}

VaInit == /\ kind = [v \in Vallocs |-> "none"]
          /\ inner = [v \in Vallocs |-> TRUE]
          /\ taken = [b \in VBlocks |-> NoValloc]
          /\ memory = {}
          /\ vret = "none"

NewLibc(v) ==
  /\ kind[v] \in {"none", "dropped"}
  /\ kind' = [kind EXCEPT ![v] = "libc"]
  /\ inner' = [inner EXCEPT ![v] = TRUE]
  /\ vret' = "ok" /\ UNCHANGED <<taken, memory>>

NewNull(v) ==
  /\ kind[v] \in {"none", "dropped"}
  /\ kind' = [kind EXCEPT ![v] = "null"]
  /\ inner' = [inner EXCEPT ![v] = TRUE]
  /\ vret' = "ok" /\ UNCHANGED <<taken, memory>>

\* new and wrap: the address of the local `inner' outlives its place, unless the
\* build happens to construct the result where the local stands
NewBacktracing(v, elided) ==
  /\ kind[v] \in {"none", "dropped"}
  /\ kind' = [kind EXCEPT ![v] = "backtracing"]
  /\ inner' = [inner EXCEPT ![v] = elided]
  /\ vret' = "ok" /\ UNCHANGED <<taken, memory>>

\* The borrow keeps an allocator alive while its memory is out
DropAllocator(v) ==
  /\ kind[v] \in {"libc", "null", "backtracing"}
  /\ \A m \in memory : m.from # v
  /\ kind' = [kind EXCEPT ![v] = "dropped"]
  /\ UNCHANGED <<inner, taken, memory, vret>>

\* Checks of allocate, in the order of the code; the null allocator answers first
Refusal(v, size, powerOfTwo) ==
  CASE kind[v] = "null" -> "InvalidAllocator"
    [] kind[v] # "null" /\ size = 0 -> "InvalidSize"
    [] kind[v] # "null" /\ size # 0 /\ ~powerOfTwo -> "InvalidAlignment"
    [] OTHER -> "none"

\* Through a forwarding address that names no allocator the call is undefined: it may
\* work, and it may crash
VAllocate(v, size, powerOfTwo, b) ==
  /\ kind[v] \in {"libc", "null", "backtracing"}
  /\ IF Refusal(v, size, powerOfTwo) # "none"
     THEN vret' = Refusal(v, size, powerOfTwo) /\ UNCHANGED <<taken, memory>>
     ELSE \/ /\ taken[b] = NoValloc
             /\ taken' = [taken EXCEPT ![b] = v]
             /\ memory' = memory \cup {[block |-> b, from |-> v, size |-> size]}
             /\ vret' = "ok"
          \/ vret' = "AllocationFailed" /\ UNCHANGED <<taken, memory>>
          \/ ~inner[v] /\ vret' = "crash" /\ UNCHANGED <<taken, memory>>
  /\ UNCHANGED <<kind, inner>>

\* Drop of AllocatedMemory: deallocate_raw of the allocator it borrows
DropMemory(m) ==
  /\ m \in memory
  /\ memory' = memory \ {m}
  /\ taken' = [taken EXCEPT ![m.block] = NoValloc]
  /\ UNCHANGED <<kind, inner, vret>>

VaNext ==
  \E v \in Vallocs :
    \/ NewLibc(v)
    \/ NewNull(v)
    \/ \E e \in BOOLEAN : NewBacktracing(v, e)
    \/ DropAllocator(v)
    \/ \E s \in Sizes, p \in BOOLEAN, b \in VBlocks : VAllocate(v, s, p, b)
    \/ \E m \in memory : m.from = v /\ DropMemory(m)

VaSpec == VaInit /\ [][VaNext]_vaVars

VaTypeOK == /\ kind \in [Vallocs -> {"none", "libc", "null", "backtracing", "dropped"}]
            /\ inner \in [Vallocs -> BOOLEAN]
            /\ taken \in [VBlocks -> Vallocs \cup {NoValloc}]
            /\ memory \subseteq [block : VBlocks, from : Vallocs, size : Sizes \ {0}]
            /\ vret \in VallocErrors \cup {"none", "ok", "crash"}

(***************************************************************************)
(* A block the program holds is taken from the heap, by the allocator that *)
(* will give it back, which is still alive and is not the null allocator;  *)
(* no two handles name one block; and what is not held is free (lib.rs     *)
(* allocate, Drop for AllocatedMemory).                                    *)
(***************************************************************************)
MemoryReturnsHome ==
  /\ \A m \in memory : taken[m.block] = m.from /\ kind[m.from] \in {"libc", "backtracing"}
  /\ \A m, n \in memory : m.block = n.block => m = n
  /\ \A b \in VBlocks : taken[b] # NoValloc => \E m \in memory : m.block = b
=============================================================================
