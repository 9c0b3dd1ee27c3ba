------------------------------ MODULE MCMemory ------------------------------
(***************************************************************************)
(* The components that own memory, each with its own small instance: the   *)
(* workspaces and the shared memory regions of several processes, the      *)
(* scratch allocators of several threads, checkpoint streams, the clock,   *)
(* the containers, the virtual allocators, the program loader and the      *)
(* virtual machine.  They share no state in the repository: a behaviour is *)
(* about the component in focus.                                           *)
(***************************************************************************)
EXTENDS Wksp, Scratch, Checkpt, Clock, Tmpl, Valloc, Program

VARIABLE focus

Components ==
  {"wksp", "shmem", "scratch", "checkpt", "clock", "tmpl", "valloc", "sbpf", "svm"}

MCInit ==
  /\ focus \in Components
  /\ WkspInit /\ ShmemInit /\ ScratchInit /\ CheckptInit /\ ClInit
  /\ TmInit /\ VaInit /\ SbInit /\ VmInit

MCNext ==
  /\ UNCHANGED focus
  /\ IF focus = "wksp"    THEN WkspNext    ELSE UNCHANGED wkspVars
  /\ IF focus = "shmem"   THEN ShmemNext   ELSE UNCHANGED shmemVars
  /\ IF focus = "scratch" THEN ScratchNext ELSE UNCHANGED scratchVars
  /\ IF focus = "checkpt" THEN CheckptNext ELSE UNCHANGED checkptVars
  /\ IF focus = "clock"   THEN ClNext      ELSE UNCHANGED clVars
  /\ IF focus = "tmpl"    THEN TmNext      ELSE UNCHANGED tmVars
  /\ IF focus = "valloc"  THEN VaNext      ELSE UNCHANGED vaVars
  /\ IF focus = "sbpf"    THEN SbNext      ELSE UNCHANGED sbVars
  /\ IF focus = "svm"     THEN VmNext      ELSE UNCHANGED vmVars

memoryVars ==
  <<focus, wkspVars, shmemVars, scratchVars, checkptVars, clVars, tmVars, vaVars,
    sbVars, vmVars>>

MCSpec == MCInit /\ [][MCNext]_memoryVars

\* A query gives allocations that carry a tag it was asked for, and no info that was never
\* filled in; joins name regions that are mapped; a container gives back what was put in,
\* where its code keeps it; memory goes back to the allocator it came from; a loaded program
\* lies inside the buffers made for it; a machine stays within its limits.  (The part about
\* checkpoints rests on the library they are written by; scratch memory and clocks have
\* properties of their own, ScratchSound and ClockOwned.)
StorageSound ==
  /\ focus = "wksp"    => WkspTypeOK /\ QueryTrue
  /\ focus = "shmem"   => ShmemTypeOK /\ JoinsAreMapped
  /\ focus = "scratch" => ScratchTypeOK
  /\ focus = "checkpt" => CheckptTypeOK /\ RestoredIsWritten
  /\ focus = "clock"   => ClTypeOK
  /\ focus = "tmpl"    => TmTypeOK /\ ContainersSound
  /\ focus = "valloc"  => VaTypeOK /\ MemoryReturnsHome
  /\ focus = "sbpf"    => SbTypeOK /\ ProgramHoused
  /\ focus = "svm"     => VmTypeOK /\ MachineWithinLimits
=============================================================================
