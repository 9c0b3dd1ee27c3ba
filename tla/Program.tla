-------------------------------- MODULE Program -----------------------------
\* An sBPF program, from the loader to the virtual machine that runs it.
EXTENDS Integers, Sequences

(***************************************************************************)
(* The sBPF loader (fd_sbpf).  SbpfProgram::load peeks at an ELF file,     *)
(* makes room for a program and its read-only data (with slack, because a  *)
(* Vec need not be aligned the way the C loader wants), creates the C      *)
(* program in it and loads it.  From the moment the C program exists it is *)
(* owned by an SbpfProgram, whose drop deletes it before the memory goes.  *)
(* Addresses are numbers; the C loader is external.                        *)
(***************************************************************************)

CONSTANTS
    ProgAlign,    \* fd_sbpf_program_align, and FD_SBPF_PROG_RODATA_ALIGN
    FootMax,      \* bound: the footprints of a file
    AddrMax,      \* bound: the address a Vec starts at
    RawMax        \* bound: the raw instructions of a run

ASSUME SbpfAssumption == ProgAlign \in Nat \ {0} /\ {FootMax, AddrMax, RawMax} \subseteq Nat

VARIABLES
    elf,        \* the footprints ElfInfo::parse found, or the error it returned
    buffers,    \* the Vecs of the program: where each starts and how long it is
    program,    \* the C program: "none", or where it and its read-only data were placed
    loadState,  \* "idle", "parsed", "placed", "loaded", or an SbpfError
    ixn         \* the last raw word a SbpfIxn was made from, its fields, and to_raw of it

sbVars == <<elf, buffers, program, loadState, ixn>>

NoElf == [prog |-> 0, rodata |-> 0]
NoBuffers == [progAt |-> 0, progLen |-> 0, rodataAt |-> 0, rodataLen |-> 0]
NoProgram == [live |-> FALSE, at |-> 0, rodata |-> 0]
NoIxn == [raw |-> 0, op |-> 0, reg |-> 0, imm |-> 0, back |-> 0]

SbInit ==
    /\ elf = NoElf /\ buffers = NoBuffers /\ program = NoProgram
    /\ loadState = "idle" /\ ixn = NoIxn

\* ElfInfo::parse: the codes of the ELF parser, of the version check, and all others.
ElfError(code) ==
    CASE code = "parser" -> "ElfParserError"
      [] code = "version" -> "UnsupportedSbpfVersion"
      [] OTHER -> "InvalidElf"

ParseElf(info, code) ==
    /\ loadState = "idle"
    /\ IF code # "ok" THEN loadState' = ElfError(code) /\ UNCHANGED elf
       ELSE IF info.prog = 0 THEN loadState' = "InvalidBuffer" /\ UNCHANGED elf
       ELSE loadState' = "parsed" /\ elf' = info
    /\ UNCHANGED <<buffers, program, ixn>>

\* align_offset of a pointer.
AlignUp(addr) == ((addr + ProgAlign - 1) \div ProgAlign) * ProgAlign

\* The two Vecs, and fd_sbpf_program_new in them; when it fails the Vecs are dropped.
Place(progAt, rodataAt, made) ==
    /\ loadState = "parsed"
    /\ LET b == [progAt |-> progAt, progLen |-> elf.prog + ProgAlign,
                 rodataAt |-> IF elf.rodata = 0 THEN 0 ELSE rodataAt,
                 rodataLen |-> IF elf.rodata = 0 THEN 0 ELSE elf.rodata + ProgAlign]
       IN  IF made
           THEN /\ buffers' = b /\ loadState' = "placed"
                /\ program' = [live |-> TRUE, at |-> AlignUp(progAt),
                               rodata |-> IF elf.rodata = 0 THEN 0 ELSE AlignUp(rodataAt)]
           ELSE loadState' = "NullPointer" /\ UNCHANGED <<buffers, program>>
    /\ UNCHANGED <<elf, ixn>>

\* fd_sbpf_program_load: a failure drops the SbpfProgram that owns the C program by now.
Load(ok) ==
    /\ loadState = "placed"
    /\ IF ok THEN loadState' = "loaded" /\ UNCHANGED <<buffers, program>>
       ELSE loadState' = "LoadFailed" /\ program' = NoProgram /\ buffers' = NoBuffers
    /\ UNCHANGED <<elf, ixn>>

\* Drop of an SbpfProgram: fd_sbpf_program_delete, and then the Vecs.
DropProgram ==
    /\ loadState = "loaded"
    /\ program' = NoProgram /\ buffers' = NoBuffers /\ loadState' = "idle" /\ elf' = NoElf
    /\ UNCHANGED ixn

----------------------------------------------------------------------------
\* SbpfIxn at a small scale: two bits of opcode, two of registers, the rest immediate.
FromRaw(raw) == [op |-> raw % 4, reg |-> (raw \div 4) % 4, imm |-> raw \div 16]
ToRaw(f) == f.op + 4 * f.reg + 16 * f.imm

Instruction(raw) ==
    /\ ixn = NoIxn
    /\ ixn' = [raw |-> raw, op |-> FromRaw(raw).op, reg |-> FromRaw(raw).reg,
               imm |-> FromRaw(raw).imm, back |-> ToRaw(FromRaw(raw))]
    /\ UNCHANGED <<elf, buffers, program, loadState>>

SbNext ==
    \/ \E p, r \in 0..FootMax, code \in {"ok", "parser", "version", "other"} :
          ParseElf([prog |-> p, rodata |-> r], code)
    \/ \E p, r \in 1..AddrMax, made \in BOOLEAN : Place(p, r, made)
    \/ \E ok \in BOOLEAN : Load(ok)
    \/ DropProgram
    \/ \E raw \in 0..RawMax : Instruction(raw)

SbSpec == SbInit /\ [][SbNext]_sbVars

----------------------------------------------------------------------------
SbTypeOK == loadState \in {"idle", "parsed", "placed", "loaded", "InvalidBuffer", "NullPointer",
                           "LoadFailed", "ElfParserError", "UnsupportedSbpfVersion", "InvalidElf"}

(***************************************************************************)
(* The C program and its read-only data lie, aligned, inside the Vecs that *)
(* were made for them, wherever the allocator put those; a C program       *)
(* exists exactly while an SbpfProgram owns it, so that a load that fails  *)
(* leaves nothing behind.  An instruction survives its own conversion.     *)
(***************************************************************************)
ProgramHoused ==
    /\ program.live = (loadState \in {"placed", "loaded"})
    /\ program.live =>
          /\ program.at % ProgAlign = 0 /\ program.rodata % ProgAlign = 0
          /\ buffers.progAt <= program.at
          /\ program.at + elf.prog <= buffers.progAt + buffers.progLen
          /\ elf.rodata > 0 =>
                /\ buffers.rodataAt <= program.rodata
                /\ program.rodata + elf.rodata <= buffers.rodataAt + buffers.rodataLen
    /\ ixn.back = ixn.raw

-----------------------------------------------------------------------------
(***************************************************************************)
(* The wrapper of the virtual machine (fd_svm).  A Vm owns the memory of a *)
(* C machine; init checks the limits and then stores raw pointers in it:   *)
(* to the program of the caller, whose lifetime nothing ties to the Vm,    *)
(* and to the arrays of memory and account regions, which init_with_config *)
(* builds in local vectors that are gone when it returns.  The machine     *)
(* follows the pointers when it validates or executes.                     *)
(*                                                                         *)
(* The C machine is external.  The system call stubs of the crate are      *)
(* compiled for programs that run inside a machine only, and left out.     *)
(***************************************************************************)

CONSTANTS
    Programs,   \* programs (rodata, text and calldests) of the caller
    HeapLimit,  \* HEAP_MAX
    CuLimit     \* COMPUTE_UNIT_LIMIT

ASSUME SvmAssumption == HeapLimit \in Nat /\ CuLimit \in Nat

VARIABLES
    vm,         \* "none", "made" (joined), "inited" or "ready" (set up for execution)
    vmProg,     \* the program the machine points to; NoSvmProgram before the first init
    vmRegions,  \* the region arrays it points to: "null" or "gone"
    vmLimits,   \* heap_max and cu of the machine
    vmVersion,  \* sbpf_version
    owned,      \* programs whose memory the caller still holds
    vmErr,      \* what the last call returned
    followed    \* freed memory the machine has followed a pointer into

vmVars == <<vm, vmProg, vmRegions, vmLimits, vmVersion, owned, vmErr, followed>>

NoSvmProgram == "noprogram"

\* The error codes of the machine that convert_vm_error tells apart, and one that it does not.
VmCodes == {"INVAL", "INVALID_OPCODE", "INVALID_SRC_REG", "INVALID_DST_REG",
            "JMP_OUT_OF_BOUNDS", "SIGFPE", "SIGCOST"}

ConvertVmError(code) ==
    CASE code = "INVAL"                                    -> "InvalidInput"
      [] code = "INVALID_OPCODE"                           -> "InvalidOpcode"
      [] code \in {"INVALID_SRC_REG", "INVALID_DST_REG"}   -> "InvalidRegister"
      [] code = "JMP_OUT_OF_BOUNDS"                        -> "JumpOutOfBounds"
      [] code = "SIGFPE"                                   -> "DivisionByZero"
      [] OTHER                                             -> "ExecutionFailed"

VmInit ==
    /\ vm = "none" /\ vmProg = NoSvmProgram /\ vmRegions = "null"
    /\ vmLimits = [heap |-> 0, cu |-> 0] /\ vmVersion = 0
    /\ owned = Programs /\ vmErr = "ok" /\ followed = {}

\* Vm::new: allocate, create, join; each failure undoes what came before it.
NewVm ==
    /\ vm = "none"
    /\ \/ vm' = "made" /\ vmErr' = "ok" /\ vmProg' = NoSvmProgram /\ vmRegions' = "null"
          /\ vmLimits' = [heap |-> 0, cu |-> 0] /\ vmVersion' = 0
       \/ vmErr' \in {"AllocationFailed", "InitializationFailed"}
          /\ UNCHANGED <<vm, vmProg, vmRegions, vmLimits, vmVersion>>
    /\ UNCHANGED <<owned, followed>>

\* init_with_config.  A refusal leaves the machine as it was.
InitWithConfig(p, heap, cu, version, regions) ==
    /\ vm /= "none" /\ p \in owned
    /\ \/ /\ heap > HeapLimit \/ cu > CuLimit
          /\ vmErr' = "InvalidInput" /\ UNCHANGED <<vm, vmProg, vmRegions, vmLimits, vmVersion>>
       \/ /\ heap <= HeapLimit /\ cu <= CuLimit
          /\ \/ /\ vm' = "inited" /\ vmProg' = p /\ vmLimits' = [heap |-> heap, cu |-> cu]
                /\ vmRegions' = IF regions THEN "gone" ELSE "null"
                /\ vmVersion' = version /\ vmErr' = "ok"
             \/ vmErr' = "InitializationFailed"
                /\ UNCHANGED <<vm, vmProg, vmRegions, vmLimits, vmVersion>>
    /\ UNCHANGED <<owned, followed>>

\* init: a version above 2 is refused, the rest is init_with_config without regions.
InitVm(p, heap, cu, version) ==
    IF version > 2
    THEN vm /= "none" /\ vmErr' = "InvalidInput"
         /\ UNCHANGED <<vm, vmProg, vmRegions, vmLimits, vmVersion, owned, followed>>
    ELSE InitWithConfig(p, heap, cu, version, FALSE)

\* setup_for_execution.  (Whether the C machine notices that it was never initialised is not
\* known here.)
SetupForExecution ==
    /\ vm /= "none"
    /\ \/ vm' = (IF vm = "made" THEN "made" ELSE "ready") /\ vmErr' = "ok"
       \/ vmErr' = "InitializationFailed" /\ UNCHANGED vm
    /\ UNCHANGED <<vmProg, vmRegions, vmLimits, vmVersion, owned, followed>>

\* What the machine reads that is not there: nothing stops a caller from running a machine
\* before init.
Stale == (IF vmProg = NoSvmProgram THEN {"unset"} ELSE {})
         \cup (IF vmProg \in Programs \ owned THEN {"program"} ELSE {})
         \cup (IF vmRegions = "gone" THEN {"regions"} ELSE {})

\* validate reads the program.
Validate ==
    /\ vm /= "none"
    /\ followed' = followed \cup (Stale \ {"regions"})
    /\ vmErr' \in {"ok", "ValidationFailed"}
    /\ UNCHANGED <<vm, vmProg, vmRegions, vmLimits, vmVersion, owned>>

\* execute, execute_trace and execute_notrace: they run the program, which uses up compute
\* units, and translate the code.
Execute ==
    /\ vm /= "none"
    /\ followed' = followed \cup Stale
    /\ \E cu \in 0..vmLimits.cu : vmLimits' = [vmLimits EXCEPT !.cu = cu]
    /\ vmErr' \in {"ok"} \cup {ConvertVmError(c) : c \in VmCodes}
    /\ UNCHANGED <<vm, vmProg, vmRegions, vmVersion, owned>>

\* The caller gives up a program; the borrow of init has ended.
FreeProgram(p) ==
    /\ p \in owned /\ owned' = owned \ {p}
    /\ UNCHANGED <<vm, vmProg, vmRegions, vmLimits, vmVersion, vmErr, followed>>

DropVm ==
    /\ vm /= "none" /\ vm' = "none" /\ vmProg' = NoSvmProgram /\ vmRegions' = "null"
    /\ UNCHANGED <<vmLimits, vmVersion, owned, vmErr, followed>>

VmNext ==
    \/ NewVm \/ SetupForExecution \/ Validate \/ Execute \/ DropVm
    \/ \E p \in Programs :
          \/ FreeProgram(p)
          \/ \E heap \in {0, HeapLimit, HeapLimit + 1}, cu \in {0, CuLimit, CuLimit + 1}, version \in 0..3 :
                InitVm(p, heap, cu, version) \/ InitWithConfig(p, heap, cu, version % 3, TRUE)

VmSpec == VmInit /\ [][VmNext]_vmVars

----------------------------------------------------------------------------
VmTypeOK ==
    /\ vm \in {"none", "made", "inited", "ready"} /\ vmProg \in Programs \cup {NoSvmProgram}
    /\ vmRegions \in {"null", "gone"} /\ owned \subseteq Programs
    /\ vmVersion \in 0..2 /\ followed \subseteq {"unset", "program", "regions"}

(***************************************************************************)
(* Whatever is called in whatever order, with refused calls in between, a  *)
(* machine that was initialised is within HEAP_MAX and COMPUTE_UNIT_LIMIT  *)
(* and has a program, also after a later init was refused; and it reads a  *)
(* program that is gone only where the caller has let go of one.           *)
(***************************************************************************)
MachineWithinLimits ==
    /\ vm \in {"inited", "ready"} =>
          vmLimits.heap <= HeapLimit /\ vmLimits.cu <= CuLimit /\ vmProg \in Programs
    /\ "program" \in followed => owned /= Programs
=============================================================================
