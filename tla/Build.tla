-------------------------------- MODULE Build --------------------------------
(***************************************************************************)
(* The build scripts of the *_sys crates and the helpers they share        *)
(* (common/src/lib.rs).                                                    *)
(*                                                                         *)
(* Every script turns the vendored C code into two artefacts that must     *)
(* fit: bindings.rs, written by bindgen from the headers, and a static     *)
(* library, compiled by cc from the sources.  Static inline functions      *)
(* reach the library through a third file, the wrapper that bindgen        *)
(* generates next to the bindings.  What differs from script to script is  *)
(* the order of these steps, which of them handles the wrapper, which      *)
(* macros each step is given and which files Cargo is told to watch: that  *)
(* is a crate's recipe.  One crate is built, cleaned and rebuilt while the *)
(* vendored files change between builds; each step may fail (a script      *)
(* panics) and leaves OUT_DIR as it is.                                    *)
(***************************************************************************)
EXTENDS Naturals, Sequences

CONSTANTS SysCrates,  \* the crates that are built, names of Recipe
          EditMax     \* bound: changes to one class of vendored files

VARIABLES crate,      \* the crate being built, "" before Configure
          target,     \* [arch, os, emulated]: what TargetInfo::new() finds
          vendor,     \* class of vendored file -> version; all 0: not checked out
          todo,       \* steps of the running script still to do, <<>> when idle
          outdir,     \* OUT_DIR: [wrapper, bindings, library, inline]
          tpoolLib,   \* the second library in OUT_DIR, of the wksp script only
          previous,   \* history: the wrapper in OUT_DIR when the last script started
          seen,       \* versions Cargo compares with: at the last good run, or none
          report,     \* what the last `cargo build` said since the last change
          settled     \* complete runs since the headers last changed (bound 2)

bdVars == <<crate, target, vendor, todo, outdir, tpoolLib, previous, seen, report, settled>>

(***************************************************************************)
(* Recipes                                                                 *)
(***************************************************************************)
\* What one step defines: the instruction-set macros of spec_target and the
\* feature macros that select or size declarations.
Side(isa, features) == [isa |-> isa, features |-> features]

Standard(features) == Side("standard", features)

\* steps: the order of main(); wraps: bindgen writes a wrapper.c; listed: the
\* wrapper is a source of the library; unwatched: sources of the library that
\* no rerun-if-changed names.
Script(steps, wraps, listed, bind, cc, inline, unwatched) ==
    [steps |-> steps, wraps |-> wraps, listed |-> listed, bind |-> bind,
     cc |-> cc, inline |-> inline, unwatched |-> unwatched]

PipelineSteps == <<"find", "header", "bind", "cc">>

\* A script of the usual shape: _pipeline_finalize at the end, the same macros
\* on both sides.
Pipeline(listed, features, unwatched) ==
    Script(PipelineSteps, TRUE, listed, Standard(features), Standard(features),
           Side("none", {}), unwatched)

\* wrapper.c is looked for, and compiled on its own, while init_cc runs, before
\* bindgen has written it.
WrapFirstSteps == <<"find", "header", "wrap", "bind", "cc">>

\* The wksp script compiles a library of its own from fd_tpool.cxx before that.
WkspSteps == <<"find", "header", "tpool", "wrap", "bind", "cc">>

WrapsFirst(r) == r.steps \in {WrapFirstSteps, WkspSteps}

WrapFirst(bind, cc, inline) ==
    Script(WrapFirstSteps, TRUE, FALSE, bind, cc, inline, {})

\* Compile first, then bindgen on a vendored header or on one it includes.
CcFirst(steps, bind, cc, unwatched) ==
    Script(steps, FALSE, FALSE, bind, cc, Side("none", {}), unwatched)

\* The scripts that keep a list of their sources: what init_cc compiles and the list's
\* rerun-if-changed lines do not name.  Where the set is empty the list that is compiled
\* is the list that is watched.
Ed25519Unwatched == {"ref/fd_curve25519.c", "ref/fd_curve25519_secure.c", "ref/fd_f25519.c"}

NanopbUnwatched == {}

ShredUnwatched == {}

TomlUnwatched == {}

TxnUnwatched == {}

ZstdUnwatched == {}

SvmUnwatched ==
    {"fd_vm_syscall_util.c", "fd_vm_syscall_runtime.c", "fd_vm_syscall_crypto.c",
     "fd_vm_syscall_hash.c", "fd_vm_syscall_curve.c", "fd_vm_syscall_pda.c",
     "fd_tile.c", "fd_io.c", "fd_cstr.c"}

ClockUnwatched == {"fd_bits.c", "fd_log_stub.c"}

TmplUnwatched == {"fd_log_stub.c"}

\* The list names the quic directory only; init_cc also compiles these.
QuicUnwatched == {"util", "tango", "ballet", "waltz/tls", "waltz/xdp"}

RpcUnwatched == {"fd_log.c", "fd_tile.c", "fd_io.c", "fd_siphash13.c"}

Base64Sys ==
    Script(<<"find", "bind", "cc">>, FALSE, FALSE, Side("none", {}), Standard({}),
           Side("none", {}), {})

\* spec_target's branches are commented out: no macro for any target.
Ed25519Sys ==
    Script(PipelineSteps, TRUE, FALSE, Side("none", {}), Side("none", {}),
           Side("none", {}), Ed25519Unwatched)

JsonSys == CcFirst(<<"cc", "bind">>, Standard({}), Standard({}), {})

NanopbSys == Pipeline(FALSE, {"BUFFER_ONLY", "MALLOC", "FIELD_32BIT"}, NanopbUnwatched)

SbpfSys ==
    [Pipeline(TRUE, {}, {"fd_murmur3.c"}) EXCEPT !.steps = <<"header", "bind", "cc">>]

ShredSys == Pipeline(TRUE, {}, ShredUnwatched)

TomlSys == Pipeline(TRUE, {}, TomlUnwatched)

TxnSys == Pipeline(TRUE, {}, TxnUnwatched)

ZstdSys ==
    Script(PipelineSteps, TRUE, FALSE, Side("unless_emulated", {"ZSTD"}),
           Side("unless_emulated", {"ZSTD"}), Side("none", {}), ZstdUnwatched)

SvmSys ==
    Script(PipelineSteps, TRUE, FALSE, Side("avx512", {"INT128", "SECP256K1"}),
           Side("avx512", {"INT128", "SECP256K1"}), Side("none", {}), SvmUnwatched)

BitsSys == CcFirst(<<"cc", "bind">>, Standard({}), Standard({}), {})

CheckptSys == WrapFirst(Standard({"LZ4"}), Standard({"LZ4"}), Side("none", {"LZ4"}))

ClockSys == Pipeline(TRUE, {"DOUBLE"}, ClockUnwatched)

EnvSys == CcFirst(<<"cc", "bind">>, Standard({}), Standard({}), {})

LogSys ==
    [CcFirst(<<"find", "cc", "header", "bind">>, Standard({}), Standard({}), {})
        EXCEPT !.wraps = TRUE]

MathSys == CcFirst(<<"cc", "header", "bind">>, Standard({}), Standard({}), {})

NetSys == CcFirst(<<"cc", "header", "bind">>, Standard({}), Standard({}), {})

ScratchSys ==
    Script(<<"header", "bind", "cc", "wrap">>, TRUE, FALSE, Standard({"ATOMIC"}),
           Standard({"ATOMIC"}), Standard({"ATOMIC"}), {})

ShmemSys == CcFirst(<<"cc", "bind">>, Standard({}), Standard({}), {"fd_numa_linux.c"})

SpadSys ==
    Script(<<"header", "bind", "cc", "wrap">>, TRUE, FALSE, Standard({"ATOMIC"}),
           Standard({"ATOMIC"}), Standard({"ATOMIC"}), {})

TileSys ==
    WrapFirst(Standard({"TILE_MAX"}), Standard({"TILE_MAX", "ATOMIC"}),
              Side("none", {"TILE_MAX", "ATOMIC"}))

TmplSys == Pipeline(TRUE, {}, TmplUnwatched)

TpoolSys ==
    CcFirst(<<"cc", "bind">>, Standard({"THREADS", "ALLOCA", "TILE_MAX"}),
            Standard({"THREADS", "ALLOCA"}), {})

VallocSys == CcFirst(<<"cc", "header", "bind">>, Standard({}), Standard({"ATOMIC"}), {})

\* fd_tpool.cxx is given neither an instruction set nor what the other sources are given.
TpoolMacros == {"THREADS", "ALLOCA"}

WkspSys ==
    [WrapFirst(Standard({}), Standard({"ATOMIC"}), Side("none", {})) EXCEPT !.steps = WkspSteps]

GrpcSys ==
    [Pipeline(FALSE, {"OPENSSL"}, {"waltz/h2", "fd_log.c", "fd_tile.c", "fd_io.c",
                                   "fd_siphash13.c"})
        EXCEPT !.steps = <<"header", "bind", "cc">>]

HttpSys ==
    [Pipeline(FALSE, {}, {"fd_tile.c", "fd_io.c", "fd_log.c", "fd_util.c", "fd_cstr.c",
                          "fd_base64.c", "fd_sha1.c", "fd_siphash13.c"})
        EXCEPT !.steps = <<"header", "bind", "cc">>]

QuicSys ==
    [WrapFirst(Side("x86_only", {"ATOMIC"}), Side("x86_only", {"ATOMIC"}),
               Side("none", {"ATOMIC"}))
        EXCEPT !.unwatched = QuicUnwatched]

RpcSys == Pipeline(TRUE, {"OPENSSL"}, RpcUnwatched)

\* A script that uses the builders of common/src/lib.rs.
BuildersSys ==
    Script(<<"header", "bind", "cc">>, FALSE, FALSE, Side("with_clang_opts", {}),
           Side("with_target_opts", {}), Side("none", {}), {})

Recipe ==
    [base64 |-> Base64Sys, ed25519 |-> Ed25519Sys, json |-> JsonSys,
     nanopb |-> NanopbSys, sbpf |-> SbpfSys, shred |-> ShredSys, toml |-> TomlSys,
     txn |-> TxnSys, zstd |-> ZstdSys, svm |-> SvmSys, bits |-> BitsSys,
     checkpt |-> CheckptSys, clock |-> ClockSys, env |-> EnvSys, log |-> LogSys,
     math |-> MathSys, net |-> NetSys, scratch |-> ScratchSys, shmem |-> ShmemSys,
     spad |-> SpadSys, tile |-> TileSys, tmpl |-> TmplSys, tpool |-> TpoolSys,
     valloc |-> VallocSys, wksp |-> WkspSys, grpc |-> GrpcSys, http |-> HttpSys,
     quic |-> QuicSys, rpc |-> RpcSys, builders |-> BuildersSys]

ASSUME BuildAssumption == SysCrates \subseteq DOMAIN Recipe /\ EditMax \in Nat

(***************************************************************************)
(* Targets and macros                                                      *)
(***************************************************************************)
\* TargetInfo::new: every other architecture or system defines nothing.
Targets == [arch : {"x86_64", "aarch64", "other"}, os : {"linux", "macos"}, emulated : BOOLEAN]

X86 == {"X86", "SSE", "AVX"}

WithTargetOpts(t) ==
    CASE t.arch = "x86_64" /\ ~t.emulated -> X86
      [] t.arch = "aarch64" -> {"ARM"}
      [] OTHER -> {}

WithClangOpts(t) ==
    CASE t.arch = "x86_64" /\ ~t.emulated -> X86 \cup {"AVX512"}
      [] t.arch = "aarch64" -> {"ARM"}
      [] OTHER -> {}

ByArch(x86, t) ==
    CASE t.arch = "x86_64" -> x86
      [] t.arch = "aarch64" -> {"ARM"}
      [] OTHER -> {}

\* What the scripts' spec_target defines, by the name of its variant.  Only the
\* zstd script and the shared builders ask whether the target is emulated.
SpecTarget(isa, t) ==
    CASE isa = "none" -> {}
      [] isa \in {"unless_emulated", "with_target_opts"} -> WithTargetOpts(t)
      [] isa = "with_clang_opts" -> WithClangOpts(t)
      [] isa = "x86_only" -> ByArch({"X86"}, t)
      [] isa = "avx512" -> ByArch(X86 \cup {"AVX512"}, t)
      [] isa = "standard" -> ByArch(X86, t)

MacrosOf(side, t) ==
    SpecTarget(side.isa, t) \cup side.features
        \cup (IF t.os = "macos" /\ side.isa # "none" THEN {"SIGPOLL"} ELSE {})

(***************************************************************************)
(* OUT_DIR                                                                 *)
(***************************************************************************)
FileClasses == {"headers", "watched", "unwatched"}

NotCheckedOut == [c \in FileClasses |-> 0]

Absent == [headers |-> 0, macros |-> {}]

NoLibrary == [files |-> NotCheckedOut, macros |-> {}]

NoInline == [text |-> 0, macros |-> {}]

EmptyOutDir ==
    [wrapper |-> 0, bindings |-> Absent, library |-> NoLibrary, inline |-> NoInline]

NeverRan == NotCheckedOut

BdInit ==
    /\ crate = "" /\ target = [arch |-> "other", os |-> "linux", emulated |-> FALSE]
    /\ vendor = NotCheckedOut
    /\ todo = <<>> /\ outdir = EmptyOutDir /\ tpoolLib = NoLibrary /\ previous = 0
    /\ seen = NeverRan /\ report = "none" /\ settled = 0

\* A crate and a target are chosen, and `git submodule update` may or may not
\* have been run.
Configure(c, t, checkedOut) ==
    /\ crate = ""
    /\ crate' = c /\ target' = t
    /\ vendor' = IF checkedOut THEN [k \in FileClasses |-> 1] ELSE NotCheckedOut
    /\ UNCHANGED <<todo, outdir, tpoolLib, previous, seen, report, settled>>

BuildIdle == crate # "" /\ todo = <<>>

\* Somebody changes a vendored file between two builds.
Edit(k) ==
    /\ BuildIdle /\ vendor[k] \in 1..EditMax
    /\ k = "unwatched" => Recipe[crate].unwatched # {}
    /\ vendor' = [vendor EXCEPT ![k] = @ + 1]
    /\ report' = "none"
    /\ settled' = IF k = "headers" THEN 0 ELSE settled
    /\ UNCHANGED <<crate, target, todo, outdir, tpoolLib, previous, seen>>

\* cargo clean.
Clean ==
    /\ BuildIdle
    /\ outdir' = EmptyOutDir /\ tpoolLib' = NoLibrary /\ previous' = 0
    /\ seen' = NeverRan /\ report' = "none" /\ settled' = 0
    /\ UNCHANGED <<crate, target, vendor, todo>>

\* Cargo may run the script at any time (the generated header is among the
\* files it watches), and must when a watched file changed since the last good
\* run: bindgen's CargoCallbacks name the headers, the script the sources.
MustRun == \E k \in FileClasses \ {"unwatched"} : seen[k] = 0 \/ seen[k] # vendor[k]

CargoRuns ==
    /\ BuildIdle
    /\ todo' = Recipe[crate].steps
    /\ seen' = vendor /\ report' = "none" /\ previous' = outdir.wrapper
    /\ UNCHANGED <<crate, target, vendor, outdir, tpoolLib, settled>>

CargoSkips ==
    /\ BuildIdle /\ ~MustRun
    /\ report' = "ok"
    /\ UNCHANGED <<crate, target, vendor, todo, outdir, tpoolLib, previous, seen, settled>>

(***************************************************************************)
(* The steps of a script                                                   *)
(***************************************************************************)
CheckedOut == vendor # NotCheckedOut

\* expect(), unwrap(), and cc's and bindgen's own failures: the script panics,
\* and Cargo will run it again.
Fail ==
    /\ todo # <<>>
    /\ todo' = <<>> /\ seen' = NeverRan /\ report' = "failed"
    /\ UNCHANGED <<crate, target, vendor, outdir, tpoolLib, previous, settled>>

\* The step is done: on to the next, or the script ends well.
Continue ==
    /\ todo' = Tail(todo)
    /\ report' = IF Tail(todo) = <<>> THEN "ok" ELSE report
    /\ settled' = IF Tail(todo) = <<>> /\ settled < 2 THEN settled + 1 ELSE settled
    /\ UNCHANGED <<crate, target, vendor, previous, seen>>

AtStep(step) == todo # <<>> /\ Head(todo) = step

\* find_vendor: up the parents of the manifest directory until one holds the
\* vendored tree.
FindVendor == AtStep("find") /\ CheckedOut /\ Continue /\ UNCHANGED <<outdir, tpoolLib>>

\* generate_header: canonicalize() fails on a tree that is not there.
GenerateHeader == AtStep("header") /\ CheckedOut /\ Continue /\ UNCHANGED <<outdir, tpoolLib>>

\* tpool_build.compile("fdtpool")
CompileTpool ==
    /\ AtStep("tpool") /\ CheckedOut /\ Continue
    /\ tpoolLib' = [files |-> vendor, macros |-> TpoolMacros]
    /\ UNCHANGED outdir

\* Mutant: a wrapper that is already there is not written again.
MutGenerated(out) ==
    IF Recipe[crate].wraps /\ out.wrapper = 0
    THEN [out EXCEPT !.wrapper = vendor["headers"]] ELSE out

\* bindgen.generate() writes the wrapper; write_to_file the bindings.
Generated(out) ==
    IF Recipe[crate].wraps THEN [out EXCEPT !.wrapper = vendor["headers"]] ELSE out

GenerateBindings ==
    /\ AtStep("bind") /\ CheckedOut /\ Continue /\ UNCHANGED tpoolLib
    /\ outdir' = [Generated(outdir) EXCEPT !.bindings =
                     [headers |-> vendor["headers"],
                      macros |-> MacrosOf(Recipe[crate].bind, target)]]

\* "Couldn't write bindings!": the wrapper is already there.
WriteBindingsFails ==
    /\ AtStep("bind") /\ CheckedOut
    /\ outdir' = Generated(outdir)
    /\ todo' = <<>> /\ seen' = NeverRan /\ report' = "failed"
    /\ UNCHANGED <<crate, target, vendor, tpoolLib, previous, settled>>

\* build.compile: cc fails on a source that does not exist, a listed wrapper
\* included.
Compile ==
    LET r == Recipe[crate] IN
    /\ AtStep("cc") /\ CheckedOut
    /\ r.listed => outdir.wrapper # 0
    /\ Continue /\ UNCHANGED tpoolLib
    /\ outdir' = [outdir EXCEPT
          !.library = [files |-> vendor, macros |-> MacrosOf(r.cc, target)],
          !.inline = IF r.listed
                     THEN [text |-> outdir.wrapper, macros |-> MacrosOf(r.cc, target)]
                     ELSE @]

\* if wrapper_c_path.exists() { wrapper_build.compile(..) }
CompileWrapper ==
    /\ AtStep("wrap") /\ Continue /\ UNCHANGED tpoolLib
    /\ outdir' = IF outdir.wrapper = 0 THEN outdir
                 ELSE [outdir EXCEPT !.inline =
                         [text |-> outdir.wrapper,
                          macros |-> MacrosOf(Recipe[crate].inline, target)]]

BdNext ==
    \/ \E c \in SysCrates, t \in Targets, b \in BOOLEAN : Configure(c, t, b)
    \/ \E k \in FileClasses : Edit(k)
    \/ Clean \/ CargoRuns \/ CargoSkips \/ Fail
    \/ FindVendor \/ GenerateHeader \/ GenerateBindings \/ WriteBindingsFails
    \/ Compile \/ CompileTpool \/ CompileWrapper

BdSpec == BdInit /\ [][BdNext]_bdVars

(***************************************************************************)
(* Properties                                                              *)
(***************************************************************************)
BdTypeOK ==
    /\ crate \in SysCrates \cup {""} /\ target \in Targets
    /\ vendor \in [FileClasses -> 0..(EditMax + 1)] /\ seen \in [FileClasses -> 0..(EditMax + 1)]
    /\ outdir.wrapper \in 0..(EditMax + 1) /\ previous \in 0..(EditMax + 1)
    /\ report \in {"none", "ok", "failed"} /\ settled \in 0..2

Takes(r, step) == \E i \in DOMAIN r.steps : r.steps[i] = step

\* A build that Cargo calls done holds libraries compiled from the files the script saw
\* when it ran last, and those are the files as they are now, but for the sources that no
\* rerun-if-changed line names.
LibraryCurrent ==
    report = "ok" =>
        LET r == Recipe[crate] IN
        /\ outdir.library.files = seen
        /\ Takes(r, "tpool") => tpoolLib.files = seen
        /\ \A k \in FileClasses : (k = "unwatched" => r.unwatched = {}) => seen[k] = vendor[k]

\* The inline functions in the library are those of the bindings.  A script that looks for
\* wrapper.c before bindgen has written it compiles the one the run before has left: on a
\* fresh OUT_DIR none at all, after a change of the headers the old text, and that of the
\* bindings when the headers stayed through two complete runs.
InlineFunctionsFit ==
    report = "ok" =>
        LET r == Recipe[crate] IN
        /\ outdir.bindings.headers = outdir.library.files["headers"]
        /\ r.wraps /\ (r.listed \/ Takes(r, "wrap")) =>
              outdir.inline.text = IF WrapsFirst(r) THEN previous ELSE outdir.bindings.headers
        /\ WrapsFirst(r) /\ settled = 2 => previous = outdir.bindings.headers

InstructionSets == {"X86", "SSE", "AVX", "AVX512", "ARM"}

Divergent == {"base64", "tile", "wksp", "valloc", "tpool", "builders"}

\* Bindings and library see the same configuration of the headers, but for six crates, and
\* this is how those differ: base64's bindgen is given nothing; tile, wksp and valloc have
\* FD_HAS_ATOMIC in the library only, tpool FD_TILE_MAX in the bindings only, the shared
\* builders AVX512 in the bindings only.  The wrapper sees what the bindings see, but
\* compiled inside init_cc it is given no instruction set; the tpool library of wksp has
\* no macro in common with the bindings.
MacrosFit ==
    report = "ok" =>
        LET bind == outdir.bindings.macros
            lib  == outdir.library.macros IN
        /\ crate \notin Divergent => bind = lib
        /\ crate = "base64" => bind = {}
        /\ crate \in {"tile", "wksp", "valloc"} => lib = bind \cup {"ATOMIC"}
        /\ crate = "tpool" => bind = lib \cup {"TILE_MAX"}
        /\ crate = "builders" => lib \subseteq bind /\ bind \subseteq lib \cup {"AVX512"}
        /\ outdir.inline.text # 0 =>
              IF WrapsFirst(Recipe[crate]) THEN outdir.inline.macros \cap InstructionSets = {}
              ELSE outdir.inline.macros = bind
        /\ crate = "wksp" => tpoolLib.macros \cap bind = {}

\* What a build that ended well is.
BuildCoherent == LibraryCurrent /\ InlineFunctionsFit /\ MacrosFit
=============================================================================
