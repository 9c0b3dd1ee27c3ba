--------------------------------- MODULE Log ---------------------------------
(***************************************************************************)
(* The logger (fd_log).  Its state is the C library's and global to the    *)
(* process: levels that any thread may set at any time, and the logfile,   *)
(* which a boot opens.  A SystemLogBuilder collects a configuration; its   *)
(* level, colour, thread and cpu setters change the global state at once,  *)
(* long before init.  init boots at most once per process (a Once), and    *)
(* every later init is told the outcome of that boot.                      *)
(*                                                                         *)
(* Of the four levels one (level_stderr) stands for all; texts are whether *)
(* they hold a NUL byte; the logging calls below the fatal levels leave    *)
(* the state alone.  The C logger is external.                             *)
(***************************************************************************)
EXTENDS Integers

CONSTANTS
    LThreads,     \* threads, with one builder each
    LevelsUsed    \* bound: the levels a run uses

LogLevels == 0..7        \* LogLevel, Debug to Emergency

\* The names of the states of a Once and of the missing logfile are no threads; the
\* setters of a builder take a LogLevel.
ASSUME LogAssumption ==
    LThreads \cap {"new", "done", "none"} = {} /\ LevelsUsed \subseteq LogLevels

Fatal(l) == l >= 4    \* Error and above go to fd_log_private_2, which ends the process

DefaultLevel == 2     \* LogConfig::default: Notice on stderr
NoResult == "noresult"

VARIABLES
    level,       \* level_stderr of the C logger
    logfile,     \* the file or descriptor the logger writes to: "none" or the thread that named it
    boots,       \* times boot_custom reached the C logger through init, and by a direct call,
                 \* and what the last direct call returned
    once,        \* LOGGER_INIT: "new", "done", or the thread that is inside call_once
    onceResult,  \* LOGGER_INIT_RESULT
    builder,     \* per thread, the LogConfig it has collected
    initState,   \* per thread, where its init is: "building", "calling" or "returned"
    outcome,     \* per thread, what init returned
    logEnded        \* the process was ended by a fatal message

lgVars == <<level, logfile, boots, once, onceResult, builder, initState, outcome, logEnded>>

EmptyConfig == [level |-> DefaultLevel, file |-> FALSE, nul |-> FALSE]

LgInit ==
    /\ level = DefaultLevel /\ logfile = "none" /\ boots = [once |-> 0, direct |-> 0, ret |-> NoResult]
    /\ once = "new" /\ onceResult = NoResult
    /\ builder = [t \in LThreads |-> EmptyConfig]
    /\ initState = [t \in LThreads |-> "building"]
    /\ outcome = [t \in LThreads |-> NoResult] /\ logEnded = FALSE

\* LogLevel::from_int: an integer the enum does not know reads as Info.
FromInt(i) == IF i \in LogLevels THEN i ELSE 1

\* set_level_* and with_*_level: the setter of the builder sets the global level as well.
WithLevel(t, l) ==
    /\ initState[t] = "building"
    /\ builder' = [builder EXCEPT ![t].level = l] /\ level' = FromInt(l)
    /\ UNCHANGED <<logfile, boots, once, onceResult, initState, outcome, logEnded>>

\* with_file and with_fd, and the other setters that touch the configuration only; a text
\* with a NUL byte is found out by boot_custom.
WithFile(t, nul) ==
    /\ initState[t] = "building"
    /\ builder' = [builder EXCEPT ![t].file = TRUE, ![t].nul = nul]
    /\ UNCHANGED <<level, logfile, boots, once, onceResult, initState, outcome, logEnded>>

\* boot_custom up to the call of the C logger: the texts are checked first.
BootResult(config) == IF config.nul THEN "NulError" ELSE "ok"

\* boot_custom, boot_with_logfile and boot_with_fd called directly: nothing counts the
\* boots.  boot_with_fd refuses a negative descriptor before it makes a configuration.
DirectResult(named) ==
    IF named = "negative" THEN "InvalidFd"
    ELSE BootResult([EmptyConfig EXCEPT !.nul = (named = "nul")])

BootDirect(t, named) ==
    /\ initState[t] = "building" /\ boots.direct = 0
    /\ LET r == DirectResult(named)
       IN  IF r = "ok"
           THEN /\ level' = DefaultLevel /\ logfile' = t
                /\ boots' = [once |-> boots.once, direct |-> 1, ret |-> r]
           ELSE boots' = [boots EXCEPT !.ret = r] /\ UNCHANGED <<level, logfile>>
    /\ UNCHANGED <<once, onceResult, builder, initState, outcome, logEnded>>

(***************************************************************************)
(* init.  Without a file it succeeds and does nothing.  Otherwise it       *)
(* enters the Once, or waits until the thread that is in it has left.      *)
(***************************************************************************)
CallInit(t) ==
    /\ initState[t] = "building"
    /\ IF builder[t].file
       THEN initState' = [initState EXCEPT ![t] = "calling"] /\ UNCHANGED outcome
       ELSE initState' = [initState EXCEPT ![t] = "returned"] /\ outcome' = [outcome EXCEPT ![t] = "ok"]
    /\ UNCHANGED <<level, logfile, boots, once, onceResult, builder, logEnded>>

EnterOnce(t) ==
    /\ initState[t] = "calling" /\ once = "new"
    /\ once' = t
    /\ UNCHANGED <<level, logfile, boots, onceResult, builder, initState, outcome, logEnded>>

\* Mutant: the error of a boot leaves the closure before the Once is done.
MutBootOnce(t) ==
    LET r == BootResult(builder[t])
    IN  /\ initState[t] = "calling" /\ once = t /\ r = "ok"
        /\ level' = builder[t].level /\ logfile' = t
        /\ boots' = [boots EXCEPT !.once = @ + 1]
        /\ onceResult' = r /\ once' = "done"
        /\ UNCHANGED <<builder, initState, outcome, logEnded>>

\* The closure of call_once: boot_custom, and its result is kept.
BootOnce(t) ==
    LET r == BootResult(builder[t])
    IN  /\ initState[t] = "calling" /\ once = t
        /\ IF r = "ok"
           THEN /\ level' = builder[t].level /\ logfile' = t
                /\ boots' = [boots EXCEPT !.once = @ + 1]
           ELSE UNCHANGED <<level, logfile, boots>>
        /\ onceResult' = r /\ once' = "done"
        /\ UNCHANGED <<builder, initState, outcome, logEnded>>

\* The end of init: the stored result, whoever produced it.  try_init passes it on: the one
\* error it would turn into Ok, InitializationFailed, is never produced.
ReturnInit(t) ==
    /\ initState[t] = "calling" /\ once = "done"
    /\ initState' = [initState EXCEPT ![t] = "returned"]
    /\ outcome' = [outcome EXCEPT ![t] = onceResult]
    /\ UNCHANGED <<level, logfile, boots, once, onceResult, builder, logEnded>>

\* _fd_log and hexdump: the level decides between fd_log_private_1 and fd_log_private_2.
Emit(l) ==
    /\ logEnded' = Fatal(l)
    /\ UNCHANGED <<level, logfile, boots, once, onceResult, builder, initState, outcome>>

LgNext ==
    /\ ~logEnded
    /\ \/ \E l \in LevelsUsed : Emit(l)
       \/ \E t \in LThreads :
             \/ CallInit(t) \/ EnterOnce(t) \/ BootOnce(t) \/ ReturnInit(t)
             \/ \E l \in LevelsUsed : WithLevel(t, l)
             \/ \E nul \in BOOLEAN : WithFile(t, nul)
             \/ \E named \in {"path", "nul", "negative"} : BootDirect(t, named)

\* Scheduling lets a thread that is inside init go on (a Once and a mutex that is never held
\* across a wait); nothing makes a thread call init.
LgFairness == \A t \in LThreads : WF_lgVars(~logEnded /\ (EnterOnce(t) \/ BootOnce(t) \/ ReturnInit(t)))

LgSpec == LgInit /\ [][LgNext]_lgVars /\ LgFairness

----------------------------------------------------------------------------
LgTypeOK ==
    /\ level \in LogLevels /\ logfile \in LThreads \cup {"none"}
    /\ once \in LThreads \cup {"new", "done"}
    /\ \A t \in LThreads : outcome[t] \in {NoResult, "ok", "NulError"}
    /\ boots.ret \in {NoResult, "ok", "NulError", "InvalidFd"}

(***************************************************************************)
(* Threads that race to initialise the logger boot it once between them    *)
(* and agree: whoever asked for a file is told the outcome of the one boot *)
(* there was, and finds the logger booted when it is told ok (the result   *)
(* is there when call_once returns, so that the unwrap of init cannot      *)
(* fail).                                                                  *)
(***************************************************************************)
OneBoot ==
    /\ boots.once <= 1
    /\ once = "done" => onceResult /= NoResult
    /\ \A t \in LThreads : initState[t] = "returned" /\ builder[t].file =>
          /\ outcome[t] = onceResult
          /\ outcome[t] = "ok" => boots.once = 1 /\ logfile /= "none"

\* An init that was called returns, unless a fatal message ends the process.
InitReturns == \A t \in LThreads : initState[t] = "calling" ~> (logEnded \/ initState[t] = "returned")
=============================================================================
