------------------------------- MODULE Tracing -------------------------------
(***************************************************************************)
(* Installing the tracing subscriber and what it makes of an event         *)
(* (composites/tracing: lib.rs, builder.rs, subscriber.rs, layer.rs,       *)
(* otel.rs).                                                               *)
(*                                                                         *)
(* A subscriber is installed in two steps: it is put into a cell that is   *)
(* written once, and then made the global dispatcher of the tracing crate, *)
(* which the rest of the program may also set, once.  Threads may do this  *)
(* at the same time.  The spans an event refers to are SpanTracker's.      *)
(***************************************************************************)
EXTENDS Integers, Sequences, FiniteSets

CONSTANTS TrThreads,  \* threads that initialise or log
          EventFields,\* names of fields an event may carry, "message" among them
          Customs     \* custom field names a builder may be given

NoThread == "nobody"

ASSUME TracingAssumption ==
  "message" \in EventFields /\ NoThread \notin TrThreads /\ "foreign" \notin TrThreads

VARIABLES cell,      \* GLOBAL_SUBSCRIBER: the thread that set it, or NoThread
          dispatch,  \* whose subscriber events go to: a thread's, "foreign", or NoThread
          initing,   \* thread -> "out" | "cell" (cell set, dispatcher not yet) | "done"
          mode,      \* thread -> "init" | "try_init"
          answer,    \* thread -> what its call returned
          tbuilder,  \* the builder's settings
          line       \* the last event's text: [fields, parts]

trVars == <<cell, dispatch, initing, mode, answer, tbuilder, line>>

Answers == {"none", "Ok", "AlreadyInitialized", "InitializationFailed"}
TracingErrors == {"InitializationFailed", "InvalidConfiguration", "AlreadyInitialized"}
Reserved == {"message", "level", "target", "timestamp", "file", "line"}
NoLine == [fields |-> {}, parts |-> {}, level |-> "none"]

\* FdTracingBuilder::default
DefaultBuilder == [maxLevel |-> "INFO", spans |-> TRUE, structured |-> TRUE,
                   thread |-> TRUE, custom |-> <<>>]

TrInit == /\ cell = NoThread /\ dispatch = NoThread
          /\ initing = [t \in TrThreads |-> "out"]
          /\ mode = [t \in TrThreads |-> "init"]
          /\ answer = [t \in TrThreads |-> "none"]
          /\ tbuilder = DefaultBuilder
          /\ line = NoLine

(***************************************************************************)
(* The levels of the two systems, and of OpenTelemetry.                    *)
(***************************************************************************)
Levels == <<"TRACE", "DEBUG", "INFO", "WARN", "ERROR">>
FdLevels == <<"Debug", "Info", "Notice", "Warning", "Error", "Critical", "Alert", "Emergency">>
TracingToFd(l) == CASE l \in {"TRACE", "DEBUG"} -> "Debug" [] l = "INFO" -> "Info"
                    [] l = "WARN" -> "Warning" [] l = "ERROR" -> "Error"
FdToTracing(l) == CASE l = "Debug" -> "DEBUG" [] l \in {"Info", "Notice"} -> "INFO"
                    [] l = "Warning" -> "WARN" [] OTHER -> "ERROR"
SeverityToFd(s) == IF s = "FATAL" THEN "Critical" ELSE TracingToFd(s)
Rank(seq, l) == CHOOSE i \in 1..Len(seq) : seq[i] = l
\* LevelFilter of with_max_level_filter: events up to the level's verbosity pass
Passes(l, max) == IF max = "none" THEN TRUE ELSE Rank(Levels, l) >= Rank(Levels, max)
\* enabled: either sink of the logger is open for the level
LayerEnabled(l, stderr, logfile) ==
  Rank(FdLevels, TracingToFd(l)) >= Rank(FdLevels, stderr) \/ Rank(FdLevels, TracingToFd(l)) >= Rank(FdLevels, logfile)

(***************************************************************************)
(* The builder: with_*, validate (which no other call of the code makes).  *)
(***************************************************************************)
With(field, value) ==
  /\ cell = NoThread
  /\ tbuilder' = [tbuilder EXCEPT ![field] = value]
  /\ UNCHANGED <<cell, dispatch, initing, mode, answer, line>>
WithCustomField(name) ==
  /\ cell = NoThread /\ Len(tbuilder.custom) < 2
  /\ tbuilder' = [tbuilder EXCEPT !.custom = Append(@, name)]
  /\ UNCHANGED <<cell, dispatch, initing, mode, answer, line>>
Validates(b) == /\ \A i, j \in 1..Len(b.custom) : i # j => b.custom[i] # b.custom[j]
                /\ \A i \in 1..Len(b.custom) : b.custom[i] \notin Reserved

(***************************************************************************)
(* init_global_subscriber, and try_init_global_subscriber, which turns     *)
(* AlreadyInitialized into Ok.                                             *)
(***************************************************************************)
Answered(t, a) == answer' = [answer EXCEPT ![t] = IF mode'[t] = "try_init" /\ a = "AlreadyInitialized"
                                                  THEN "Ok" ELSE a]

SetCell(t, m) ==
  /\ initing[t] = "out"
  /\ mode' = [mode EXCEPT ![t] = m]
  /\ \/ /\ cell = NoThread
        /\ cell' = t
        /\ initing' = [initing EXCEPT ![t] = "cell"]
        /\ UNCHANGED answer
     \/ /\ cell # NoThread
        /\ initing' = [initing EXCEPT ![t] = "done"]
        /\ Answered(t, "AlreadyInitialized")
        /\ UNCHANGED cell
  /\ UNCHANGED <<dispatch, tbuilder, line>>

SetDefault(t) ==
  /\ initing[t] = "cell"
  /\ initing' = [initing EXCEPT ![t] = "done"]
  /\ \/ dispatch = NoThread /\ dispatch' = t /\ answer' = [answer EXCEPT ![t] = "Ok"]
     \/ /\ dispatch # NoThread
        /\ answer' = [answer EXCEPT ![t] = "InitializationFailed"]
        /\ UNCHANGED dispatch
  /\ UNCHANGED <<cell, mode, tbuilder, line>>

\* Another part of the program installs a subscriber of its own (external)
ForeignDefault ==
  /\ dispatch = NoThread
  /\ dispatch' = "foreign"
  /\ UNCHANGED <<cell, initing, mode, answer, tbuilder, line>>

(***************************************************************************)
(* on_event: the fields are collected by name, and format_message puts the *)
(* text together: the message, the fields if there is more than one, the   *)
(* span, the thread, the custom fields; never an empty text.               *)
(***************************************************************************)
Parts(b, fields, inSpan) ==
  LET message == { <<"message", f>> : f \in fields \cap {"message"} }
      structured == IF b.structured /\ Cardinality(fields) > 1
                    THEN { <<"field", f>> : f \in fields \ {"message"} } ELSE {}
      span == IF b.spans /\ inSpan THEN {<<"span", "name">>} ELSE {}
      thread == IF b.thread THEN {<<"thread", "name">>} ELSE {}
      custom == { <<"custom", b.custom[i]>> : i \in { j \in 1..Len(b.custom) : b.custom[j] \in fields } }
      all == message \cup structured \cup span \cup thread \cup custom
  IN IF all = {} THEN {<<"event", "target">>} ELSE all

OnEvent(l, fields, inSpan) ==
  /\ dispatch \in TrThreads
  /\ Passes(l, tbuilder.maxLevel)
  /\ line' = [fields |-> fields, parts |-> Parts(tbuilder, fields, inSpan), level |-> TracingToFd(l)]
  /\ UNCHANGED <<cell, dispatch, initing, mode, answer, tbuilder>>

TrNext ==
  \/ \E t \in TrThreads : SetDefault(t) \/ \E m \in {"init", "try_init"} : SetCell(t, m)
  \/ ForeignDefault
  \/ \E f \in {"spans", "structured", "thread"}, v \in BOOLEAN : With(f, v)
  \/ \E l \in {"none", "WARN"} : With("maxLevel", l)
  \/ \E n \in Customs : WithCustomField(n)
  \/ \E l \in {"INFO", "WARN"}, fs \in SUBSET EventFields, s \in BOOLEAN : OnEvent(l, fs, s)

TrSpec == TrInit /\ [][TrNext]_trVars

TrTypeOK == /\ cell \in TrThreads \cup {NoThread}
            /\ dispatch \in TrThreads \cup {NoThread, "foreign"}
            /\ initing \in [TrThreads -> {"out", "cell", "done"}]
            /\ mode \in [TrThreads -> {"init", "try_init"}]
            /\ answer \in [TrThreads -> Answers]

(***************************************************************************)
(* What the calls say of the installation, whatever other threads and the  *)
(* rest of the program do between the two steps (lib.rs 29, 33): an Ok of  *)
(* init is about the dispatcher in use; a failure to install is reported   *)
(* by the call that met it, whose subscriber then stays in the cell for    *)
(* ever; and a call that found the cell taken (AlreadyInitialized, which   *)
(* try_init turns into Ok) was beaten by a thread that has installed its   *)
(* subscriber, is about to, or was told that it could not.  So an Ok of    *)
(* try_init does not say that a subscriber of this crate is installed, but *)
(* never do all the calls return without one and without an error.         *)
(***************************************************************************)
InitTellsTheOutcome ==
  \A t \in TrThreads :
    /\ answer[t] = "Ok" /\ mode[t] = "init" => dispatch = t /\ cell = t
    /\ answer[t] = "InitializationFailed" => cell = t /\ dispatch = "foreign"
    /\ answer[t] # "none" /\ cell # t =>
         /\ cell \in TrThreads
         /\ \/ initing[cell] = "cell" \/ dispatch = cell
            \/ answer[cell] = "InitializationFailed"

(***************************************************************************)
(* The text of an event (layer.rs format_message) is never empty, has its  *)
(* message, and with structured logging every other field when there are   *)
(* at least two; levels keep their order on the way to the logger.         *)
(***************************************************************************)
EventTextComplete ==
  /\ line # NoLine =>
       /\ line.parts # {}
       /\ "message" \in line.fields => <<"message", "message">> \in line.parts
       /\ tbuilder.structured /\ Cardinality(line.fields) > 1 =>
            \A f \in line.fields \ {"message"} : <<"field", f>> \in line.parts
  /\ \A i, j \in 1..5 : i <= j =>
       Rank(FdLevels, TracingToFd(Levels[i])) <= Rank(FdLevels, TracingToFd(Levels[j]))
  /\ \A i \in 2..5 : FdToTracing(TracingToFd(Levels[i])) = Levels[i]

TracingSound == InitTellsTheOutcome /\ EventTextComplete
=============================================================================
