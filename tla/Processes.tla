------------------------------- MODULE Processes -------------------------------
(***************************************************************************)
(* The programs under cmd/: the gRPC server, which also runs the outbox    *)
(* publisher and both consumers, and the three tasks that run one of them  *)
(* each.  A process loads the configuration, builds its parts one on top   *)
(* of the other, runs, is told to stop and closes its parts again.         *)
(*                                                                         *)
(* Every instance reads the same file.  Of it, control depends on which    *)
(* entries messaging.topics has, which of them are usable, that is name a  *)
(* project, a topic and a subscription, and whether the outbox section is  *)
(* accepted.  Kratos and the runners of lingo-utils are external: a runner *)
(* may end at any time, Kratos may stop waiting for the hooks of newApp at *)
(* any time.                                                               *)
(***************************************************************************)
EXTENDS Naturals, Sequences, FiniteSets, SequencesExt

CONSTANTS
    Instances,      \* processes
    EntryNames,     \* keys of messaging.topics
    Durations,      \* timeouts a file may give, 0 for none
    Null

ASSUME ConstantsAssumption ==
    /\ Null \notin EntryNames
    /\ Durations \subseteq Nat

VARIABLES
    program,    \* the program of every process, never changed
    file,       \* the configuration file, never changed
    phase,      \* what every process is doing
    built,      \* how many of its constructors have succeeded
    open,       \* the parts it has opened and not closed, by number
    todo,       \* the cleanups it still has to call, next one first
    entry,      \* the entry of messaging.topics every role was given
    running,    \* the runners that have not returned
    cancelled   \* their contexts have been cancelled

given == <<program, file>>
parts == <<built, open, todo>>
vars == <<given, parts, phase, entry, running, cancelled>>

Programs == {"grpc", "outbox", "engagement", "uploads"}

Roles == {"publisher", "engagement", "uploads"}

(* A process that is aborted has ended without running what it deferred.   *)
Phases == {"off", "building", "serving", "stopping", "closing", "exited", "aborted"}

RolesOf(p) ==
    CASE program[p] = "grpc" -> Roles
      [] program[p] = "outbox" -> {"publisher"}
      [] program[p] = "engagement" -> {"engagement"}
      [] program[p] = "uploads" -> {"uploads"}

Files == {f \in [topics : SUBSET EntryNames, usable : SUBSET EntryNames,
                 outbox : BOOLEAN] : f.usable \subseteq f.topics}

Init ==
    /\ program \in [Instances -> Programs]
    /\ file \in Files
    /\ phase = [p \in Instances |-> "off"]
    /\ built = [p \in Instances |-> 0]
    /\ open = [p \in Instances |-> {}]
    /\ todo = [p \in Instances |-> <<>>]
    /\ entry = [p \in Instances |-> [r \in Roles |-> Null]]
    /\ running = [p \in Instances |-> {}]
    /\ cancelled = [p \in Instances |-> FALSE]

-----------------------------------------------------------------------------
(* What wire_gen.go says of every program: its constructors in the order    *)
(* in which they are called and, for each of them, the number of the        *)
(* cleanup it returns (0 for none) and the cleanups its error branch calls. *)

Constructor(cleanup, unwinds) ==
    [cleanup |-> cleanup, unwinds |-> unwinds, panics |-> FALSE]

(* ProvideOutboxConfig returns no error: it panics, and nothing is closed. *)
OutboxConfig == [cleanup |-> 0, unwinds |-> <<>>, panics |-> TRUE]

GrpcSteps ==
    << Constructor(1, <<>>),                        \* logger
       Constructor(2, <<1>>),                       \* observability
       Constructor(3, <<2, 1>>),                    \* JWT
       Constructor(0, <<3, 2, 1>>),                 \* its server middleware
       Constructor(4, <<3, 2, 1>>),                 \* connection pool
       OutboxConfig,
       Constructor(5, <<4, 3, 2, 1>>),              \* transaction manager
       Constructor(0, <<5, 4, 3, 2, 1>>),           \* signer of upload URLs
       Constructor(0, <<5, 4, 3, 2, 1>>),           \* upload service
       Constructor(6, <<5, 4, 3, 2, 1>>),           \* topic of the publisher
       Constructor(7, <<6, 5, 4, 3, 2, 1>>),        \* engagement subscriber
       Constructor(8, <<7, 6, 5, 4, 3, 2, 1>>) >>   \* uploads subscriber

OutboxSteps ==
    << Constructor(1, <<>>),                        \* logger
       Constructor(2, <<1>>),                       \* connection pool
       OutboxConfig,
       Constructor(3, <<2, 1>>),                    \* topic of the publisher
       Constructor(0, <<3, 2, 1>>) >>               \* the task

(* The two consumers differ in their subscriber alone. *)
ConsumerSteps ==
    << Constructor(1, <<>>),                        \* logger
       Constructor(2, <<1>>),                       \* connection pool
       OutboxConfig,
       Constructor(3, <<2, 1>>),                    \* transaction manager
       Constructor(4, <<3, 2, 1>>),                 \* subscriber
       Constructor(0, <<4, 3, 2, 1>>) >>            \* the task

(* Mutant of Steps: the server does not close its pool when the last        *)
(* constructor fails.                                                      *)
Steps_PoolForgotten(p) ==
    CASE program[p] = "grpc" ->
            [GrpcSteps EXCEPT ![12].unwinds = <<7, 6, 5, 3, 2, 1>>]
      [] program[p] = "outbox" -> OutboxSteps
      [] OTHER -> ConsumerSteps

Steps(p) ==
    CASE program[p] = "grpc" -> GrpcSteps
      [] program[p] = "outbox" -> OutboxSteps
      [] OTHER -> ConsumerSteps

(* The cleanup function a program returns when all is built.               *)
Cleanup(p) ==
    CASE program[p] = "grpc" -> <<8, 7, 6, 5, 4, 3, 2, 1>>
      [] program[p] = "outbox" -> <<3, 2, 1>>
      [] OTHER -> <<4, 3, 2, 1>>

-----------------------------------------------------------------------------
(* Configuration.                                                          *)

(* Mutant of SelectTopic: the default is returned without looking for it. *)
SelectTopic_DefaultAssumed(f, name) == {IF name \in f.topics THEN name ELSE "default"}

(* The entries selectTopic may return: the one of that name, else the      *)
(* default, else whichever the iteration over the map finds first.         *)
SelectTopic(f, name) ==
    IF f.topics = {} THEN {Null}
    ELSE IF name \in f.topics THEN {name}
    ELSE IF "default" \in f.topics THEN {"default"}
    ELSE f.topics

(* The name every role asks for. *)
TopicName(r) == IF r = "publisher" THEN "default" ELSE r

(* handlerTimeoutFromProto: what the file leaves out is 5 s, or 3 s for    *)
(* queries; without a server section nothing is filled in.                 *)
HandlerTimeouts(h) ==
    IF h = Null THEN [default |-> 0, command |-> 0, query |-> 0]
    ELSE LET default == IF h.default > 0 THEN h.default ELSE 5
         IN  [default |-> default,
              command |-> IF h.command > 0 THEN h.command ELSE default,
              query   |-> IF h.query > 0 THEN h.query ELSE 3]

(* Mutant of NewBaseHandler: the missing default is not replaced. *)
NewBaseHandler_NoFallback(t) ==
    LET default == IF t.default > 0 THEN t.default
                   ELSE IF t.command > 0 THEN t.command ELSE t.query
    IN  [default |-> default,
         command |-> IF t.command > 0 THEN t.command ELSE default,
         query   |-> IF t.query > 0 THEN t.query ELSE default]

(* NewBaseHandler fills in what is still missing. *)
NewBaseHandler(t) ==
    LET default == IF t.default > 0 THEN t.default
                   ELSE IF t.command > 0 THEN t.command
                   ELSE IF t.query > 0 THEN t.query
                   ELSE 5
    IN  [default |-> default,
         command |-> IF t.command > 0 THEN t.command ELSE default,
         query   |-> IF t.query > 0 THEN t.query ELSE default]

(* WithTimeout: a handler whose timeout is not positive has none, here 0. *)
WithTimeout(t, kind) ==
    CASE kind = "command" -> t.command
      [] kind = "query" -> t.query
      [] OTHER -> t.default

-----------------------------------------------------------------------------
(* Starting.                                                               *)

(* The file is read and what is mandatory in it is there; of the topics,   *)
(* every role is given one.  The outbox section is looked at later.        *)
Load(p) ==
    /\ phase[p] = "off"
    /\ phase' = [phase EXCEPT ![p] = "building"]
    /\ \E choice \in [Roles -> EntryNames \cup {Null}] :
          /\ \A r \in Roles : choice[r] \in SelectTopic(file, TopicName(r))
          /\ entry' = [entry EXCEPT ![p] = choice]
    /\ UNCHANGED <<given, parts, running, cancelled>>

(* It is missing, cannot be parsed or is refused: nothing was opened.      *)
LoadFails(p) ==
    /\ phase[p] = "off"
    /\ phase' = [phase EXCEPT ![p] = "exited"]
    /\ UNCHANGED <<given, parts, entry, running, cancelled>>

Built(p) == built[p] = Len(Steps(p))

NextStep(p) == Steps(p)[built[p] + 1]

(* The next constructor succeeds; what it opened has a cleanup of its own. *)
Build(p) ==
    /\ phase[p] = "building"
    /\ ~Built(p)
    /\ NextStep(p).panics => file.outbox
    /\ built' = [built EXCEPT ![p] = @ + 1]
    /\ open' = [open EXCEPT ![p] = @ \cup ({NextStep(p).cleanup} \ {0})]
    /\ UNCHANGED <<given, phase, todo, entry, running, cancelled>>

(* The roles for which ProvideRunner returns a runner. *)
Runners(p) == {r \in RolesOf(p) : entry[p][r] \in file.usable}

(* It returns an error, and its branch closes what it names.  The last one *)
(* of a task has nothing to complain of when there is no runner.           *)
BuildFails(p) ==
    /\ phase[p] = "building"
    /\ ~Built(p)
    /\ ~NextStep(p).panics
    /\ program[p] # "grpc" /\ built[p] + 1 = Len(Steps(p)) => Runners(p) # {}
    /\ phase' = [phase EXCEPT ![p] = "closing"]
    /\ todo' = [todo EXCEPT ![p] = NextStep(p).unwinds]
    /\ UNCHANGED <<given, built, open, entry, running, cancelled>>

(* The outbox section is refused: the process panics as it stands.         *)
BuildPanics(p) ==
    /\ phase[p] = "building"
    /\ ~Built(p)
    /\ NextStep(p).panics
    /\ ~file.outbox
    /\ phase' = [phase EXCEPT ![p] = "aborted"]
    /\ UNCHANGED <<given, parts, entry, running, cancelled>>

(* BeforeStart of newApp, or the main function of a task, which returns    *)
(* when it has nothing to run.  The cleanup is deferred from here on.      *)
Start(p) ==
    /\ phase[p] = "building"
    /\ Built(p)
    /\ todo' = [todo EXCEPT ![p] = Cleanup(p)]
    /\ running' = [running EXCEPT ![p] = Runners(p)]
    /\ phase' = [phase EXCEPT ![p] =
                    IF program[p] # "grpc" /\ Runners(p) = {}
                    THEN "closing" ELSE "serving"]
    /\ UNCHANGED <<given, built, open, entry, cancelled>>

-----------------------------------------------------------------------------
(* Running and stopping.                                                   *)

(* A runner ends though nobody told it to.  The server goes on without it; *)
(* a task returns, or exits at once when it ended with an error (os.Exit   *)
(* runs no deferred function), also while it is being stopped.             *)
RunnerEnds(p, r) ==
    /\ phase[p] \in {"serving", "stopping"}
    /\ r \in running[p]
    /\ running' = [running EXCEPT ![p] = @ \ {r}]
    /\ \E end \in IF program[p] = "grpc" THEN {phase[p]} ELSE {"closing", "aborted"} :
          phase' = [phase EXCEPT ![p] = end]
    /\ UNCHANGED <<given, parts, entry, cancelled>>

(* Mutant of Stop: the contexts of the runners are not cancelled. *)
Stop_NoCancel(p) ==
    /\ phase[p] = "serving"
    /\ phase' = [phase EXCEPT ![p] = "stopping"]
    /\ UNCHANGED <<given, parts, entry, running, cancelled>>

(* SIGTERM: the server is stopped, the contexts of the runners cancelled. *)
Stop(p) ==
    /\ phase[p] = "serving"
    /\ phase' = [phase EXCEPT ![p] = "stopping"]
    /\ cancelled' = [cancelled EXCEPT ![p] = TRUE]
    /\ UNCHANGED <<given, parts, entry, running>>

(* A runner notices that its context is cancelled and returns. *)
RunnerReturns(p, r) ==
    /\ cancelled[p]
    /\ r \in running[p]
    /\ running' = [running EXCEPT ![p] = @ \ {r}]
    /\ UNCHANGED <<given, parts, phase, entry, cancelled>>

(* AfterStop has waited for all runners; the deferred cleanup begins. *)
WaitEnds(p) ==
    /\ phase[p] = "stopping"
    /\ running[p] = {}
    /\ phase' = [phase EXCEPT ![p] = "closing"]
    /\ UNCHANGED <<given, parts, entry, running, cancelled>>

(* The context of AfterStop is done first, or app.Run returns an error and *)
(* AfterStop is never called: the cleanup begins beside the runners.       *)
WaitIsCut(p) ==
    /\ program[p] = "grpc"
    /\ phase[p] \in {"serving", "stopping"}
    /\ phase' = [phase EXCEPT ![p] = "closing"]
    /\ UNCHANGED <<given, parts, entry, running, cancelled>>

(* The next cleanup of the branch, or of the function, is called. *)
CloseNext(p) ==
    /\ phase[p] = "closing"
    /\ todo[p] # <<>>
    /\ open' = [open EXCEPT ![p] = @ \ {Head(todo[p])}]
    /\ todo' = [todo EXCEPT ![p] = Tail(@)]
    /\ UNCHANGED <<given, built, phase, entry, running, cancelled>>

(* main returns or panics, and with it ends whatever still runs. *)
Exit(p) ==
    /\ phase[p] = "closing"
    /\ todo[p] = <<>>
    /\ phase' = [phase EXCEPT ![p] = "exited"]
    /\ running' = [running EXCEPT ![p] = {}]
    /\ UNCHANGED <<given, parts, entry, cancelled>>

(* The process is killed, or told to stop before it listens to signals.    *)
Killed(p) ==
    /\ phase[p] \notin {"off", "exited", "aborted"}
    /\ phase' = [phase EXCEPT ![p] = "aborted"]
    /\ running' = [running EXCEPT ![p] = {}]
    /\ UNCHANGED <<given, parts, entry, cancelled>>

(* What a process does on its own once it is told to stop. *)
ShutDown(p) == WaitEnds(p) \/ CloseNext(p) \/ Exit(p)

Next ==
    \E p \in Instances :
        \/ Load(p) \/ LoadFails(p)
        \/ Build(p) \/ BuildFails(p) \/ BuildPanics(p) \/ Start(p)
        \/ Stop(p) \/ WaitIsCut(p) \/ ShutDown(p) \/ Killed(p)
        \/ \E r \in Roles : RunnerEnds(p, r) \/ RunnerReturns(p, r)

(* A runner returns once its context is cancelled, and shutting down goes  *)
(* on.  Nothing has to start, and nobody has to send the signal.           *)
Fairness ==
    \A p \in Instances :
        /\ WF_vars(ShutDown(p))
        /\ \A r \in Roles : WF_vars(RunnerReturns(p, r))

Spec == Init /\ [][Next]_vars /\ Fairness

-----------------------------------------------------------------------------
(* Properties.                                                             *)

(* Type invariant. *)
TypeOK ==
    /\ program \in [Instances -> Programs]
    /\ file \in Files
    /\ phase \in [Instances -> Phases]
    /\ built \in [Instances -> Nat]
    /\ open \in [Instances -> SUBSET (1 .. 8)]
    /\ todo \in [Instances -> Seq(1 .. 8)]
    /\ \A p \in Instances : built[p] <= Len(Steps(p))
    /\ entry \in [Instances -> [Roles -> file.topics \cup {Null}]]
    /\ running \in [Instances -> SUBSET Roles]
    /\ cancelled \in [Instances -> BOOLEAN]

(* Whichever constructor fails, the cleanups that are still to be called    *)
(* are those of the parts that are open, no more and no less, so that a     *)
(* process that exits leaves nothing open and closes nothing twice; and no  *)
(* part is closed before one that was built on it.  Every error branch of   *)
(* wire_gen.go spells out a list of its own, and so does the function it    *)
(* returns.  What ends in a panic or in os.Exit closes nothing.            *)
PartsAreUnwound ==
    \A p \in Instances :
        /\ phase[p] \in {"closing", "exited"} => Range(todo[p]) = open[p]
        /\ \A part \in open[p] : 1 .. part \subseteq open[p]

(* The server never serves a call without a timeout, whichever of them the *)
(* file leaves out, and even without a server section.                     *)
EveryCallIsBounded ==
    \A p \in Instances : program[p] = "grpc" /\ phase[p] = "serving" =>
        \A h \in [default : Durations, command : Durations, query : Durations]
                    \cup {Null} :
            \A kind \in {"default", "command", "query"} :
                WithTimeout(NewBaseHandler(HandlerTimeouts(h)), kind) > 0

(* A process that was told to stop ends: it waits for no runner for ever.  *)
StopEnds ==
    \A p \in Instances : phase[p] = "stopping" ~> phase[p] \in {"exited", "aborted"}
================================================================================
