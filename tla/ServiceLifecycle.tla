-------------------------- MODULE ServiceLifecycle --------------------------
(***************************************************************************)
(* The life of one service under the supervisor: pre-start checks, launch, *)
(* readiness, exit, restart, stop, reload, leaked cgroups, and the         *)
(* registry snapshots that change or withdraw its definition meanwhile.    *)
(*                                                                         *)
(* The supervisor is one thread.  Each action is one handler, which works  *)
(* on a copy of the state and commits it only when every step succeeded.   *)
(* A handler that is refused a step commits nothing; what then happens     *)
(* depends on who called it, and is part of the action:                    *)
(*   - a command is answered with the error;                               *)
(*   - a control operation fails and the service keeps its state;          *)
(*   - a job, notify or deadline event fails the service (Contain);        *)
(*   - the work pump, a calendar timer and the result of a check helper    *)
(*     end the runtime loop, and the machine enters recovery.              *)
(*                                                                         *)
(* Everything other services decide is an input: whether the terminal is   *)
(* held, when dependencies settle, who asks for a start or a stop.         *)
(***************************************************************************)
EXTENDS ServiceTable

CONSTANTS
    Initial,        \* the entry the service may have when the loop begins
    CheckKinds,     \* how pre-start checks are decided: "cached", "helper"
    Sources,        \* who asks for starts
    StopReasons,    \* why a stop is asked for
    Registered,     \* what a registry snapshot may hold for the service
    Hooks,          \* whether there are ExecStartPre hooks, per launch
    MaxGeneration,  \* bound on activations
    MaxCgroup       \* bound on cgroup generations

ASSUME LifecycleAssumption ==
    /\ \A e \in Initial : e.def \in DefinitionType /\ e = NewEntry(e.def)
    /\ \A d \in Registered : d \in DefinitionType \/ d \in {NoDefinition, Undecodable}
    /\ Sources \subseteq {"Admin", "Timer", "Dependency", "BindsTo"}
    /\ StopReasons \subseteq StopCauses
    /\ Hooks \subseteq BOOLEAN
    /\ MaxGeneration \in Nat
    /\ MaxCgroup \in Nat

VARIABLES
    entry,       \* the service's entry in the service table
    start,       \* the start in progress, with its operation and snapshot
    orphan,      \* a check helper whose operation ended while it ran
    main,        \* the open ServiceMain job
    stop,        \* the stop in progress: its tree, and whether it is a restart's
    cleanup,     \* the trees whose ServiceTree cleanup is due some day
    leaked,      \* every tree ever recorded as leaked; they last until reboot
    loop         \* "clean", "contained" once an internal error was contained,
                 \* "ended" once one escaped

vars == <<entry, start, orphan, main, stop, cleanup, leaked, loop>>

(***************************************************************************)
(* A start: the route it takes, how far it is, the cause it will put on    *)
(* the transition to Starting, whether its operation is still live, and    *)
(* the activation snapshot it was planned from.                            *)
(*   graph    - released by the start graph: check, wait for the           *)
(*              dependencies (prechecked), launch;                         *)
(*   relaunch - a due restart backoff: check and launch;                   *)
(*   restart  - the start leg of a restart: Starting first, then check.    *)
(***************************************************************************)
NoStart == [route |-> "none"]
NoJob   == [phase |-> "none"]
NoStop  == [tree |-> "none"]

NewStart(route, phase, cause, e) ==
    [route |-> route, phase |-> phase, cause |-> cause, live |-> TRUE,
     snap |-> ActivationSnapshot(e)]

Up == loop # "ended"

StartIs(phase) == start # NoStart /\ start.phase = phase

\* Who can still be heard of a start whose operation ended: its helper.  The
\* model follows one such helper at a time: a second start whose helper runs
\* ends only after the first was heard of.
RoomForOrphan == StartIs("checking") => orphan = NoStart

Orphaned(st) ==
    IF st # NoStart /\ st.phase = "checking" THEN [st EXCEPT !.live = FALSE]
    ELSE orphan

\* create_initial_start_job: the pre-start hook if there is one, else the
\* main job, of which a service has at most one.
CanCreate(m, hook) == hook \/ m = NoJob

Launching(st, hook) ==
    [st EXCEPT !.phase = IF hook THEN "hooks" ELSE "launched"]

CreatedMain(m, st, hook) ==
    IF hook THEN m
    ELSE [phase |-> "Created", generation |-> st.snap.generation,
          cgroup |-> st.snap.cgroup]

MainIs(phase) == main # NoJob /\ main.phase = phase

(***************************************************************************)
(* Pre-start checks.  The terminal is asked about first, then conditions,  *)
(* then assertions.                                                        *)
(***************************************************************************)
Outcomes(d) ==
    {"pass", "condition", "assert"} \cup (IF d.console THEN {"tty"} ELSE {})

Decisions(d) ==
    (IF "cached" \in CheckKinds THEN Outcomes(d) ELSE {"pass"}) \cup
    (IF "helper" \in CheckKinds THEN {"helper"} ELSE {})

Skipped(e, outcome) ==
    MarkDependentSatisfied(TransitionService(e, "Skipped",
        IF outcome = "tty" THEN "TtyUnavailable" ELSE "ConditionSkipped"))

\* apply_start_failure on the service itself
StartFailed(e, cause, success) ==
    IF ~IsPresent(e) THEN Refused
    ELSE LET d == EvaluateRestartAfterFailure(e.def, cause, success, e.failures)
         IN  IF d.action = "Backoff"
             THEN TransitionToRestartBackoff(e, d.cause)
             ELSE TransitionService(e, "Failed", d.cause)

\* What a check that did not pass makes of the service: in the graph nothing
\* was launched yet, so the restart policy is not consulted.
Unmet(e, route, outcome) ==
    IF outcome # "assert" THEN Skipped(e, outcome)
    ELSE IF route = "graph" THEN TransitionService(e, "Failed", "AssertionError")
    ELSE StartFailed(e, "AssertionError", FALSE)

\* apply_start_satisfaction, with the cause of the operation's source
Satisfied(e, cause) ==
    IF ~IsPresent(e) THEN Refused
    ELSE ReleaseCompletedOneshot(MarkDependentSatisfied(
            TransitionService(e,
                IF e.def.type = "Simple" THEN "Active" ELSE "Completed",
                IF cause = "Timer" THEN "ExplicitStart" ELSE cause)))

(***************************************************************************)
(* What a refused step costs.                                              *)
(***************************************************************************)
FailedInternally(e) ==
    IF IsPresent(e) /\ "InternalError" \in AllowedCauses(e.state, "Failed")
    THEN TransitionService(e, "Failed", "InternalError") ELSE e

\* fail_after_internal_error: the main job is retired, and its tree cleaned
\* unless the job was the event's own; the operation in flight fails.
ContainLeaving(trees) ==
    /\ RoomForOrphan
    /\ entry' = FailedInternally(entry)
    /\ main' = NoJob
    /\ start' = NoStart
    /\ orphan' = Orphaned(start)
    /\ stop' = NoStop
    /\ cleanup' = trees
    /\ loop' = "contained"
    /\ UNCHANGED leaked

Contain(trees) == ContainLeaving(cleanup \cup trees)

MainTree == IF main = NoJob THEN {} ELSE {main.cgroup}

\* The error leaves the loop; init enters recovery.
EndLoop ==
    /\ loop' = "ended"
    /\ UNCHANGED <<entry, start, orphan, main, stop, cleanup, leaked>>

(***************************************************************************)
(* Starting through the graph.                                             *)
(***************************************************************************)
Room == IsPresent(entry) => entry.generation < MaxGeneration

StartCause(source) ==
    CASE source = "Admin"      -> "ExplicitStart"
      [] source = "Timer"      -> "Timer"
      [] source = "Dependency" -> "DependencyStart"
      [] source = "BindsTo"    -> "BindsToRecovery"

\* The states in which each source asks for a start rather than leaving the
\* service alone, deferring, queueing or refusing.
AsksForStart(source, e) ==
    CASE source = "Admin" ->
            e.state \in {"Inactive", "Completed", "Failed", "Skipped"}
      [] source = "Timer" ->
            \/ e.state \in {"Inactive", "Failed"}
            \/ e.state = "Completed" /\ e.def.type = "Oneshot"
      [] source = "Dependency" -> e.state \in {"Inactive", "Failed", "Abandoned"}
      [] source = "BindsTo" ->
            e.state = "Failed" /\ e.cause = "BindsToPropagation"

\* begin_prechecked_ready_start once the dependencies have settled.  The
\* entry is a parameter: with nothing to wait for the launch is part of the
\* handler that began the check.
LaunchRefused(e, st, hook) ==
    IsRefused(TransitionService(e, "Starting", st.cause)) \/ ~CanCreate(main, hook)

LaunchFrom(e, st, hook) ==
    /\ ~LaunchRefused(e, st, hook)
    /\ entry' = TransitionService(e, "Starting", st.cause)
    /\ start' = Launching(st, hook)
    /\ main' = CreatedMain(main, st, hook)
    /\ UNCHANGED <<orphan, stop, cleanup, leaked, loop>>

\* begin_graph_pre_start_check.  A refusal is answered to whoever asked; a
\* calendar timer hands it to the loop.
BeginStart(source, outcome, waits, hook) ==
    /\ Up
    /\ start = NoStart
    /\ CanActivate(entry)
    /\ Room
    /\ AsksForStart(source, entry)
    /\ LET cause == StartCause(source)
           e     == IF entry.state = "Skipped" /\ cause = "ExplicitStart"
                    THEN TransitionService(entry, "Inactive", "ExplicitStart")
                    ELSE entry
           st    == NewStart("graph", "checking", cause, e)
           unmet == Unmet(e, "graph", outcome)
       IN  /\ outcome \in Decisions(e.def)
           /\ \/ /\ outcome = "helper"
                 /\ entry' = e
                 /\ start' = st
                 /\ UNCHANGED <<orphan, main, stop, cleanup, leaked, loop>>
              \/ /\ outcome = "pass"
                 /\ waits
                 /\ entry' = e
                 /\ start' = [st EXCEPT !.phase = "prechecked"]
                 /\ UNCHANGED <<orphan, main, stop, cleanup, leaked, loop>>
              \/ /\ outcome = "pass"
                 /\ ~waits
                 /\ LaunchFrom(e, st, hook)
              \/ /\ outcome = "pass"
                 /\ ~waits
                 /\ LaunchRefused(e, st, hook)
                 /\ source = "Timer"
                 /\ EndLoop
              \/ /\ outcome \notin {"helper", "pass"}
                 /\ ~IsRefused(unmet)
                 /\ entry' = unmet
                 /\ UNCHANGED <<start, orphan, main, stop, cleanup, leaked, loop>>
              \/ /\ outcome \notin {"helper", "pass"}
                 /\ IsRefused(unmet)
                 /\ source = "Timer"
                 /\ EndLoop

\* The dependencies have settled.  The terminal is asked about again.  A
\* refusal is an error of the handler that settled them, of another service.
Launch(held, hook) ==
    /\ Up
    /\ StartIs("prechecked")
    /\ \/ ~held /\ LaunchFrom(entry, start, hook)
       \/ /\ held
          /\ start.snap.def.console
          /\ ~IsRefused(Skipped(entry, "tty"))
          /\ entry' = Skipped(entry, "tty")
          /\ start' = NoStart
          /\ UNCHANGED <<orphan, main, stop, cleanup, leaked, loop>>

\* A hard dependency failed: fail_dependents.
DependencyFails ==
    /\ Up
    /\ StartIs("prechecked")
    /\ LET e == TransitionService(entry, "Failed", "DependencyFailure")
       IN  ~IsRefused(e) /\ entry' = e
    /\ start' = NoStart
    /\ UNCHANGED <<orphan, main, stop, cleanup, leaked, loop>>

\* The operation outlived its pending lifetime: it fails, and only it.
PendingExpires ==
    /\ Up
    /\ StartIs("prechecked")
    /\ start' = NoStart
    /\ UNCHANGED <<entry, orphan, main, stop, cleanup, leaked, loop>>

(***************************************************************************)
(* The answer of a filesystem check helper, or its deadline, after which   *)
(* every check counts as failed.  The deadline's handler is contained, but *)
(* the helper it could not settle is still there to answer.                *)
(***************************************************************************)
HelperRefused(e, st, outcome, hook) ==
    IF outcome = "pass"
    THEN CASE st.route = "graph"    -> FALSE
           [] st.route = "relaunch" ->
                \/ IsRefused(TransitionService(e, "Starting", st.cause))
                \/ ~CanCreate(main, hook)
           [] st.route = "restart"  -> ~CanCreate(main, hook)
    ELSE ~st.live \/ IsRefused(Unmet(e, st.route, outcome))

HelperAnswers(outcome, hook, late) ==
    /\ Up
    /\ StartIs("checking")
    /\ outcome \in Outcomes(start.snap.def) \ {"tty"}
    /\ late => outcome # "pass"
    /\ IF HelperRefused(entry, start, outcome, hook)
       THEN IF late THEN Contain(MainTree) ELSE EndLoop
       ELSE /\ \/ /\ outcome = "pass" /\ start.route = "graph"
                  /\ start' = [start EXCEPT !.phase = "prechecked"]
                  /\ UNCHANGED <<entry, main>>
               \/ /\ outcome = "pass" /\ start.route = "relaunch"
                  /\ entry' = TransitionService(entry, "Starting", start.cause)
                  /\ start' = Launching(start, hook)
                  /\ main' = CreatedMain(main, start, hook)
               \/ /\ outcome = "pass" /\ start.route = "restart"
                  /\ start' = Launching(start, hook)
                  /\ main' = CreatedMain(main, start, hook)
                  /\ UNCHANGED entry
               \/ /\ outcome # "pass"
                  /\ entry' = Unmet(entry, start.route, outcome)
                  /\ start' = NoStart
                  /\ UNCHANGED main
            /\ UNCHANGED <<orphan, stop, cleanup, leaked, loop>>

\* The same for a helper whose operation was cancelled, aborted or failed
\* while it ran.  Nothing retires it, and only a failed check looks at the
\* operation.
OrphanAnswers(outcome, hook) ==
    /\ Up
    /\ orphan # NoStart
    /\ Room
    /\ outcome \in Outcomes(orphan.snap.def) \ {"tty"}
    /\ IF HelperRefused(entry, orphan, outcome, hook)
       THEN EndLoop
       ELSE /\ orphan' = NoStart
            /\ IF orphan.route = "graph"
               THEN UNCHANGED <<entry, start, main>>
               ELSE /\ entry' = IF orphan.route = "restart" THEN entry
                                ELSE TransitionService(entry, "Starting", orphan.cause)
                    /\ start' = IF start = NoStart THEN Launching(orphan, hook)
                                ELSE start
                    /\ main' = CreatedMain(main, orphan, hook)
            /\ UNCHANGED <<stop, cleanup, leaked, loop>>

(***************************************************************************)
(* The restart policy's relaunch: begin_due_restart_policy_relaunch.  A    *)
(* refusal is contained by failing the service.                            *)
(***************************************************************************)
BackoffDue(outcome, hook) ==
    /\ Up
    /\ RestartBackoffDue(entry)
    /\ start = NoStart
    /\ Room
    /\ outcome \in Decisions(entry.def)
    /\ LET e       == ConsumeRestartBackoff(entry)
           st      == NewStart("relaunch", "checking", "RestartPolicy", e)
           unmet   == Unmet(e, "relaunch", outcome)
           refused == IF outcome = "pass" THEN LaunchRefused(e, st, hook)
                      ELSE outcome # "helper" /\ IsRefused(unmet)
       IN  \/ /\ refused
              /\ entry' = FailedInternally(e)
              /\ loop' = "contained"
              /\ UNCHANGED <<start, main>>
           \/ /\ outcome = "pass" /\ ~refused
              /\ entry' = TransitionService(e, "Starting", "RestartPolicy")
              /\ start' = Launching(st, hook)
              /\ main' = CreatedMain(main, st, hook)
              /\ UNCHANGED loop
           \/ /\ outcome = "helper"
              /\ entry' = e
              /\ start' = st
              /\ UNCHANGED <<main, loop>>
           \/ /\ outcome \notin {"pass", "helper"} /\ ~refused
              /\ entry' = unmet
              /\ UNCHANGED <<start, main, loop>>
    /\ UNCHANGED <<orphan, stop, cleanup, leaked>>

(***************************************************************************)
(* From Starting to readiness.  Settle(e, m, trees, own) commits the end   *)
(* of a start, or contains the refusal; `own' says that the event is the   *)
(* main job's own.                                                         *)
(***************************************************************************)
StartIsLive == start # NoStart /\ start.live
CauseOfStart == IF StartIsLive THEN start.cause ELSE "None"

Settle(e, m, trees, own) ==
    IF IsRefused(e) \/ ~StartIsLive
    THEN Contain(IF own THEN {} ELSE MainTree)
    ELSE /\ entry' = e
         /\ start' = NoStart
         /\ main' = m
         /\ cleanup' = cleanup \cup trees
         /\ UNCHANGED <<orphan, stop, leaked, loop>>

HookEnds(ok) ==
    /\ Up
    /\ StartIs("hooks")
    /\ \/ /\ ok
          /\ CanCreate(main, FALSE)
          /\ start' = Launching(start, FALSE)
          /\ main' = CreatedMain(main, start, FALSE)
          /\ UNCHANGED <<entry, orphan, stop, cleanup, leaked, loop>>
       \/ ok /\ ~CanCreate(main, FALSE) /\ Contain(MainTree)
       \/ /\ ~ok
          /\ Settle(StartFailed(entry, "PreHookFailure", FALSE), main,
                    {start.snap.cgroup}, FALSE)

\* The work pump clones the process, which then sets itself up.
JobCloned ==
    /\ Up
    /\ MainIs("Created")
    /\ main' = [main EXCEPT !.phase = "Setup"]
    /\ UNCHANGED <<entry, start, orphan, stop, cleanup, leaked, loop>>

\* apply_service_main_job_started, on the setup handshake.
JobStarts ==
    /\ Up
    /\ MainIs("Setup")
    /\ LET running == [main EXCEPT !.phase = "Running"]
       IN  IF ~IsPresent(entry) \/ entry.state # "Starting" THEN Contain({})
           ELSE IF entry.def.type = "Simple" /\ entry.def.readiness = "Alive"
           THEN Settle(Satisfied(entry, CauseOfStart), running, {}, TRUE)
           ELSE /\ main' = running
                /\ UNCHANGED <<entry, start, orphan, stop, cleanup, leaked, loop>>

\* The process could not be set up, found out by the work pump before it was
\* cloned or by the handshake after.
JobLaunchFails(atPump) ==
    /\ Up
    /\ MainIs(IF atPump THEN "Created" ELSE "Setup")
    /\ LET e == StartFailed(entry, IF atPump THEN "ParentSetupFailure"
                                   ELSE "PreExecFailure", FALSE)
       IN  IF atPump /\ (IsRefused(e) \/ ~StartIsLive)
           THEN EndLoop
           ELSE Settle(e, NoJob, {main.cgroup}, TRUE)

\* READY=1 from the main process: ignored unless the definition now in the
\* table asks for it, rejected unless the job is of this activation.
Ready ==
    /\ Up
    /\ MainIs("Running")
    /\ IsPresent(entry)
    /\ entry.state = "Starting"
    /\ entry.def.type = "Simple"
    /\ entry.def.readiness = "Notify"
    /\ main.generation = entry.generation
    /\ Settle(Satisfied(entry, CauseOfStart), main, {}, TRUE)

\* The readiness deadline is armed with the main job, by the snapshot's
\* definition, and dropped with the operation.  The pump has cloned the process
\* long before; a job that is not running yet is left open.
ReadinessTimesOut ==
    /\ Up
    /\ StartIs("launched")
    /\ ~MainIs("Created")
    /\ start.live
    /\ start.snap.def.type = "Simple"
    /\ start.snap.def.readiness = "Notify"
    /\ Settle(StartFailed(entry, "ReadinessTimeout", FALSE),
              IF MainIs("Running") THEN NoJob ELSE main,
              {start.snap.cgroup}, FALSE)

(***************************************************************************)
(* The running service.  WithPolicy is apply_restart_evaluation: a         *)
(* withdrawn service has no policy left to apply.                          *)
(***************************************************************************)
WithPolicy(e, cause, success) ==
    IF e.removed
    THEN IF cause = "CleanExitRestart"
         THEN TransitionService(e, "Inactive", "CleanExit")
         ELSE TransitionService(e, "Failed", cause)
    ELSE StartFailed(e, cause, success)

ExitedActive(e, success) ==
    IF success /\ e.def.policy # "Always"
    THEN TransitionService(e, "Inactive", "CleanExit")
    ELSE WithPolicy(e, IF success THEN "CleanExitRestart" ELSE "ProcessCrash", success)

\* A stop that other services forced ends in Failed and keeps its cause.
Stopped(e) ==
    TransitionService(e,
        IF e.cause \in {"ConflictEviction", "BindsToPropagation"}
        THEN "Failed" ELSE "Inactive",
        e.cause)

(***************************************************************************)
(* The start leg of a restart, begun in the handler that ended the stop    *)
(* leg: e is the stopped entry and m the main job that is left.            *)
(***************************************************************************)
RestartLegRefused(m, outcome, hook) ==
    outcome = "tty" \/ (outcome = "pass" /\ ~CanCreate(m, hook))

RestartLeg(e, m, outcome, hook) ==
    LET starting == TransitionService(e, "Starting", "ExplicitStart")
        st       == NewStart("restart", "checking", "ExplicitStart", e)
    IN  /\ \/ /\ outcome = "helper"
              /\ entry' = starting
              /\ start' = st
              /\ main' = m
           \/ /\ outcome = "pass"
              /\ entry' = starting
              /\ start' = Launching(st, hook)
              /\ main' = CreatedMain(m, st, hook)
           \/ /\ outcome \notin {"helper", "pass"}
              /\ entry' = Unmet(starting, "restart", outcome)
              /\ start' = NoStart
              /\ main' = m
        /\ stop' = NoStop

\* A mutant of EndStop.
EndStopForGood(before, m, outcome, hook, trees) ==
    /\ entry' = Stopped(before)
    /\ main' = m
    /\ stop' = NoStop
    /\ UNCHANGED <<start, orphan, cleanup, leaked, loop>>

\* The end of a stop, by the exit of the main process or by an empty tree.
EndStop(before, m, outcome, hook, trees) ==
    LET e == Stopped(before)
    IN  IF stop.restart /\ IsPresent(e)
        THEN /\ outcome \in Decisions(e.def)
             /\ IF RestartLegRefused(m, outcome, hook)
                THEN ContainLeaving(cleanup \cup trees)
                ELSE /\ leaked' = leaked \cup before.leaks
                     /\ RestartLeg(e, m, outcome, hook)
                     /\ UNCHANGED <<orphan, cleanup, loop>>
        ELSE /\ outcome = "pass"
             /\ ~hook
             /\ entry' = e
             /\ main' = m
             /\ leaked' = leaked \cup before.leaks
             /\ stop' = NoStop
             /\ UNCHANGED <<start, orphan, cleanup, loop>>

\* apply_service_main_job_terminal, by the state that the exit finds.
Exiting(states) ==
    Up /\ MainIs("Running") /\ IsPresent(entry) /\ entry.state \in states

ExitWhileStarting(success) ==
    /\ Exiting({"Starting"})
    /\ LET e == IF entry.def.type = "Oneshot" /\ success
                THEN Satisfied(entry, CauseOfStart)
                ELSE StartFailed(entry, "ProcessCrash", success)
       IN  Settle(e, NoJob, {}, TRUE)

ExitWhileRunning(success) ==
    /\ Exiting({"Active", "Reloading"})
    /\ entry.def.type = "Simple"
    /\ LET e == IF entry.state = "Active" THEN ExitedActive(entry, success)
                ELSE WithPolicy(entry, "ProcessCrash", success)
       IN  IF IsRefused(e) THEN Contain({})
           ELSE /\ entry' = e
                /\ main' = NoJob
                /\ UNCHANGED <<start, orphan, stop, cleanup, leaked, loop>>

ExitWhileStopping(outcome, hook) ==
    /\ Exiting({"Stopping"})
    /\ entry.def.type = "Simple"
    /\ EndStop(entry, NoJob, outcome, hook, {})

\* The state no longer expects the process: the exit closes its job, and
\* changes nothing else.
ExitLate ==
    /\ Exiting(States \ {"Starting"})
    /\ entry.def.type = "Simple" => entry.state \notin {"Active", "Reloading", "Stopping"}
    /\ main' = NoJob
    /\ UNCHANGED <<entry, start, orphan, stop, cleanup, leaked, loop>>

\* The service was discarded while its process lived on.
ExitUnknown == Up /\ MainIs("Running") /\ ~IsPresent(entry) /\ Contain({})

\* A watchdog or health failure kills the tree and fails the main job.
Escalate(cause) ==
    /\ Up
    /\ MainIs("Running")
    /\ IsPresent(entry)
    /\ entry.state = "Active"
    /\ main.generation = entry.generation
    /\ LET e == StartFailed(entry, cause, FALSE)
       IN  IF IsRefused(e) THEN Contain(MainTree)
           ELSE /\ entry' = e
                /\ main' = NoJob
                /\ cleanup' = cleanup \cup MainTree
                /\ UNCHANGED <<start, orphan, stop, leaked, loop>>

WindowResets ==
    /\ Up
    /\ RestartWindowResetDue(entry)
    /\ entry' = [entry EXCEPT !.failures = 0]
    /\ UNCHANGED <<start, orphan, main, stop, cleanup, leaked, loop>>

BeginReload ==
    /\ Up
    /\ IsPresent(entry)
    /\ entry.state = "Active"
    /\ ~entry.removed
    /\ MainIs("Running")
    /\ entry' = TransitionService(entry, "Reloading", "ExplicitReload")
    /\ UNCHANGED <<start, orphan, main, stop, cleanup, leaked, loop>>

ReloadResolves ==
    /\ Up
    /\ IsPresent(entry)
    /\ entry.state = "Reloading"
    /\ entry' = TransitionService(entry, "Active", "ExplicitReload")
    /\ UNCHANGED <<start, orphan, main, stop, cleanup, leaked, loop>>

(***************************************************************************)
(* Stopping.                                                               *)
(***************************************************************************)
\* The request ends the start in progress before the boundary acts; the
\* boundary needs a running main process.  An explicit stop of a restart's
\* stop leg adopts it.
Stop(cause, restart) ==
    /\ Up
    /\ IsPresent(entry)
    /\ cause \in StopReasons
    /\ entry.state \in {"Starting", "Active", "Reloading"}
    /\ entry.state = "Starting" => cause = "ExplicitStop" /\ ~restart
    /\ restart => cause = "ExplicitStop" /\ ~entry.removed /\ Room
    /\ RoomForOrphan
    /\ orphan' = Orphaned(start)
    /\ IF MainIs("Running")
       THEN /\ entry' = TransitionService(entry, "Stopping", cause)
            /\ start' = NoStart
            /\ stop' = [tree |-> main.cgroup, restart |-> restart]
       ELSE /\ start' = IF StartIs("checking") \/ start = NoStart THEN NoStart
                        ELSE [start EXCEPT !.live = FALSE]
            /\ UNCHANGED <<entry, stop>>
    /\ UNCHANGED <<main, cleanup, leaked, loop>>

AdoptStopLeg ==
    /\ Up
    /\ IsPresent(entry)
    /\ entry.state = "Stopping"
    /\ stop.restart
    /\ MainIs("Running")
    /\ stop' = [stop EXCEPT !.restart = FALSE]
    /\ UNCHANGED <<entry, start, orphan, main, cleanup, leaked, loop>>

\* A stop of a Completed service or of a pending restart, in the command
\* itself: it cancels the start in progress.
StopClears ==
    /\ Up
    /\ IsPresent(entry)
    /\ "ExplicitStop" \in StopReasons
    /\ entry.state \in {"Completed", "Backoff"}
    /\ RoomForOrphan
    /\ entry' = TransitionService(entry, "Inactive", "ExplicitStop")
    /\ start' = NoStart
    /\ orphan' = Orphaned(start)
    /\ UNCHANGED <<main, stop, cleanup, leaked, loop>>

\* A mutant of PostKillDue.
PostKillNeedsMain(found, outcome, hook) ==
    /\ Up
    /\ IsPresent(entry)
    /\ entry.state = "Stopping"
    /\ MainIs("Running")
    /\ found = "empty"
    /\ EndStop(entry, main, outcome, hook, MainTree)

\* The stop timed out, SIGKILL was sent, and the post-kill deadline is due.
\* The main cgroup is populated, or it is empty and the tree is removed, or it
\* is empty and the tree will not go.
PostKillDue(found, outcome, hook) ==
    /\ Up
    /\ IsPresent(entry)
    /\ entry.state = "Stopping"
    /\ found # "empty" => entry.cgroup < MaxCgroup
    /\ \/ /\ found = "populated"
          /\ outcome = "pass"
          /\ ~hook
          /\ entry' = TransitionService(RecordLeakedCgroup(entry, stop.tree),
                                        "Abandoned", "ProcessUnkillable")
          /\ leaked' = leaked \cup {stop.tree}
          /\ stop' = NoStop
          /\ UNCHANGED <<start, orphan, main, cleanup, loop>>
       \/ /\ found = "busy"
          /\ EndStop(RecordLeakedCgroup(entry, stop.tree), main, outcome, hook,
                     MainTree)
       \/ found = "empty" /\ EndStop(entry, main, outcome, hook, MainTree)

\* A reset is refused while an operation is in progress.
Reset ==
    /\ Up
    /\ IsPresent(entry)
    /\ start = NoStart
    /\ entry.state \in {"Failed", "Abandoned", "Skipped"}
    /\ entry' = TransitionService(entry, "Inactive", "ExplicitReset")
    /\ UNCHANGED <<start, orphan, main, stop, cleanup, leaked, loop>>

(***************************************************************************)
(* A cgroup tree is due for its cleanup.  A tree the service runs in again *)
(* is left alone; a populated one is recorded as leaked.                   *)
(***************************************************************************)
CleanupDue(tree, populated) ==
    /\ Up
    /\ tree \in cleanup
    /\ \/ /\ ~populated \/ (main # NoJob /\ main.cgroup = tree)
          /\ cleanup' = cleanup \ {tree}
          /\ UNCHANGED <<entry, start, orphan, main, stop, leaked, loop>>
       \/ /\ populated
          /\ main # NoJob => main.cgroup # tree
          /\ IF IsPresent(entry)
             THEN /\ entry.cgroup < MaxCgroup
                  /\ entry' = RecordLeakedCgroup(entry, tree)
                  /\ cleanup' = cleanup \ {tree}
                  /\ leaked' = leaked \cup {tree}
                  /\ UNCHANGED <<start, orphan, main, stop, loop>>
             ELSE ContainLeaving((cleanup \cup MainTree) \ {tree})

\* reload-config: the registry's snapshot replaces the definitions.  Members
\* of the boot plan that were not launched yet are frozen; the plan's start of
\* a service is its first.
ReloadConfig(incoming, frozen) ==
    /\ Up
    /\ incoming \in Registered
    /\ frozen => /\ StartIs("checking") \/ StartIs("prechecked")
                 /\ start.route = "graph"
                 /\ IsPresent(entry) => entry.generation = 0
    /\ entry' = ApplySnapshot(entry, incoming, frozen)
    /\ UNCHANGED <<start, orphan, main, stop, cleanup, leaked, loop>>

(***************************************************************************)
(* The specification.                                                      *)
(***************************************************************************)
Init ==
    /\ entry \in Initial
    /\ start = NoStart
    /\ orphan = NoStart
    /\ main = NoJob
    /\ stop = NoStop
    /\ cleanup = {}
    /\ leaked = {}
    /\ loop = "clean"

AllOutcomes == {"pass", "condition", "assert", "tty", "helper"}

Next ==
    \/ \E source \in Sources, o \in AllOutcomes, waits \in BOOLEAN, h \in Hooks :
            BeginStart(source, o, waits, h)
    \/ \E held \in BOOLEAN, h \in Hooks : Launch(held, h)
    \/ DependencyFails
    \/ PendingExpires
    \/ \E o \in AllOutcomes, h \in Hooks, late \in BOOLEAN : HelperAnswers(o, h, late)
    \/ \E o \in AllOutcomes, h \in Hooks : OrphanAnswers(o, h)
    \/ \E o \in AllOutcomes, h \in Hooks : BackoffDue(o, h)
    \/ \E ok \in BOOLEAN : HookEnds(ok)
    \/ JobCloned
    \/ JobStarts
    \/ \E atPump \in BOOLEAN : JobLaunchFails(atPump)
    \/ Ready
    \/ ReadinessTimesOut
    \/ \E success \in BOOLEAN : ExitWhileStarting(success)
    \/ \E success \in BOOLEAN : ExitWhileRunning(success)
    \/ \E o \in AllOutcomes, h \in Hooks : ExitWhileStopping(o, h)
    \/ ExitLate
    \/ ExitUnknown
    \/ \E cause \in {"WatchdogTimeout", "HealthCheckFailure"} : Escalate(cause)
    \/ WindowResets
    \/ BeginReload
    \/ ReloadResolves
    \/ \E cause \in StopReasons, restart \in BOOLEAN : Stop(cause, restart)
    \/ AdoptStopLeg
    \/ StopClears
    \/ \E found \in {"populated", "busy", "empty"}, o \in AllOutcomes, h \in Hooks :
            PostKillDue(found, o, h)
    \/ Reset
    \/ \E tree \in cleanup, populated \in BOOLEAN : CleanupDue(tree, populated)
    \/ \E incoming \in Registered, frozen \in BOOLEAN : ReloadConfig(incoming, frozen)

Spec == Init /\ [][Next]_vars

(***************************************************************************)
(* Properties.                                                             *)
(***************************************************************************)
EntryType ==
    [def : DefinitionType, pending : DefinitionType \cup {NoDefinition},
     removed : BOOLEAN, state : States, cause : Causes, generation : Nat,
     failures : Nat, clock : BOOLEAN, since : BOOLEAN,
     cgroup : Nat, leaks : SUBSET Nat]

SnapType == [generation : Nat, cgroup : Nat, def : DefinitionType]

StartType ==
    [route : {"graph", "relaunch", "restart"},
     phase : {"checking", "prechecked", "hooks", "launched"},
     cause : StartCauses, live : BOOLEAN, snap : SnapType]

\* Every variable holds a value of its kind.
TypeOK ==
    /\ entry \in EntryType \cup {NoEntry}
    /\ start \in StartType \cup {NoStart}
    /\ orphan \in StartType \cup {NoStart}
    /\ main \in [phase : {"Created", "Setup", "Running"}, generation : Nat, cgroup : Nat]
                \cup {NoJob}
    /\ stop \in [tree : Nat, restart : BOOLEAN] \cup {NoStop}
    /\ cleanup \subseteq Nat
    /\ leaked \subseteq Nat
    /\ loop \in {"clean", "contained", "ended"}

\* The clock of a restart runs, or the relaunch is being checked.
BackoffHasAWayOut ==
    IsPresent(entry) /\ entry.state = "Backoff" =>
        entry.clock \/ (StartIs("checking") /\ start.route = "relaunch")

\* The main job, the hook or the check helper will be heard of again.
StartingHasAWayOut ==
    IsPresent(entry) /\ entry.state = "Starting" =>
        \/ main # NoJob
        \/ StartIs("hooks") \/ StartIs("checking")
        \/ orphan # NoStart

\* A service is never stuck on its way up: in Backoff and in Starting, whatever
\* ended, was refused or was cancelled meanwhile, something of the service is
\* left that will move it on.
TransientStatesHaveAWayOut == BackoffHasAWayOut /\ StartingHasAWayOut

\* An entry whose definition is withdrawn is there for an instance that still
\* runs, or says that its key does not decode.
WithdrawnIsTransient ==
    IsPresent(entry) /\ entry.removed =>
        entry.state \in RetainsDefinition \/ entry.def = PlaceholderDefinition

\* A tree recorded as leaked lasts until reboot, so the tree that the next
\* start would build is none of those ever recorded for the service.
NextTreeIsFresh == IsPresent(entry) => entry.cgroup \notin leaked

\* The restart policy stops at its budget.
RestartsAreBudgeted == IsPresent(entry) => entry.failures <= MaxRetries

StateOf(e) == IF IsPresent(e) THEN e.state ELSE "Absent"

\* The stop leg of a restart never leaves the service merely stopped: its end
\* is also the beginning of the start leg.
RestartIsNotCutShort ==
    [][ /\ StateOf(entry) = "Stopping"
        /\ stop.restart
        => StateOf(entry') # "Inactive" ]_vars

\* As long as an instance runs, a registry snapshot changes none of the fields
\* it was started from; only the next activation does.
InstanceKeepsItsDefinition ==
    [][ /\ StateOf(entry) \in RetainsDefinition
        /\ StateOf(entry') \in RetainsDefinition
        /\ entry'.generation = entry.generation
        => /\ entry'.def.prog = entry.def.prog
           /\ entry'.def.type = entry.def.type
           /\ entry'.def.remain = entry.def.remain
           /\ entry'.def.compiledIn = entry.def.compiledIn ]_vars

(***************************************************************************)
(* Liveness.  The supervisor's loop always comes round to a deadline that  *)
(* is due, so the deadlines are weakly fair; nothing is assumed of the     *)
(* service's processes.                                                    *)
(***************************************************************************)
Fairness ==
    /\ WF_vars(\E o \in AllOutcomes, h \in Hooks : BackoffDue(o, h))
    /\ WF_vars(\E found \in {"populated", "busy", "empty"}, o \in AllOutcomes, h \in Hooks :
                    PostKillDue(found, o, h))
    /\ WF_vars(\E o \in AllOutcomes, h \in Hooks : HelperAnswers(o, h, TRUE))

FairSpec == Spec /\ Fairness

\* A service does not stay in Backoff: its relaunch is tried.  Nor does it
\* stay Stopping, whatever the process does: it is killed, and given up when
\* it cannot be.
TransientStatesEnd ==
    \A state \in {"Backoff", "Stopping"} :
        /\ Up /\ StateOf(entry) = state
        /\ state = "Backoff" => Room
        ~> (~Up \/ StateOf(entry) # state)
=============================================================================
