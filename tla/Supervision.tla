---------------------------- MODULE Supervision -----------------------------
(***************************************************************************)
(* What watches over a running service: the readiness, stop and reload     *)
(* deadlines, the post-start hooks, the health probes, the watchdog, the   *)
(* notify datagrams that move them, and the one lifecycle timer that       *)
(* serves all of them in the order in which they are due                   *)
(* (src/src/supervisor/{lifecycle_deadline_timer,watchdog,health,notify,   *)
(* post_start_hooks,control/reload}, src/src/execution/{notify,control,    *)
(* start/post}).                                                           *)
(*                                                                         *)
(* One service, and the deadline of one submitted job beside it, which no  *)
(* store can drop.  Every handler is a function of the whole state; time   *)
(* is relative, the time left to each deadline.  Launching the main        *)
(* process, its cgroups and the operation queue are ServiceLifecycle's and *)
(* OperationStore's: a request is made here when nothing is in its way.    *)
(***************************************************************************)
EXTENDS Integers, FiniteSets, ServiceStates

CONSTANTS
    Definitions,     \* the services to choose from: runtime is what WATCHDOG_USEC may
                     \* ask for, garbles that some value may be one that does not parse
    StartTimeout, StopTimeout, BackoffDelay,
    Window,          \* the reload detection window
    HealthInterval, HealthTimeout, Retries,
    Extensions,      \* what EXTEND_TIMEOUT_USEC may ask for
    RetryInterval,   \* how long a deadline that raised is held
    MaxRaises,       \* how often the submitted job's deadline raises
    MaxGenerations, Probes

ASSUME SupervisionAssumption ==
    /\ {StartTimeout, StopTimeout, BackoffDelay, Window, HealthInterval,
        HealthTimeout, Retries, RetryInterval} \subseteq Nat \ {0}
    /\ \A d \in Definitions : /\ d.hooks \in Nat /\ d.watchdog \in Nat /\ d.budget \in Nat
                              /\ {d.health, d.garbles} \subseteq BOOLEAN
                              /\ d.reload \in {"signal", "command"}
                              /\ d.runtime \subseteq Nat
    /\ Extensions \subseteq Nat
    /\ Probes = 1..Cardinality(Probes) /\ Cardinality(Probes) \in Nat

VARIABLE w
vars == <<w>>

(***************************************************************************)
(* The deadlines, with the rank that orders those due at the same time.    *)
(* "orphan" is the deadline of a post-start sequence whose operation was   *)
(* aborted under it.                                                       *)
(***************************************************************************)
Rank == [hook |-> 2, orphan |-> 2, ready |-> 3, stop |-> 4, detect |-> 5, command |-> 6,
         backoff |-> 7, probe |-> 8, watchdog |-> 9, interval |-> 10, job |-> 14]
Kinds == DOMAIN Rank

Smaller(a, b) == IF a <= b THEN a ELSE b
Larger(a, b) == IF a >= b THEN a ELSE b

Arm(s, k, time) == [s EXCEPT !.armed = @ \cup {k}, !.due[k] = time]
Disarm(s, ks) == [s EXCEPT !.armed = @ \ ks, !.due = [k \in Kinds |-> IF k \in ks THEN 0 ELSE @[k]]]
Armed(s, k) == k \in s.armed

NoOp == [type |-> "none", age |-> 0]
NoHooks == [on |-> FALSE, left |-> 0]
NoHealth == [on |-> FALSE, gen |-> 0, probe |-> 0]
NoWatchdog == [on |-> FALSE, gen |-> 0, interval |-> 0]
NoProbe == [state |-> "none", gen |-> 0]
NoHold == [on |-> FALSE, left |-> 0]

\* op is the operation that is running.  strays counts the hook and reload
\* jobs whose record is gone.  killed says whose kill the main process has
\* pending.  quiet, fails and blame are history: the time since the watchdog
\* was last armed or fed, the probes of this activation that failed in a row,
\* and which of the two took the last activation down.
Init ==
    \E d \in Definitions :
        w = [def |-> d, state |-> "Inactive", gen |-> 0, main |-> FALSE, killed |-> "no",
             op |-> NoOp, armed |-> {"job"}, due |-> [k \in Kinds |-> IF k = "job" THEN 1 ELSE 0],
             hooks |-> NoHooks, orphan |-> FALSE, strays |-> 0,
             cmd |-> "none", confirmed |-> FALSE, phase |-> "none",
             health |-> NoHealth, probes |-> [p \in Probes |-> NoProbe], bad |-> 0,
             wd |-> NoWatchdog, restarts |-> 0, hold |-> NoHold, raises |-> 0,
             quiet |-> 0, fails |-> 0, blame |-> "none"]

(***************************************************************************)
(* Health records and the watchdog's.                                      *)
(***************************************************************************)
HealthEnabled(s) == s.def.health

CancelHealth(s) == [Disarm(s, {"interval", "probe"}) EXCEPT !.health = NoHealth]

\* A record of another activation is replaced, its invocation with it.
ScheduleInterval(s) ==
    LET same == s.health.on /\ s.health.gen = s.gen
        kept == IF same THEN s ELSE Disarm(s, {"probe"})
    IN Arm([kept EXCEPT !.health = [on |-> TRUE, gen |-> s.gen,
                                    probe |-> IF same THEN s.health.probe ELSE 0]],
           "interval", HealthInterval)

ScheduleActiveServiceHealth(s) ==
    IF HealthEnabled(s) THEN ScheduleInterval(s) ELSE CancelHealth(s)

RemoveInvocation(s) == [Disarm(s, {"probe"}) EXCEPT !.health.probe = 0]

CancelWatchdog(s) == [Disarm(s, {"watchdog"}) EXCEPT !.wd = NoWatchdog]

ArmWatchdog(s, interval) ==
    IF interval = 0 THEN CancelWatchdog(s)
    ELSE Arm([s EXCEPT !.wd = [on |-> TRUE, gen |-> s.gen, interval |-> interval], !.quiet = 0],
             "watchdog", interval)

ScheduleActiveServiceWatchdog(s) == ArmWatchdog(s, s.def.watchdog)

\* Mutation: supervision is not taken up again after a reload.
SuperviseUnlessReloaded(s, from) ==
    IF s.state = "Active" /\ from # "Reloading"
    THEN ScheduleActiveServiceWatchdog(ScheduleActiveServiceHealth(s))
    ELSE IF from = "Active" THEN CancelWatchdog(CancelHealth(s)) ELSE s

\* apply_health_ and apply_watchdog_scheduling_after_transition.
Supervise(s, from) ==
    IF s.state = "Active"
    THEN ScheduleActiveServiceWatchdog(ScheduleActiveServiceHealth(s))
    ELSE IF from = "Active" THEN CancelWatchdog(CancelHealth(s)) ELSE s

SuperviseAfterPostStart(s) == IF s.state = "Active" THEN Supervise(s, "Active") ELSE s

(***************************************************************************)
(* Transitions.                                                            *)
(***************************************************************************)
EndOp(s) == [s EXCEPT !.op = NoOp]

LaunchMain(s) ==
    Arm([s EXCEPT !.state = "Starting", !.gen = @ + 1, !.main = TRUE, !.killed = "no",
                  !.op = [type |-> "Start", age |-> 0], !.bad = 0, !.fails = 0, !.blame = "none"],
        "ready", StartTimeout)

\* evaluate_restart_after_failure and what its action does.
RestartOrFail(s) ==
    IF s.restarts < s.def.budget
    THEN Arm([s EXCEPT !.state = "Backoff", !.restarts = @ + 1], "backoff", BackoffDelay)
    ELSE [s EXCEPT !.state = "Failed"]

BudgetLeft(s) == s.restarts < s.def.budget

\* fail_after_internal_error.  The operation is failed before the deadlines
\* of the active operations are dropped, so a stop's deadline stays armed.
ContainKeeps == {"stop", "job"}
Contain(s) ==
    Disarm([s EXCEPT !.state = IF "InternalError" \in AllowedCauses(@, "Failed")
                               THEN "Failed" ELSE @,
                     !.main = FALSE, !.op = NoOp,
                     !.strays = @ + (IF s.hooks.on THEN 1 ELSE 0) + (IF s.orphan THEN 1 ELSE 0)
                                  + (IF s.cmd # "none" THEN 1 ELSE 0),
                     !.hooks = NoHooks, !.orphan = FALSE,
                     !.cmd = "none", !.confirmed = FALSE, !.phase = "none",
                     !.health = NoHealth, !.wd = NoWatchdog],
           Kinds \ ContainKeeps)

(***************************************************************************)
(* Post-start hooks.  The hooks of a sequence share the deadline of the    *)
(* start operation.                                                        *)
(***************************************************************************)
\* Mutation: the hooks are not timed.
ReadyWithUntimedHooks(s) ==
    LET active == [Disarm(s, {"ready"}) EXCEPT !.state = "Active"]
    IN IF s.def.hooks = 0 THEN Supervise(EndOp(active), s.state)
       ELSE [active EXCEPT !.hooks = [on |-> TRUE, left |-> s.def.hooks - 1]]

CompleteStartReadiness(s) ==
    LET active == [Disarm(s, {"ready"}) EXCEPT !.state = "Active"]
    IN IF s.def.hooks = 0 THEN Supervise(EndOp(active), s.state)
       ELSE Arm([active EXCEPT !.hooks = [on |-> TRUE, left |-> s.def.hooks - 1]],
                "hook", Larger(0, StartTimeout - s.op.age))

CompletePostStartOperation(s) ==
    SuperviseAfterPostStart(EndOp([Disarm(s, {"hook"}) EXCEPT !.hooks = NoHooks]))

PostStartHookTerminal(s) ==
    IF s.hooks.left > 0 THEN [s EXCEPT !.hooks.left = @ - 1] ELSE CompletePostStartOperation(s)

\* A sequence whose operation was aborted cannot complete it.
OrphanTerminal(s) == Contain([s EXCEPT !.orphan = FALSE])

(***************************************************************************)
(* Health probes.                                                          *)
(***************************************************************************)
\* At the bound on probes that run at once none is created.
FreeProbes(s) == {p \in Probes : s.probes[p].state = "none"}

IntervalDue(s) ==
    IF s.state # "Active" \/ s.health.gen # s.gen \/ ~HealthEnabled(s) THEN CancelHealth(s)
    ELSE LET next == ScheduleInterval(s)
         IN IF next.health.probe # 0 \/ FreeProbes(s) = {} THEN next
            ELSE LET p == CHOOSE q \in FreeProbes(s) : \A r \in FreeProbes(s) : q <= r IN
                 [next EXCEPT !.health.probe = p,
                               !.probes[p] = [state |-> "created", gen |-> s.gen]]

\* The service, its main job with it, is given up.
GiveUp(s, blame) == RestartOrFail([s EXCEPT !.main = FALSE, !.blame = blame])

\* Mutation: the first failure is one too many.
HealthFailureOnce(s) == CancelWatchdog(GiveUp(CancelHealth([s EXCEPT !.bad = @ + 1]), "health"))

HealthFailure(s) ==
    LET counted == [s EXCEPT !.bad = @ + 1]
    IN IF counted.bad < Retries THEN counted
       ELSE IF ~s.main THEN Contain(s)
       ELSE CancelWatchdog(GiveUp(CancelHealth(counted), "health"))

HealthTerminal(s, p, ok) ==
    LET mine == s.probes[p].gen = s.gen
        over == [s EXCEPT !.probes[p] = NoProbe]
    IN IF s.health.probe # p THEN over
       ELSE LET freed == [RemoveInvocation(over) EXCEPT
                             !.fails = IF ok THEN 0
                                       ELSE IF mine THEN Smaller(@ + 1, Retries) ELSE @]
            IN IF s.state # "Active" THEN freed
               ELSE IF ok THEN [freed EXCEPT !.bad = 0] ELSE HealthFailure(freed)

\* A probe whose record went, or whose service is not active, is not started;
\* one that cannot be started says nothing of the service.
LaunchProbe(s, p, ok) ==
    LET stale == s.state # "Active" \/ s.health.probe = 0 \/ s.health.gen # s.probes[p].gen
    IN IF stale THEN [s EXCEPT !.probes[p] = NoProbe]
       ELSE IF ~ok THEN LET failed == [s EXCEPT !.probes[p] = NoProbe]
                        IN IF s.health.probe = p THEN RemoveInvocation(failed) ELSE failed
       ELSE LET run == [s EXCEPT !.probes[p].state = "running"]
            IN IF s.health.probe = p THEN Arm(run, "probe", HealthTimeout) ELSE run

(***************************************************************************)
(* The reload.                                                             *)
(***************************************************************************)
Reloading(s) ==
    Supervise([s EXCEPT !.state = "Reloading", !.op = [type |-> "Reload", age |-> 0]], s.state)

BeginSignalReload(s) == Arm([Reloading(s) EXCEPT !.phase = "initial"], "detect", Window)

BeginCommandReload(s) == Arm([Reloading(s) EXCEPT !.cmd = "created"], "command", StartTimeout)

ReloadedActive(s) ==
    Supervise([EndOp(Disarm(s, {"detect", "command"}))
                  EXCEPT !.state = "Active", !.cmd = "none", !.confirmed = FALSE,
                         !.phase = "none"], "Reloading")

CancelReload(s) ==
    [Disarm(s, {"detect", "command"}) EXCEPT !.cmd = "none", !.confirmed = FALSE, !.phase = "none"]

\* The terminal of the reload command, whose record is still there.
ReloadCommandTerminal(s, ok) ==
    IF s.state # "Reloading" THEN Contain([s EXCEPT !.cmd = "none"])
    ELSE ReloadedActive(s)

(***************************************************************************)
(* Notify datagrams.  A datagram is authenticated as the running main      *)
(* process's.  EXTEND_TIMEOUT_USEC moves the deadline of the transition    *)
(* the service is in, up to four times its timeout after the operation     *)
(* began.                                                                  *)
(***************************************************************************)
\* Mutation: the request is granted whole.
ClampedToRequest(s, requested, timeout) == requested

ClampedDeadline(s, requested, timeout) == Smaller(requested, 4 * timeout - s.op.age)

ExtendTimeout(s, requested) ==
    LET timeout == IF s.state = "Stopping" THEN StopTimeout ELSE StartTimeout
        kind == CASE s.state = "Starting" -> "ready"
                  [] s.state = "Stopping" -> "stop"
                  [] s.state = "Reloading" -> IF Armed(s, "command") THEN "command" ELSE "detect"
                  [] OTHER -> "none"
    IN IF Armed(s, kind) THEN Arm(s, kind, ClampedDeadline(s, requested, timeout)) ELSE s

\* READY=1.
ApplyReady(s) ==
    CASE s.state = "Starting" -> CompleteStartReadiness(s)
      [] s.state = "Reloading" -> IF Armed(s, "command") THEN [s EXCEPT !.confirmed = TRUE]
                                  ELSE ReloadedActive(s)
      [] OTHER -> s

\* RELOADING=1 replaces the window by the extended wait.
ApplyReloading(s) ==
    IF s.state # "Reloading" \/ Armed(s, "command") THEN s
    ELSE Arm([s EXCEPT !.phase = "extended"], "detect", StartTimeout)

\* WATCHDOG=1.
ApplyKeepalive(s) ==
    IF s.state = "Active" /\ s.wd.on /\ s.wd.gen = s.gen THEN ArmWatchdog(s, s.wd.interval)
    ELSE s

\* WATCHDOG_USEC=n.
ApplyWatchdogInterval(s, n) == IF s.state = "Active" THEN ArmWatchdog(s, n) ELSE s

(***************************************************************************)
(* The exit of the main process.  A reload is cancelled when the cause is  *)
(* ProcessCrash, which it is not when the restart budget is exhausted.     *)
(***************************************************************************)
StartFailed(s) == EndOp(RestartOrFail(Disarm(s, {"ready"})))

MainExit(s, clean) ==
    LET gone == [s EXCEPT !.main = FALSE, !.killed = "no"]
    IN CASE s.state = "Starting" -> StartFailed(gone)
         [] s.state = "Active" ->
                Supervise(IF clean THEN [gone EXCEPT !.state = "Inactive"]
                          ELSE RestartOrFail(gone), "Active")
         [] s.state = "Reloading" ->
                IF BudgetLeft(s) THEN EndOp(CancelReload(RestartOrFail(gone)))
                ELSE RestartOrFail(gone)
         [] s.state = "Stopping" ->
                EndOp([Disarm(gone, {"stop"}) EXCEPT !.state = "Inactive"])
         [] OTHER -> gone

(***************************************************************************)
(* Requests.                                                               *)
(***************************************************************************)
StopRunning(s) ==
    LET stopping == [CancelReload(Disarm(s, {"ready", "hook", "orphan"}))
                        EXCEPT !.state = "Stopping", !.op = [type |-> "Stop", age |-> 0],
                               !.strays = @ + (IF s.hooks.on THEN 1 ELSE 0)
                                            + (IF s.orphan THEN 1 ELSE 0),
                               !.hooks = NoHooks, !.orphan = FALSE]
    IN Arm(Supervise(stopping, s.state), "stop", StopTimeout)

\* In Backoff the command itself is the stop.  The start whose hooks are
\* still running is aborted, and its sequence stays.
StopBackoff(s) ==
    LET left == [Disarm(s, {"backoff", "hook"}) EXCEPT !.state = "Inactive", !.hooks = NoHooks]
    IN IF s.hooks.on
       THEN [Arm(left, "orphan", s.due["hook"]) EXCEPT !.orphan = TRUE, !.op = NoOp]
       ELSE left

(***************************************************************************)
(* The lifecycle timer.                                                    *)
(***************************************************************************)
HeldDue(s, k) == IF k = "job" /\ s.hold.on THEN Larger(s.due[k], s.hold.left) ELSE s.due[k]

\* The deadlines that may be the next one; only an orphan's ties with a hook's.
NextScheduled(s) ==
    {k \in s.armed : \A j \in s.armed :
        s.due[k] < s.due[j] \/ (s.due[k] = s.due[j] /\ Rank[k] <= Rank[j])}

IsDue(s, k) == k \in NextScheduled(s) /\ HeldDue(s, k) <= 0

\* Mutation: the deadline is left as it is.
RetireRaisedUnheld(s) == s

\* A deadline that no store can drop is held.
RetireRaised(s) ==
    [s EXCEPT !.hold = [on |-> TRUE, left |-> RetryInterval]]

RestartBackoffDue(s) ==
    IF s.op.type = "none" THEN LaunchMain(Disarm(s, {"backoff"}))
    ELSE [Disarm(s, {"backoff"}) EXCEPT !.state = "Failed"]

ReloadDetectionDue(s) ==
    IF s.state = "Reloading" THEN ReloadedActive(s) ELSE Contain(s)

\* The command is failed as one that runs, which a created one is not.
ReloadCommandDue(s) ==
    IF s.state = "Reloading" /\ s.cmd = "running" THEN ReloadedActive(s)
    ELSE Contain([s EXCEPT !.cmd = "none"])

\* The stop's own main cgroup is killed, whoever runs in it by now.
StopTimeoutDue(s) ==
    [Disarm(s, {"stop"}) EXCEPT !.killed = IF s.main THEN s.state ELSE @]

\* A check that does not answer in time counts as failed.
HealthTimeoutDue(s) == HealthTerminal(s, s.health.probe, FALSE)

WatchdogDue(s) ==
    IF s.state # "Active" \/ s.wd.gen # s.gen THEN CancelWatchdog(s)
    ELSE IF ~s.main THEN Contain(s) ELSE GiveUp(CancelWatchdog(s), "watchdog")

SubmittedJobDue(s, raises) ==
    IF raises THEN RetireRaised([s EXCEPT !.raises = @ + 1])
    ELSE [Disarm(s, {"job"}) EXCEPT !.hold = NoHold]

ProcessDue(s, k, raises) ==
    CASE k = "hook" -> CompletePostStartOperation(s)
      [] k = "orphan" -> OrphanTerminal(s)
      [] k = "ready" -> StartFailed([s EXCEPT !.main = FALSE])
      [] k = "stop" -> StopTimeoutDue(s)
      [] k = "detect" -> ReloadDetectionDue(s)
      [] k = "command" -> ReloadCommandDue(s)
      [] k = "backoff" -> RestartBackoffDue(s)
      [] k = "probe" -> HealthTimeoutDue(s)
      [] k = "watchdog" -> WatchdogDue(s)
      [] k = "interval" -> IntervalDue(s)
      [] k = "job" -> SubmittedJobDue(s, raises)

(***************************************************************************)
(* The specification.                                                      *)
(***************************************************************************)
MaxAge == 4 * Larger(StartTimeout, StopTimeout)
Older(n, cap) == IF n < cap THEN n + 1 ELSE n

Start ==
    /\ w.state \in {"Inactive", "Failed"} /\ w.op = NoOp /\ w.gen < MaxGenerations
    /\ w' = LaunchMain(w)

Stop ==
    \/ /\ w.state \in {"Starting", "Active", "Reloading"} /\ w.main
       /\ ~Armed(w, "stop")   \* one stop deadline at a time
       /\ w' = StopRunning(w)
    \/ w.state = "Backoff" /\ w' = StopBackoff(w)

Reload ==
    /\ w.state = "Active" /\ w.op = NoOp
    /\ \/ w.def.reload = "signal" /\ w' = BeginSignalReload(w)
       \/ w.def.reload = "command" /\ w' = BeginCommandReload(w)

Authentic(s) == s.main
Notified(next) == Authentic(w) /\ w' = next /\ w' # w
NotifyReady == Notified(ApplyReady(w))
NotifyReloading == Notified(ApplyReloading(w))
NotifyWatchdog == Notified(ApplyKeepalive(w))
NotifyInterval == \E n \in w.def.runtime : Notified(ApplyWatchdogInterval(w, n))
NotifyExtend == \E n \in Extensions : Notified(ExtendTimeout(w, n))
\* A value that does not parse is an internal error of the service.
NotifyBadValue == w.def.garbles /\ Notified(Contain(w))

Exit == \E clean \in BOOLEAN : w.main /\ w' = MainExit(w, clean)

HookEnds == w.hooks.on /\ w' = PostStartHookTerminal(w)
OrphanEnds == w.orphan /\ w' = OrphanTerminal(w)
StrayEnds == w.strays > 0 /\ w' = Contain([w EXCEPT !.strays = @ - 1])

ProbeLaunched ==
    \E p \in Probes, ok \in BOOLEAN : w.probes[p].state = "created" /\ w' = LaunchProbe(w, p, ok)
ProbeEnds ==
    \E p \in Probes, ok \in BOOLEAN : w.probes[p].state = "running" /\ w' = HealthTerminal(w, p, ok)

CommandLaunched == w.cmd = "created" /\ w' = [w EXCEPT !.cmd = "running"]
CommandEnds == \E ok \in BOOLEAN : w.cmd = "running" /\ w' = ReloadCommandTerminal(w, ok)

\* The bound on activations.
Room(k) == k = "backoff" /\ w.op = NoOp => w.gen < MaxGenerations

\* One round of process_due_lifecycle_deadlines, which goes on until nothing
\* is due.  What is due in the same tick is due at instants between which
\* other events of the loop may come.
TimerTurn ==
    \E k \in w.armed, raises \in BOOLEAN :
        /\ IsDue(w, k) /\ Room(k)
        /\ raises => k = "job" /\ w.raises < MaxRaises
        /\ w' = ProcessDue(w, k, raises)

\* The loop is never later than the timer.
Tick ==
    /\ w.armed # {} /\ \A k \in w.armed : ~IsDue(w, k)
    /\ w' = [w EXCEPT !.due = [k \in Kinds |-> IF k \in w.armed THEN @[k] - 1 ELSE 0],
                      !.hold.left = IF w.hold.on THEN @ - 1 ELSE 0,
                      !.op.age = IF w.op = NoOp THEN 0 ELSE Older(@, MaxAge),
                      !.quiet = IF w.wd.on THEN Older(@, w.wd.interval) ELSE 0]

Next ==
    \/ Start \/ Stop \/ Reload \/ Exit
    \/ NotifyReady \/ NotifyReloading \/ NotifyWatchdog \/ NotifyInterval \/ NotifyExtend
    \/ NotifyBadValue
    \/ HookEnds \/ OrphanEnds \/ StrayEnds
    \/ ProbeLaunched \/ ProbeEnds \/ CommandLaunched \/ CommandEnds
    \/ TimerTurn \/ Tick

Spec == Init /\ [][Next]_vars

(***************************************************************************)
(* Properties.                                                             *)
(***************************************************************************)
\* A service that is active, and whose post-start hooks are over, is watched:
\* its health interval is armed and its watchdog is, for this activation and
\* not an earlier one, however it came to be active (a start, the last hook,
\* a hook that timed out, a reload that was confirmed, answered or given up).
\* A service that may turn its watchdog off is left out.
ActiveIsSupervised ==
    w.state = "Active" /\ ~w.hooks.on =>
        /\ w.def.health => w.health.on /\ w.health.gen = w.gen /\ Armed(w, "interval")
        /\ w.def.watchdog > 0 /\ 0 \notin w.def.runtime =>
              w.wd.on /\ w.wd.gen = w.gen /\ Armed(w, "watchdog")

\* A service is taken down by the watchdog only when it was silent for the
\* whole interval, and for its health only when as many of this activation's
\* own probes failed in a row as the definition allows: nothing an earlier
\* activation did, or failed to do, counts.
EscalationIsEarned ==
    [][/\ w.blame # "watchdog" /\ w'.blame = "watchdog" =>
              w.wd.gen = w.gen /\ w.quiet >= w.wd.interval
       /\ w.blame # "health" /\ w'.blame = "health" => w'.fails >= Retries]_vars

\* However often EXTEND_TIMEOUT_USEC comes, a start, a stop and a reload
\* command are over four times their timeout after they began.
ExtensionsAreCapped ==
    /\ Armed(w, "ready") => w.op.age + w.due["ready"] <= 4 * StartTimeout
    /\ w.op.type = "Stop" /\ Armed(w, "stop") => w.op.age + w.due["stop"] <= 4 * StopTimeout
    /\ w.op.type = "Reload" /\ Armed(w, "command") =>
          w.op.age + w.due["command"] <= 4 * StartTimeout

\* A deadline that raises and that no store can drop is tried again once an
\* interval.
RetriesArePaced ==
    [][w.raises > 0 /\ w'.raises # w.raises => w.hold.on /\ w.hold.left <= 0]_vars

\* A start is over in the end, whether the process reports ready, extends,
\* exits, hangs or runs hooks that hang, and whatever else is due.
StartsEnd == (w.op.type = "Start") ~> (w.op.type # "Start")

FairSpec == Spec /\ WF_vars(TimerTurn) /\ WF_vars(Tick)
=============================================================================
