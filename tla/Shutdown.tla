------------------------------ MODULE Shutdown ------------------------------
(***************************************************************************)
(* The shutdown of the machine (src/src/shutdown,                          *)
(* src/src/supervisor/shutdown*.rs): the plan, the waves in reverse        *)
(* dependency order, the stop, post-kill and global timeouts, the forced   *)
(* and the Critical reboot, and the final action; composed with the        *)
(* submitted jobs, which the shutdown stops, kills and waits for.          *)
(*                                                                         *)
(* `m' holds the services as the shutdown sees them and the                *)
(* ShutdownRuntime.  A service's life before the shutdown is               *)
(* ServiceLifecycle's subject: here it begins in one of InitialServices.   *)
(* Time is abstract: a deadline that is armed may be due at any moment.    *)
(***************************************************************************)
EXTENDS SubmittedJobs, FiniteSetsExt, Folds

CONSTANTS
    Services,
    Requires,           \* the hard dependencies of a service
    CompiledIn,         \* the services that come with peinit
    Critical,           \* the services with ErrorControl=Critical
    InitialServices,    \* what the services may be when the model begins
    Unkillable,         \* services whose processes may survive SIGKILL
    Mounts,             \* mount points, as sequences of path segments
    MaxServicesWithJobs \* bound: a job is submitted beside this many processes

ASSUME ShutdownAssumption ==
    /\ IsFiniteSet(Services)
    /\ Requires \in [Services -> SUBSET Services]
    /\ CompiledIn \subseteq Services
    /\ Critical \subseteq Services
    /\ Unkillable \subseteq Services
    /\ IsFiniteSet(Mounts) /\ <<>> \in Mounts

VARIABLE m

allvars == <<w, wait, m>>

(***************************************************************************)
(* The state.                                                              *)
(***************************************************************************)
Causes2 == {"None", "ExplicitStop", "ShutdownWave", "BindsToPropagation", "CleanExit",
            "ProcessCrash", "ProcessUnkillable", "InternalError", "RestartBudgetExhausted"}

\* main: the record of the main job; life, exit: its process; helper: a hook
\* or a health check of the service, with its record.  evidence: what a stop
\* that began before the shutdown left behind.  stop: the service's
\* Shutdown-sourced Stop operation; terms: the SIGTERMs of the shutdown.
Service ==
    [state : {"Inactive", "Starting", "Active", "Reloading", "Stopping", "Completed",
              "Backoff", "Failed", "Abandoned"},
     cause : Causes2,
     main : {"none", "queued", "setup", "running"},
     life : {"none", "alive", "zombie"}, exit : {"Success", "Failure"},
     helper : {"none", "alive", "zombie"}, killed : BOOLEAN, acked : BOOLEAN,
     evidence : {"none", "operation", "untimed", "runtime", "mismatched"},
     stop : {"None", "Pending", "Running", "Completed", "Failed"}, terms : Nat]

ASSUME InitialServicesAssumption == InitialServices \subseteq [Services -> Service]

\* ShutdownRuntime, with finalization "None" while there is no shutdown.
Runtime ==
    [waves : Seq(SUBSET Services), already : SUBSET Services, at : Nat,
     stops : [Services -> {"none", "later", "due"}], posts : SUBSET Services,
     fired : BOOLEAN, final : {"None", "WaitingForServices", "Ready", "Failed", "Completed"},
     forced : BOOLEAN, cleaned : BOOLEAN]

NoShutdown ==
    [waves |-> <<>>, already |-> {}, at |-> 0, stops |-> [s \in Services |-> "none"],
     posts |-> {}, fired |-> FALSE, final |-> "None", forced |-> FALSE, cleaned |-> FALSE]

\* immediate_runtime: an empty plan, and a final action that is due.
ImmediateRuntime(old) ==
    [NoShutdown EXCEPT !.fired = TRUE, !.final = "Failed", !.forced = TRUE,
                       !.cleaned = old.cleaned]

InitShutdown ==
    /\ Init
    /\ \E f \in InitialServices :
         m = [svc |-> f, sd |-> NoShutdown, presses |-> 0, loop |-> TRUE,
              mounts |-> [p \in Mounts |-> "mounted"], busy |-> {}]

InProgress == m.sd.final # "None"

\* service_done_for_shutdown (Skipped is Inactive here: neither has a process)
DoneForShutdown(x) == x.state \in {"Inactive", "Failed", "Abandoned"}

(***************************************************************************)
(* The plan.                                                               *)
(***************************************************************************)
Candidates(f) == {s \in Services : f[s].state \in {"Active", "Reloading", "Stopping"}}

\* Mutant: dependencies for dependents.
DependenciesByTarget(among, t) == {d \in among : d \in Requires[t]}

\* dependents_by_target: the hard dependents, and, of a compiled-in service,
\* everything that is not compiled in.
DependentsByTarget(among, t) ==
    {d \in among : \/ t \in Requires[d]
                   \/ t \in CompiledIn /\ d \notin CompiledIn}

\* What is left when the ready ones of the remaining are taken away: those
\* that something remaining depends on.
StillNeeded(among, remaining) ==
    {s \in remaining : DependentsByTarget(among, s) \cap remaining # {}}

\* The remaining participants after k rounds of reverse_dependency_waves.
Remaining(among) ==
    LET rest[k \in 0..Cardinality(Services)] ==
            IF k = 0 THEN among ELSE StillNeeded(among, rest[k - 1])
    IN  rest

\* reverse_dependency_waves: while any remain, those nothing remaining
\* depends on.  A cycle leaves a rest, and makes the shutdown fail.
Waves(among) ==
    LET rounds == Cardinality(Services)
        rest == Remaining(among)
        taken == {k \in 1..rounds : rest[k] # rest[k - 1]}
    IN  [rest |-> rest[rounds],
         waves |-> [k \in 1..Cardinality(taken) |-> rest[k - 1] \ rest[k]]]

(***************************************************************************)
(* What happens to one service.                                            *)
(***************************************************************************)
KillTree(x) == [x EXCEPT !.killed = x.life = "alive" \/ x.helper = "alive"]

TreePopulated(x) == x.life = "alive" \/ x.helper = "alive"

\* fail_stop, start_stop and settle_stopped, on the Shutdown-sourced record.
FailStop(x) == [x EXCEPT !.stop = IF @ \in {"Pending", "Running"} THEN "Failed" ELSE @]
StartStop(x) == [x EXCEPT !.stop = IF @ = "Pending" THEN "Running" ELSE @]
SettleStopped(x) ==
    [x EXCEPT !.stop = IF @ \notin {"Pending", "Running"} THEN @
                       ELSE IF x.state = "Inactive" THEN "Completed"
                       ELSE IF x.state \in {"Failed", "Abandoned"} THEN "Failed"
                       ELSE @]

\* fail_unforked_startup_jobs: what has not started is failed with its setup.
FailUnforked(x) == [x EXCEPT !.main = IF @ = "running" THEN @ ELSE "none"]

\* kill_starting_services, of one service: the tree is killed, it fails.
KillStarting(x) ==
    KillTree([FailUnforked(x) EXCEPT !.state = "Failed", !.cause = "ShutdownWave"])

\* clear_completed_services, and request_stops, of one service.
ClearCompleted(x) == [x EXCEPT !.state = "Inactive", !.cause = "ShutdownWave"]
RequestStop(x) == [x EXCEPT !.stop = "Pending"]

\* stopped_state and stopped_cause.  BindsToPropagation stands for the causes
\* that make a stop a failure (an eviction is the other).
StoppedState(x) ==
    [x EXCEPT !.state = IF x.cause = "BindsToPropagation" THEN "Failed" ELSE "Inactive",
              !.cause = IF @ \in {"BindsToPropagation", "ShutdownWave"}
                        THEN @ ELSE "ExplicitStop"]

\* apply_shutdown_active_exit
ActiveExit(x, exit) ==
    IF exit = "Success" THEN [x EXCEPT !.state = "Inactive", !.cause = "CleanExit"]
    ELSE [x EXCEPT !.state = "Failed", !.cause = "ProcessCrash"]

\* apply_shutdown_job_exit: the exit of a job of the service, whichever job.
ServiceExit(x, exit) ==
    CASE x.state = "Active" -> ActiveExit(x, exit)
      [] x.state = "Reloading" -> [x EXCEPT !.state = "Failed", !.cause = "ProcessCrash"]
      [] x.state = "Starting" -> [x EXCEPT !.state = "Failed", !.cause = "ShutdownWave"]
      [] x.state = "Stopping" -> StoppedState(x)
      [] OTHER -> x

\* Mutant: without sound evidence there is no deadline.
RetainedWhenSound(x) ==
    IF x.evidence \in {"operation", "runtime"} THEN "later" ELSE "none"

\* retained_stop_deadline: a stop that began before the shutdown keeps its
\* clock when its evidence is sound, and otherwise is due at once.
RetainedStopDeadline(x) ==
    IF x.evidence \in {"operation", "runtime"} THEN "later" ELSE "due"

(***************************************************************************)
(* The waves.                                                              *)
(***************************************************************************)
WaveMembers(v, k) == {s \in Services : k < Len(v.sd.waves) /\ s \in v.sd.waves[k + 1]}

Outstanding(v, k) == {s \in WaveMembers(v, k) : ~DoneForShutdown(v.svc[s])}

\* process_target: there is a running main job to signal.
HasTarget(x) == x.main = "running"

\* Whether begin_stop_wave succeeds: what is neither done nor already stopping
\* has a process, and may go to Stopping.
WaveBegins(v, k) ==
    \A s \in Outstanding(v, k) \ v.sd.already :
        HasTarget(v.svc[s]) /\ v.svc[s].state \in {"Active", "Reloading"}

\* begin_stop_wave
BeginStopWave(v, k) ==
    LET begun(s) ==
            IF s \in v.sd.already THEN StartStop(v.svc[s])
            ELSE StartStop([v.svc[s] EXCEPT !.state = "Stopping", !.cause = "ShutdownWave",
                                            !.terms = IF v.svc[s].acked THEN @ ELSE @ + 1])
        due(s) == IF s \in v.sd.already THEN RetainedStopDeadline(v.svc[s]) ELSE "later"
    IN  [v EXCEPT
          !.sd.at = k,
          !.svc = [s \in Services |-> IF s \in Outstanding(v, k) THEN begun(s) ELSE @[s]],
          !.sd.stops = [s \in Services |-> IF s \in Outstanding(v, k) THEN due(s) ELSE @[s]]]

\* wave_complete, of the wave at hand
WaveComplete(v, live) ==
    IF v.sd.at < Len(v.sd.waves) THEN Outstanding(v, v.sd.at) = {}
    ELSE (\A s \in Services : v.sd.stops[s] = "none") /\ v.sd.posts = {} /\ ~live

\* The next wave with something left to stop, or the number of waves.
NextWave(v) ==
    LET later == {k \in (v.sd.at + 1)..(Len(v.sd.waves) - 1) : Outstanding(v, k) # {}}
    IN  IF later = {} THEN Len(v.sd.waves) ELSE Min(later)

\* Mutant: the last wave ends and nothing follows.
NeverReady(v, live) == v

BecomeReady(v, live) ==
    IF /\ \A s \in Services : v.sd.stops[s] = "none"
       /\ v.sd.posts = {} /\ ~live /\ v.sd.final = "WaitingForServices"
    THEN [v EXCEPT !.sd.final = "Ready"] ELSE v

Settled(v) == [v EXCEPT !.svc = [s \in Services |-> SettleStopped(@[s])]]

\* Whether advance_shutdown_progress succeeds.
Advances(v, live) ==
    WaveComplete(v, live) /\ NextWave(v) < Len(v.sd.waves) => WaveBegins(v, NextWave(v))

\* advance_shutdown_progress: over the complete waves to the next one that is
\* not, which is begun; past the last one, ready when nothing is pending.
Advance(v, live) ==
    LET u == Settled(v) IN
    IF ~WaveComplete(u, live) THEN u
    ELSE IF NextWave(u) < Len(u.sd.waves) THEN BeginStopWave(u, NextWave(u))
    ELSE BecomeReady([u EXCEPT !.sd.at = Max({@, Len(u.sd.waves) - 1})], live)

(***************************************************************************)
(* The beginning of a shutdown.                                            *)
(***************************************************************************)
\* stop_submitted_jobs_for_shutdown, and kill_all_live_submitted_jobs
StopJobs(v) == FoldSet(LAMBDA j, u : Stopped(u, j, "Shutdown"), v, LiveJobs(v))
KillJobs(v) ==
    FoldSet(LAMBDA j, u : RecordKill(KillCgroup(BeginStop(u, j, "Shutdown"), j), j),
            v, LiveJobs(v))

\* What begin_shutdown does to a service before the first wave.
Prepared(x) ==
    CASE x.state = "Completed" -> ClearCompleted(x)
      [] x.state = "Starting" -> KillStarting(x)
      [] x.state \in {"Active", "Reloading", "Stopping"} -> RequestStop(x)
      [] OTHER -> x

\* begin_shutdown.  The plan is fixed here, with who was stopping already; a
\* cycle refuses the shutdown.
BeginShutdown(presses) ==
    /\ ~InProgress
    /\ LET plan == Waves(Candidates(m.svc))
           v == [m EXCEPT
                  !.presses = presses,
                  !.svc = [s \in Services |-> Prepared(@[s])],
                  !.sd.waves = plan.waves,
                  !.sd.already = {s \in Services : m.svc[s].state = "Stopping"},
                  !.sd.posts = {s \in Services : m.svc[s].state = "Starting"
                                                 /\ m.svc[s].main = "running"}]
       IN /\ plan.rest = {}
          /\ w' = StopJobs(w)
          /\ m' = [BeginStopWave(v, 0) EXCEPT
                    !.sd.final = IF v.sd.waves = <<>> /\ v.sd.posts = {} /\ LiveJobs(w') = {}
                                 THEN "Ready" ELSE "WaitingForServices"]
    /\ UNCHANGED wait

\* process_presence: whether a service in this state may have a process.
MayHaveProcess(x) ==
    x.state \in {"Starting", "Active", "Reloading", "Stopping", "Abandoned"}

\* kill_all_process_cgroups
KillAll(f) ==
    [s \in Services |-> IF MayHaveProcess(f[s]) THEN FailStop(KillTree(f[s])) ELSE f[s]]

\* force_reboot_shutdown: everything is killed, and the final action is due.
ForceReboot(presses) ==
    /\ m' = [m EXCEPT !.presses = presses, !.sd = ImmediateRuntime(m.sd), !.svc = KillAll(@)]
    /\ UNCHANGED <<w, wait>>

\* SIGTERM, SIGPWR, the power button and the system command.
RequestShutdown == BeginShutdown(m.presses)

\* record_sigint: the presses within the window, with this one.  Which of the
\* earlier ones are too old is the clock's affair.
RecordSigint == 1..(m.presses + 1)

\* handle_sigint: the third press within the window forces a reboot, and any
\* other asks for one.
Sigint ==
    /\ m.presses < 3
    /\ \E n \in RecordSigint :
         \/ n = 3 /\ ForceReboot(n)
         \/ n < 3 /\ BeginShutdown(n)
         \/ /\ n < 3 /\ InProgress
            /\ m' = [m EXCEPT !.presses = n]
            /\ UNCHANGED <<w, wait>>

\* critical_budget_reboot_owed
RebootOwed ==
    ~InProgress /\ \E s \in Critical :
        m.svc[s].state = "Failed" /\ m.svc[s].cause = "RestartBudgetExhausted"

\* process_due_critical_budget_reboot
CriticalReboot ==
    /\ RebootOwed
    /\ m' = [m EXCEPT !.sd = ImmediateRuntime(m.sd)]
    /\ UNCHANGED <<w, wait>>

(***************************************************************************)
(* The shutdown timer: process_due_shutdown_timeouts.                      *)
(***************************************************************************)
\* remaining_shutdown_services
RemainingServices(v) ==
    UNION {Outstanding(v, k) : k \in 0..(Len(v.sd.waves) - 1)}

\* kill_all_remaining_services
SweepServices(v, remaining) ==
    [v EXCEPT
      !.sd.fired = TRUE,
      !.sd.stops = [s \in Services |-> "none"],
      !.sd.posts = @ \cup remaining,
      !.svc = [s \in Services |->
          IF s \notin remaining THEN @[s]
          ELSE FailStop(KillTree(
                IF @[s].state \in {"Active", "Reloading"}
                THEN [@[s] EXCEPT !.state = "Stopping", !.cause = "ShutdownWave"] ELSE @[s]))]]

\* process_due_stop_deadlines
KillOverdue(v, overdue) ==
    [v EXCEPT
      !.sd.stops = [s \in Services |-> IF s \in overdue THEN "none" ELSE @[s]],
      !.sd.posts = @ \cup overdue,
      !.svc = [s \in Services |-> IF s \in overdue THEN FailStop(KillTree(@[s])) ELSE @[s]]]

\* abandon_running_jobs and fail_running_jobs: no record is left to reap for.
EndRunningJobs(x) == [x EXCEPT !.main = IF @ = "running" THEN "none" ELSE @, !.helper = "none"]

\* process_due_post_kill_deadlines, of one service: what is still populated is
\* abandoned; otherwise the records that still run are failed, and a stopping
\* service has stopped.
PostKillChecked(x) ==
    IF TreePopulated(x)
    THEN [EndRunningJobs(x) EXCEPT !.state = "Abandoned", !.cause = "ProcessUnkillable"]
    ELSE IF x.state = "Stopping" THEN StoppedState(EndRunningJobs(x)) ELSE EndRunningJobs(x)

PostKillDue(v, checked) ==
    [v EXCEPT
      !.sd.posts = @ \ checked,
      !.svc = [s \in Services |-> IF s \in checked THEN PostKillChecked(@[s]) ELSE @[s]]]

\* The deadlines of the jobs that are due at one moment: at most one a job.
JobDeadlines == {<<j, k>> : j \in DOMAIN w.entries,
                            k \in {"CgroupCleanup", "StopKill", "PostKill", "Timeout",
                                   "ReadinessTimeout"}}
DueJobs == {D \in SUBSET {d \in JobDeadlines : d[2] \in Deadlines(w, d[1])} :
              \A d, e \in D : d[1] = e[1] => d = e}

Armed == {s \in Services : m.sd.stops[s] # "none"}
DueAtOnce == {s \in Services : m.sd.stops[s] = "due"}

\* shutdown_global_timeout_due, once its time has come
GlobalMayFire == ~m.sd.fired /\ m.sd.final = "WaitingForServices"

ShutdownTimer(global, overdue, checked, jobs) ==
    /\ InProgress
    /\ global => GlobalMayFire
    /\ DueAtOnce \subseteq overdue
    /\ global \/ overdue # {} \/ checked # {} \/ jobs # {}
    /\ LET killed == IF global THEN SweepServices(m, RemainingServices(m))
                     ELSE KillOverdue(m, overdue)
           v == PostKillDue(killed, checked)
           jw == FoldSet(LAMBDA d, u : DeadlineProcessed(u, d[1], d[2]),
                         IF global THEN KillJobs(w) ELSE w, jobs)
       IN IF Advances(v, LiveJobs(jw) # {})
          THEN /\ w' = jw
               /\ m' = Advance(v, LiveJobs(jw) # {})
          ELSE \* The error ends the runtime loop; the kills have happened.
               /\ m' = [m EXCEPT !.loop = FALSE]
               /\ UNCHANGED w
    /\ UNCHANGED wait

(***************************************************************************)
(* The ends of the services' processes.                                    *)
(***************************************************************************)
\* fail_after_internal_error, for a service whose exit could not be applied:
\* the jobs are retired with the tree killed, and the service fails.  Nothing
\* here touches the shutdown's own deadlines.
ServiceContained(x) ==
    KillTree([x EXCEPT
        !.main = "none",
        !.state = IF @ \in {"Starting", "Active", "Reloading", "Stopping", "Backoff"}
                  THEN "Failed" ELSE @,
        !.cause = IF x.state \in {"Starting", "Active", "Reloading", "Stopping", "Backoff"}
                  THEN "InternalError" ELSE @,
        !.stop = IF x.evidence # "operation" /\ @ \in {"Pending", "Running"}
                 THEN "Failed" ELSE @])

\* finish_shutdown_terminal_job, of a job of s that left the service as x.
ShutdownExit(s, x, exit) ==
    LET v == [m EXCEPT !.svc[s] = ServiceExit(x, exit),
                       !.sd.stops[s] = "none", !.sd.posts = @ \ {s}]
        live == LiveJobs(w) # {}
    IN  m' = IF Advances(v, live) THEN Advance(v, live)
             ELSE [m EXCEPT !.svc[s] = ServiceContained(x)]

\* apply_reaped_child for a service's main process; its record may be gone.
ReapMain(s) ==
    /\ InProgress
    /\ m.svc[s].life = "zombie"
    /\ LET x == [m.svc[s] EXCEPT !.life = "none", !.exit = "Failure"] IN
       IF x.main = "running"
       THEN ShutdownExit(s, [x EXCEPT !.main = "none"], m.svc[s].exit)
       ELSE m' = [m EXCEPT !.svc[s] = x]
    /\ UNCHANGED <<w, wait>>

\* ... and for a hook or a health check.
ReapHelper(s) ==
    /\ InProgress
    /\ m.svc[s].helper = "zombie"
    /\ \E exit \in {"Success", "Failure"} :
         ShutdownExit(s, [m.svc[s] EXCEPT !.helper = "none"], exit)
    /\ UNCHANGED <<w, wait>>

MainEnds(s) ==
    /\ InProgress
    /\ m.svc[s].life = "alive"
    /\ \E exit \in {"Success", "Failure"} :
         m' = [m EXCEPT !.svc[s].life = "zombie", !.svc[s].exit = exit,
                        !.svc[s].killed = @ /\ m.svc[s].helper = "alive"]
    /\ UNCHANGED <<w, wait>>

HelperEnds(s) ==
    /\ InProgress
    /\ m.svc[s].helper = "alive"
    /\ m' = [m EXCEPT !.svc[s].helper = "zombie",
                      !.svc[s].killed = @ /\ m.svc[s].life = "alive"]
    /\ UNCHANGED <<w, wait>>

(***************************************************************************)
(* The final action.                                                       *)
(***************************************************************************)
\* umount2 refuses what is in use and what has a mount below it.
Below(q, p) == q # p /\ Len(p) <= Len(q) /\ SubSeq(q, 1, Len(p)) = p
MountedBelow(mounted, p) == \E q \in Mounts : Below(q, p) /\ mounted[q] # "gone"

\* snapshot_mounts: the deepest come first, so what is left to the end is the
\* shallowest.
Shallowest(T) == CHOOSE p \in T : \A q \in T : Len(p) <= Len(q)

\* cleanup_mounts, of all but the root, then the root: unmounted, or at least
\* read-only.
CleanedMounts(busy) ==
    LET one(p, mounted) ==
            [mounted EXCEPT ![p] =
                IF p \in busy \/ MountedBelow(mounted, p) THEN "readonly" ELSE "gone"]
        all == MapThenFoldSet(one, m.mounts, LAMBDA p : p, Shallowest, Mounts \ {<<>>})
    IN  [all EXCEPT ![<<>>] = "readonly"]

\* run_shutdown_finalization: the cleanup, once the services have stopped.
Finalization(busy) ==
    [m EXCEPT !.sd.cleaned = TRUE, !.busy = busy, !.mounts = CleanedMounts(busy)]

\* finalization_after_reboot_result: reboot may return.
AfterReboot(v) == {[v EXCEPT !.sd.final = "Completed"], [v EXCEPT !.sd.final = "Failed"]}

\* shutdown_finalization_due
FinalizationDue == m.sd.final \in {"Ready", "Failed"}

\* finalize_due_shutdown.  Only sync and reboot, without the cleanup, when that
\* was tried before or the reboot is forced.
FinalizeDue ==
    /\ FinalizationDue
    /\ IF m.sd.final = "Ready"
       THEN \E busy \in SUBSET (Mounts \ {<<>>}) : m' \in AfterReboot(Finalization(busy))
       ELSE m' \in AfterReboot(m)
    /\ UNCHANGED <<w, wait>>

(***************************************************************************)
(* The submitted jobs meanwhile.  Submissions are refused, the deadlines   *)
(* are the shutdown timer's, and a job's exit may be what the shutdown     *)
(* waited for.                                                             *)
(***************************************************************************)
JobCommand(j) ==
    /\ \/ /\ ~InProgress
          /\ Cardinality({s \in Services : m.svc[s].life = "alive"}) <= MaxServicesWithJobs
          /\ \E u \in Submitters : SubmitJob(j, u)
       \/ StopSubmittedJob(j)
    /\ UNCHANGED <<wait, m>>

JobLifecycleDeadline(j) == ~InProgress /\ DeadlineDue(j) /\ UNCHANGED m

\* advance_shutdown_after_submitted_job, when the exit was a job's.
AfterJobExit(exited) ==
    m' = IF InProgress /\ exited /\ Advances(m, LiveJobs(w') # {})
         THEN Advance(m, LiveJobs(w') # {}) ELSE m

JobReaped(j) == ReapChild(j) /\ AfterJobExit(ActiveByPid(w, w.proc[j].pid) # {})

JobReplayed(p) == ReplayHeldExit(p) /\ AfterJobExit(TRUE)

JobStep ==
    \/ \E j \in Jobs : JobCommand(j) \/ JobLifecycleDeadline(j) \/ JobReaped(j)
    \/ \E p \in Pids : JobReplayed(p)
    \/ LaunchNext /\ UNCHANGED m
    \/ \E j \in Jobs :
         /\ ReadSetupStatus(j) \/ ChildReports(j) \/ ProcessEnds(j) \/ CgroupDrains(j)
         /\ UNCHANGED m

TimerFires ==
    \E global \in BOOLEAN, overdue \in SUBSET Armed, checked \in SUBSET m.sd.posts,
       jobs \in DueJobs : ShutdownTimer(global, overdue, checked, jobs)

NextShutdown ==
    /\ m.loop /\ m.sd.final # "Completed"
    /\ \/ RequestShutdown
       \/ Sigint
       \/ CriticalReboot
       \/ TimerFires
       \/ FinalizeDue
       \/ \E s \in Services : ReapMain(s) \/ ReapHelper(s) \/ MainEnds(s) \/ HelperEnds(s)
       \/ JobStep

SpecShutdown == InitShutdown /\ [][NextShutdown]_allvars

Up == m.loop /\ m.sd.final # "Completed"

\* A killed process ends, unless the kernel holds it; exits are reaped, pipes
\* read and armed deadlines reached, because the loop waits on each of them.
Killed(s) == m.svc[s].killed /\ s \notin Unkillable
StopDeadlineReached(s) ==
    Up /\ s \in Armed /\ ShutdownTimer(FALSE, DueAtOnce \cup {s}, {}, {})
PostKillReached(s) == Up /\ s \in m.sd.posts /\ ShutdownTimer(FALSE, DueAtOnce, {s}, {})
JobDeadlineReached(j) ==
    /\ Up /\ j \in DOMAIN w.entries
    /\ \E k \in Deadlines(w, j) : ShutdownTimer(FALSE, DueAtOnce, {}, {<<j, k>>})
GlobalTimeoutReached == Up /\ ShutdownTimer(TRUE, DueAtOnce, {}, {})
JobEnds(j) == w.proc[j].killed /\ ProcessEnds(j)

ShutdownFairness ==
    /\ \A s \in Services :
         /\ WF_allvars(Up /\ Killed(s) /\ (MainEnds(s) \/ HelperEnds(s)))
         /\ WF_allvars(Up /\ (ReapMain(s) \/ ReapHelper(s)))
         /\ WF_allvars(StopDeadlineReached(s))
         /\ WF_allvars(PostKillReached(s))
    /\ \A j \in Jobs :
         /\ WF_allvars(Up /\ (ReadSetupStatus(j) \/ ChildReports(j) \/ JobEnds(j)) /\ UNCHANGED m)
         /\ WF_allvars(Up /\ JobReaped(j))
         /\ WF_allvars(JobDeadlineReached(j))
    /\ \A p \in Pids : WF_allvars(Up /\ JobReplayed(p))
    /\ WF_allvars(Up /\ LaunchNext /\ UNCHANGED m)
    /\ WF_allvars(GlobalTimeoutReached)
    /\ WF_allvars(Up /\ FinalizeDue)

FairShutdown == SpecShutdown /\ ShutdownFairness

(***************************************************************************)
(* Properties.                                                             *)
(***************************************************************************)
Participants == UNION {m.sd.waves[k] : k \in DOMAIN m.sd.waves}

\* A service is not stopped before everything that depends on it has stopped
\* (docs, the graceful sequence): SIGTERM leaves, or a stop deadline runs,
\* only once the participants that depend on the service are done.
StopsInReverseOrder ==
    [][\A s \in Services :
        m'.svc[s].terms > m.svc[s].terms \/ (m.sd.stops[s] = "none" /\ m'.sd.stops[s] # "none") =>
            \A k \in DOMAIN m'.sd.waves : \A d \in m'.sd.waves[k] :
                s \in Requires[d] \/ (s \in CompiledIn /\ d \notin CompiledIn) =>
                    DoneForShutdown(m'.svc[d])]_allvars

\* While the shutdown waits for a service of the current wave, something will
\* end the wait: its stop deadline or its post-kill deadline is armed.
WaitHasAnEnd ==
    m.loop /\ m.sd.final = "WaitingForServices" =>
        \A s \in Outstanding(m, m.sd.at) :
            \/ m.sd.stops[s] # "none"
            \/ s \in m.sd.posts

\* A shutdown that was asked for reaches its final action, without the
\* services' or the jobs' consent, and without another event from outside:
\* the deadlines see to it.  (Unless the loop has ended.)
ShutdownFinishes == InProgress ~> (m.sd.final \in {"Failed", "Completed"} \/ ~m.loop)

\* A service that counts as stopped has no running main process that its
\* record still names.
DoneHasNoMain ==
    m.sd.final # "None" /\ ~m.sd.forced =>
        \A s \in Participants :
            m.svc[s].state \in {"Inactive", "Failed"} => m.svc[s].main # "running"
=============================================================================
