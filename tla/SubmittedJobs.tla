--------------------------- MODULE SubmittedJobs ---------------------------
(***************************************************************************)
(* Submitted jobs: programs that clients hand to peinit on the jobs        *)
(* socket (src/src/supervisor/submitted, src/src/submitted, src/src/job),  *)
(* together with the launch path every child takes: fork, the setup pipe   *)
(* that reports the exec, and the exit that may be reaped before the pipe  *)
(* is read.                                                                *)
(*                                                                         *)
(* `w' is what a handler clones and commits (SupervisorWork) with the      *)
(* kernel's side of it: the processes and the descriptors really open.     *)
(* Time is abstract: an armed deadline may fire whenever it is armed.      *)
(***************************************************************************)
EXTENDS Naturals, Sequences, FiniteSets

CONSTANTS
    Jobs,                   \* job identifiers
    Definitions,            \* the job definitions that may be submitted
    Submitters,             \* the callers of the jobs socket
    System,                 \* the caller that is exempt from the quota
    Connections,            \* the connections of the jobs socket
    Pids, NoPid,            \* process identifiers, and none
    MaxJobsPerSubmitter,    \* MaxJobsPerSubmitter
    MaxInternalErrors,      \* bound on the cgroup calls that fail
    PidsAreReused,          \* whether a pid may come back
    ExecsFail               \* whether a child may fail between fork and exec

ASSUME SubmittedAssumption ==
    /\ MaxJobsPerSubmitter \in Nat
    /\ MaxInternalErrors \in Nat
    /\ PidsAreReused \in BOOLEAN
    /\ ExecsFail \in BOOLEAN
    /\ Pids \subseteq Nat \ {NoPid}
    /\ IsFiniteSet(Jobs) /\ Jobs \subseteq Nat
    /\ Definitions \subseteq [readiness : BOOLEAN, timed : BOOLEAN, output : BOOLEAN]

VARIABLES
    w,      \* the supervisor's stores and the processes
    wait    \* the message each connection has not been answered

vars == <<w, wait>>

(***************************************************************************)
(* The state.                                                              *)
(***************************************************************************)
Descriptors == {"token", "attached", "sink"}

Causes == {"ParentSetupFailure", "PreExecFailure", "ReadinessTimeout", "Timeout",
           "ExplicitStop", "Shutdown", "ProcessUnkillable"}

\* SubmittedJobEntry.  Of the definition: readiness, the job speaks the
\* protocol; timed, it has a timeout; output, a sink came with it.  held: the
\* descriptors the entry still names; cleanup: a busy cgroup is to be looked
\* at again.
Entry ==
    [owner : Submitters, definition : Definitions,
     held : SUBSET Descriptors, ready : BOOLEAN,
     cause : Causes \cup {"None"}, stop : {"None", "Terminating", "Killed"},
     outcome : {"None", "Completed", "Failed", "Abandoned"}, cleanup : BOOLEAN]

\* The job's process.  report is what the setup pipe would say; others: the
\* cgroup holds processes besides the main one.
Process ==
    [pid : Pids \cup {NoPid}, life : {"none", "setup", "running", "zombie", "reaped"},
     report : {"Pending", "ExecSucceeded", "PreExecFailed"},
     exit : {"Success", "Failure"}, killed : BOOLEAN, others : BOOLEAN]

NoProcess ==
    [pid |-> NoPid, life |-> "none", report |-> "Pending", exit |-> "Failure",
     killed |-> FALSE, others |-> FALSE]

\* JobsPendingWait.  A stop waits for the end, like the wait command.
NoWait == [kind |-> "None"]
PendingWait == [kind : {"Submit", "Ready", "Terminal"}, job : Jobs]

\* A map with a key set or removed.
With(f, k, v) == [x \in DOMAIN f \cup {k} |-> IF x = k THEN v ELSE f[x]]
Without(f, k) == [x \in DOMAIN f \ {k} |-> f[x]]

\* A queue without what stands at a position.
RemovedAt(q, at) == [i \in 1..(Len(q) - 1) |-> IF i < at THEN q[i] ELSE q[i + 1]]

IsLive(v, j) == j \in DOMAIN v.entries /\ v.entries[j].outcome = "None"
LiveJobs(v) == {j \in DOMAIN v.entries : v.entries[j].outcome = "None"}
LiveOf(v, u) == {j \in LiveJobs(v) : v.entries[j].owner = u}

InJobState(v, j, s) == j \in DOMAIN v.jobs /\ v.jobs[j] = s

Queued(v, j) == \E i \in DOMAIN v.queue : v.queue[i] = j

Populated(v, j) ==
    v.proc[j].life \in {"setup", "running"} \/ v.proc[j].others

Init ==
    /\ w = [entries |-> [j \in {} |-> NoWait], jobs |-> [j \in {} |-> "Created"],
            queue |-> <<>>, setups |-> {}, held |-> [p \in Pids |-> "None"],
            proc |-> [j \in Jobs |-> NoProcess],
            open |-> [j \in Jobs |-> {}], issued |-> {}, contained |-> {}]
    /\ wait = [c \in Connections |-> NoWait]

(***************************************************************************)
(* The store of the entries, and the boundary calls.                       *)
(***************************************************************************)
KillCgroup(v, j) ==
    [v EXCEPT !.proc[j].killed = v.proc[j].life \in {"setup", "running"}]

\* close_entry_descriptors
CloseDescriptors(v, j) ==
    [v EXCEPT !.open[j] = @ \ v.entries[j].held, !.entries[j].held = {}]

\* The store keeps a record only while the job is Created or Running.
CreateJob(v, j) == [v EXCEPT !.jobs = With(@, j, "Created")]
StartJob(v, j) == [v EXCEPT !.jobs[j] = "Running"]
FinishJob(v, j) == [v EXCEPT !.jobs = Without(@, j)]

\* The end of the record is an event, and record_terminal keeps what the entry
\* needs of it.
EndJob(v, j, state) ==
    [FinishJob(v, j) EXCEPT
              !.entries[j].outcome = state,
              !.entries[j].stop = "None",
              !.entries[j].cause =
                  IF @ = "None" /\ state = "Abandoned" THEN "ProcessUnkillable" ELSE @]

\* release_job_cgroup: a populated cgroup is busy, and is retried once.
ReleaseCgroup(v, j) == [v EXCEPT !.entries[j].cleanup = Populated(v, j)]

SetupFailure(v, j, cause) ==
    ReleaseCgroup(
        EndJob(CloseDescriptors([v EXCEPT !.entries[j].cause = cause], j), j, "Failed"), j)

\* apply_submitted_terminal
Terminal(v, j, exit) ==
    ReleaseCgroup(
        KillCgroup(
            EndJob(CloseDescriptors(v, j), j,
                   IF exit = "Success" THEN "Completed" ELSE "Failed"), j), j)

BeginStop(v, j, cause) ==
    IF v.entries[j].outcome # "None" \/ v.entries[j].stop # "None" THEN v
    ELSE [v EXCEPT !.entries[j].cause = cause, !.entries[j].stop = "Terminating"]

RecordKill(v, j) ==
    [v EXCEPT !.entries[j].stop = IF @ = "None" THEN @ ELSE "Killed"]

\* begin_submitted_stop.  A job that is still queued never runs; one whose
\* exec is pending is killed and left to the setup pipe; a running one is sent
\* SIGTERM, which it may heed or not.
Stopped(v, j, cause) ==
    IF ~IsLive(v, j) \/ v.entries[j].stop # "None" \/ j \notin DOMAIN v.jobs THEN v
    ELSE IF v.jobs[j] = "Running" THEN BeginStop(v, j, cause)
    ELSE IF Queued(v, j)
         THEN LET at == CHOOSE i \in DOMAIN v.queue : v.queue[i] = j IN
              SetupFailure([v EXCEPT !.queue = RemovedAt(@, at)], j, cause)
         ELSE KillCgroup(BeginStop(v, j, cause), j)

\* Whether a cgroup call may fail once more.
MayFail(v) == Cardinality(v.contained) < MaxInternalErrors

\* fail_after_internal_error for a submitted job: retire_job ends the record.
\* The transaction that raised was dropped, but a descriptor closed in it is
\* closed.  Whether the kill works this time is the boundary's affair.
Contained(v, j, closed, kill) ==
    LET u == [FinishJob(v, j) EXCEPT !.setups = @ \ {j}, !.open[j] = @ \ closed,
                                     !.contained = @ \cup {j}]
    IN  IF kill THEN KillCgroup(u, j) ELSE u

(***************************************************************************)
(* The commands of the jobs socket.                                        *)
(***************************************************************************)
\* Mutant: the quota is off by one.
QuotaOffByOne(u) == u # System /\ Cardinality(LiveOf(w, u)) > MaxJobsPerSubmitter

OverQuota(u) == u # System /\ Cardinality(LiveOf(w, u)) >= MaxJobsPerSubmitter

\* submit_job.  A refusal leaves nothing behind; identifiers are fresh.
SubmitJob(j, u) ==
    /\ j \notin w.issued /\ \A k \in Jobs \ w.issued : j <= k
    /\ ~OverQuota(u)
    /\ \E d \in Definitions :
         LET held == IF d.output THEN Descriptors ELSE Descriptors \ {"sink"} IN
         w' = [CreateJob(w, j) EXCEPT
                !.issued = @ \cup {j},
                !.open[j] = held,
                !.queue = Append(@, j),
                !.entries = With(@, j,
                    [owner |-> u, definition |-> d, held |-> held, ready |-> FALSE,
                     cause |-> "None", stop |-> "None", outcome |-> "None",
                     cleanup |-> FALSE])]

\* The submit command: its connection waits for the job to leave Created.
Submit(c, j, u) ==
    /\ wait[c] = NoWait
    /\ SubmitJob(j, u)
    /\ wait' = [wait EXCEPT ![c] = [kind |-> "Submit", job |-> j]]

\* jobs_pending_wait_ready
WaitReady(v, p) ==
    IsLive(v, p.job) =>
        \/ p.kind = "Submit" /\ InJobState(v, p.job, "Running")
        \/ p.kind = "Ready" /\ v.entries[p.job].ready

\* The wait command: refused for a job without the readiness protocol, and
\* answered at once when what it waits for has happened.
WaitFor(c, j, kind) ==
    /\ wait[c] = NoWait
    /\ j \in DOMAIN w.entries
    /\ kind = "Ready" => w.entries[j].definition.readiness
    /\ ~WaitReady(w, [kind |-> kind, job |-> j])
    /\ wait' = [wait EXCEPT ![c] = [kind |-> kind, job |-> j]]
    /\ UNCHANGED w

\* The stop command of either socket, with or without a wait for the end.
StopSubmittedJob(j) ==
    /\ j \in DOMAIN w.entries
    /\ w' = Stopped(w, j, "ExplicitStop")

StopJob(c, j) ==
    /\ wait[c] = NoWait
    /\ StopSubmittedJob(j)
    /\ \/ UNCHANGED wait
       \/ /\ IsLive(w', j)
          /\ wait' = [wait EXCEPT ![c] = [kind |-> "Terminal", job |-> j]]

\* flush_jobs_waits: once per turn, every connection whose wait is over.
FlushWaits ==
    /\ \E c \in Connections : wait[c] # NoWait /\ WaitReady(w, wait[c])
    /\ wait' = [c \in Connections |->
                  IF wait[c] # NoWait /\ WaitReady(w, wait[c]) THEN NoWait ELSE wait[c]]
    /\ UNCHANGED w

(***************************************************************************)
(* The launch and the setup pipe.                                          *)
(***************************************************************************)
\* The pid the kernel hands out next: the least one that is free.
FreePids(v) ==
    LET free == {p \in Pids : \A j \in Jobs :
                    v.proc[j].pid = p => PidsAreReused /\ v.proc[j].life = "reaped"}
    IN  {p \in free : \A q \in free : p <= q}

\* The launch takes the token and the attached descriptors from the entry.
TakeDescriptors(v, j) ==
    [v EXCEPT !.entries[j].held = @ \cap {"sink"}, !.open[j] = @ \cap {"sink"}]

\* The child exists, and its setup is pending until the pipe says more.
Forked(v, j, p) ==
    [v EXCEPT !.setups = @ \cup {j}, !.proc[j].pid = p, !.proc[j].life = "setup"]

\* launch_next_pending_submitted_job.  next_live_front drops what has no
\* record; the launch forks, or fails before the child exists.
LaunchNext ==
    /\ w.queue # <<>>
    /\ LET j == Head(w.queue)
           popped == [w EXCEPT !.queue = Tail(@)]
       IN IF j \notin DOMAIN w.jobs THEN w' = popped
          ELSE \/ w' = SetupFailure(TakeDescriptors(popped, j), j, "ParentSetupFailure")
               \/ \E p \in FreePids(w) : w' = Forked(TakeDescriptors(popped, j), j, p)
    /\ UNCHANGED wait

\* apply_started_submitted_launch: the sink has been handed over.
Started(v, j) ==
    [StartJob(v, j) EXCEPT !.entries[j].held = @ \ {"sink"}, !.open[j] = @ \ {"sink"}]

\* process_pending_process_setup_status, for what the pipe now says.
ReadSetupStatus(j) ==
    /\ j \in w.setups
    /\ LET done == [w EXCEPT !.setups = @ \ {j}] IN
       \/ /\ w.proc[j].report = "ExecSucceeded"
          /\ w' = Started(done, j)
       \/ /\ w.proc[j].report = "PreExecFailed"
          /\ w' = SetupFailure(KillCgroup(done, j), j, "PreExecFailure")
       \/ /\ w.proc[j].report = "PreExecFailed"
          /\ MayFail(w)
          /\ \E kill \in BOOLEAN, closed \in {{}, w.entries[j].held} :
               w' = Contained(w, j, closed, kill)
    /\ UNCHANGED wait

(***************************************************************************)
(* The end of a process.                                                   *)
(***************************************************************************)
\* active_job_by_pid, and has_pending_setup_for_pid
ActiveByPid(v, p) == {k \in DOMAIN v.jobs : v.jobs[k] = "Running" /\ v.proc[k].pid = p}
PendingByPid(v, p) == {k \in v.setups : v.proc[k].pid = p}

\* Mutant: an exit with no job yet is dropped.
ExitDropped(v, p, exit) == {v}

\* apply_reaped_child, up to a failing boundary: an exit that no job can
\* receive yet is held against its pid; one that belongs to nothing is dropped.
ExitApplied(v, p, exit) ==
    IF ActiveByPid(v, p) # {}
    THEN {Terminal(v, k, exit) : k \in ActiveByPid(v, p)} \cup
         IF MayFail(v)
         THEN {Contained(v, k, v.entries[k].held, kill) :
                    k \in ActiveByPid(v, p), kill \in BOOLEAN}
         ELSE {}
    ELSE IF PendingByPid(v, p) # {} THEN {[v EXCEPT !.held[p] = exit]}
    ELSE {v}

ReapChild(j) ==
    /\ w.proc[j].life = "zombie"
    /\ w' \in ExitApplied([w EXCEPT !.proc[j].life = "reaped", !.proc[j].exit = "Failure"],
                          w.proc[j].pid, w.proc[j].exit)
    /\ UNCHANGED wait

\* take_ready_deferred_reaps: the held exits whose pid is a job's by now.
ReplayHeldExit(p) ==
    /\ w.held[p] # "None"
    /\ ActiveByPid(w, p) # {}
    /\ w' \in ExitApplied([w EXCEPT !.held[p] = "None"], p, w.held[p])
    /\ UNCHANGED wait

(***************************************************************************)
(* The deadlines held against a job.                                       *)
(***************************************************************************)
\* Mutant: a stop is not held to its time.
UntimedStop(v, j) ==
    {k \in {"CgroupCleanup", "PostKill"} :
        IF k = "CgroupCleanup" THEN v.entries[j].cleanup
        ELSE v.entries[j].outcome = "None" /\ v.entries[j].stop = "Killed"}

\* entry_deadlines
Deadlines(v, j) ==
    LET e == v.entries[j] IN
    {k \in {"CgroupCleanup", "StopKill", "PostKill", "Timeout", "ReadinessTimeout"} :
        CASE k = "CgroupCleanup" -> e.cleanup
          [] e.outcome # "None"  -> FALSE
          [] k = "StopKill"      -> e.stop = "Terminating"
          [] k = "PostKill"      -> e.stop = "Killed"
          [] k = "Timeout"       -> e.stop = "None" /\ e.definition.timed /\ InJobState(v, j, "Running")
          [] OTHER               -> /\ e.stop = "None" /\ e.definition.readiness /\ ~e.ready
                                    /\ InJobState(v, j, "Running")}

\* process_submitted_deadline.  A job that survived its kill is abandoned; an
\* empty cgroup means that the exit is on its way.
DeadlineProcessed(v, j, kind) ==
    CASE kind = "StopKill" -> RecordKill(KillCgroup(v, j), j)
      [] kind = "PostKill" ->
            IF ~InJobState(v, j, "Running") THEN v
            ELSE IF Populated(v, j)
            THEN EndJob(CloseDescriptors(
                    [v EXCEPT !.entries[j].cause = "ProcessUnkillable"], j), j, "Abandoned")
            ELSE RecordKill(v, j)
      [] kind = "CgroupCleanup" -> [v EXCEPT !.entries[j].cleanup = FALSE]
      [] OTHER -> Stopped(v, j, kind)

DeadlineDue(j) ==
    /\ j \in DOMAIN w.entries
    /\ \E kind \in Deadlines(w, j) :
         \/ w' = DeadlineProcessed(w, j, kind)
         \/ /\ MayFail(w)
            /\ \/ kind \in {"StopKill", "CgroupCleanup"}
               \/ kind = "PostKill" /\ InJobState(w, j, "Running")
            /\ \E kill \in BOOLEAN : w' = Contained(w, j, {}, kill)
    /\ UNCHANGED wait

\* purge_retained_until: the grace period of an ended job is over.
Purge(j) ==
    /\ j \in DOMAIN w.entries
    /\ w.entries[j].outcome # "None"
    /\ ~w.entries[j].cleanup
    /\ w' = [w EXCEPT !.entries = Without(@, j)]
    /\ UNCHANGED wait

\* apply_submitted_notify_fields: READY=1 from a job that owes it.  The other
\* fields are texts, or spare the job a SIGTERM it would not notice.
Notify(j) ==
    /\ InJobState(w, j, "Running")
    /\ w.proc[j].life = "running"
    /\ w.entries[j].definition.readiness
    /\ ~w.entries[j].ready
    /\ w' = [w EXCEPT !.entries[j].ready = TRUE]
    /\ UNCHANGED wait

(***************************************************************************)
(* The processes.  The child reports the exec by closing the pipe, so one  *)
(* that is killed before it has said anything reads as ExecSucceeded.      *)
(***************************************************************************)
ChildReports(j) ==
    /\ w.proc[j].life = "setup"
    /\ w.proc[j].report = "Pending"
    /\ \/ w' = [w EXCEPT !.proc[j].report = "ExecSucceeded", !.proc[j].life = "running"]
       \/ ExecsFail /\ w' = [w EXCEPT !.proc[j].report = "PreExecFailed"]
    /\ UNCHANGED wait

Ended(p, exit, others) ==
    [p EXCEPT !.life = "zombie", !.exit = exit, !.killed = FALSE, !.others = others,
              !.report = IF @ = "Pending" THEN "ExecSucceeded" ELSE @]

ProcessEnds(j) ==
    /\ \/ w.proc[j].life = "running"
       \/ w.proc[j].life = "setup" /\ w.proc[j].report = "PreExecFailed"
       \/ w.proc[j].life = "setup" /\ w.proc[j].killed
    /\ \E exit \in {"Success", "Failure"}, others \in BOOLEAN :
         /\ w.proc[j].life = "setup" => exit = "Failure" /\ ~others
         /\ w' = [w EXCEPT !.proc[j] = Ended(@, exit, others)]
    /\ UNCHANGED wait

\* What the job left in its cgroup goes away.
CgroupDrains(j) ==
    /\ w.proc[j].others
    /\ w' = [w EXCEPT !.proc[j].others = FALSE]
    /\ UNCHANGED wait

Next ==
    \/ \E c \in Connections, j \in Jobs :
         \/ \E u \in Submitters : Submit(c, j, u)
         \/ \E kind \in {"Ready", "Terminal"} : WaitFor(c, j, kind)
         \/ StopJob(c, j)
    \/ FlushWaits
    \/ LaunchNext
    \/ \E j \in Jobs :
         \/ ReadSetupStatus(j)
         \/ ReapChild(j)
         \/ DeadlineDue(j)
         \/ Purge(j)
         \/ Notify(j)
         \/ ChildReports(j)
         \/ ProcessEnds(j)
         \/ CgroupDrains(j)
    \/ \E p \in Pids : ReplayHeldExit(p)

Spec == Init /\ [][Next]_vars

\* The queue is drained and the waits are flushed every turn; the setup pipe
\* and the child signal wake the loop; a deadline that is armed is reached.
\* A forked child gets to its exec or dies, and a killed process ends.
JobsFairness ==
    /\ WF_vars(LaunchNext)
    /\ WF_vars(FlushWaits)
    /\ \A j \in Jobs :
         /\ WF_vars(ReadSetupStatus(j))
         /\ WF_vars(ReapChild(j))
         /\ WF_vars(DeadlineDue(j))
         /\ WF_vars(ChildReports(j) \/ (w.proc[j].killed /\ ProcessEnds(j)))
         /\ WF_vars(CgroupDrains(j))
    /\ \A p \in Pids : WF_vars(ReplayHeldExit(p))

FairSpec == Spec /\ JobsFairness

(***************************************************************************)
(* Properties.                                                             *)
(***************************************************************************)
\* The type of the state.
TypeOK ==
    /\ DOMAIN w.entries \subseteq w.issued
    /\ \A j \in DOMAIN w.entries : w.entries[j] \in Entry
    /\ DOMAIN w.jobs \subseteq w.issued
    /\ \A j \in DOMAIN w.jobs : w.jobs[j] \in {"Created", "Running"}
    /\ \A i \in DOMAIN w.queue : w.queue[i] \in w.issued
    /\ w.setups \subseteq DOMAIN w.jobs
    /\ w.held \in [Pids -> {"None", "Success", "Failure"}]
    /\ w.proc \in [Jobs -> Process]
    /\ wait \in [Connections -> PendingWait \cup {NoWait}]

\* A job that has not ended has a record, and one that has ended has none:
\* only an internal error, which retires the record alone
\* (internal_error.rs retire_job), separates the two stores.
EntryAndRecordAgree ==
    \A j \in Jobs :
        /\ j \in DOMAIN w.jobs => IsLive(w, j)
        /\ IsLive(w, j) => j \in DOMAIN w.jobs \cup w.contained

\* The exit of a running job is never lost: its process is alive, or waits to
\* be reaped, or was reaped before the setup pipe was read and is held.
RunningHasItsExit ==
    \A j \in DOMAIN w.jobs :
        w.jobs[j] = "Running" =>
            \/ w.proc[j].life \in {"running", "zombie"}
            \/ w.held[w.proc[j].pid] # "None"

\* However submissions, stops, ends and purges interleave, no caller but
\* SYSTEM has more live jobs than the quota.
QuotaIsKept ==
    \A u \in Submitters \ {System} : Cardinality(LiveOf(w, u)) <= MaxJobsPerSubmitter

\* A job that is being stopped ends, whatever its process does: SIGKILL and the
\* post-kill check see to it.  (Unless an internal error retired its record.)
StoppedJobEnds ==
    \A j \in Jobs :
        (IsLive(w, j) /\ w.entries[j].stop # "None")
            ~> (~IsLive(w, j) \/ j \in w.contained)

=============================================================================
