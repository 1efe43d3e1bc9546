------------------------ MODULE SubmittedJobsProofs ------------------------
(***************************************************************************)
(* Submitted jobs, for any number of jobs, callers and definitions: the    *)
(* quota is kept, the entries and the records agree, and the exit of a     *)
(* running job is never lost.                                              *)
(*                                                                         *)
(* The handlers are built from a few operators on the state.  What each of *)
(* them leaves alone is stated once (Keeps, Ends, Retires), and the        *)
(* invariants are proved over these relations.                             *)
(***************************************************************************)
EXTENDS SubmittedJobs, FiniteSetTheorems, TLAPS

\* The fields of the state, of an entry and of a process.
Shape(v) ==
    /\ DOMAIN v = {"entries", "jobs", "queue", "setups", "held", "proc", "open",
                   "issued", "contained"}
    /\ DOMAIN v.proc = Jobs
    /\ \A k \in Jobs :
         DOMAIN v.proc[k] = {"pid", "life", "report", "exit", "killed", "others"}
    /\ \A k \in DOMAIN v.entries :
         DOMAIN v.entries[k] = {"owner", "definition", "held", "ready", "cause", "stop",
                                "outcome", "cleanup"}
    /\ DOMAIN v.held = Pids

\* What the properties look at of the processes.
SameProcesses(v, u) ==
    \A k \in Jobs :
        /\ u.proc[k].pid = v.proc[k].pid
        /\ u.proc[k].life = v.proc[k].life
        /\ u.proc[k].report = v.proc[k].report
        /\ u.proc[k].exit = v.proc[k].exit

\* What they look at of the entries.
SameEntries(v, u) ==
    /\ DOMAIN u.entries = DOMAIN v.entries
    /\ \A k \in DOMAIN v.entries :
         /\ u.entries[k].owner = v.entries[k].owner
         /\ u.entries[k].outcome = v.entries[k].outcome

\* What they look at of the launch queue, the setups and the held exits.
SameQueues(v, u) ==
    /\ u.queue = v.queue
    /\ u.setups = v.setups
    /\ u.held = v.held
    /\ u.issued = v.issued

\* A step that moves descriptors, causes, stops or the cgroup's processes.
Keeps(v, u) ==
    /\ Shape(u)
    /\ SameProcesses(v, u)
    /\ SameEntries(v, u)
    /\ SameQueues(v, u)
    /\ u.jobs = v.jobs
    /\ u.contained = v.contained

\* A step that ends job j: its record goes and its entry has an outcome.
Ends(v, u, j) ==
    /\ Shape(u)
    /\ SameProcesses(v, u)
    /\ SameQueues(v, u)
    /\ u.jobs = Without(v.jobs, j)
    /\ u.contained = v.contained
    /\ DOMAIN u.entries = DOMAIN v.entries
    /\ \A k \in DOMAIN v.entries :
         /\ u.entries[k].owner = v.entries[k].owner
         /\ k # j => u.entries[k].outcome = v.entries[k].outcome
         /\ k = j => u.entries[k].outcome # "None"

\* An internal error retires the record of job j, and leaves its entry.
Retires(v, u, j) ==
    /\ Shape(u)
    /\ SameProcesses(v, u)
    /\ SameEntries(v, u)
    /\ u.queue = v.queue
    /\ u.setups = v.setups \ {j}
    /\ u.held = v.held
    /\ u.issued = v.issued
    /\ u.jobs = Without(v.jobs, j)
    /\ u.contained = v.contained \cup {j}

\* The queue loses an entry, and nothing else changes.
Dequeues(v, u) ==
    /\ Shape(u)
    /\ SameProcesses(v, u)
    /\ SameEntries(v, u)
    /\ u.setups = v.setups
    /\ u.held = v.held
    /\ u.issued = v.issued
    /\ u.jobs = v.jobs
    /\ u.contained = v.contained
    /\ u.queue \in Seq(v.issued)
    /\ \A a, b \in DOMAIN u.queue : u.queue[a] = u.queue[b] => a = b
    /\ \A k : Queued(u, k) => Queued(v, k)

(***************************************************************************)
(* The invariant.                                                          *)
(***************************************************************************)
\* Every record, entry and queued job was issued; the queue holds a job once,
\* and a job it holds is Created and has no setup pending; a job whose setup is
\* pending is Created.
RecordInv(v) ==
    /\ v.issued \subseteq Jobs
    /\ DOMAIN v.jobs \subseteq v.issued
    /\ DOMAIN v.entries \subseteq v.issued
    /\ v.setups \subseteq DOMAIN v.jobs
    /\ v.queue \in Seq(v.issued)
    /\ \A a, b \in DOMAIN v.queue : v.queue[a] = v.queue[b] => a = b
    /\ \A k \in DOMAIN v.jobs :
         Queued(v, k) => v.jobs[k] = "Created" /\ k \notin v.setups
    /\ \A k \in v.setups : v.jobs[k] = "Created"

\* The two stores agree, as far as internal errors let them.
AgreeInv(v) ==
    /\ \A k \in DOMAIN v.jobs : k \in DOMAIN v.entries /\ v.entries[k].outcome = "None"
    /\ \A k \in DOMAIN v.entries :
         v.entries[k].outcome = "None" => k \in DOMAIN v.jobs \cup v.contained

\* No submitter other than the system has more live jobs than the quota.
QuotaInv(v) ==
    \A u \in Submitters \ {System} : Cardinality(LiveOf(v, u)) <= MaxJobsPerSubmitter

\* No two jobs have had the same pid; a job that has not been launched has no
\* process; a process in setup has not reported the exec.
ProcessInv(v) ==
    /\ \A k, l \in Jobs :
         v.proc[k].pid \in Pids /\ v.proc[k].pid = v.proc[l].pid => k = l
    /\ \A k \in Jobs : v.proc[k].exit \in {"Success", "Failure"}
    /\ \A k \in Jobs :
         Queued(v, k) \/ k \notin v.issued =>
            v.proc[k].life = "none" /\ v.proc[k].report = "Pending"
    /\ \A k \in Jobs : v.proc[k].life = "setup" => v.proc[k].report # "ExecSucceeded"

\* Whoever waits for the exit of a process can still have it: the process is
\* there, or its exit is held.  The jobs of S are excepted.
Awaits(v, k) == k \in v.setups \/ (k \in DOMAIN v.jobs /\ v.jobs[k] = "Running")

\* A job that waits for its exit has a process that is there, or its exit is
\* held.
ExitInv(v, S) ==
    /\ \A k \in Jobs : Awaits(v, k) => v.proc[k].pid \in Pids
    /\ \A k \in Jobs \ S :
         Awaits(v, k) => \/ v.proc[k].life \in {"setup", "running", "zombie"}
                         \/ v.held[v.proc[k].pid] # "None"
    /\ \A k \in Jobs \ S :
         k \in DOMAIN v.jobs /\ v.jobs[k] = "Running" => v.proc[k].life # "setup"

\* The invariant of a state of the supervisor, between or within handlers.
Good(v, S) ==
    /\ Shape(v)
    /\ RecordInv(v)
    /\ AgreeInv(v)
    /\ QuotaInv(v)
    /\ ~PidsAreReused => ProcessInv(v) /\ ExitInv(v, S)

\* The inductive invariant: between handlers no job is excepted.
IInv == Good(w, {})

-----------------------------------------------------------------------------
(* The operators the handlers are built from. *)

\* cgroup.kill marks a process; the properties do not look at the mark.
LEMMA KilledFlag ==
    ASSUME NEW v, Shape(v), NEW j \in Jobs, NEW b,
           NEW u, u = [v EXCEPT !.proc[j].killed = b]
    PROVE  Keeps(v, u)
BY DEF Shape, Keeps, SameProcesses, SameEntries, SameQueues

\* kill_cgroup keeps everything else.
LEMMA KillCgroupKeeps ==
    ASSUME NEW v, Shape(v), NEW j \in Jobs
    PROVE  Keeps(v, KillCgroup(v, j))
BY KilledFlag, Zenon DEF KillCgroup

\* close_entry_descriptors touches descriptors only.
LEMMA CloseDescriptorsKeeps ==
    ASSUME NEW v, Shape(v), NEW j \in Jobs
    PROVE  Keeps(v, CloseDescriptors(v, j))
BY DEF CloseDescriptors, Shape, Keeps, SameProcesses, SameEntries, SameQueues

\* So does the launch, which takes them.
LEMMA TakeDescriptorsKeeps ==
    ASSUME NEW v, Shape(v), NEW j \in Jobs
    PROVE  Keeps(v, TakeDescriptors(v, j))
BY DEF TakeDescriptors, Shape, Keeps, SameProcesses, SameEntries, SameQueues

\* A cause is noted.
LEMMA CauseKeeps ==
    ASSUME NEW v, Shape(v), NEW j \in Jobs, NEW cause
    PROVE  Keeps(v, [v EXCEPT !.entries[j].cause = cause])
BY DEF Shape, Keeps, SameProcesses, SameEntries, SameQueues

\* The cleanup of a cgroup is noted, or is over.
LEMMA CleanupKeeps ==
    ASSUME NEW v, Shape(v), NEW j \in Jobs, NEW b,
           NEW u, u = [v EXCEPT !.entries[j].cleanup = b]
    PROVE  Keeps(v, u)
BY Zenon DEF Shape, Keeps, SameProcesses, SameEntries, SameQueues

\* A job is ready.
LEMMA ReadyKeeps ==
    ASSUME NEW v, Shape(v), NEW j \in Jobs, NEW b,
           NEW u, u = [v EXCEPT !.entries[j].ready = b]
    PROVE  Keeps(v, u)
BY DEF Shape, Keeps, SameProcesses, SameEntries, SameQueues

\* A cgroup empties.
LEMMA OthersKeeps ==
    ASSUME NEW v, Shape(v), NEW j \in Jobs, NEW b,
           NEW u, u = [v EXCEPT !.proc[j].others = b]
    PROVE  Keeps(v, u)
BY DEF Shape, Keeps, SameProcesses, SameEntries, SameQueues

\* release_job_cgroup
LEMMA ReleaseCgroupKeeps ==
    ASSUME NEW v, Shape(v), NEW j \in Jobs
    PROVE  Keeps(v, ReleaseCgroup(v, j))
BY CleanupKeeps, Zenon DEF ReleaseCgroup

\* A stop begins.
LEMMA BeginStopKeeps ==
    ASSUME NEW v, Shape(v), NEW j \in Jobs, NEW cause
    PROVE  Keeps(v, BeginStop(v, j, cause))
BY DEF BeginStop, Shape, Keeps, SameProcesses, SameEntries, SameQueues

\* A stop goes on to its kill.
LEMMA RecordKillKeeps ==
    ASSUME NEW v, Shape(v), NEW j \in Jobs
    PROVE  Keeps(v, RecordKill(v, j))
BY DEF RecordKill, Shape, Keeps, SameProcesses, SameEntries, SameQueues

\* record_terminal and the end of the record.
LEMMA EndJobEnds ==
    ASSUME NEW v, Shape(v), NEW j \in Jobs, NEW state, state # "None"
    PROVE  Ends(v, EndJob(v, j, state), j)
BY DEF EndJob, FinishJob, Shape, Ends, SameProcesses, SameQueues

\* Steps that keep what the properties look at compose.
LEMMA KeepsThenKeeps ==
    ASSUME NEW v, NEW u, NEW x, Keeps(v, u), Keeps(u, x)
    PROVE  Keeps(v, x)
BY DEF Keeps, SameProcesses, SameEntries, SameQueues

\* Such a step before an end.
LEMMA KeepsThenEnds ==
    ASSUME NEW v, NEW u, NEW x, NEW j, Keeps(v, u), Ends(u, x, j)
    PROVE  Ends(v, x, j)
BY DEF Keeps, Ends, SameProcesses, SameEntries, SameQueues

\* And after one.
LEMMA EndsThenKeeps ==
    ASSUME NEW v, NEW u, NEW x, NEW j, Ends(v, u, j), Keeps(u, x)
    PROVE  Ends(v, x, j)
BY DEF Keeps, Ends, SameProcesses, SameEntries, SameQueues

\* What such a step leaves has the state's shape.
LEMMA KeepsShape ==
    ASSUME NEW v, NEW u, Keeps(v, u)
    PROVE  Shape(u)
BY Zenon DEF Keeps

\* A job's end keeps the shape of the state.
LEMMA EndsShape ==
    ASSUME NEW v, NEW u, NEW j, Ends(v, u, j)
    PROVE  Shape(u)
BY Zenon DEF Ends

\* The setup of job j has failed: the job ends.
LEMMA SetupFailureEnds ==
    ASSUME NEW v, Shape(v), NEW j \in Jobs, NEW cause
    PROVE  Ends(v, SetupFailure(v, j, cause), j)
<1> DEFINE a == [v EXCEPT !.entries[j].cause = cause]
           b == CloseDescriptors(a, j)
           c == EndJob(b, j, "Failed")
           d == ReleaseCgroup(c, j)
<1>1. Keeps(v, a) /\ Shape(a)
  BY CauseKeeps, KeepsShape, Zenon
<1>2. Keeps(a, b) /\ Shape(b)
  <2> HIDE DEF a
  <2> QED BY <1>1, CloseDescriptorsKeeps, KeepsShape, Zenon
<1>3. Ends(b, c, j) /\ Shape(c)
  <2> HIDE DEF b
  <2> QED BY <1>2, EndJobEnds, EndsShape, Zenon
<1>4. Keeps(c, d)
  <2> HIDE DEF c
  <2> QED BY <1>3, ReleaseCgroupKeeps, Zenon
<1>5. SetupFailure(v, j, cause) = d
  BY Zenon DEF SetupFailure
<1> HIDE DEF a, b, c, d
<1>6. Keeps(v, b)
  BY <1>1, <1>2, KeepsThenKeeps, Zenon
<1>7. Ends(v, c, j)
  BY <1>3, <1>6, KeepsThenEnds, Zenon
<1> QED
  BY <1>4, <1>5, <1>7, EndsThenKeeps, Zenon

\* apply_submitted_terminal ends the job.
LEMMA TerminalEnds ==
    ASSUME NEW v, Shape(v), NEW j \in Jobs, NEW exit
    PROVE  Ends(v, Terminal(v, j, exit), j)
<1> DEFINE state == IF exit = "Success" THEN "Completed" ELSE "Failed"
           b == CloseDescriptors(v, j)
           c == EndJob(b, j, state)
           d == KillCgroup(c, j)
           e == ReleaseCgroup(d, j)
<1>0. state # "None"
  BY Zenon
<1>1. Terminal(v, j, exit) = e
  BY Zenon DEF Terminal
<1> HIDE DEF state
<1>2. Keeps(v, b) /\ Shape(b)
  BY CloseDescriptorsKeeps, KeepsShape, Zenon
<1>3. Ends(b, c, j) /\ Shape(c)
  <2> HIDE DEF b
  <2> QED BY <1>0, <1>2, EndJobEnds, EndsShape, Zenon
<1>4. Keeps(c, d) /\ Shape(d)
  <2> HIDE DEF c
  <2> QED BY <1>3, KillCgroupKeeps, KeepsShape, Zenon
<1>5. Keeps(d, e)
  <2> HIDE DEF d
  <2> QED BY <1>4, ReleaseCgroupKeeps, Zenon
<1> HIDE DEF b, c, d, e
<1>6. Ends(v, c, j)
  BY <1>2, <1>3, KeepsThenEnds, Zenon
<1>7. Keeps(c, e)
  BY <1>4, <1>5, KeepsThenKeeps, Zenon
<1> QED
  BY <1>1, <1>6, <1>7, EndsThenKeeps, Zenon

\* fail_after_internal_error retires the record, whatever the kill does.
LEMMA ContainedRetires ==
    ASSUME NEW v, Shape(v), NEW j \in Jobs, NEW closed, NEW kill \in BOOLEAN
    PROVE  Retires(v, Contained(v, j, closed, kill), j)
<1> DEFINE u == [FinishJob(v, j) EXCEPT !.setups = @ \ {j}, !.open[j] = @ \ closed,
                                        !.contained = @ \cup {j}]
<1>1. Retires(v, u, j) /\ Shape(u)
  BY Zenon DEF FinishJob, Shape, Retires, SameProcesses, SameEntries
<1>2. Contained(v, j, closed, kill) = u \/ Contained(v, j, closed, kill) = KillCgroup(u, j)
  BY Zenon DEF Contained
<1> HIDE DEF u
<1>3. Keeps(u, KillCgroup(u, j))
  BY <1>1, KillCgroupKeeps, Zenon
<1>4. \A x : Keeps(u, x) => Retires(v, x, j)
  BY <1>1 DEF Keeps, Retires, SameProcesses, SameEntries, SameQueues
<1> QED
  BY <1>1, <1>2, <1>3, <1>4, Zenon

-----------------------------------------------------------------------------
(* The relations keep the invariant. *)

\* An entry that is live after a step was live, and its owner is the same: the
\* quota is kept.
LEMMA FewerLive ==
    ASSUME NEW v, RecordInv(v), QuotaInv(v), NEW u,
           DOMAIN u.entries \subseteq DOMAIN v.entries,
           \A k \in DOMAIN u.entries :
              /\ u.entries[k].owner = v.entries[k].owner
              /\ u.entries[k].outcome = "None" => v.entries[k].outcome = "None"
    PROVE  QuotaInv(u)
<1> SUFFICES ASSUME NEW s \in Submitters \ {System}
             PROVE  Cardinality(LiveOf(u, s)) <= MaxJobsPerSubmitter
  BY Zenon DEF QuotaInv
<1>1. LiveOf(u, s) \subseteq LiveOf(v, s)
  BY Zenon DEF LiveOf, LiveJobs
<1>2. LiveOf(v, s) \subseteq Jobs
  BY Zenon DEF LiveOf, LiveJobs, RecordInv
<1>3. IsFiniteSet(LiveOf(v, s))
  BY <1>2, FS_Subset, SubmittedAssumption, Zenon
<1>4. IsFiniteSet(LiveOf(u, s)) /\ Cardinality(LiveOf(u, s)) <= Cardinality(LiveOf(v, s))
  BY <1>1, <1>3, FS_Subset, Zenon
<1>5. Cardinality(LiveOf(u, s)) \in Nat /\ Cardinality(LiveOf(v, s)) \in Nat
  BY <1>3, <1>4, FS_CardinalityType, Zenon
<1>6. Cardinality(LiveOf(v, s)) <= MaxJobsPerSubmitter
  BY Zenon DEF QuotaInv
<1> QED
  BY <1>4, <1>5, <1>6, SubmittedAssumption

\* The records, the agreement of the stores and the quota are about the stores
\* alone.
LEMMA SameStores ==
    ASSUME NEW v, NEW u, RecordInv(v), AgreeInv(v), QuotaInv(v),
           u.entries = v.entries, u.jobs = v.jobs, u.queue = v.queue,
           u.setups = v.setups, u.issued = v.issued, u.contained = v.contained
    PROVE  RecordInv(u) /\ AgreeInv(u) /\ QuotaInv(u)
<1>1. \A k : Queued(u, k) <=> Queued(v, k)
  BY Zenon DEF Queued
<1>2. RecordInv(u)
  BY <1>1, Zenon DEF RecordInv
<1>3. AgreeInv(u)
  BY Zenon DEF AgreeInv
<1>4. QuotaInv(u)
  BY FewerLive, Zenon
<1> QED
  BY <1>2, <1>3, <1>4, Zenon

\* What is said of the processes does not depend on the entries.
LEMMA SameExits ==
    ASSUME NEW v, NEW u, NEW S, ProcessInv(v), ExitInv(v, S),
           u.proc = v.proc, u.jobs = v.jobs, u.queue = v.queue,
           u.setups = v.setups, u.issued = v.issued, u.held = v.held
    PROVE  ProcessInv(u) /\ ExitInv(u, S)
<1>1. \A k : (Queued(u, k) <=> Queued(v, k)) /\ (Awaits(u, k) <=> Awaits(v, k))
  BY Zenon DEF Queued, Awaits
<1>2. ProcessInv(u)
  BY <1>1 DEF ProcessInv
<1>3. ExitInv(u, S)
  BY <1>1, Zenon DEF ExitInv
<1> QED
  BY <1>2, <1>3, Zenon

\* A step that keeps what the invariant is about.
LEMMA KeepsGood ==
    ASSUME NEW v, NEW u, NEW S, Good(v, S), Keeps(v, u)
    PROVE  Good(u, S)
<1> USE DEF Good, Keeps, SameProcesses, SameEntries, SameQueues
<1>1. Shape(u)
  BY Zenon
<1>2. RecordInv(u)
  BY DEF RecordInv, Queued
<1>3. AgreeInv(u)
  BY Zenon DEF AgreeInv
<1>4. QuotaInv(u)
  BY FewerLive
<1>5. ProcessInv(v) => ProcessInv(u)
  BY DEF ProcessInv, Queued
<1>6. ExitInv(v, S) => ExitInv(u, S)
  BY DEF ExitInv, Awaits
<1> QED
  BY <1>1, <1>2, <1>3, <1>4, <1>5, <1>6, Zenon

\* The end of a job whose setup is not pending.
LEMMA EndsGood ==
    ASSUME NEW v, NEW u, NEW j \in Jobs, Good(v, {j}), Ends(v, u, j), j \notin v.setups
    PROVE  Good(u, {})
<1> USE DEF Good, Ends, SameProcesses, SameQueues
<1>0. /\ DOMAIN u.jobs = DOMAIN v.jobs \ {j}
      /\ \A k \in DOMAIN u.jobs : u.jobs[k] = v.jobs[k]
  BY Zenon DEF Without
<1>1. Shape(u)
  BY Zenon
<1>2. RecordInv(u)
  BY <1>0 DEF RecordInv, Queued
<1>3. AgreeInv(u)
  BY <1>0 DEF AgreeInv
<1>4. QuotaInv(u)
  BY FewerLive
<1>5. ProcessInv(v) => ProcessInv(u)
  BY DEF ProcessInv, Queued
<1>6. ExitInv(v, {j}) => ExitInv(u, {})
  BY <1>0 DEF ExitInv, Awaits
<1> QED
  BY <1>1, <1>2, <1>3, <1>4, <1>5, <1>6, Zenon

\* A record is retired.
LEMMA RetiresGood ==
    ASSUME NEW v, NEW u, NEW j \in Jobs, Good(v, {j}), Retires(v, u, j)
    PROVE  Good(u, {})
<1> USE DEF Good, Retires, SameProcesses, SameEntries
<1>0. /\ DOMAIN u.jobs = DOMAIN v.jobs \ {j}
      /\ \A k \in DOMAIN u.jobs : u.jobs[k] = v.jobs[k]
  BY Zenon DEF Without
<1>1. Shape(u)
  BY Zenon
<1>2. RecordInv(u)
  BY <1>0 DEF RecordInv, Queued
<1>3. AgreeInv(u)
  BY <1>0, Zenon DEF AgreeInv
<1>4. QuotaInv(u)
  BY FewerLive
<1>5. ProcessInv(v) => ProcessInv(u)
  BY DEF ProcessInv, Queued
<1>6. ExitInv(v, {j}) => ExitInv(u, {})
  BY <1>0 DEF ExitInv, Awaits
<1> QED
  BY <1>1, <1>2, <1>3, <1>4, <1>5, <1>6, Zenon

\* A job leaves the queue.
LEMMA DequeuesGood ==
    ASSUME NEW v, NEW u, NEW S, Good(v, S), Dequeues(v, u)
    PROVE  Good(u, S)
<1> USE DEF Good, Dequeues, SameProcesses, SameEntries
<1>1. Shape(u)
  BY Zenon
<1>2. RecordInv(u)
  BY DEF RecordInv
<1>3. AgreeInv(u)
  BY DEF AgreeInv
<1>4. QuotaInv(u)
  BY FewerLive
<1>5. ProcessInv(v) => ProcessInv(u)
  BY DEF ProcessInv
<1>6. ExitInv(v, S) => ExitInv(u, S)
  BY DEF ExitInv, Awaits
<1> QED
  BY <1>1, <1>2, <1>3, <1>4, <1>5, <1>6, Zenon

\* An exception more does no harm.
LEMMA GoodExcept ==
    ASSUME NEW v, NEW S, Good(v, {})
    PROVE  Good(v, S)
BY Zenon DEF Good, ExitInv

\* A position is taken out of a list that holds nothing twice.
LEMMA RemovedAtProperties ==
    ASSUME NEW T, NEW q \in Seq(T), NEW at \in DOMAIN q,
           \A a, b \in DOMAIN q : q[a] = q[b] => a = b,
           NEW r, r = RemovedAt(q, at)
    PROVE  /\ r \in Seq(T)
           /\ \A a, b \in DOMAIN r : r[a] = r[b] => a = b
           /\ \A i \in DOMAIN r : r[i] # q[at] /\ \E k \in DOMAIN q : q[k] = r[i]
<1> DEFINE n == Len(q) - 1
<1>1. DOMAIN q = 1..Len(q) /\ Len(q) \in Nat /\ at \in 1..Len(q) /\ n \in Nat
  OBVIOUS
<1>2. DOMAIN r = 1..n /\ \A i \in 1..n : r[i] = IF i < at THEN q[i] ELSE q[i + 1]
  BY Zenon DEF RemovedAt
<1>3. \A i \in 1..n : i \in DOMAIN q /\ i + 1 \in DOMAIN q /\ q[i] \in T /\ q[i + 1] \in T
  BY <1>1
<1>4. r \in [1..n -> T]
  BY <1>3, Zenon DEF RemovedAt
<1>5. r \in Seq(T)
  BY <1>1, <1>4
<1> DEFINE Old(i) == IF i < at THEN i ELSE i + 1
<1>11. \A i \in 1..n : Old(i) \in DOMAIN q /\ r[i] = q[Old(i)] /\ Old(i) # at
  BY <1>1, <1>2, <1>3
<1>12. \A a, b \in 1..n : Old(a) = Old(b) => a = b
  BY <1>1
<1> HIDE DEF Old
<1>6. \A a, b \in 1..n : r[a] = r[b] => a = b
  BY <1>11, <1>12
<1>7. \A i \in 1..n : r[i] # q[at]
  BY <1>11, Zenon
<1>8. \A i \in 1..n : \E k \in DOMAIN q : q[k] = r[i]
  BY <1>2, <1>3, Zenon
<1> HIDE DEF n
<1> QED
  BY <1>2, <1>5, <1>6, <1>7, <1>8

-----------------------------------------------------------------------------
(* The handlers. *)

\* The queue without one of its entries.
LEMMA QueueRemoved ==
    ASSUME NEW v, Good(v, {}), NEW at \in DOMAIN v.queue,
           NEW u, u = [v EXCEPT !.queue = RemovedAt(@, at)]
    PROVE  Dequeues(v, u)
<1> DEFINE q == v.queue
           r == RemovedAt(q, at)
<1>1. q \in Seq(v.issued) /\ \A a, b \in DOMAIN q : q[a] = q[b] => a = b
  BY Zenon DEF Good, RecordInv
<1>2. /\ r \in Seq(v.issued)
      /\ \A a, b \in DOMAIN r : r[a] = r[b] => a = b
      /\ \A i \in DOMAIN r : \E k \in DOMAIN q : q[k] = r[i]
  BY <1>1, RemovedAtProperties
<1>3. /\ Shape(u)
      /\ SameProcesses(v, u)
      /\ SameEntries(v, u)
      /\ u.setups = v.setups
      /\ u.held = v.held
      /\ u.issued = v.issued
      /\ u.jobs = v.jobs
      /\ u.contained = v.contained
      /\ u.queue = r
  BY Zenon DEF Good, Shape, SameProcesses, SameEntries
<1> HIDE DEF r
<1> QED
  BY <1>2, <1>3 DEF Dequeues, Queued

\* A new entry is appended to such a list.
LEMMA AppendProperties ==
    ASSUME NEW T, NEW q \in Seq(T), NEW j, j \notin T,
           \A a, b \in DOMAIN q : q[a] = q[b] => a = b,
           NEW r, r = Append(q, j)
    PROVE  /\ r \in Seq(T \cup {j})
           /\ \A a, b \in DOMAIN r : r[a] = r[b] => a = b
           /\ \A i \in DOMAIN r : r[i] = j \/ \E k \in DOMAIN q : q[k] = r[i]
<1>1. q \in Seq(T \cup {j}) /\ Len(q) \in Nat /\ DOMAIN q = 1..Len(q)
  OBVIOUS
<1>2. r \in Seq(T \cup {j}) /\ DOMAIN r = 1..(Len(q) + 1)
  BY <1>1
<1>3. \A i \in DOMAIN r : (i \in DOMAIN q /\ r[i] = q[i]) \/ (i = Len(q) + 1 /\ r[i] = j)
  BY <1>1, <1>2
<1>4. \A i \in DOMAIN q : q[i] # j
  BY <1>1
<1> QED
  BY <1>2, <1>3, <1>4

\* The head of such a list is taken.
LEMMA TailProperties ==
    ASSUME NEW T, NEW q \in Seq(T), q # <<>>,
           \A a, b \in DOMAIN q : q[a] = q[b] => a = b,
           NEW r, r = Tail(q)
    PROVE  /\ r \in Seq(T)
           /\ 1 \in DOMAIN q /\ Head(q) = q[1] /\ q[1] \in T
           /\ \A a, b \in DOMAIN r : r[a] = r[b] => a = b
           /\ \A i \in DOMAIN r : r[i] # q[1] /\ \E k \in DOMAIN q : q[k] = r[i]
<1>1. Len(q) \in Nat /\ DOMAIN q = 1..Len(q) /\ 1 \in DOMAIN q /\ q[1] \in T
  OBVIOUS
<1>2. Tail(q) \in Seq(T) /\ Head(q) = q[1]
  OBVIOUS
<1>3. DOMAIN Tail(q) = 1..(Len(q) - 1) /\ \A i \in 1..(Len(q) - 1) : Tail(q)[i] = q[i + 1]
  BY <1>1
<1>4. \A i \in 1..(Len(q) - 1) : i + 1 \in DOMAIN q /\ i + 1 # 1 /\ i \in Nat
  BY <1>1
<1>5. \A a, b \in DOMAIN Tail(q) : Tail(q)[a] = Tail(q)[b] => a = b
  BY <1>3, <1>4
<1>6. \A i \in DOMAIN Tail(q) : Tail(q)[i] # q[1]
  BY <1>1, <1>3, <1>4, Zenon
<1>7. \A i \in DOMAIN Tail(q) : \E k \in DOMAIN q : q[k] = Tail(q)[i]
  BY <1>3, <1>4, Zenon
<1> QED
  BY <1>1, <1>2, <1>5, <1>6, <1>7, Zenon

\* The head is popped.
LEMMA QueueTail ==
    ASSUME NEW v, RecordInv(v), v.queue # <<>>,
           NEW u, u.queue = Tail(v.queue), Shape(u), SameProcesses(v, u), SameEntries(v, u),
           u.setups = v.setups, u.held = v.held, u.issued = v.issued,
           u.jobs = v.jobs, u.contained = v.contained
    PROVE  /\ Dequeues(v, u)
           /\ ~Queued(u, Head(v.queue))
           /\ Queued(v, Head(v.queue))
           /\ Head(v.queue) \in v.issued
<1>1. v.queue \in Seq(v.issued) /\ \A a, b \in DOMAIN v.queue : v.queue[a] = v.queue[b] => a = b
  BY Zenon DEF RecordInv
<1>11. PICK q, r, T : q = v.queue /\ r = u.queue /\ T = v.issued
  BY Zenon
<1>12. /\ r \in Seq(T)
       /\ 1 \in DOMAIN q /\ Head(q) = q[1] /\ q[1] \in T
       /\ \A a, b \in DOMAIN r : r[a] = r[b] => a = b
       /\ \A i \in DOMAIN r : r[i] # q[1] /\ \E k \in DOMAIN q : q[k] = r[i]
  <2>1. q \in Seq(T) /\ q # <<>> /\ \A a, b \in DOMAIN q : q[a] = q[b] => a = b
    BY <1>1, <1>11, Zenon
  <2>2. r = Tail(q)
    BY <1>11, Zenon
  <2> QED
    BY <2>1, <2>2, TailProperties
<1>2. /\ u.queue \in Seq(v.issued)
      /\ 1 \in DOMAIN v.queue /\ Head(v.queue) = v.queue[1] /\ v.queue[1] \in v.issued
      /\ \A a, b \in DOMAIN u.queue : u.queue[a] = u.queue[b] => a = b
      /\ \A i \in DOMAIN u.queue :
            u.queue[i] # v.queue[1] /\ \E k \in DOMAIN v.queue : v.queue[k] = u.queue[i]
  BY <1>11, <1>12, Zenon
<1>3. \A k : Queued(u, k) => Queued(v, k)
  BY <1>2 DEF Queued
<1>4. ~Queued(u, Head(v.queue)) /\ Queued(v, Head(v.queue))
  BY <1>2, Zenon DEF Queued
<1> QED
  BY <1>2, <1>3, <1>4, Zenon DEF Dequeues

\* Taking the front of the launch queue: the job was queued, and is queued no
\* more.
LEMMA QueuePopped ==
    ASSUME NEW v, Good(v, {}), v.queue # <<>>, NEW u, u = [v EXCEPT !.queue = Tail(@)]
    PROVE  /\ Dequeues(v, u)
           /\ ~Queued(u, Head(v.queue))
           /\ Queued(v, Head(v.queue))
           /\ Head(v.queue) \in v.issued
<1>1. /\ u.queue = Tail(v.queue) /\ Shape(u) /\ SameProcesses(v, u) /\ SameEntries(v, u)
      /\ u.setups = v.setups /\ u.held = v.held /\ u.issued = v.issued
      /\ u.jobs = v.jobs /\ u.contained = v.contained
  BY Zenon DEF Good, Shape, SameProcesses, SameEntries
<1>2. RecordInv(v)
  BY Zenon DEF Good
<1> QED
  BY <1>1, <1>2, QueueTail, Zenon

\* begin_submitted_stop, in each of its three cases.
LEMMA StoppedGood ==
    ASSUME NEW v, Good(v, {}), NEW j \in Jobs, NEW cause
    PROVE  Good(Stopped(v, j, cause), {})
<1>0. Shape(v)
  BY Zenon DEF Good
<1>1. \/ Stopped(v, j, cause) = v
      \/ Stopped(v, j, cause) = BeginStop(v, j, cause)
      \/ /\ j \in DOMAIN v.jobs /\ Queued(v, j)
         /\ Stopped(v, j, cause) =
              SetupFailure([v EXCEPT !.queue = RemovedAt(@,
                    CHOOSE i \in DOMAIN v.queue : v.queue[i] = j)], j, cause)
      \/ Stopped(v, j, cause) = KillCgroup(BeginStop(v, j, cause), j)
  BY Zenon DEF Stopped
<1>2. CASE Stopped(v, j, cause) = v
  BY <1>2, Zenon
<1>3. Keeps(v, BeginStop(v, j, cause))
  BY <1>0, BeginStopKeeps, Zenon
<1>4. CASE Stopped(v, j, cause) = BeginStop(v, j, cause)
  BY <1>3, <1>4, KeepsGood, Zenon
<1>5. CASE Stopped(v, j, cause) = KillCgroup(BeginStop(v, j, cause), j)
  <2>1. Shape(BeginStop(v, j, cause))
    BY <1>3, KeepsShape, Zenon
  <2>2. Keeps(BeginStop(v, j, cause), KillCgroup(BeginStop(v, j, cause), j))
    BY <2>1, KillCgroupKeeps, Zenon
  <2> QED
    BY <1>3, <1>5, <2>2, KeepsThenKeeps, KeepsGood, Zenon
<1>6. ASSUME j \in DOMAIN v.jobs, Queued(v, j),
             Stopped(v, j, cause) =
               SetupFailure([v EXCEPT !.queue = RemovedAt(@,
                    CHOOSE i \in DOMAIN v.queue : v.queue[i] = j)], j, cause)
      PROVE  Good(Stopped(v, j, cause), {})
  <2> DEFINE at == CHOOSE i \in DOMAIN v.queue : v.queue[i] = j
             u == [v EXCEPT !.queue = RemovedAt(@, at)]
  <2>1. at \in DOMAIN v.queue
    BY <1>6, Zenon DEF Queued
  <2> HIDE DEF at
  <2>2. Dequeues(v, u)
    BY <2>1, QueueRemoved, Zenon
  <2>3. Stopped(v, j, cause) = SetupFailure(u, j, cause)
    BY <1>6, Zenon DEF at
  <2> HIDE DEF u
  <2>4. Good(u, {}) /\ Shape(u)
    BY <2>2, DequeuesGood, Zenon DEF Good
  <2>5. j \notin u.setups
    BY <1>6, <2>2, Zenon DEF Dequeues, Good, RecordInv
  <2>6. Good(u, {j})
    BY <2>4, GoodExcept, Zenon
  <2>7. Ends(u, SetupFailure(u, j, cause), j)
    BY <2>4, SetupFailureEnds, Zenon
  <2> QED
    BY <2>3, <2>5, <2>6, <2>7, EndsGood, Zenon
<1> QED
  BY <1>1, <1>2, <1>4, <1>5, <1>6, Zenon

\* The front of the queue is launched: dropped, failed or forked.
LEMMA LaunchNextGood ==
    ASSUME IInv, LaunchNext
    PROVE  IInv'
<1> DEFINE j == Head(w.queue)
           popped == [w EXCEPT !.queue = Tail(@)]
           taken == TakeDescriptors(popped, j)
<1>0. Good(w, {}) /\ w.queue # <<>>
  BY Zenon DEF IInv, LaunchNext
<1>1. /\ Dequeues(w, popped) /\ ~Queued(popped, j)
      /\ j \in w.issued /\ Queued(w, j)
  BY <1>0, QueuePopped, Zenon
<1>2. j \in Jobs
  BY <1>0, <1>1, Zenon DEF Good, RecordInv
<1>3. \/ w' = popped
      \/ w' = SetupFailure(taken, j, "ParentSetupFailure")
      \/ j \in DOMAIN w.jobs /\ \E p \in FreePids(w) : w' = Forked(taken, j, p)
  BY Zenon DEF LaunchNext
<1> HIDE DEF popped, j
<1>4. Good(popped, {}) /\ Shape(popped)
  BY <1>0, <1>1, DequeuesGood, Zenon DEF Good
<1>5. CASE w' = popped
  BY <1>4, <1>5, Zenon DEF IInv
<1>6. Keeps(popped, taken) /\ Shape(taken)
  BY <1>2, <1>4, TakeDescriptorsKeeps, KeepsShape, Zenon
<1> HIDE DEF taken
<1>7. Good(taken, {})
  BY <1>4, <1>6, KeepsGood, Zenon
<1>8. /\ ~Queued(taken, j) /\ taken.jobs = w.jobs /\ taken.setups = w.setups
      /\ taken.issued = w.issued /\ SameProcesses(w, taken)
  BY <1>1, <1>6 DEF Keeps, Dequeues, SameProcesses, SameQueues, Queued
<1>9. j \in DOMAIN w.jobs => w.jobs[j] = "Created" /\ j \notin w.setups
  BY <1>0, <1>1, Zenon DEF Good, RecordInv
<1>10. CASE w' = SetupFailure(taken, j, "ParentSetupFailure")
  <2>1. Ends(taken, w', j)
    BY <1>2, <1>6, <1>10, SetupFailureEnds, Zenon
  <2>2. j \notin taken.setups
    BY <1>0, <1>8, <1>9, Zenon DEF Good, RecordInv
  <2> QED
    BY <1>2, <1>7, <2>1, <2>2, GoodExcept, EndsGood, Zenon DEF IInv
<1>11. ASSUME j \in DOMAIN w.jobs, NEW p \in FreePids(w), w' = Forked(taken, j, p)
       PROVE  IInv'
  <2> DEFINE v == taken
             u == w'
  <2>1. /\ u.setups = v.setups \cup {j}
        /\ u.proc[j].pid = p /\ u.proc[j].life = "setup"
        /\ u.proc[j].report = v.proc[j].report /\ u.proc[j].exit = v.proc[j].exit
        /\ \A k \in Jobs : k # j => u.proc[k] = v.proc[k]
        /\ u.entries = v.entries /\ u.jobs = v.jobs /\ u.queue = v.queue
        /\ u.held = v.held /\ u.issued = v.issued /\ u.contained = v.contained
    BY <1>2, <1>6, <1>11 DEF Forked, Shape
  <2>2. Shape(u)
    BY <1>2, <1>6, <1>11, Zenon DEF Forked, Shape
  <2> HIDE DEF v, u
  <2>3. j \in DOMAIN v.jobs /\ v.jobs[j] = "Created" /\ ~Queued(v, j)
    BY <1>8, <1>9, <1>11, Zenon DEF v
  <2>4. RecordInv(u)
    BY <1>7, <2>1, <2>3 DEF Good, RecordInv, Queued, v
  <2>5. AgreeInv(u) /\ QuotaInv(u)
    BY <1>7, <2>1 DEF Good, AgreeInv, QuotaInv, LiveOf, LiveJobs, v
  <2>6. ASSUME ~PidsAreReused PROVE ProcessInv(u) /\ ExitInv(u, {})
    <3>1. p \in Pids /\ \A k \in Jobs : w.proc[k].pid # p
      BY <1>11, <2>6, Zenon DEF FreePids
    <3>2. \A k \in Jobs : v.proc[k].pid # p
      BY <1>8, <3>1, Zenon DEF SameProcesses, v
    <3>3. ProcessInv(w) /\ ProcessInv(v) /\ ExitInv(v, {})
      BY <1>0, <1>7, <2>6, Zenon DEF Good, v
    <3>4. v.proc[j].report = "Pending"
      BY <1>1, <1>2, <1>8, <3>3 DEF ProcessInv, SameProcesses, v
    <3>5. ProcessInv(u)
      <4>1. \A k, l \in Jobs :
               u.proc[k].pid \in Pids /\ u.proc[k].pid = u.proc[l].pid => k = l
        BY <1>2, <2>1, <3>2, <3>3 DEF ProcessInv
      <4>2. \A k \in Jobs : u.proc[k].exit \in {"Success", "Failure"}
        BY <1>2, <2>1, <3>3, Zenon DEF ProcessInv
      <4>3. \A k \in Jobs :
               Queued(u, k) \/ k \notin u.issued =>
                  u.proc[k].life = "none" /\ u.proc[k].report = "Pending"
        BY <1>1, <1>8, <2>1, <2>3, <3>3 DEF ProcessInv, Queued, v
      <4>4. \A k \in Jobs : u.proc[k].life = "setup" => u.proc[k].report # "ExecSucceeded"
        BY <1>2, <2>1, <3>3, <3>4 DEF ProcessInv
      <4> QED
        BY <4>1, <4>2, <4>3, <4>4, Zenon DEF ProcessInv
    <3>6. ExitInv(u, {})
      BY <1>2, <2>1, <2>3, <3>1, <3>3 DEF ExitInv, Awaits
    <3> QED
      BY <3>5, <3>6, Zenon
  <2> QED
    BY <2>2, <2>4, <2>5, <2>6, Zenon DEF IInv, Good, u
<1> QED
  BY <1>3, <1>5, <1>10, <1>11, Zenon

\* The entry a submission adds.
LEMMA NewEntry ==
    ASSUME NEW s, NEW d, NEW held, NEW b,
           NEW e, e = [owner |-> s, definition |-> d, held |-> held, ready |-> b,
                       cause |-> "None", stop |-> "None", outcome |-> "None",
                       cleanup |-> b]
    PROVE  /\ DOMAIN e = {"owner", "definition", "held", "ready", "cause", "stop",
                          "outcome", "cleanup"}
           /\ e.owner = s /\ e.outcome = "None"
BY Zenon

\* A job is submitted: its identifier is fresh, and the caller is below its quota.
LEMMA SubmitGood ==
    ASSUME IInv, NEW j \in Jobs, NEW s \in Submitters, SubmitJob(j, s)
    PROVE  IInv'
<1>0. Good(w, {}) /\ j \notin w.issued /\ ~OverQuota(s)
  BY Zenon DEF IInv, SubmitJob
<1>1. PICK d, held :
        w' = [CreateJob(w, j) EXCEPT
                !.issued = @ \cup {j},
                !.open[j] = held,
                !.queue = Append(@, j),
                !.entries = With(@, j,
                    [owner |-> s, definition |-> d, held |-> held, ready |-> FALSE,
                     cause |-> "None", stop |-> "None", outcome |-> "None",
                     cleanup |-> FALSE])]
  BY Zenon DEF SubmitJob
<1>21. PICK e : e = [owner |-> s, definition |-> d, held |-> held, ready |-> FALSE,
                     cause |-> "None", stop |-> "None", outcome |-> "None",
                     cleanup |-> FALSE]
  BY Zenon
<1>2. /\ DOMAIN e = {"owner", "definition", "held", "ready", "cause", "stop",
                     "outcome", "cleanup"}
      /\ e.owner = s /\ e.outcome = "None"
  BY <1>21, NewEntry, Zenon
<1>3. w' = [CreateJob(w, j) EXCEPT !.issued = @ \cup {j}, !.open[j] = held,
                                   !.queue = Append(@, j), !.entries = With(@, j, e)]
  BY <1>1, <1>21, Zenon
<1>4. /\ w'.issued = w.issued \cup {j}
      /\ w'.queue = Append(w.queue, j)
      /\ w'.entries = With(w.entries, j, e)
      /\ w'.jobs = With(w.jobs, j, "Created")
      /\ w'.setups = w.setups /\ w'.held = w.held /\ w'.proc = w.proc
      /\ w'.contained = w.contained
      /\ DOMAIN w' = DOMAIN w
  BY <1>0, <1>3, Zenon DEF CreateJob, Good, Shape
<1>5. /\ DOMAIN w'.jobs = DOMAIN w.jobs \cup {j}
      /\ w'.jobs[j] = "Created"
      /\ \A k \in DOMAIN w.jobs : k # j => w'.jobs[k] = w.jobs[k]
      /\ DOMAIN w'.entries = DOMAIN w.entries \cup {j}
      /\ w'.entries[j] = e
      /\ \A k \in DOMAIN w.entries : k # j => w'.entries[k] = w.entries[k]
  BY <1>4, Zenon DEF With
<1>6. /\ w.issued \subseteq Jobs
      /\ j \notin DOMAIN w.jobs /\ j \notin DOMAIN w.entries /\ j \notin w.setups
      /\ ~Queued(w, j)
      /\ w.queue \in Seq(w.issued)
  BY <1>0 DEF Good, RecordInv, Queued
<1>7. /\ w'.queue \in Seq(w'.issued)
      /\ \A a, b \in DOMAIN w'.queue : w'.queue[a] = w'.queue[b] => a = b
      /\ \A k : Queued(w', k) => Queued(w, k) \/ k = j
  <2>1. PICK q, r, T : q = w.queue /\ r = w'.queue /\ T = w.issued
    BY Zenon
  <2>2. q \in Seq(T) /\ r = Append(q, j) /\ j \notin T
        /\ \A a, b \in DOMAIN q : q[a] = q[b] => a = b
    BY <1>0, <1>4, <1>6, <2>1, Zenon DEF Good, RecordInv
  <2>3. /\ r \in Seq(T \cup {j})
        /\ \A a, b \in DOMAIN r : r[a] = r[b] => a = b
        /\ \A i \in DOMAIN r : r[i] = j \/ \E k \in DOMAIN q : q[k] = r[i]
    BY <2>2, AppendProperties
  <2> QED
    BY <1>4, <2>1, <2>3 DEF Queued
<1>8. Shape(w')
  BY <1>0, <1>2, <1>4, <1>5 DEF Good, Shape
<1>9. RecordInv(w')
  BY <1>0, <1>4, <1>5, <1>6, <1>7 DEF Good, RecordInv
<1>10. AgreeInv(w')
  BY <1>0, <1>2, <1>4, <1>5, <1>6 DEF Good, AgreeInv
<1>11. QuotaInv(w')
  <2> SUFFICES ASSUME NEW t \in Submitters \ {System}
               PROVE  Cardinality(LiveOf(w', t)) <= MaxJobsPerSubmitter
    BY Zenon DEF QuotaInv
  <2>1. Cardinality(LiveOf(w, t)) <= MaxJobsPerSubmitter
    BY <1>0, Zenon DEF Good, QuotaInv
  <2>2. LiveOf(w, t) \subseteq Jobs
    BY <1>0, Zenon DEF Good, RecordInv, LiveOf, LiveJobs
  <2>3. IsFiniteSet(LiveOf(w, t)) /\ Cardinality(LiveOf(w, t)) \in Nat
    BY <2>2, FS_Subset, FS_CardinalityType, SubmittedAssumption, Zenon
  <2>4. CASE t # s
    <3>1. LiveOf(w', t) = LiveOf(w, t)
      BY <1>2, <1>5, <1>6, <2>4, Zenon DEF LiveOf, LiveJobs
    <3> QED
      BY <2>1, <3>1, Zenon
  <2>5. CASE t = s
    <3>1. LiveOf(w', t) = LiveOf(w, t) \cup {j} /\ j \notin LiveOf(w, t)
      BY <1>2, <1>5, <1>6, <2>5 DEF LiveOf, LiveJobs
    <3>2. Cardinality(LiveOf(w', t)) = Cardinality(LiveOf(w, t)) + 1
      BY <2>3, <3>1, FS_AddElement, Zenon
    <3>3. ~(Cardinality(LiveOf(w, t)) >= MaxJobsPerSubmitter)
      BY <1>0, <2>5, Zenon DEF OverQuota
    <3> QED
      BY <2>3, <3>2, <3>3, SubmittedAssumption
  <2> QED
    BY <2>4, <2>5, Zenon
<1>12. ASSUME ~PidsAreReused PROVE ProcessInv(w') /\ ExitInv(w', {})
  <2>1. ProcessInv(w) /\ ExitInv(w, {})
    BY <1>0, <1>12, Zenon DEF Good
  <2>2. ProcessInv(w')
    BY <1>0, <1>4, <1>7, <2>1 DEF ProcessInv
  <2>3. ExitInv(w', {})
    BY <1>4, <1>5, <1>6, <2>1 DEF ExitInv, Awaits
  <2> QED
    BY <2>2, <2>3, Zenon
<1> QED
  BY <1>8, <1>9, <1>10, <1>11, <1>12, Zenon DEF IInv, Good

\* The setup pipe is read: the job runs, or ends, or is contained.
LEMMA ReadSetupStatusGood ==
    ASSUME IInv, NEW j \in Jobs, ReadSetupStatus(j)
    PROVE  IInv'
<1> DEFINE done == [w EXCEPT !.setups = @ \ {j}]
<1>0. Good(w, {}) /\ j \in w.setups /\ Shape(w)
  BY Zenon DEF IInv, ReadSetupStatus, Good
<1>1. \/ w.proc[j].report = "ExecSucceeded" /\ w' = Started(done, j)
      \/ w' = SetupFailure(KillCgroup(done, j), j, "PreExecFailure")
      \/ \E kill \in BOOLEAN : \E closed : w' = Contained(w, j, closed, kill)
  BY Zenon DEF ReadSetupStatus
<1>2. /\ Shape(done) /\ done.setups = w.setups \ {j}
      /\ done.entries = w.entries /\ done.jobs = w.jobs /\ done.queue = w.queue
      /\ done.held = w.held /\ done.proc = w.proc /\ done.issued = w.issued
      /\ done.contained = w.contained
  BY <1>0, Zenon DEF Shape
<1>3. Started(done, j).jobs = [w.jobs EXCEPT ![j] = "Running"]
      /\ Started(done, j).setups = w.setups \ {j}
      /\ Started(done, j).queue = w.queue /\ Started(done, j).held = w.held
      /\ Started(done, j).proc = w.proc /\ Started(done, j).issued = w.issued
      /\ Started(done, j).contained = w.contained
      /\ SameEntries(w, Started(done, j)) /\ Shape(Started(done, j))
  BY <1>0 DEF Started, StartJob, Shape, SameEntries
<1> HIDE DEF done
<1>4. Good(done, {})
  <2>1. RecordInv(done)
    BY <1>0, <1>2 DEF Good, RecordInv, Queued
  <2>2. AgreeInv(done) /\ QuotaInv(done)
    BY <1>0, <1>2 DEF Good, AgreeInv, QuotaInv, LiveOf, LiveJobs
  <2>3. ~PidsAreReused => ProcessInv(done) /\ ExitInv(done, {})
    BY <1>0, <1>2 DEF Good, ProcessInv, ExitInv, Awaits, Queued
  <2> QED
    BY <1>2, <2>1, <2>2, <2>3, Zenon DEF Good
<1>5. CASE w' = SetupFailure(KillCgroup(done, j), j, "PreExecFailure")
  <2>1. Keeps(done, KillCgroup(done, j))
    BY <1>2, KillCgroupKeeps, Zenon
  <2>2. Good(KillCgroup(done, j), {}) /\ Shape(KillCgroup(done, j))
    BY <1>4, <2>1, KeepsGood, KeepsShape, Zenon
  <2>3. j \notin KillCgroup(done, j).setups
    BY <1>2, <2>1, Zenon DEF Keeps, SameQueues
  <2>4. Ends(KillCgroup(done, j), w', j)
    BY <1>5, <2>2, SetupFailureEnds, Zenon
  <2> QED
    BY <2>2, <2>3, <2>4, GoodExcept, EndsGood, Zenon DEF IInv
<1>6. ASSUME NEW kill \in BOOLEAN, NEW closed, w' = Contained(w, j, closed, kill)
      PROVE  IInv'
  <2>1. Retires(w, w', j)
    BY <1>0, <1>6, ContainedRetires, Zenon
  <2> QED
    BY <1>0, <2>1, GoodExcept, RetiresGood, Zenon DEF IInv
<1>7. ASSUME w.proc[j].report = "ExecSucceeded", w' = Started(done, j)
      PROVE  IInv'
  <2>0. /\ w'.setups = w.setups \ {j}
        /\ w'.queue = w.queue /\ w'.held = w.held
        /\ w'.proc = w.proc /\ w'.issued = w.issued
        /\ w'.contained = w.contained
        /\ SameEntries(w, w') /\ Shape(w')
    BY <1>3, <1>7, Zenon
  <2>1. DOMAIN w'.jobs = DOMAIN w.jobs /\ j \in DOMAIN w.jobs /\ w'.jobs[j] = "Running"
        /\ \A k \in DOMAIN w.jobs : k # j => w'.jobs[k] = w.jobs[k]
    BY <1>0, <1>3, <1>7, Zenon DEF Good, RecordInv
  <2>2. ~Queued(w, j)
    BY <1>0, <2>1, Zenon DEF Good, RecordInv
  <2>3. RecordInv(w')
    <3>1. /\ RecordInv(w)
          /\ \A k : Queued(w', k) <=> Queued(w, k)
      BY <1>0, <2>0, Zenon DEF Good, Queued
    <3>2. DOMAIN w'.entries \subseteq w'.issued
      BY <2>0, <3>1, Zenon DEF RecordInv, SameEntries
    <3>3. \A k \in DOMAIN w'.jobs :
            Queued(w', k) => w'.jobs[k] = "Created" /\ k \notin w'.setups
      BY <2>0, <2>1, <2>2, <3>1 DEF RecordInv
    <3>4. w'.setups \subseteq DOMAIN w'.jobs /\ \A k \in w'.setups : w'.jobs[k] = "Created"
      BY <2>0, <2>1, <3>1, Zenon DEF RecordInv
    <3> QED
      BY <2>0, <2>1, <3>1, <3>2, <3>3, <3>4 DEF RecordInv
  <2>4. AgreeInv(w')
    BY <1>0, <2>0, <2>1, Zenon DEF Good, AgreeInv, SameEntries
  <2>5. QuotaInv(w')
    BY <1>0, <2>0, FewerLive DEF Good, SameEntries
  <2>6. ASSUME ~PidsAreReused PROVE ProcessInv(w') /\ ExitInv(w', {})
    <3>1. ProcessInv(w) /\ ExitInv(w, {})
      BY <1>0, <2>6, Zenon DEF Good
    <3>2. ProcessInv(w')
      BY <2>0, <3>1 DEF ProcessInv, Queued
    <3>3. w.proc[j].life # "setup" /\ Awaits(w, j)
      BY <1>0, <1>7, <3>1, Zenon DEF ProcessInv, Awaits
    <3>4. ExitInv(w', {})
      BY <2>0, <2>1, <3>1, <3>3 DEF ExitInv, Awaits
    <3> QED
      BY <3>2, <3>4, Zenon
  <2> QED
    BY <2>0, <2>3, <2>4, <2>5, <2>6, Zenon DEF IInv, Good
<1> QED
  BY <1>1, <1>5, <1>6, <1>7, Zenon

\* An exit reaches a running job: the job ends, or is contained.
LEMMA ExitEnds ==
    ASSUME NEW v, NEW k \in Jobs, Good(v, {k}), k \in DOMAIN v.jobs, v.jobs[k] = "Running",
           NEW exit, NEW u,
           \/ u = Terminal(v, k, exit)
           \/ \E kill \in BOOLEAN : u = Contained(v, k, v.entries[k].held, kill)
    PROVE  Good(u, {})
<1>0. Shape(v) /\ k \notin v.setups
  BY Zenon DEF Good, RecordInv
<1>1. CASE u = Terminal(v, k, exit)
  BY <1>0, <1>1, TerminalEnds, EndsGood, Zenon
<1>2. ASSUME NEW kill \in BOOLEAN, u = Contained(v, k, v.entries[k].held, kill)
      PROVE  Good(u, {})
  BY <1>0, <1>2, ContainedRetires, RetiresGood, Zenon
<1> QED
  BY <1>1, <1>2, Zenon

\* apply_reaped_child, in its three cases.
LEMMA ExitAppliedCases ==
    ASSUME NEW v, NEW p, NEW exit, NEW u \in ExitApplied(v, p, exit)
    PROVE  \/ \E k \in ActiveByPid(v, p) :
                 \/ u = Terminal(v, k, exit)
                 \/ \E kill \in BOOLEAN : u = Contained(v, k, v.entries[k].held, kill)
           \/ /\ ActiveByPid(v, p) = {} /\ PendingByPid(v, p) # {}
              /\ u = [v EXCEPT !.held[p] = exit]
           \/ ActiveByPid(v, p) = {} /\ PendingByPid(v, p) = {} /\ u = v
<1>1. CASE ActiveByPid(v, p) # {}
  <2>1. u \in {Terminal(v, k, exit) : k \in ActiveByPid(v, p)} \cup
              {Contained(v, k, v.entries[k].held, kill) :
                    k \in ActiveByPid(v, p), kill \in BOOLEAN}
    BY <1>1 DEF ExitApplied
  <2> QED
    BY <2>1
<1>2. CASE ActiveByPid(v, p) = {} /\ PendingByPid(v, p) # {}
  BY <1>2 DEF ExitApplied
<1>3. CASE ActiveByPid(v, p) = {} /\ PendingByPid(v, p) = {}
  BY <1>3 DEF ExitApplied
<1> QED
  BY <1>1, <1>2, <1>3, Zenon

\* A child is reaped: its exit ends the job, or is held, or is nobody's.
LEMMA ReapChildGood ==
    ASSUME IInv, NEW j \in Jobs, ReapChild(j)
    PROVE  IInv'
<1> DEFINE v == [w EXCEPT !.proc[j].life = "reaped", !.proc[j].exit = "Failure"]
           p == w.proc[j].pid
           exit == w.proc[j].exit
<1>0. Good(w, {}) /\ Shape(w) /\ w.proc[j].life = "zombie" /\ w' \in ExitApplied(v, p, exit)
  BY Zenon DEF IInv, Good, ReapChild
<1>1. /\ Shape(v) /\ v.setups = w.setups
      /\ v.entries = w.entries /\ v.jobs = w.jobs /\ v.queue = w.queue
      /\ v.held = w.held /\ v.issued = w.issued /\ v.contained = w.contained
      /\ v.proc[j].life = "reaped" /\ v.proc[j].exit = "Failure"
      /\ v.proc[j].pid = w.proc[j].pid /\ v.proc[j].report = w.proc[j].report
      /\ \A k \in Jobs : k # j => v.proc[k] = w.proc[k]
  BY <1>0 DEF Shape
<1>2. PICK u, q, x : u = v /\ q = p /\ x = exit
  BY Zenon
<1>3. w' \in ExitApplied(u, q, x)
  BY <1>0, <1>2, Zenon
<1>4. /\ Shape(u) /\ u.setups = w.setups
      /\ u.entries = w.entries /\ u.jobs = w.jobs /\ u.queue = w.queue
      /\ u.held = w.held /\ u.issued = w.issued /\ u.contained = w.contained
      /\ u.proc[j].life = "reaped" /\ u.proc[j].exit = "Failure"
      /\ u.proc[j].pid = w.proc[j].pid /\ u.proc[j].report = w.proc[j].report
      /\ \A k \in Jobs : k # j => u.proc[k] = w.proc[k]
  BY <1>1, <1>2, Zenon
<1>5. \A k \in Jobs : u.proc[k].pid = w.proc[k].pid
  BY <1>4, Zenon
<1> HIDE DEF v
<1>60. RecordInv(w) /\ AgreeInv(w) /\ QuotaInv(w)
  BY <1>0, Zenon DEF Good
<1>6. RecordInv(u) /\ AgreeInv(u) /\ QuotaInv(u)
  BY <1>4, <1>60, SameStores, Zenon
<1>7. ~PidsAreReused => ProcessInv(u) /\ ExitInv(u, {j})
  <2> SUFFICES ASSUME ~PidsAreReused PROVE ProcessInv(u) /\ ExitInv(u, {j})
    BY Zenon
  <2>1. ProcessInv(w) /\ ExitInv(w, {})
    BY <1>0, Zenon DEF Good
  <2>21. \A k : Queued(u, k) <=> Queued(w, k)
    BY <1>4, Zenon DEF Queued
  <2>22. \A k : Awaits(u, k) <=> Awaits(w, k)
    BY <1>4, Zenon DEF Awaits
  <2>23. \A k \in Jobs : /\ u.proc[k].life = w.proc[k].life \/ u.proc[k].life = "reaped"
                         /\ u.proc[k].report = w.proc[k].report
                         /\ u.proc[k].exit = w.proc[k].exit \/ u.proc[k].exit = "Failure"
    BY <1>4, Zenon
  <2>24. ~Queued(w, j) /\ j \in w.issued
    BY <1>0, <2>1, Zenon DEF ProcessInv
  <2>2. ProcessInv(u)
    BY <1>4, <1>5, <2>1, <2>21, <2>23, <2>24 DEF ProcessInv
  <2>3. ExitInv(u, {j})
    BY <1>4, <1>5, <2>1, <2>22 DEF ExitInv
  <2> QED
    BY <2>2, <2>3, Zenon
<1>8. Good(u, {j})
  BY <1>4, <1>6, <1>7, Zenon DEF Good
\* Whoever waits for this pid is job j.
<1>9. ASSUME ~PidsAreReused, NEW k \in Jobs, Awaits(u, k), u.proc[k].pid = q
      PROVE  k = j
  <2>1. ProcessInv(u) /\ ExitInv(u, {j})
    BY <1>7, <1>9, Zenon
  <2>2. u.proc[k].pid \in Pids /\ u.proc[k].pid = u.proc[j].pid
    BY <1>2, <1>4, <1>9, <2>1, Zenon DEF ExitInv
  <2> QED
    BY <2>1, <2>2, Zenon DEF ProcessInv
<1>10. ASSUME NEW k \in ActiveByPid(u, q),
              \/ w' = Terminal(u, k, x)
              \/ \E kill \in BOOLEAN : w' = Contained(u, k, u.entries[k].held, kill)
       PROVE  IInv'
  <2>1. k \in Jobs /\ k \in DOMAIN u.jobs /\ u.jobs[k] = "Running" /\ u.proc[k].pid = q
    BY <1>6, Zenon DEF ActiveByPid, RecordInv
  <2>2. ~PidsAreReused => k = j
    BY <1>9, <2>1, Zenon DEF Awaits
  <2>3. Good(u, {k})
    BY <1>8, <2>2, Zenon DEF Good
  <2> QED
    BY <1>10, <2>1, <2>3, ExitEnds, Zenon DEF IInv
<1>11. ASSUME ActiveByPid(u, q) = {}, PendingByPid(u, q) # {}, w' = [u EXCEPT !.held[q] = x]
       PROVE  IInv'
  <2>1. /\ Shape(w') /\ w'.setups = u.setups
        /\ w'.entries = u.entries /\ w'.jobs = u.jobs /\ w'.queue = u.queue
        /\ w'.issued = u.issued /\ w'.contained = u.contained /\ w'.proc = u.proc
        /\ \A r \in Pids : r # q => w'.held[r] = u.held[r]
        /\ q \in Pids => w'.held[q] = x
    BY <1>4, <1>11, Zenon DEF Shape
  <2>2. RecordInv(w') /\ AgreeInv(w') /\ QuotaInv(w')
    BY <1>6, <2>1 DEF RecordInv, AgreeInv, QuotaInv, LiveOf, LiveJobs, Queued
  <2>3. ASSUME ~PidsAreReused PROVE ProcessInv(w') /\ ExitInv(w', {})
    <3>1. ProcessInv(u) /\ ExitInv(u, {j}) /\ ProcessInv(w)
      BY <1>0, <1>7, <2>3, Zenon DEF Good
    <3>2. ProcessInv(w')
      BY <2>1, <3>1 DEF ProcessInv, Queued
    <3>3. x # "None"
      BY <1>2, <3>1, Zenon DEF ProcessInv
    <3>4. \A k \in Jobs : Awaits(w', k) <=> Awaits(u, k)
      BY <2>1, Zenon DEF Awaits
    <3>5. ~(j \in DOMAIN u.jobs /\ u.jobs[j] = "Running")
      BY <1>2, <1>4, <1>11, Zenon DEF ActiveByPid
    <3>6. \A k \in Jobs : Awaits(u, k) /\ k # j => w'.held[u.proc[k].pid] = u.held[u.proc[k].pid]
      BY <1>9, <2>1, <2>3, <3>1, Zenon DEF ExitInv
    <3>7. Awaits(u, j) => w'.held[u.proc[j].pid] # "None"
      BY <1>2, <1>4, <2>1, <3>1, <3>3 DEF ExitInv
    <3>8. ExitInv(w', {})
      BY <2>1, <3>1, <3>4, <3>5, <3>6, <3>7 DEF ExitInv
    <3> QED
      BY <3>2, <3>8, Zenon
  <2> QED
    BY <2>1, <2>2, <2>3, Zenon DEF IInv, Good
<1>12. ASSUME ActiveByPid(u, q) = {}, PendingByPid(u, q) = {}, w' = u
       PROVE  IInv'
  <2>1. ~Awaits(u, j)
    BY <1>2, <1>4, <1>12, Zenon DEF ActiveByPid, PendingByPid, Awaits
  <2>2. ExitInv(u, {j}) => ExitInv(u, {})
    BY <2>1, Zenon DEF ExitInv, Awaits
  <2> QED
    BY <1>8, <1>12, <2>2, Zenon DEF IInv, Good
<1>13. \/ \E k \in ActiveByPid(u, q) :
             \/ w' = Terminal(u, k, x)
             \/ \E kill \in BOOLEAN : w' = Contained(u, k, u.entries[k].held, kill)
       \/ /\ ActiveByPid(u, q) = {} /\ PendingByPid(u, q) # {}
          /\ w' = [u EXCEPT !.held[q] = x]
       \/ ActiveByPid(u, q) = {} /\ PendingByPid(u, q) = {} /\ w' = u
  BY <1>3, ExitAppliedCases, Zenon
<1> QED
  BY <1>10, <1>11, <1>12, <1>13, Zenon

\* A held exit is replayed once its pid is a running job's.
LEMMA ReplayHeldExitGood ==
    ASSUME IInv, NEW p \in Pids, ReplayHeldExit(p)
    PROVE  IInv'
<1>0. Good(w, {}) /\ Shape(w) /\ ActiveByPid(w, p) # {}
  BY Zenon DEF IInv, Good, ReplayHeldExit
<1>1. PICK v, x : v = [w EXCEPT !.held[p] = "None"] /\ x = w.held[p]
  BY Zenon
<1>2. w' \in ExitApplied(v, p, x)
  BY <1>1, Zenon DEF ReplayHeldExit
<1>3. /\ Shape(v) /\ v.setups = w.setups
      /\ v.entries = w.entries /\ v.jobs = w.jobs /\ v.queue = w.queue
      /\ v.issued = w.issued /\ v.contained = w.contained /\ v.proc = w.proc
      /\ \A r \in Pids : r # p => v.held[r] = w.held[r]
  BY <1>0, <1>1, Zenon DEF Shape
<1>4. ActiveByPid(v, p) = ActiveByPid(w, p)
  BY <1>3, Zenon DEF ActiveByPid
<1>51. \/ \E k \in ActiveByPid(v, p) :
             \/ w' = Terminal(v, k, x)
             \/ \E kill \in BOOLEAN : w' = Contained(v, k, v.entries[k].held, kill)
       \/ /\ ActiveByPid(v, p) = {} /\ PendingByPid(v, p) # {}
          /\ w' = [v EXCEPT !.held[p] = x]
       \/ ActiveByPid(v, p) = {} /\ PendingByPid(v, p) = {} /\ w' = v
  BY <1>2, ExitAppliedCases, Zenon
<1>5. PICK k \in ActiveByPid(v, p) :
             \/ w' = Terminal(v, k, x)
             \/ \E kill \in BOOLEAN : w' = Contained(v, k, v.entries[k].held, kill)
  BY <1>0, <1>4, <1>51, Zenon
<1>60. RecordInv(w) /\ AgreeInv(w) /\ QuotaInv(w)
  BY <1>0, Zenon DEF Good
<1>6. RecordInv(v) /\ AgreeInv(v) /\ QuotaInv(v)
  BY <1>3, <1>60, SameStores, Zenon
<1>7. k \in Jobs /\ k \in DOMAIN v.jobs /\ v.jobs[k] = "Running" /\ v.proc[k].pid = p
  BY <1>5, <1>6, Zenon DEF ActiveByPid, RecordInv
<1>8. ASSUME ~PidsAreReused PROVE ProcessInv(v) /\ ExitInv(v, {k})
  <2>1. ProcessInv(w) /\ ExitInv(w, {})
    BY <1>0, <1>8, Zenon DEF Good
  <2>2. ProcessInv(v)
    BY <1>3, <2>1 DEF ProcessInv, Queued
  <2>3. \A l \in Jobs \ {k} : v.proc[l].pid # p
    BY <1>3, <1>7, <2>1 DEF ProcessInv
  <2>4. ExitInv(v, {k})
    BY <1>3, <2>1, <2>3 DEF ExitInv, Awaits
  <2> QED
    BY <2>2, <2>4, Zenon
<1>9. Good(v, {k})
  BY <1>3, <1>6, <1>8, Zenon DEF Good
<1> QED
  BY <1>5, <1>7, <1>9, ExitEnds, Zenon DEF IInv

\* A deadline is processed, or fails and is contained.
LEMMA DeadlineDueGood ==
    ASSUME IInv, NEW j \in Jobs, DeadlineDue(j)
    PROVE  IInv'
<1>0. Good(w, {}) /\ Shape(w)
  BY Zenon DEF IInv, Good
<1>1. PICK kind : \/ w' = DeadlineProcessed(w, j, kind)
                  \/ \E kill \in BOOLEAN : w' = Contained(w, j, {}, kill)
  BY Zenon DEF DeadlineDue
<1>2. ASSUME NEW kill \in BOOLEAN, w' = Contained(w, j, {}, kill)
      PROVE  IInv'
  BY <1>0, <1>2, ContainedRetires, GoodExcept, RetiresGood, Zenon DEF IInv
<1>3. ASSUME w' = DeadlineProcessed(w, j, kind)
      PROVE  IInv'
  <2>1. \/ w' = RecordKill(KillCgroup(w, j), j)
        \/ w' = w
        \/ /\ InJobState(w, j, "Running")
           /\ w' = EndJob(CloseDescriptors(
                    [w EXCEPT !.entries[j].cause = "ProcessUnkillable"], j), j, "Abandoned")
        \/ w' = RecordKill(w, j)
        \/ w' = [w EXCEPT !.entries[j].cleanup = FALSE]
        \/ w' = Stopped(w, j, kind)
    <3>1. CASE kind = "StopKill"
      BY <1>3, <3>1, Zenon DEF DeadlineProcessed
    <3>2. CASE kind = "PostKill"
      BY <1>3, <3>2, Zenon DEF DeadlineProcessed
    <3>3. CASE kind = "CgroupCleanup"
      BY <1>3, <3>3, Zenon DEF DeadlineProcessed
    <3>4. CASE kind \notin {"StopKill", "PostKill", "CgroupCleanup"}
      BY <1>3, <3>4, Zenon DEF DeadlineProcessed
    <3> QED
      BY <3>1, <3>2, <3>3, <3>4, Zenon
  <2>2. CASE w' = RecordKill(KillCgroup(w, j), j)
    <3>1. Keeps(w, KillCgroup(w, j)) /\ Shape(KillCgroup(w, j))
      BY <1>0, KillCgroupKeeps, KeepsShape, Zenon
    <3>2. Keeps(KillCgroup(w, j), w')
      BY <2>2, <3>1, RecordKillKeeps, Zenon
    <3> QED
      BY <1>0, <3>1, <3>2, KeepsGood, Zenon DEF IInv
  <2>3. CASE w' = w
    BY <1>0, <2>3, Zenon DEF IInv
  <2>4. CASE w' = RecordKill(w, j)
    BY <1>0, <2>4, RecordKillKeeps, KeepsGood, Zenon DEF IInv
  <2>5. CASE w' = [w EXCEPT !.entries[j].cleanup = FALSE]
    <3>1. Keeps(w, w')
      BY <1>0, <2>5, CleanupKeeps, Zenon
    <3> QED
      BY <1>0, <3>1, KeepsGood, Zenon DEF IInv
  <2>6. CASE w' = Stopped(w, j, kind)
    BY <1>0, <2>6, StoppedGood, Zenon DEF IInv
  <2>7. ASSUME InJobState(w, j, "Running"),
               w' = EndJob(CloseDescriptors(
                    [w EXCEPT !.entries[j].cause = "ProcessUnkillable"], j), j, "Abandoned")
        PROVE  IInv'
    <3>1. PICK a : a = [w EXCEPT !.entries[j].cause = "ProcessUnkillable"]
      BY Zenon
    <3>2. Keeps(w, a) /\ Shape(a)
      BY <1>0, <3>1, CauseKeeps, KeepsShape, Zenon
    <3>3. Keeps(a, CloseDescriptors(a, j)) /\ Shape(CloseDescriptors(a, j))
      BY <3>2, CloseDescriptorsKeeps, KeepsShape, Zenon
    <3>4. Keeps(w, CloseDescriptors(a, j))
      BY <3>2, <3>3, KeepsThenKeeps, Zenon
    <3>5. "Abandoned" # "None"
      BY Zenon
    <3>6. Ends(CloseDescriptors(a, j), w', j)
      BY <2>7, <3>1, <3>3, <3>5, EndJobEnds, Zenon
    <3>7. Ends(w, w', j)
      BY <3>4, <3>6, KeepsThenEnds, Zenon
    <3>8. j \notin w.setups
      BY <1>0, <2>7, Zenon DEF InJobState, Good, RecordInv
    <3> QED
      BY <1>0, <3>7, <3>8, GoodExcept, EndsGood, Zenon DEF IInv
  <2> QED
    BY <2>1, <2>2, <2>3, <2>4, <2>5, <2>6, <2>7, Zenon
<1> QED
  BY <1>1, <1>2, <1>3, Zenon

\* An ended job is purged.
LEMMA PurgeGood ==
    ASSUME IInv, NEW j \in Jobs, Purge(j)
    PROVE  IInv'
<1>0. Good(w, {}) /\ Shape(w) /\ w.entries[j].outcome # "None"
  BY Zenon DEF IInv, Good, Purge
<1>1. /\ w'.entries = Without(w.entries, j) /\ DOMAIN w' = DOMAIN w
      /\ w'.setups = w.setups /\ w'.jobs = w.jobs /\ w'.queue = w.queue
      /\ w'.issued = w.issued /\ w'.contained = w.contained /\ w'.proc = w.proc
      /\ w'.held = w.held
  BY <1>0, Zenon DEF Purge, Shape
<1>2. /\ DOMAIN w'.entries = DOMAIN w.entries \ {j}
      /\ \A k \in DOMAIN w'.entries : w'.entries[k] = w.entries[k]
  BY <1>1, Zenon DEF Without
<1>3. Shape(w')
  BY <1>0, <1>1, <1>2, Zenon DEF Shape
<1>4. RecordInv(w')
  BY <1>0, <1>1, <1>2 DEF Good, RecordInv, Queued
<1>5. AgreeInv(w')
  BY <1>0, <1>1, <1>2 DEF Good, AgreeInv
<1>6. RecordInv(w) /\ QuotaInv(w)
  BY <1>0, Zenon DEF Good
<1>7. QuotaInv(w')
  BY <1>2, <1>6, FewerLive, Zenon
<1>8. ~PidsAreReused => ProcessInv(w') /\ ExitInv(w', {})
  BY <1>0, <1>1, SameExits, Zenon DEF Good
<1> QED
  BY <1>3, <1>4, <1>5, <1>7, <1>8, Zenon DEF IInv, Good

\* A process moves on: the exec is reported, or the process ends.
LEMMA ProcessMoves ==
    ASSUME IInv, NEW j \in Jobs, w.proc[j].life \in {"setup", "running"},
           NEW life \in {"setup", "running", "zombie"}, NEW report,
           w.proc[j].life # "setup" => life # "setup",
           life = "setup" => report # "ExecSucceeded",
           Shape(w'), w'.proc[j].life = life, w'.proc[j].report = report,
           w'.proc[j].exit \in {"Success", "Failure"} \/ w'.proc[j].exit = w.proc[j].exit,
           w'.proc[j].pid = w.proc[j].pid,
           \A k \in Jobs : k # j => w'.proc[k] = w.proc[k],
           w'.entries = w.entries, w'.jobs = w.jobs, w'.queue = w.queue, w'.setups = w.setups,
           w'.held = w.held, w'.issued = w.issued, w'.contained = w.contained
    PROVE  IInv'
<1>0. Good(w, {})
  BY Zenon DEF IInv
<1>01. RecordInv(w) /\ AgreeInv(w) /\ QuotaInv(w)
  BY <1>0, Zenon DEF Good
<1>1. RecordInv(w') /\ AgreeInv(w') /\ QuotaInv(w')
  BY <1>01, SameStores, Zenon
<1>2. ASSUME ~PidsAreReused PROVE ProcessInv(w') /\ ExitInv(w', {})
  <2>1. ProcessInv(w) /\ ExitInv(w, {})
    BY <1>0, <1>2, Zenon DEF Good
  <2>2. \A k \in Jobs : w'.proc[k].pid = w.proc[k].pid
    BY Zenon
  <2>3. ProcessInv(w')
    BY <2>1, <2>2 DEF ProcessInv, Queued
  <2>4. ExitInv(w', {})
    BY <2>1, <2>2 DEF ExitInv, Awaits
  <2> QED
    BY <2>3, <2>4, Zenon
<1> QED
  BY <1>1, <1>2, Zenon DEF IInv, Good

\* What the end of a process changes of it.
LEMMA EndedFlags ==
    ASSUME NEW p, DOMAIN p = {"pid", "life", "report", "exit", "killed", "others"},
           NEW exit, NEW others, NEW killed, NEW report, NEW z,
           z = [p EXCEPT !.life = "zombie", !.exit = exit, !.killed = killed,
                         !.others = others, !.report = report]
    PROVE  /\ DOMAIN z = {"pid", "life", "report", "exit", "killed", "others"}
           /\ z.life = "zombie" /\ z.pid = p.pid /\ z.exit = exit
BY Zenon

\* A process that ends is a zombie with its pid and its exit status.
LEMMA EndedFields ==
    ASSUME NEW p, DOMAIN p = {"pid", "life", "report", "exit", "killed", "others"},
           NEW exit, NEW others, NEW z, z = Ended(p, exit, others)
    PROVE  /\ DOMAIN z = {"pid", "life", "report", "exit", "killed", "others"}
           /\ z.life = "zombie" /\ z.pid = p.pid /\ z.exit = exit
BY EndedFlags, Zenon DEF Ended

\* The child reports, and the process ends.
LEMMA ProcessGood ==
    ASSUME IInv, NEW j \in Jobs, ChildReports(j) \/ ProcessEnds(j)
    PROVE  IInv'
<1>0. Shape(w)
  BY Zenon DEF IInv, Good
<1>1. CASE ChildReports(j)
  <2>0. w.proc[j].life = "setup" /\ w.proc[j].report = "Pending"
    BY <1>1, Zenon DEF ChildReports
  <2>1. CASE w' = [w EXCEPT !.proc[j].report = "ExecSucceeded", !.proc[j].life = "running"]
    <3>1. /\ Shape(w') /\ w'.proc[j].life = "running" /\ w'.proc[j].report = "ExecSucceeded"
          /\ w'.proc[j].pid = w.proc[j].pid /\ w'.proc[j].exit = w.proc[j].exit
          /\ \A k \in Jobs : k # j => w'.proc[k] = w.proc[k]
          /\ w'.entries = w.entries /\ w'.jobs = w.jobs /\ w'.queue = w.queue
          /\ w'.setups = w.setups /\ w'.held = w.held /\ w'.issued = w.issued
          /\ w'.contained = w.contained
      BY <1>0, <2>1 DEF Shape
    <3> QED
      BY <2>0, <3>1, ProcessMoves, Zenon
  <2>2. CASE w' = [w EXCEPT !.proc[j].report = "PreExecFailed"]
    <3>1. /\ Shape(w') /\ w'.proc[j].life = "setup" /\ w'.proc[j].report = "PreExecFailed"
          /\ w'.proc[j].pid = w.proc[j].pid /\ w'.proc[j].exit = w.proc[j].exit
          /\ \A k \in Jobs : k # j => w'.proc[k] = w.proc[k]
          /\ w'.entries = w.entries /\ w'.jobs = w.jobs /\ w'.queue = w.queue
          /\ w'.setups = w.setups /\ w'.held = w.held /\ w'.issued = w.issued
          /\ w'.contained = w.contained
      BY <1>0, <2>0, <2>2 DEF Shape
    <3> QED
      BY <2>0, <3>1, ProcessMoves, Zenon
  <2> QED
    BY <1>1, <2>1, <2>2, Zenon DEF ChildReports
<1>2. CASE ProcessEnds(j)
  <2>1. PICK exit \in {"Success", "Failure"}, others \in BOOLEAN :
           w' = [w EXCEPT !.proc[j] = Ended(@, exit, others)]
    BY <1>2, Zenon DEF ProcessEnds
  <2>2. w.proc[j].life \in {"setup", "running"}
    BY <1>2, Zenon DEF ProcessEnds
  <2>3. PICK z : z = Ended(w.proc[j], exit, others)
    BY Zenon
  <2>4. /\ DOMAIN z = {"pid", "life", "report", "exit", "killed", "others"}
        /\ z.life = "zombie" /\ z.pid = w.proc[j].pid /\ z.exit = exit
    <3>1. DOMAIN w.proc[j] = {"pid", "life", "report", "exit", "killed", "others"}
      BY <1>0, Zenon DEF Shape
    <3> QED
      BY <2>3, <3>1, EndedFields
  <2>5. w' = [w EXCEPT !.proc[j] = z]
    BY <2>1, <2>3, Zenon
  <2>6. /\ Shape(w') /\ w'.proc[j] = z
        /\ \A k \in Jobs : k # j => w'.proc[k] = w.proc[k]
        /\ w'.entries = w.entries /\ w'.jobs = w.jobs /\ w'.queue = w.queue
        /\ w'.setups = w.setups /\ w'.held = w.held /\ w'.issued = w.issued
        /\ w'.contained = w.contained
    BY <1>0, <2>4, <2>5, Zenon DEF Shape
  <2>7. w'.proc[j].life = "zombie" /\ w'.proc[j].pid = w.proc[j].pid
        /\ w'.proc[j].exit \in {"Success", "Failure"}
    BY <2>4, <2>6, Zenon
  <2> QED
    BY <2>2, <2>6, <2>7, ProcessMoves, Zenon
<1> QED
  BY <1>1, <1>2, Zenon

-----------------------------------------------------------------------------
(* The theorems. *)

\* Initially no job has been submitted.
LEMMA InitGood ==
    ASSUME Init
    PROVE  IInv
<1>1. /\ DOMAIN w = {"entries", "jobs", "queue", "setups", "held", "proc", "open",
                     "issued", "contained"}
      /\ DOMAIN w.entries = {} /\ DOMAIN w.jobs = {} /\ w.queue = <<>> /\ w.setups = {}
      /\ DOMAIN w.held = Pids /\ w.proc = [j \in Jobs |-> NoProcess] /\ w.issued = {}
      /\ w.contained = {}
  BY Zenon DEF Init
<1>2. /\ DOMAIN NoProcess = {"pid", "life", "report", "exit", "killed", "others"}
      /\ NoProcess.pid = NoPid /\ NoProcess.life = "none" /\ NoProcess.report = "Pending"
      /\ NoProcess.exit = "Failure"
  BY Zenon DEF NoProcess
<1>3. Shape(w)
  BY <1>1, <1>2, Zenon DEF Shape
<1>4. RecordInv(w) /\ AgreeInv(w)
  BY <1>1 DEF RecordInv, AgreeInv, Queued
<1>5. QuotaInv(w)
  <2>1. \A u : LiveOf(w, u) = {}
    BY <1>1, Zenon DEF LiveOf, LiveJobs
  <2> QED
    BY <2>1, FS_EmptySet, SubmittedAssumption DEF QuotaInv
<1>6. ProcessInv(w) /\ ExitInv(w, {})
  BY <1>1, <1>2, SubmittedAssumption, Zenon DEF ProcessInv, ExitInv, Awaits, Queued
<1> QED
  BY <1>3, <1>4, <1>5, <1>6, Zenon DEF IInv, Good

\* Every step keeps the invariant.
LEMMA NextGood ==
    ASSUME IInv, [Next]_vars
    PROVE  IInv'
<1>0. Good(w, {}) /\ Shape(w)
  BY Zenon DEF IInv, Good
<1>1. ASSUME NEW c \in Connections, NEW j \in Jobs, NEW s \in Submitters, Submit(c, j, s)
      PROVE  IInv'
  BY <1>1, SubmitGood, Zenon DEF Submit
<1>2. ASSUME NEW c \in Connections, NEW j \in Jobs, StopJob(c, j)
      PROVE  IInv'
  <2>1. w' = Stopped(w, j, "ExplicitStop")
    BY <1>2, Zenon DEF StopJob, StopSubmittedJob
  <2> QED
    BY <1>0, <2>1, StoppedGood, Zenon DEF IInv
<1>3. CASE LaunchNext
  BY <1>3, LaunchNextGood, Zenon
<1>4. ASSUME NEW j \in Jobs, ReadSetupStatus(j) PROVE IInv'
  BY <1>4, ReadSetupStatusGood, Zenon
<1>5. ASSUME NEW j \in Jobs, ReapChild(j) PROVE IInv'
  BY <1>5, ReapChildGood, Zenon
<1>6. ASSUME NEW j \in Jobs, DeadlineDue(j) PROVE IInv'
  BY <1>6, DeadlineDueGood, Zenon
<1>7. ASSUME NEW j \in Jobs, Purge(j) PROVE IInv'
  BY <1>7, PurgeGood, Zenon
<1>8. ASSUME NEW j \in Jobs, Notify(j) PROVE IInv'
  <2>1. w' = [w EXCEPT !.entries[j].ready = TRUE]
    BY <1>8, Zenon DEF Notify
  <2>2. Keeps(w, w')
    BY <1>0, <2>1, ReadyKeeps, Zenon
  <2> QED
    BY <1>0, <2>2, KeepsGood, Zenon DEF IInv
<1>9. ASSUME NEW j \in Jobs, ChildReports(j) \/ ProcessEnds(j) PROVE IInv'
  BY <1>9, ProcessGood, Zenon
<1>10. ASSUME NEW j \in Jobs, CgroupDrains(j) PROVE IInv'
  <2>1. w' = [w EXCEPT !.proc[j].others = FALSE]
    BY <1>10, Zenon DEF CgroupDrains
  <2>2. Keeps(w, w')
    BY <1>0, <2>1, OthersKeeps, Zenon
  <2> QED
    BY <1>0, <2>2, KeepsGood, Zenon DEF IInv
<1>11. ASSUME NEW p \in Pids, ReplayHeldExit(p) PROVE IInv'
  BY <1>11, ReplayHeldExitGood, Zenon
<1>12. CASE UNCHANGED w
  BY <1>0, <1>12, Zenon DEF IInv
<1>13. ASSUME NEW c \in Connections, NEW j \in Jobs, NEW kind, WaitFor(c, j, kind)
       PROVE  UNCHANGED w
  BY <1>13, Zenon DEF WaitFor
<1>14. FlushWaits \/ UNCHANGED vars => UNCHANGED w
  BY Zenon DEF FlushWaits, vars
<1> QED
  BY <1>1, <1>2, <1>3, <1>4, <1>5, <1>6, <1>7, <1>8, <1>9, <1>10, <1>11, <1>12, <1>13,
     <1>14, Zenon DEF Next

\* The inductive invariant.
THEOREM SubmittedInvariant == Spec => []IInv
<1>1. Init => IInv
  BY InitGood, Zenon
<1>2. IInv /\ [Next]_vars => IInv'
  BY NextGood, Zenon
<1> QED
  BY <1>1, <1>2, PTL DEF Spec

\* However submissions, stops, ends and purges interleave, no caller but SYSTEM
\* has more live jobs than MaxJobsPerSubmitter (the check of submit_job).
THEOREM QuotaIsAlwaysKept == Spec => []QuotaIsKept
<1>1. IInv => QuotaIsKept
  BY Zenon DEF IInv, Good, QuotaInv, QuotaIsKept
<1> QED
  BY <1>1, SubmittedInvariant, PTL

\* A job that has a record has a live entry, and a live entry has a record
\* unless an internal error retired it: the job store and the submitted store
\* never drift apart otherwise.
THEOREM StoresAgree == Spec => []EntryAndRecordAgree
<1>1. IInv => EntryAndRecordAgree
  BY Zenon DEF IInv, Good, AgreeInv, EntryAndRecordAgree, IsLive
<1> QED
  BY <1>1, SubmittedInvariant, PTL

\* As long as the kernel does not hand out a pid again, the exit of a running
\* job is never lost between the setup pipe and the reaper, whichever of the two
\* the loop reads first.
THEOREM ExitsAreNotLost ==
    ASSUME ~PidsAreReused
    PROVE  Spec => []RunningHasItsExit
<1>1. IInv => RunningHasItsExit
  <2> SUFFICES ASSUME IInv, NEW j \in DOMAIN w.jobs, w.jobs[j] = "Running"
               PROVE  \/ w.proc[j].life \in {"running", "zombie"}
                      \/ w.held[w.proc[j].pid] # "None"
    BY Zenon DEF RunningHasItsExit
  <2>1. ExitInv(w, {}) /\ j \in Jobs /\ Awaits(w, j)
    BY Zenon DEF IInv, Good, RecordInv, Awaits
  <2> QED
    BY <2>1, Zenon DEF ExitInv
<1> QED
  BY <1>1, SubmittedInvariant, PTL
=============================================================================
