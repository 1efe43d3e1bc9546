------------------------- MODULE SupervisionProofs --------------------------
(***************************************************************************)
(* What holds of Supervision for every set of definitions, every timeout   *)
(* and every number of activations and probes: the other handlers keep the *)
(* invariant of SupervisionLemmas, so every action does.                   *)
(***************************************************************************)
EXTENDS SupervisionLemmas, TLAPS

(***************************************************************************)
(* The end of an operation, a stop, an exit.                               *)
(***************************************************************************)
\* r is s without its operation.
Ended(r, s) ==
    /\ DOMAIN r = Fields /\ r.hooks = s.hooks /\ r.op = NoOp /\ r.state = s.state
    /\ Life(r, s) /\ Checks(r, s) /\ Dog(r, s) /\ Counts(r, s) /\ Job(r, s) /\ Blame(r, s)
    /\ Deadlines(r, s)

\* An operation can end at any time.
LEMMA EndedGood ==
    ASSUME NEW s, SInv(s), NEW r, Ended(r, s)
    PROVE  SInv(r) /\ Plain(s, r)
<1>1. /\ Typed(s) /\ Capped(s) /\ Silent(s) /\ Paced(s) /\ Owned(s) /\ Supervised(s)
      /\ (ChecksDoNotOutlive => Counted(s))
  BY Zenon DEF SInv, Base
<1>2. Typed(r)
  BY <1>1 DEF Ended, Typed, Life, Checks, Dog, Counts, Job, Deadlines, NoOp
<1>3. Capped(r)
  <2>1. r.op.type = "none" /\ r.op.age = 0
    BY DEF Ended, NoOp
  <2>2. s.op.age \in Nat /\ ("ready" \in r.armed => s.due["ready"] \in Int)
    BY <1>1, KindsAre, Zenon DEF Typed
  <2> QED
    BY <1>1, <2>1, <2>2, ConstantsAre DEF Ended, Capped, Deadlines
<1>4. Silent(r) /\ Paced(r)
  BY <1>1, Zenon DEF Ended, Silent, Paced, Dog, Job, Deadlines
<1>5. Owned(r) /\ Supervised(r)
  BY <1>1 DEF Ended, Owned, Supervised, Life, Checks, Dog, Deadlines
<1>6. ChecksDoNotOutlive => Counted(r)
  BY <1>1, Zenon DEF Ended, Counted, Life, Checks, Counts
<1> QED
  BY <1>2, <1>3, <1>4, <1>5, <1>6, Zenon DEF SInv, Base, Plain, Ended, Job, Blame

\* EndOp ends it.
LEMMA EndOpGood ==
    ASSUME NEW s, SInv(s), NEW r, r = EndOp(s)
    PROVE  SInv(r) /\ Plain(s, r)
<1>1. Ended(r, s)
  BY DEF SInv, Base, Typed, EndOp, Fields, Ended, Life, Checks, Dog, Counts, Job, Blame, Deadlines
<1> QED
  BY <1>1, EndedGood, Zenon

\* A service that is not active is taken down.
LEMMA RestartOrFailGood ==
    ASSUME NEW s, SInv(s), s.state # "Active", "backoff" \notin s.armed, "ready" \notin s.armed,
           NEW r, r = RestartOrFail(s)
    PROVE  SInv(r) /\ Plain(s, r)
<1>1. Typed(s) /\ Base(s)
  BY Zenon DEF SInv, Base
<1>2. TakenDown(r, s) /\ Blame(r, s)
  BY <1>1, RestartOrFailIs, Zenon
<1>3. Clocks(r, s, {"stop", "command", "watchdog", "probe", "job"})
  BY <1>2, KindsAre, Zenon DEF TakenDown, Clocks
<1>4. r.health = s.health /\ r.def = s.def /\ r.state \in {"Backoff", "Failed"}
  BY <1>2, Zenon DEF TakenDown, Checks, Life
<1>5. Down(r, s)
  BY <1>2, <1>3, <1>4, Zenon DEF TakenDown, Down
<1>6. ChecksDoNotOutlive /\ r.def.hooks > 0 => r.health.probe = 0
  BY <1>4, Zenon DEF SInv, Counted
<1>7. SInv(r)
  BY <1>1, <1>4, <1>5, <1>6, DownGood
<1> QED
  BY <1>2, <1>7, Zenon DEF TakenDown, Plain, Job, Blame

\* A service that is not active is inactive, or failed, from now on.
LEMMA StateDownGood ==
    ASSUME NEW s, SInv(s), s.state # "Active", "backoff" \notin s.armed, "ready" \notin s.armed,
           NEW st \in {"Inactive", "Failed"}, NEW r, r = [s EXCEPT !.state = st]
    PROVE  SInv(r) /\ Plain(s, r)
<1>1. Typed(s) /\ Base(s)
  BY Zenon DEF SInv, Base
<1>2. /\ DOMAIN r = Fields /\ r.state = st /\ r.op = s.op /\ r.hooks = s.hooks
      /\ Deadlines(r, s) /\ Life(r, s) /\ Checks(r, s) /\ Dog(r, s) /\ Counts(r, s) /\ Job(r, s)
      /\ Blame(r, s)
  BY <1>1 DEF Typed, Fields, Deadlines, Life, Checks, Dog, Counts, Job, Blame
<1>3. Typed(r)
  BY <1>1, <1>2, Zenon DEF Typed, Deadlines, Life, Checks, Dog, Counts, Job
<1>4. Clocks(r, s, {"stop", "command", "watchdog", "probe", "job"})
  BY <1>2, Zenon DEF Clocks, Deadlines
<1>5. /\ "backoff" \notin r.armed /\ "ready" \notin r.armed /\ r.health = s.health
      /\ r.def = s.def /\ r.state # "Reloading"
  BY <1>2, Zenon DEF Deadlines, Checks, Life
<1>6. Down(r, s)
  BY <1>2, <1>3, <1>4, <1>5 DEF Down
<1>7. ChecksDoNotOutlive /\ r.def.hooks > 0 => r.health.probe = 0
  BY <1>5, Zenon DEF SInv, Counted
<1>8. SInv(r)
  BY <1>1, <1>5, <1>6, <1>7, DownGood, Zenon
<1> QED
  BY <1>2, <1>8, Zenon DEF Plain, Job, Blame

\* r is s out of the active state, its records not dropped yet.
Leaving(r, s) ==
    /\ Typed(r) /\ Life(r, s) /\ Job(r, s) /\ Blame(r, s)
    /\ r.op = s.op \/ r.op.age = 0
    /\ Clocks(r, s, {"stop", "command", "watchdog", "probe", "job"})
    /\ "ready" \notin r.armed /\ ("backoff" \in r.armed => r.state = "Backoff")
    /\ r.state # "Starting" /\ r.state # "Active"
    /\ r.state = "Reloading" => s.state = "Active" /\ Counts(r, s)

\* A service that leaves the active state drops them.
LEMMA LeavingGood ==
    ASSUME NEW s, SInv(s), NEW a, Leaving(a, s), NEW r, r = CancelWatchdog(CancelHealth(a))
    PROVE  SInv(r) /\ Plain(s, r)
<1>1. Typed(a) /\ Base(s)
  BY Zenon DEF SInv, Leaving
<1>2. /\ Typed(r) /\ r.wd = NoWatchdog /\ r.health = NoHealth /\ r.probes = a.probes
      /\ Life(r, a) /\ Stage(r, a) /\ Counts(r, a) /\ Job(r, a) /\ Blame(r, a)
      /\ r.armed = a.armed \ {"interval", "probe", "watchdog"} /\ Clocks(r, a, Kinds)
  BY <1>1, UnsupervisedIs, Zenon
<1>3. Clocks(r, s, {"stop", "command", "watchdog", "probe", "job"})
  BY <1>2, KindsAre DEF Clocks, Leaving
<1>4. Life(r, s) /\ Job(r, s) /\ Blame(r, s)
  BY <1>2, Zenon DEF Leaving, Life, Job, Blame
<1>5. Down(r, s)
  BY <1>2, <1>3, <1>4, Zenon DEF Leaving, Down, Stage
<1>6. r.health.probe = 0
  BY <1>2 DEF NoHealth
<1>7. ASSUME ChecksDoNotOutlive, r.state = "Reloading"
      PROVE  s.bad <= s.fails /\ s.bad < Retries /\ Counts(r, s)
  BY <1>2, <1>7, Zenon DEF Leaving, Stage, Counts, SInv, Counted
<1>8. SInv(r)
  BY <1>1, <1>5, <1>6, <1>7, DownGood, Zenon
<1> QED
  BY <1>4, <1>8, Zenon DEF Plain, Job, Blame

\* A reload is forgotten.
LEMMA CancelReloadGood ==
    ASSUME NEW s, SInv(s), NEW r, r = CancelReload(s)
    PROVE  SInv(r) /\ Plain(s, r) /\ Frame(r, s) /\ r.armed = s.armed \ {"detect", "command"}
<1>1. PICK a : a = Disarm(s, {"detect", "command"})
  BY Zenon
<1>2. SInv(a) /\ Plain(s, a)
  BY <1>1, DisarmGood, Zenon
<1>3. Typed(s) /\ Typed(a)
  BY <1>2, Zenon DEF SInv, Base
<1>4. Frame(a, s) /\ a.armed = s.armed \ {"detect", "command"}
  BY <1>1, <1>3, DisarmIs, Zenon
<1>5. r = [a EXCEPT !.cmd = "none", !.confirmed = FALSE, !.phase = "none"]
  BY <1>1, Zenon DEF CancelReload
<1>6. DOMAIN r = Fields /\ r.hooks = a.hooks /\ Frame(r, a) /\ Deadlines(r, a)
  BY <1>3, <1>5
  DEF Typed, Fields, Frame, Life, Stage, Checks, Dog, Counts, Job, Blame, Deadlines
<1>7. r.hooks \in [on : BOOLEAN, left : Int]
  BY <1>3, <1>6, Zenon DEF Typed
<1>8. SInv(r) /\ Plain(a, r)
  BY <1>2, <1>6, <1>7, AlikeGood, Zenon
<1>9. Frame(r, s)
  BY <1>4, <1>6, Zenon DEF Frame, Life, Stage, Checks, Dog, Counts, Job, Blame
<1> QED
  BY <1>2, <1>4, <1>6, <1>8, <1>9, PlainThenPlain DEF Deadlines

\* The exit of the main process, in every state.
LEMMA MainExitGood ==
    ASSUME NEW s, SInv(s), NEW clean \in BOOLEAN, NEW r, r = MainExit(s, clean)
    PROVE  SInv(r) /\ Plain(s, r)
<1>1. PICK a : a = [s EXCEPT !.main = FALSE, !.killed = "no"]
  BY Zenon
<1>2. DOMAIN a = Fields /\ a.hooks = s.hooks /\ Frame(a, s) /\ Deadlines(a, s)
      /\ a.restarts = s.restarts
  BY <1>1
  DEF SInv, Base, Typed, Fields, Frame, Life, Stage, Checks, Dog, Counts, Job, Blame, Deadlines
<1>3. a.hooks \in [on : BOOLEAN, left : Int]
  BY <1>2, Zenon DEF SInv, Base, Typed
<1>4. SInv(a) /\ Plain(s, a)
  BY <1>2, <1>3, AlikeGood, Zenon
<1>5. a.state = s.state /\ Typed(a) /\ Capped(a)
  BY <1>2, <1>4, Zenon DEF Frame, Stage, SInv, Base
<1>6. SInv(r) /\ Plain(a, r)
  <2>1. CASE s.state = "Starting"
    <3>1. r = StartFailed(a)
      BY <1>1, <2>1 DEF MainExit
    <3> QED
      BY <1>4, <1>5, <2>1, <3>1, StartFailedGood, Zenon
  <2>2. CASE s.state = "Active"
    <3>1. "ready" \notin a.armed /\ "backoff" \notin a.armed
      BY <1>5, <2>2, Zenon DEF Capped
    <3>2. PICK b : b = IF clean THEN [a EXCEPT !.state = "Inactive"] ELSE RestartOrFail(a)
      BY Zenon
    <3>3. Leaving(b, a)
      <4>1. CASE clean
        <5>1. b = [a EXCEPT !.state = "Inactive"]
          BY <3>2, <4>1, Zenon
        <5>2. /\ DOMAIN b = Fields /\ b.state = "Inactive" /\ b.op = a.op /\ b.hooks = a.hooks
              /\ Deadlines(b, a) /\ Life(b, a) /\ Checks(b, a) /\ Dog(b, a) /\ Counts(b, a)
              /\ Job(b, a) /\ Blame(b, a)
          BY <1>5, <5>1, Zenon DEF Typed, Fields, Deadlines, Life, Checks, Dog, Counts, Job, Blame
        <5>3. Typed(b)
          BY <1>5, <5>2, Zenon DEF Typed, Deadlines, Life, Checks, Dog, Counts, Job
        <5> QED
          BY <3>1, <5>2, <5>3, Zenon DEF Leaving, Clocks, Deadlines
      <4>2. CASE ~clean
        <5>1. b = RestartOrFail(a)
          BY <3>2, <4>2, Zenon
        <5>2. TakenDown(b, a) /\ Blame(b, a)
          BY <1>5, <3>1, <5>1, RestartOrFailIs, Zenon
        <5>3. Clocks(b, a, {"stop", "command", "watchdog", "probe", "job"})
          BY <5>2, KindsAre, Zenon DEF TakenDown, Clocks
        <5> QED
          BY <3>1, <5>2, <5>3, Zenon DEF TakenDown, Leaving
      <4> QED
        BY <4>1, <4>2, Zenon
    <3>4. r = CancelWatchdog(CancelHealth(b))
      <4>1. b.state # "Active"
        BY <3>3, Zenon DEF Leaving
      <4>2. r = Supervise(b, "Active")
        BY <1>1, <2>2, <3>2, Zenon DEF MainExit
      <4> QED
        BY <4>1, <4>2, Zenon DEF Supervise
    <3> QED
      BY <1>4, <3>3, <3>4, LeavingGood, Zenon
  <2>3. CASE s.state = "Reloading"
    <3>1. "ready" \notin a.armed /\ "backoff" \notin a.armed /\ a.state # "Active"
      BY <1>5, <2>3, Zenon DEF Capped
    <3>2. PICK b : b = RestartOrFail(a)
      BY Zenon
    <3>3. SInv(b) /\ Plain(a, b)
      BY <1>4, <3>1, <3>2, RestartOrFailGood, Zenon
    <3>4. CASE BudgetLeft(s)
      <4>1. PICK c : c = CancelReload(b)
        BY Zenon
      <4>2. SInv(c) /\ Plain(b, c)
        BY <3>3, <4>1, CancelReloadGood, Zenon
      <4>3. r = EndOp(c)
        BY <1>1, <2>3, <3>2, <3>4, <4>1 DEF MainExit
      <4>4. SInv(r) /\ Plain(c, r)
        BY <4>2, <4>3, EndOpGood, Zenon
      <4> QED
        BY <3>3, <4>2, <4>4, Zenon DEF Plain
    <3>5. CASE ~BudgetLeft(s)
      <4>1. r = b
        BY <1>1, <2>3, <3>2, <3>5, Zenon DEF MainExit
      <4> QED
        BY <3>3, <4>1, Zenon
    <3> QED
      BY <3>4, <3>5, Zenon
  <2>4. CASE s.state = "Stopping"
    <3>1. PICK b : b = Disarm(a, {"stop"})
      BY Zenon
    <3>2. SInv(b) /\ Plain(a, b)
      BY <1>4, <3>1, DisarmGood, Zenon
    <3>3. Frame(b, a) /\ b.armed = a.armed \ {"stop"}
      BY <1>5, <3>1, DisarmIs, Zenon
    <3>4. "ready" \notin b.armed /\ "backoff" \notin b.armed /\ b.state # "Active"
      BY <1>5, <2>4, <3>3, Zenon DEF Capped, Frame, Stage
    <3>5. PICK st \in {"Inactive", "Failed"} : st = "Inactive"
      BY Zenon
    <3>6. PICK c : c = [b EXCEPT !.state = st]
      BY Zenon
    <3>7. SInv(c) /\ Plain(b, c)
      BY <3>2, <3>4, <3>6, StateDownGood, Zenon
    <3>8. r = EndOp(c)
      BY <1>1, <2>4, <3>1, <3>5, <3>6, Zenon DEF MainExit
    <3>9. SInv(r) /\ Plain(c, r)
      BY <3>7, <3>8, EndOpGood, Zenon
    <3> QED
      BY <3>2, <3>7, <3>9, Zenon DEF Plain
  <2>5. CASE s.state \notin {"Starting", "Active", "Reloading", "Stopping"}
    <3>1. r = a
      BY <1>1, <2>5, Zenon DEF MainExit
    <3> QED
      BY <1>4, <3>1, Zenon DEF Plain
  <2> QED
    BY <2>1, <2>2, <2>3, <2>4, <2>5, Zenon
<1> QED
  BY <1>4, <1>6, PlainThenPlain, Zenon

\* A stop of a service that runs.
LEMMA StopRunningGood ==
    ASSUME NEW s, SInv(s), s.state \in {"Starting", "Active", "Reloading"},
           NEW r, r = StopRunning(s)
    PROVE  SInv(r) /\ Plain(s, r)
<1>1. PICK a : a = Disarm(s, {"ready", "hook", "orphan"})
  BY Zenon
<1>2. SInv(a) /\ Plain(s, a) /\ Typed(s)
  BY <1>1, DisarmGood, Zenon DEF SInv, Base
<1>3. Frame(a, s) /\ a.armed = s.armed \ {"ready", "hook", "orphan"}
  BY <1>1, <1>2, DisarmIs, Zenon
<1>4. PICK b : b = CancelReload(a)
  BY Zenon
<1>5. /\ SInv(b) /\ Plain(a, b) /\ Frame(b, a)
      /\ b.armed = a.armed \ {"detect", "command"}
  BY <1>2, <1>4, CancelReloadGood, Zenon
<1>6. Typed(b) /\ Base(b) /\ b.state = s.state
  BY <1>3, <1>5, Zenon DEF SInv, Base, Frame, Stage
<1>7. "ready" \notin b.armed /\ "backoff" \notin b.armed
  BY <1>3, <1>5, Zenon DEF SInv, Base, Capped
<1>8. PICK n : n = b.strays + (IF s.hooks.on THEN 1 ELSE 0) + (IF s.orphan THEN 1 ELSE 0)
  BY Zenon
<1>9. PICK c : c = [b EXCEPT !.state = "Stopping", !.op = [type |-> "Stop", age |-> 0],
                             !.strays = n, !.hooks = NoHooks, !.orphan = FALSE]
  BY Zenon
<1>10. /\ DOMAIN c = Fields /\ c.state = "Stopping" /\ c.op = [type |-> "Stop", age |-> 0]
       /\ c.hooks = NoHooks /\ Deadlines(c, b) /\ Life(c, b) /\ Checks(c, b) /\ Dog(c, b)
       /\ Counts(c, b) /\ Job(c, b) /\ Blame(c, b)
  BY <1>6, <1>9, Zenon DEF Typed, Fields, Deadlines, Life, Checks, Dog, Counts, Job, Blame
<1>11. Typed(c) /\ c.op.age = 0
  BY <1>6, <1>10 DEF Typed, Deadlines, Life, Checks, Dog, Counts, Job, NoHooks
<1>12. Leaving(c, b)
  BY <1>7, <1>10, <1>11, Zenon DEF Leaving, Clocks, Deadlines
<1>13. PICK d : d = Supervise(c, s.state)
  BY Zenon
<1>14. SInv(d) /\ Plain(b, d) /\ d.op.age = 0
  <2>1. CASE s.state = "Active"
    <3>1. d = CancelWatchdog(CancelHealth(c))
      BY <1>10, <1>13, <2>1, Zenon DEF Supervise
    <3>2. SInv(d) /\ Plain(b, d)
      BY <1>5, <1>12, <3>1, LeavingGood, Zenon
    <3>3. Stage(d, c)
      BY <1>11, <3>1, UnsupervisedIs, Zenon
    <3> QED
      BY <1>11, <3>2, <3>3 DEF Stage
  <2>2. CASE s.state # "Active"
    <3>1. d = c
      BY <1>10, <1>13, <2>2, Zenon DEF Supervise
    <3>2. Down(c, b)
      BY <1>10, <1>12, Zenon DEF Leaving, Down, Checks
    <3>3. ChecksDoNotOutlive /\ c.def.hooks > 0 => c.health.probe = 0
      BY <1>5, <1>6, <1>10, <2>2 DEF SInv, Counted, Life, Checks
    <3>4. c.state # "Reloading"
      BY <1>10, Zenon
    <3>5. SInv(c)
      BY <1>6, <3>2, <3>3, <3>4, DownGood
    <3> QED
      BY <1>10, <1>11, <3>1, <3>5 DEF Plain, Job, Blame
  <2> QED
    BY <2>1, <2>2, Zenon
<1>15. PICK k \in Kinds : k = "stop"
  BY KindsAre, Zenon
<1>16. r = Arm(d, k, StopTimeout) /\ StopTimeout \in Int
  BY <1>1, <1>4, <1>8, <1>9, <1>13, <1>15, ConstantsAre DEF StopRunning
<1>17. StopTimeout <= 4 * StopTimeout /\ d.op.age + StopTimeout <= 4 * StopTimeout
  BY <1>14, ConstantsAre
<1>18. SInv(r) /\ Plain(d, r)
  BY <1>14, <1>15, <1>16, <1>17, ArmGood, Zenon
<1> QED
  BY <1>2, <1>5, <1>14, <1>18 DEF Plain

\* A stop of a service that waits for its restart.
LEMMA StopBackoffGood ==
    ASSUME NEW s, SInv(s), s.state = "Backoff", NEW r, r = StopBackoff(s)
    PROVE  SInv(r) /\ Plain(s, r)
<1>1. PICK a : a = Disarm(s, {"backoff", "hook"})
  BY Zenon
<1>2. SInv(a) /\ Plain(s, a) /\ Typed(s)
  BY <1>1, DisarmGood, Zenon DEF SInv, Base
<1>3. Frame(a, s) /\ a.armed = s.armed \ {"backoff", "hook"}
  BY <1>1, <1>2, DisarmIs, Zenon
<1>4. Typed(a) /\ Base(a) /\ a.state = "Backoff"
  BY <1>2, <1>3, Zenon DEF SInv, Base, Frame, Stage
<1>5. "ready" \notin a.armed /\ "backoff" \notin a.armed
  BY <1>3, <1>4, Zenon DEF Base, Capped
<1>6. PICK b : b = [a EXCEPT !.state = "Inactive", !.hooks = NoHooks]
  BY Zenon
<1>7. /\ DOMAIN b = Fields /\ b.state = "Inactive" /\ b.op = a.op /\ b.hooks = NoHooks
      /\ Deadlines(b, a) /\ Life(b, a) /\ Checks(b, a) /\ Dog(b, a) /\ Counts(b, a) /\ Job(b, a)
      /\ Blame(b, a)
  BY <1>4, <1>6, Zenon DEF Typed, Fields, Deadlines, Life, Checks, Dog, Counts, Job, Blame
<1>8. Typed(b)
  BY <1>4, <1>7 DEF Typed, Deadlines, Life, Checks, Dog, Counts, Job, NoHooks
<1>9. Down(b, a)
  BY <1>5, <1>7, <1>8, Zenon DEF Down, Clocks, Deadlines, Checks
<1>10. ChecksDoNotOutlive /\ b.def.hooks > 0 => b.health.probe = 0
  BY <1>2, <1>4, <1>7 DEF SInv, Counted, Life, Checks
<1>11. SInv(b) /\ Plain(a, b)
  <2>1. b.state # "Reloading"
    BY <1>7, Zenon
  <2>2. SInv(b)
    BY <1>4, <1>9, <1>10, <2>1, DownGood, Zenon
  <2> QED
    BY <1>7, <2>2, Zenon DEF Plain, Job, Blame
<1>12. SInv(r) /\ Plain(b, r)
  <2>1. CASE s.hooks.on
    <3>1. PICK k \in Kinds : k = "orphan"
      BY KindsAre, Zenon
    <3>2. PICK t : t = s.due["hook"]
      BY Zenon
    <3>3. t \in Int
      BY <1>2, <3>2, KindsAre, Zenon DEF Typed
    <3>4. PICK c : c = Arm(b, k, t)
      BY Zenon
    <3>5. SInv(c) /\ Plain(b, c)
      BY <1>11, <3>1, <3>3, <3>4, ArmGood, Zenon
    <3>6. r = [c EXCEPT !.orphan = TRUE, !.op = NoOp]
      BY <1>1, <1>6, <2>1, <3>1, <3>2, <3>4 DEF StopBackoff
    <3>7. Ended(r, c)
      BY <3>5, <3>6
      DEF SInv, Base, Typed, Fields, Ended, Life, Checks, Dog, Counts, Job, Blame, Deadlines
    <3>8. SInv(r) /\ Plain(c, r)
      BY <3>5, <3>7, EndedGood, Zenon
    <3> QED
      BY <3>5, <3>8, PlainThenPlain, Zenon
  <2>2. CASE ~s.hooks.on
    <3>1. r = b
      BY <1>1, <1>6, <2>2, Zenon DEF StopBackoff
    <3> QED
      BY <1>11, <3>1, Zenon DEF Plain
  <2> QED
    BY <2>1, <2>2, Zenon
<1> QED
  BY <1>2, <1>11, <1>12, Zenon DEF Plain

(***************************************************************************)
(* The reload.                                                             *)
(***************************************************************************)
\* A service that begins to reload.
LEMMA ReloadingGood ==
    ASSUME NEW s, SInv(s), s.state = "Active", NEW r, r = Reloading(s)
    PROVE  SInv(r) /\ Plain(s, r) /\ r.op.age = 0
<1>1. Typed(s)
  BY Zenon DEF SInv, Base
<1>2. PICK a : a = [s EXCEPT !.state = "Reloading", !.op = [type |-> "Reload", age |-> 0]]
  BY Zenon
<1>3. /\ DOMAIN a = Fields /\ a.state = "Reloading" /\ a.op = [type |-> "Reload", age |-> 0]
      /\ a.hooks = s.hooks /\ Deadlines(a, s) /\ Life(a, s) /\ Checks(a, s) /\ Dog(a, s)
      /\ Counts(a, s) /\ Job(a, s) /\ Blame(a, s)
  BY <1>1, <1>2, Zenon DEF Typed, Fields, Deadlines, Life, Checks, Dog, Counts, Job, Blame
<1>4. Typed(a) /\ a.op.age = 0
  BY <1>1, <1>3 DEF Typed, Deadlines, Life, Checks, Dog, Counts, Job
<1>5. "ready" \notin s.armed /\ "backoff" \notin s.armed
  BY Zenon DEF SInv, Base, Capped
<1>6. Leaving(a, s)
  BY <1>3, <1>4, <1>5, Zenon DEF Leaving, Clocks, Deadlines
<1>7. r = CancelWatchdog(CancelHealth(a))
  BY <1>2, <1>3, Zenon DEF Reloading, Supervise
<1>8. SInv(r) /\ Plain(s, r)
  BY <1>6, <1>7, LeavingGood, Zenon
<1>9. Stage(r, a)
  BY <1>4, <1>7, UnsupervisedIs, Zenon
<1> QED
  BY <1>4, <1>8, <1>9, Zenon DEF Stage

\* A reload by a signal, or by a command.
LEMMA ReloadBegunGood ==
    ASSUME NEW s, SInv(s), s.state = "Active",
           NEW r, r = BeginSignalReload(s) \/ r = BeginCommandReload(s)
    PROVE  SInv(r) /\ Plain(s, r)
<1>1. PICK a : a = Reloading(s)
  BY Zenon
<1>2. SInv(a) /\ Plain(s, a) /\ a.op.age = 0
  BY <1>1, ReloadingGood, Zenon
<1>3. CASE r = BeginSignalReload(s)
  <2>1. PICK b : b = [a EXCEPT !.phase = "initial"]
    BY Zenon
  <2>2. PICK k \in Kinds : k = "detect"
    BY KindsAre, Zenon
  <2>3. r = Arm(b, k, Window) /\ Window \in Int
    BY <1>1, <1>3, <2>1, <2>2, ConstantsAre DEF BeginSignalReload
  <2>4. DOMAIN b = Fields /\ b.hooks = a.hooks /\ Frame(b, a) /\ Deadlines(b, a)
    BY <1>2, <2>1
    DEF SInv, Base, Typed, Fields, Frame, Life, Stage, Checks, Dog, Counts, Job, Blame, Deadlines
  <2>5. b.hooks \in [on : BOOLEAN, left : Int]
    BY <1>2, <2>4 DEF SInv, Base, Typed
  <2>6. SInv(b) /\ Plain(a, b)
    BY <1>2, <2>4, <2>5, AlikeGood, Zenon
  <2>7. SInv(r) /\ Plain(b, r)
    BY <2>2, <2>3, <2>6, ArmGood
  <2> QED
    BY <1>2, <2>6, <2>7, Zenon DEF Plain
<1>4. CASE r = BeginCommandReload(s)
  <2>1. PICK b : b = [a EXCEPT !.cmd = "created"]
    BY Zenon
  <2>2. PICK k \in Kinds : k = "command"
    BY KindsAre, Zenon
  <2>3. r = Arm(b, k, StartTimeout) /\ StartTimeout \in Int
    BY <1>1, <1>4, <2>1, <2>2, ConstantsAre DEF BeginCommandReload
  <2>4. DOMAIN b = Fields /\ b.hooks = a.hooks /\ Frame(b, a) /\ Deadlines(b, a)
    BY <1>2, <2>1
    DEF SInv, Base, Typed, Fields, Frame, Life, Stage, Checks, Dog, Counts, Job, Blame, Deadlines
  <2>5. b.hooks \in [on : BOOLEAN, left : Int]
    BY <1>2, <2>4, Zenon DEF SInv, Base, Typed
  <2>6. SInv(b) /\ Plain(a, b)
    BY <1>2, <2>4, <2>5, AlikeGood, Zenon
  <2>7. StartTimeout <= 4 * StartTimeout /\ b.op.age + StartTimeout <= 4 * StartTimeout
    BY <1>2, <2>4, ConstantsAre DEF Frame, Stage
  <2>8. SInv(r) /\ Plain(b, r)
    BY <2>2, <2>3, <2>6, <2>7, ArmGood, Zenon
  <2> QED
    BY <1>2, <2>6, <2>8, Zenon DEF Plain
<1> QED
  BY <1>3, <1>4, Zenon

\* A reload that is over, however it ended, leaves the service supervised.
LEMMA ReloadedActiveGood ==
    ASSUME NEW s, SInv(s), s.state = "Reloading", NEW r, r = ReloadedActive(s)
    PROVE  SInv(r) /\ Plain(s, r)
<1>1. PICK a : a = Disarm(s, {"detect", "command"})
  BY Zenon
<1>2. SInv(a) /\ Plain(s, a) /\ Typed(s)
  BY <1>1, DisarmGood, Zenon DEF SInv, Base
<1>3. Frame(a, s) /\ a.armed = s.armed \ {"detect", "command"}
  BY <1>1, <1>2, DisarmIs, Zenon
<1>4. /\ Typed(a) /\ Capped(a) /\ Silent(a) /\ Paced(a) /\ Owned(a) /\ a.state = "Reloading"
      /\ (ChecksDoNotOutlive => Counted(a))
  BY <1>2, <1>3, Zenon DEF SInv, Base, Frame, Stage
<1>5. PICK b : b = [a EXCEPT !.op = NoOp]
  BY Zenon
<1>6. PICK c : c = [b EXCEPT !.state = "Active", !.cmd = "none", !.confirmed = FALSE,
                             !.phase = "none"]
  BY Zenon
<1>7. PICK from : from = "Reloading"
  BY Zenon
<1>8. r = Supervise(c, from)
  BY <1>1, <1>5, <1>6, <1>7, Zenon DEF ReloadedActive, EndOp
<1>9. /\ DOMAIN c = Fields /\ c.state = "Active" /\ c.op = NoOp /\ c.hooks = a.hooks
      /\ Deadlines(c, a) /\ Life(c, a) /\ Checks(c, a) /\ Dog(c, a) /\ Counts(c, a) /\ Job(c, a)
      /\ Blame(c, a)
  BY <1>4, <1>5, <1>6, Zenon DEF Typed, Fields, Deadlines, Life, Checks, Dog, Counts, Job, Blame
<1>10. Typed(c)
  BY <1>4, <1>9 DEF Typed, Deadlines, Life, Checks, Dog, Counts, Job, NoOp
<1>11. Capped(c)
  <2>1. "ready" \notin c.armed /\ "backoff" \notin c.armed
    BY <1>4, <1>9, Zenon DEF Capped, Deadlines
  <2>2. c.op.type = "none"
    BY <1>9 DEF NoOp
  <2> QED
    BY <1>4, <1>9, <2>1, <2>2, Zenon DEF Capped, Deadlines
<1>12. Silent(c) /\ Paced(c)
  BY <1>4, <1>9, Zenon DEF Silent, Paced, Dog, Job, Deadlines
<1>13. Owned(c)
  BY <1>4, <1>9, Zenon DEF Owned, Life, Checks, Dog, Deadlines
<1>14. Base(c) /\ Plain(a, c)
  BY <1>9, <1>10, <1>11, <1>12, <1>13 DEF Base, Plain, Job, Blame
<1>15. ASSUME ChecksDoNotOutlive
       PROVE  c.bad <= c.fails /\ c.bad < Retries /\ c.health.probe = 0
  BY <1>4, <1>9, <1>15, Zenon DEF Counted, Counts, Checks
<1>16. SInv(r) /\ Plain(c, r)
  BY <1>8, <1>9, <1>14, <1>15, SuperviseGood, Zenon
<1> QED
  BY <1>2, <1>14, <1>16, Zenon DEF Plain

(***************************************************************************)
(* Notify datagrams and the timer.                                         *)
(***************************************************************************)
\* The fields that nothing above looks at.
Aside == {"main", "killed", "orphan", "strays", "cmd", "confirmed", "phase"}

\* A change of one of them changes nothing else.
LEMMA AsideGood ==
    ASSUME NEW s, SInv(s), NEW f \in Aside, NEW v, NEW r, r = [s EXCEPT ![f] = v]
    PROVE  SInv(r) /\ Plain(s, r) /\ Frame(r, s) /\ Deadlines(r, s)
<1>1. DOMAIN r = Fields /\ r.hooks = s.hooks /\ Frame(r, s) /\ Deadlines(r, s)
  BY DEF SInv, Base, Typed, Fields, Aside, Frame, Life, Stage, Checks, Dog, Counts, Job, Blame,
         Deadlines
<1>2. r.hooks \in [on : BOOLEAN, left : Int]
  BY <1>1, Zenon DEF SInv, Base, Typed
<1> QED
  BY <1>1, <1>2, AlikeGood, Zenon

\* READY=1.
LEMMA ApplyReadyGood ==
    ASSUME NEW s, SInv(s), NEW r, r = ApplyReady(s)
    PROVE  SInv(r) /\ Plain(s, r)
<1>1. CASE s.state = "Starting"
  <2>1. r = CompleteStartReadiness(s)
    BY <1>1, Zenon DEF ApplyReady
  <2> QED
    BY <1>1, <2>1, CompleteStartReadinessGood, Zenon
<1>2. CASE s.state = "Reloading" /\ Armed(s, "command")
  <2>1. PICK f \in Aside : f = "confirmed"
    BY Zenon DEF Aside
  <2>2. PICK v : v = TRUE
    BY Zenon
  <2>3. r = [s EXCEPT ![f] = v]
    BY <1>2, <2>1, <2>2, Zenon DEF ApplyReady
  <2> QED
    BY <2>3, AsideGood, Zenon
<1>3. CASE s.state = "Reloading" /\ ~Armed(s, "command")
  <2>1. r = ReloadedActive(s)
    BY <1>3, Zenon DEF ApplyReady
  <2> QED
    BY <1>3, <2>1, ReloadedActiveGood, Zenon
<1>4. CASE s.state \notin {"Starting", "Reloading"}
  <2>1. r = s
    BY <1>4, Zenon DEF ApplyReady
  <2> QED
    BY <2>1, Zenon DEF Plain
<1> QED
  BY <1>1, <1>2, <1>3, <1>4, Zenon

\* RELOADING=1.
LEMMA ApplyReloadingGood ==
    ASSUME NEW s, SInv(s), NEW r, r = ApplyReloading(s)
    PROVE  SInv(r) /\ Plain(s, r)
<1>1. CASE s.state # "Reloading" \/ Armed(s, "command")
  <2>1. r = s
    BY <1>1, Zenon DEF ApplyReloading
  <2> QED
    BY <2>1, Zenon DEF Plain
<1>2. CASE ~(s.state # "Reloading" \/ Armed(s, "command"))
  <2>1. PICK f \in Aside : f = "phase"
    BY Zenon DEF Aside
  <2>2. PICK v : v = "extended"
    BY Zenon
  <2>3. PICK a : a = [s EXCEPT ![f] = v]
    BY Zenon
  <2>4. SInv(a) /\ Plain(s, a)
    BY <2>3, AsideGood, Zenon
  <2>5. PICK k \in Kinds : k = "detect"
    BY KindsAre, Zenon
  <2>6. r = Arm(a, k, StartTimeout)
    BY <1>2, <2>1, <2>2, <2>3, <2>5, Zenon DEF ApplyReloading
  <2>6a. StartTimeout \in Int
    BY ConstantsAre
  <2>7. SInv(r) /\ Plain(a, r)
    BY <2>4, <2>5, <2>6, <2>6a, ArmGood
  <2> QED
    BY <2>4, <2>7, PlainThenPlain, Zenon
<1> QED
  BY <1>1, <1>2

\* WATCHDOG=1, and WATCHDOG_USEC of a value the definition may ask for.
LEMMA ApplyWatchdogGood ==
    ASSUME NEW s, SInv(s), NEW n, NEW r,
           \/ r = ApplyKeepalive(s)
           \/ n \in s.def.runtime /\ r = ApplyWatchdogInterval(s, n)
    PROVE  SInv(r) /\ Plain(s, r)
<1>1. CASE r = s
  BY <1>1, Zenon DEF Plain
<1>2. CASE r # s
  <2>1. s.state = "Active"
    BY <1>2, Zenon DEF ApplyKeepalive, ApplyWatchdogInterval
  <2>2. /\ Base(s) /\ Typed(s) /\ Silent(s) /\ Owned(s) /\ (ChecksDoNotOutlive => Counted(s))
    BY Zenon DEF SInv, Base
  <2>3. ~s.hooks.on => Probing(s)
    BY <2>1, Zenon DEF SInv, Supervised, Probing
  <2>4. PICK m : r = ArmWatchdog(s, m) /\ (m \in s.def.runtime \/ (s.wd.on /\ m = s.wd.interval))
    BY <1>2, Zenon DEF ApplyKeepalive, ApplyWatchdogInterval
  <2>5. m \in Nat
    BY <2>2, <2>4, ConstantsAre, Zenon DEF Typed
  <2>6. m # 0 => s.def.watchdog > 0 \/ s.def.runtime # {}
    BY <2>2, <2>4, Zenon DEF Owned
  <2>7. m = 0 => s.def.watchdog = 0 \/ 0 \in s.def.runtime
    BY <2>2, <2>4 DEF Silent
  <2> QED
    BY <2>1, <2>2, <2>3, <2>4, <2>5, <2>6, <2>7, ArmWatchdogGood, Zenon
<1> QED
  BY <1>1, <1>2, Zenon

\* EXTEND_TIMEOUT_USEC moves a deadline no further than the cap.
LEMMA ExtendTimeoutGood ==
    ASSUME NEW s, SInv(s), NEW n \in Extensions, NEW r, r = ExtendTimeout(s, n)
    PROVE  SInv(r) /\ Plain(s, r)
<1>1. CASE r = s
  BY <1>1, Zenon DEF Plain
<1>2. CASE r # s
  <2>1. n \in Nat
    BY SupervisionAssumption, Zenon
  <2>2. s.op.age \in Nat /\ s.armed \subseteq Kinds
    BY Zenon DEF SInv, Base, Typed
  <2>3. PICK timeout, k :
            /\ timeout = IF s.state = "Stopping" THEN StopTimeout ELSE StartTimeout
            /\ k = CASE s.state = "Starting" -> "ready"
                     [] s.state = "Stopping" -> "stop"
                     [] s.state = "Reloading" -> IF Armed(s, "command") THEN "command" ELSE "detect"
                     [] OTHER -> "none"
    BY Zenon
  <2>4. PICK t : t = ClampedDeadline(s, n, timeout)
    BY Zenon
  <2>5. r = Arm(s, k, t) /\ k \in s.armed
    BY <1>2, <2>3, <2>4, Zenon DEF ExtendTimeout, Armed
  <2>6. timeout \in Nat
    BY <2>3, ConstantsAre, Zenon
  <2>7. t \in Int /\ t <= 4 * timeout /\ s.op.age + t <= 4 * timeout
    BY <2>1, <2>2, <2>4, <2>6 DEF ClampedDeadline, Smaller
  <2>8. k \in Kinds /\ k \notin {"probe", "backoff", "watchdog", "job"}
    BY <2>2, <2>3, <2>5, Zenon
  <2>9. /\ k = "ready" => s.state = "Starting" /\ timeout = StartTimeout
        /\ k = "stop" => timeout = StopTimeout
        /\ k = "command" => timeout = StartTimeout
    BY <2>3, Zenon
  <2>10. /\ k = "ready" => s.state = "Starting" /\ s.op.age + t <= 4 * StartTimeout
         /\ k = "stop" => t <= 4 * StopTimeout /\ s.op.age + t <= 4 * StopTimeout
         /\ k = "command" => t <= 4 * StartTimeout /\ s.op.age + t <= 4 * StartTimeout
    BY <2>7, <2>9, Zenon
  <2> QED
    BY <2>5, <2>7, <2>8, <2>10, ArmGood
<1> QED
  BY <1>1, <1>2, Zenon

\* The backoff is over.
LEMMA RestartBackoffDueGood ==
    ASSUME NEW s, SInv(s), "backoff" \in s.armed, NEW r, r = RestartBackoffDue(s)
    PROVE  SInv(r) /\ Plain(s, r)
<1>1. PICK a : a = Disarm(s, {"backoff"})
  BY Zenon
<1>2. SInv(a) /\ Plain(s, a) /\ Typed(s) /\ s.state = "Backoff"
  BY <1>1, DisarmGood DEF SInv, Base, Capped
<1>3. Frame(a, s) /\ a.armed = s.armed \ {"backoff"}
  BY <1>1, <1>2, DisarmIs, Zenon
<1>4. a.state = "Backoff" /\ "backoff" \notin a.armed /\ "ready" \notin a.armed
  BY <1>2, <1>3 DEF Frame, Stage, SInv, Base, Capped
<1>5. SInv(r) /\ Plain(a, r)
  <2>1. CASE s.op.type = "none"
    <3>1. r = LaunchMain(a)
      BY <1>1, <2>1, Zenon DEF RestartBackoffDue
    <3> QED
      BY <1>2, <1>4, <3>1, LaunchMainGood, Zenon
  <2>2. CASE s.op.type # "none"
    <3>1. PICK st \in {"Inactive", "Failed"} : st = "Failed"
      BY Zenon
    <3>2. r = [a EXCEPT !.state = st]
      BY <1>1, <2>2, <3>1, Zenon DEF RestartBackoffDue
    <3>3. a.state # "Active"
      BY <1>4, Zenon
    <3> QED
      BY <1>2, <1>4, <3>2, <3>3, StateDownGood, Zenon
  <2> QED
    BY <2>1, <2>2, Zenon
<1> QED
  BY <1>2, <1>5, PlainThenPlain, Zenon

\* The deadlines of the reload, and the end of its command.
LEMMA ReloadDueGood ==
    ASSUME NEW s, SInv(s), NEW ok \in BOOLEAN, NEW r,
           r = ReloadDetectionDue(s) \/ r = ReloadCommandDue(s) \/ r = ReloadCommandTerminal(s, ok)
    PROVE  SInv(r) /\ Plain(s, r)
<1>1. PICK f \in Aside : f = "cmd"
  BY Zenon DEF Aside
<1>2. PICK v : v = "none"
  BY Zenon
<1>3. PICK a : a = [s EXCEPT ![f] = v]
  BY Zenon
<1>4. SInv(a) /\ Plain(s, a)
  BY <1>3, AsideGood, Zenon
<1>5. a = [s EXCEPT !.cmd = "none"]
  BY <1>1, <1>2, <1>3, Zenon
<1>6. \/ s.state = "Reloading" /\ r = ReloadedActive(s)
      \/ r = Contain(s)
      \/ r = Contain(a)
  BY <1>5, Zenon DEF ReloadDetectionDue, ReloadCommandDue, ReloadCommandTerminal
<1>7. CASE s.state = "Reloading" /\ r = ReloadedActive(s)
  BY <1>7, ReloadedActiveGood, Zenon
<1>8. CASE r = Contain(s)
  BY <1>8, ContainGood, Zenon
<1>9. CASE r = Contain(a)
  <2>1. SInv(r) /\ Plain(a, r)
    BY <1>4, <1>9, ContainGood, Zenon
  <2> QED
    BY <1>4, <2>1, PlainThenPlain, Zenon
<1> QED
  BY <1>6, <1>7, <1>8, <1>9, Zenon

\* The stop's time is up.
LEMMA StopTimeoutDueGood ==
    ASSUME NEW s, SInv(s), NEW r, r = StopTimeoutDue(s)
    PROVE  SInv(r) /\ Plain(s, r)
<1>1. PICK a : a = Disarm(s, {"stop"})
  BY Zenon
<1>2. SInv(a) /\ Plain(s, a)
  BY <1>1, DisarmGood, Zenon
<1>3. PICK v : v = IF s.main THEN s.state ELSE a.killed
  BY Zenon
<1>4. PICK f \in Aside : f = "killed"
  BY Zenon DEF Aside
<1>5. r = [a EXCEPT ![f] = v]
  BY <1>1, <1>3, <1>4, Zenon DEF StopTimeoutDue
<1>6. SInv(r) /\ Plain(a, r)
  BY <1>2, <1>5, AsideGood, Zenon
<1> QED
  BY <1>2, <1>6, PlainThenPlain, Zenon

\* The sequence whose operation was aborted, and a job without a record.
LEMMA StrayGood ==
    ASSUME NEW s, SInv(s), NEW n, NEW r,
           r = OrphanTerminal(s) \/ r = Contain([s EXCEPT !.strays = n])
    PROVE  SInv(r) /\ Plain(s, r)
<1>1. PICK f, v, a : f \in Aside /\ a = [s EXCEPT ![f] = v] /\ r = Contain(a)
  <2>1. CASE r = OrphanTerminal(s)
    <3>1. PICK f \in Aside : f = "orphan"
      BY Zenon DEF Aside
    <3>2. PICK v : v = FALSE
      BY Zenon
    <3>3. PICK a : a = [s EXCEPT ![f] = v]
      BY Zenon
    <3>4. r = Contain(a)
      BY <2>1, <3>1, <3>2, <3>3, Zenon DEF OrphanTerminal
    <3> QED
      BY <3>3, <3>4, Zenon
  <2>2. CASE r = Contain([s EXCEPT !.strays = n])
    <3>1. PICK f \in Aside : f = "strays"
      BY Zenon DEF Aside
    <3>2. PICK a : a = [s EXCEPT ![f] = n]
      BY Zenon
    <3>3. r = Contain(a)
      BY <2>2, <3>1, <3>2, Zenon
    <3> QED
      BY <3>2, <3>3, Zenon
  <2> QED
    BY <2>1, <2>2, Zenon
<1>2. SInv(a) /\ Plain(s, a)
  BY <1>1, AsideGood, Zenon
<1>3. SInv(r) /\ Plain(a, r)
  BY <1>1, <1>2, ContainGood, Zenon
<1> QED
  BY <1>2, <1>3, PlainThenPlain, Zenon

\* A job's deadline that raises again had been held until now.
LEMMA SubmittedJobDueGood ==
    ASSUME NEW s, SInv(s), "job" \in s.armed, HeldDue(s, "job") <= 0, NEW raises \in BOOLEAN,
           NEW r, r = SubmittedJobDue(s, raises)
    PROVE  Good(s, r)
<1>1. Typed(s) /\ Paced(s) /\ s.due["job"] \in Int /\ s.hold.left \in Int /\ s.hold.on \in BOOLEAN
  BY KindsAre, Zenon DEF SInv, Base, Typed
<1>2. CASE raises
  <2>1. /\ DOMAIN r = Fields /\ r.hooks = s.hooks /\ Deadlines(r, s)
        /\ Life(r, s) /\ Stage(r, s) /\ Checks(r, s) /\ Dog(r, s) /\ Counts(r, s) /\ Blame(r, s)
        /\ r.hold = [on |-> TRUE, left |-> RetryInterval] /\ r.raises = s.raises + 1
    BY <1>1, <1>2, Zenon DEF SubmittedJobDue, RetireRaised, Typed, Fields, Deadlines, Life, Stage, Checks,
                      Dog, Counts, Blame
  <2>2. r.hold \in [on : BOOLEAN, left : Int] /\ r.raises \in Nat /\ r.hold.on
    BY <1>1, <2>1, ConstantsAre DEF Typed
  <2>3. Typed(r)
    BY <1>1, <2>1, <2>2, Zenon DEF Typed, Deadlines, Life, Stage, Checks, Dog, Counts
  <2>4. Capped(r) /\ Silent(r) /\ Owned(r)
    BY <2>1 DEF SInv, Base, Capped, Silent, Owned, Deadlines, Life, Stage, Checks, Dog
  <2>5. Paced(r)
    BY <2>2, Zenon DEF Paced
  <2>6. Supervised(r) /\ (ChecksDoNotOutlive => Counted(r))
    BY <2>1 DEF SInv, Supervised, Counted, Deadlines, Life, Stage, Checks, Dog, Counts
  <2>7. SInv(r)
    BY <2>3, <2>4, <2>5, <2>6, Zenon DEF SInv, Base
  <2>8. Blamed(s, r)
    BY <2>1, Zenon DEF Blamed, Blame
  <2>9. s.raises > 0 => s.hold.on /\ s.hold.left <= 0
    BY <1>1 DEF Paced, HeldDue, Larger
  <2> QED
    BY <2>7, <2>8, <2>9, Zenon DEF Good, Retried
<1>3. CASE ~raises
  <2>1. PICK a : a = Disarm(s, {"job"})
    BY Zenon
  <2>2. SInv(a) /\ Plain(s, a)
    BY <2>1, DisarmGood, Zenon
  <2>3. Typed(a) /\ a.armed = s.armed \ {"job"}
    BY <1>1, <2>1, DisarmIs, Zenon
  <2>4. r = [a EXCEPT !.hold = NoHold]
    BY <1>3, <2>1, Zenon DEF SubmittedJobDue
  <2>5. /\ DOMAIN r = Fields /\ r.hooks = a.hooks /\ Deadlines(r, a)
        /\ Life(r, a) /\ Stage(r, a) /\ Checks(r, a) /\ Dog(r, a) /\ Counts(r, a) /\ Blame(r, a)
        /\ r.hold = NoHold /\ r.raises = a.raises
    BY <2>3, <2>4 DEF Typed, Fields, Deadlines, Life, Stage, Checks, Dog, Counts, Blame
  <2>6. r.hold \in [on : BOOLEAN, left : Int]
    BY <2>5 DEF NoHold
  <2>7. Typed(r)
    BY <2>3, <2>5, <2>6, Zenon DEF Typed, Deadlines, Life, Stage, Checks, Dog, Counts
  <2>8. Capped(r) /\ Silent(r) /\ Owned(r)
    BY <2>2, <2>5 DEF SInv, Base, Capped, Silent, Owned, Deadlines, Life, Stage, Checks, Dog
  <2>9. Paced(r)
    <3>1. r.armed = a.armed
      BY <2>5, Zenon DEF Deadlines
    <3>2. "job" \notin r.armed
      BY <2>3, <3>1, Zenon
    <3> QED
      BY <3>2, Zenon DEF Paced
  <2>10. Supervised(r) /\ (ChecksDoNotOutlive => Counted(r))
    BY <2>2, <2>5 DEF SInv, Supervised, Counted, Deadlines, Life, Stage, Checks, Dog, Counts
  <2>11. SInv(r)
    BY <2>7, <2>8, <2>9, <2>10, Zenon DEF SInv, Base
  <2>12. Plain(s, r)
    BY <2>2, <2>5, Zenon DEF Plain, Blame
  <2> QED
    BY <2>11, <2>12, PlainIsGood, Zenon
<1> QED
  BY <1>2, <1>3, Zenon

\* Whatever is due is handled.
LEMMA ProcessDueGood ==
    ASSUME NEW s, SInv(s), NEW k \in s.armed, IsDue(s, k), NEW raises \in BOOLEAN,
           NEW r, r = ProcessDue(s, k, raises)
    PROVE  Good(s, r)
<1>1. HeldDue(s, k) <= 0
  BY Zenon DEF IsDue
<1>2. s.armed \subseteq Kinds
  BY Zenon DEF SInv, Base, Typed
<1>3. CASE k = "hook"
  <2>1. r = CompletePostStartOperation(s)
    BY <1>3, Zenon DEF ProcessDue
  <2> QED
    BY <2>1, CompletePostStartGood, PlainIsGood, Zenon
<1>4. CASE k = "orphan"
  <2>1. r = OrphanTerminal(s)
    BY <1>4, Zenon DEF ProcessDue
  <2>2. SInv(r) /\ Plain(s, r)
    BY <2>1, StrayGood, Zenon
  <2> QED
    BY <2>2, PlainIsGood, Zenon
<1>5. CASE k = "ready"
  <2>1. PICK f \in Aside : f = "main"
    BY Zenon DEF Aside
  <2>2. PICK v : v = FALSE
    BY Zenon
  <2>3. PICK a : a = [s EXCEPT ![f] = v]
    BY Zenon
  <2>4. SInv(a) /\ Plain(s, a) /\ Frame(a, s)
    BY <2>3, AsideGood, Zenon
  <2>5. s.state = "Starting"
    BY <1>5 DEF SInv, Base, Capped
  <2>6. a.state = "Starting"
    BY <2>4, <2>5 DEF Frame, Stage
  <2>7. a = [s EXCEPT !.main = FALSE]
    BY <2>1, <2>2, <2>3, Zenon
  <2>8. r = StartFailed(a)
    BY <1>5, <2>7, Zenon DEF ProcessDue
  <2>9. SInv(r) /\ Plain(a, r)
    BY <2>4, <2>6, <2>8, StartFailedGood, Zenon
  <2>10. Plain(s, r)
    BY <2>4, <2>9, PlainThenPlain, Zenon
  <2> QED
    BY <2>9, <2>10, PlainIsGood, Zenon
<1>6. CASE k = "stop"
  <2>1. r = StopTimeoutDue(s)
    BY <1>6 DEF ProcessDue
  <2> QED
    BY <2>1, StopTimeoutDueGood, PlainIsGood, Zenon
<1>7. CASE k \in {"detect", "command"}
  <2>1. r = ReloadDetectionDue(s) \/ r = ReloadCommandDue(s)
    BY <1>7, Zenon DEF ProcessDue
  <2>2. SInv(r) /\ Plain(s, r)
    BY <2>1, ReloadDueGood, Zenon
  <2> QED
    BY <2>2, PlainIsGood, Zenon
<1>8. CASE k = "backoff"
  <2>1. r = RestartBackoffDue(s) /\ "backoff" \in s.armed
    BY <1>8, Zenon DEF ProcessDue
  <2> QED
    BY <2>1, RestartBackoffDueGood, PlainIsGood, Zenon
<1>9. CASE k = "probe"
  <2>1. PICK ok \in BOOLEAN : ok = FALSE
    BY Zenon
  <2>2. PICK p : p = s.health.probe
    BY Zenon
  <2>3. p \in Probes
    BY <1>9, <2>2 DEF SInv, Base, Owned
  <2>4. r = HealthTerminal(s, p, ok)
    BY <1>9, <2>1, <2>2, Zenon DEF ProcessDue, HealthTimeoutDue
  <2> QED
    BY <2>3, <2>4, HealthTerminalGood, Zenon
<1>10. CASE k = "watchdog"
  <2>1. r = WatchdogDue(s) /\ "watchdog" \in s.armed /\ s.due["watchdog"] <= 0
    BY <1>1, <1>10 DEF ProcessDue, HeldDue
  <2> QED
    BY <2>1, WatchdogDueGood, Zenon
<1>11. CASE k = "interval"
  <2>1. r = IntervalDue(s)
    BY <1>11, Zenon DEF ProcessDue
  <2> QED
    BY <2>1, IntervalDueGood, PlainIsGood, Zenon
<1>12. CASE k = "job"
  <2>1. r = SubmittedJobDue(s, raises) /\ "job" \in s.armed /\ HeldDue(s, "job") <= 0
    BY <1>1, <1>12, Zenon DEF ProcessDue
  <2> QED
    BY <2>1, SubmittedJobDueGood, Zenon
<1>13. k \in {"hook", "orphan", "ready", "stop", "detect", "command", "backoff", "probe",
              "watchdog", "interval", "job"}
  BY <1>2, KindsAre, Zenon
<1> QED
  BY <1>3, <1>4, <1>5, <1>6, <1>7, <1>8, <1>9, <1>10, <1>11, <1>12, <1>13

\* Time passes for the deadlines, the hold, the operation and the silence
\* alike.
LEMMA TickGood ==
    ASSUME SInv(w), Tick
    PROVE  Good(w, w')
<1>1. PICK s, r : s = w /\ r = w'
  BY Zenon
<1>2. SInv(s) /\ Typed(s) /\ Capped(s) /\ Silent(s)
  BY <1>1, Zenon DEF SInv, Base
<1>3. r = [s EXCEPT !.due = [k \in Kinds |-> IF k \in s.armed THEN @[k] - 1 ELSE 0],
                    !.hold.left = IF s.hold.on THEN @ - 1 ELSE 0,
                    !.op.age = IF s.op = NoOp THEN 0 ELSE Older(@, MaxAge),
                    !.quiet = IF s.wd.on THEN Older(@, s.wd.interval) ELSE 0]
  BY <1>1, Zenon DEF Tick
<1>4. MaxAge \in Nat
  BY ConstantsAre DEF MaxAge, Larger
<1> HIDE DEF MaxAge
<1>5. /\ DOMAIN r = Fields /\ r.hooks = s.hooks /\ r.armed = s.armed
      /\ Life(r, s) /\ Checks(r, s) /\ Counts(r, s) /\ Blame(r, s) /\ r.raises = s.raises
      /\ r.state = s.state /\ r.wd = s.wd
  BY <1>2, <1>3, Zenon DEF Typed, Fields, Life, Checks, Counts, Blame
<1>6. r.due = [k \in Kinds |-> IF k \in s.armed THEN s.due[k] - 1 ELSE 0]
  BY <1>2, <1>3, Zenon DEF Typed, Fields
<1>7. r.hold = [s.hold EXCEPT !.left = IF s.hold.on THEN s.hold.left - 1 ELSE 0]
  BY <1>2, <1>3, Zenon DEF Typed, Fields
<1>8. r.op = [s.op EXCEPT !.age = IF s.op = NoOp THEN 0 ELSE Older(s.op.age, MaxAge)]
  BY <1>2, <1>3, Zenon DEF Typed, Fields
<1>9. r.quiet = IF s.wd.on THEN Older(s.quiet, s.wd.interval) ELSE 0
  BY <1>2, <1>3, Zenon DEF Typed, Fields
<1>10. r.due \in [Kinds -> Int] /\ \A k \in s.armed : r.due[k] = s.due[k] - 1
  BY <1>2, <1>6 DEF Typed
<1>11. r.hold \in [on : BOOLEAN, left : Int] /\ r.hold.on = s.hold.on
  BY <1>2, <1>7 DEF Typed
<1>12. /\ r.op \in [type : {"none", "Start", "Stop", "Reload"}, age : Nat]
       /\ r.op.type = s.op.type /\ r.op.age <= s.op.age + 1 /\ s.op.age \in Nat /\ r.op.age \in Nat
  BY <1>2, <1>4, <1>8 DEF Typed, Older
<1>13. /\ r.quiet \in Nat /\ s.quiet \in Nat /\ s.wd.interval \in Nat
       /\ s.wd.on => \/ r.quiet >= s.wd.interval
                     \/ r.quiet = s.quiet + 1
  BY <1>2, <1>9 DEF Typed, Older
<1>14. Typed(r)
  BY <1>2, <1>5, <1>10, <1>11, <1>12, <1>13, Zenon DEF Typed, Life, Checks, Counts
<1>15. \A k \in s.armed : s.due[k] \in Int /\ r.op.age + r.due[k] <= s.op.age + s.due[k]
                          /\ r.due[k] \in Int /\ r.due[k] <= s.due[k]
  BY <1>2, <1>10, <1>12 DEF Typed
<1>16. StartTimeout \in Nat /\ StopTimeout \in Nat
  BY ConstantsAre, Zenon
<1>17. Capped(r)
  BY <1>2, <1>5, <1>12, <1>15, <1>16 DEF Capped
<1>18. Silent(r)
  <2>1. r.wd.on => r.wd.interval > 0
    BY <1>2, <1>5, Zenon DEF Silent
  <2>2. CASE "watchdog" \in r.armed
    <3>1. /\ s.wd.on /\ s.due["watchdog"] \in Int /\ r.due["watchdog"] = s.due["watchdog"] - 1
          /\ s.quiet >= s.wd.interval \/ s.quiet + s.due["watchdog"] >= s.wd.interval
      BY <1>2, <1>5, <1>10, <1>15, <2>2 DEF Silent
    <3>2. r.quiet >= s.wd.interval \/ r.quiet + r.due["watchdog"] >= s.wd.interval
      BY <1>13, <3>1
    <3> QED
      BY <1>5, <2>1, <3>1, <3>2, Zenon DEF Silent
  <2> QED
    BY <2>1, <2>2, Zenon DEF Silent
<1>19. Paced(r) /\ Owned(r)
  <2>1. Paced(s) /\ Owned(s)
    BY <1>2, Zenon DEF SInv, Base
  <2>2. Paced(r)
    BY <1>5, <1>11, <2>1 DEF Paced
  <2>3. r.def = s.def /\ r.gen = s.gen /\ r.health = s.health
    BY <1>5, Zenon DEF Life, Checks
  <2>4. Owned(r)
    BY <1>5, <2>1, <2>3 DEF Owned
  <2> QED
    BY <2>2, <2>4, Zenon
<1>20. Supervised(r) /\ (ChecksDoNotOutlive => Counted(r))
  BY <1>2, <1>5 DEF SInv, Supervised, Counted, Life, Checks, Counts
<1>21. SInv(r)
  BY <1>14, <1>17, <1>18, <1>19, <1>20, Zenon DEF SInv, Base
<1>22. Plain(s, r)
  BY <1>5, Zenon DEF Plain, Blame
<1>23. Good(s, r)
  BY <1>21, <1>22, PlainIsGood, Zenon
<1> QED
  BY <1>1, <1>23, Zenon

(***************************************************************************)
(* The theorems.                                                           *)
(***************************************************************************)
\* Nothing runs yet; the only deadline is the submitted job's.
LEMMA InitGood ==
    ASSUME Init
    PROVE  SInv(w)
<1>1. PICK s : s = w
  BY Zenon
<1>2. PICK d \in Definitions :
        s = [def |-> d, state |-> "Inactive", gen |-> 0, main |-> FALSE, killed |-> "no",
             op |-> NoOp, armed |-> {"job"}, due |-> [k \in Kinds |-> IF k = "job" THEN 1 ELSE 0],
             hooks |-> NoHooks, orphan |-> FALSE, strays |-> 0,
             cmd |-> "none", confirmed |-> FALSE, phase |-> "none",
             health |-> NoHealth, probes |-> [p \in Probes |-> NoProbe], bad |-> 0,
             wd |-> NoWatchdog, restarts |-> 0, hold |-> NoHold, raises |-> 0,
             quiet |-> 0, fails |-> 0, blame |-> "none"]
  BY <1>1, Zenon DEF Init
<1>3. /\ DOMAIN s = Fields /\ s.def = d /\ s.state = "Inactive" /\ s.gen = 0
      /\ s.op = NoOp /\ s.armed = {"job"} /\ s.hooks = NoHooks /\ s.health = NoHealth
  BY <1>2, Zenon DEF Fields
<1>4. /\ s.due = [k \in Kinds |-> IF k = "job" THEN 1 ELSE 0]
      /\ s.probes = [p \in Probes |-> NoProbe]
      /\ s.bad = 0 /\ s.wd = NoWatchdog /\ s.hold = NoHold
      /\ s.raises = 0 /\ s.quiet = 0 /\ s.fails = 0
  BY <1>2, Zenon
<1>5. /\ s.op \in [type : {"none", "Start", "Stop", "Reload"}, age : Nat]
      /\ s.hooks \in [on : BOOLEAN, left : Int] /\ s.hold \in [on : BOOLEAN, left : Int]
  BY <1>3, <1>4 DEF NoOp, NoHooks, NoHold
<1>6. /\ s.health \in [on : BOOLEAN, gen : Nat, probe : Nat]
      /\ s.wd \in [on : BOOLEAN, gen : Nat, interval : Nat]
      /\ ~s.health.on /\ s.health.probe = 0 /\ s.health.gen = 0 /\ ~s.wd.on
  BY <1>3, <1>4 DEF NoHealth, NoWatchdog
<1>7. s.due \in [Kinds -> Int]
  BY <1>4
<1>8. s.probes \in [Probes -> [state : {"none", "created", "running"}, gen : Nat]]
  BY <1>4 DEF NoProbe
<1>9. s.armed \subseteq Kinds
  BY <1>3, KindsAre, Zenon
<1>10. Typed(s)
  <2>1. s.gen \in Nat /\ s.bad \in Nat /\ s.fails \in Nat /\ s.quiet \in Nat /\ s.raises \in Nat
    BY <1>3, <1>4
  <2> QED
    BY <1>2, <1>3, <1>5, <1>6, <1>7, <1>8, <1>9, <2>1, Zenon DEF Typed
<1>11. Capped(s) /\ Silent(s) /\ Paced(s) /\ Owned(s)
  BY <1>3, <1>4, <1>6 DEF Capped, Silent, Paced, Owned
<1>12. Supervised(s) /\ Counted(s)
  BY <1>3, <1>6, Zenon DEF Supervised, Counted
<1>13. SInv(s)
  BY <1>10, <1>11, <1>12, Zenon DEF SInv, Base
<1> QED
  BY <1>1, <1>13, Zenon

\* Every action keeps the invariant, blames for cause and retries in time.
LEMMA StepGood ==
    ASSUME SInv(w), Next
    PROVE  Good(w, w')
<1>1. PICK s, r : s = w /\ r = w'
  BY Zenon
<1>2. SInv(s)
  BY <1>1, Zenon
<1>3. ASSUME SInv(r), Plain(s, r)
      PROVE  Good(w, w')
  BY <1>1, <1>3, PlainIsGood, Zenon
<1>4. ASSUME Good(s, r)
      PROVE  Good(w, w')
  BY <1>1, <1>4, Zenon
<1>5. CASE Start
  <2>1. s.state \in {"Inactive", "Failed", "Backoff"} /\ s.state # "Backoff" /\ r = LaunchMain(s)
    BY <1>1, <1>5, Zenon DEF Start
  <2>2. "backoff" \notin s.armed
    BY <1>2, <2>1 DEF SInv, Base, Capped
  <2>3. SInv(r) /\ Plain(s, r)
    BY <1>2, <2>1, <2>2, LaunchMainGood, Zenon
  <2> QED
    BY <1>3, <2>3, Zenon
<1>6. CASE Stop
  <2>1. \/ s.state \in {"Starting", "Active", "Reloading"} /\ r = StopRunning(s)
        \/ s.state = "Backoff" /\ r = StopBackoff(s)
    BY <1>1, <1>6, Zenon DEF Stop
  <2>2. SInv(r) /\ Plain(s, r)
    BY <1>2, <2>1, StopRunningGood, StopBackoffGood, Zenon
  <2> QED
    BY <1>3, <2>2, Zenon
<1>7. CASE Reload
  <2>1. s.state = "Active" /\ (r = BeginSignalReload(s) \/ r = BeginCommandReload(s))
    BY <1>1, <1>7, Zenon DEF Reload
  <2>2. SInv(r) /\ Plain(s, r)
    BY <1>2, <2>1, ReloadBegunGood, Zenon
  <2> QED
    BY <1>3, <2>2, Zenon
<1>8. CASE Exit
  <2>1. PICK clean \in BOOLEAN : r = MainExit(s, clean)
    BY <1>1, <1>8, Zenon DEF Exit
  <2>2. SInv(r) /\ Plain(s, r)
    BY <1>2, <2>1, MainExitGood, Zenon
  <2> QED
    BY <1>3, <2>2, Zenon
<1>9. CASE NotifyReady \/ NotifyReloading
  <2>1. r = ApplyReady(s) \/ r = ApplyReloading(s)
    BY <1>1, <1>9, Zenon DEF NotifyReady, NotifyReloading, Notified
  <2>2. SInv(r) /\ Plain(s, r)
    BY <1>2, <2>1, ApplyReadyGood, ApplyReloadingGood, Zenon
  <2> QED
    BY <1>3, <2>2, Zenon
<1>10. CASE NotifyWatchdog \/ NotifyInterval
  <2>1. PICK n : r = ApplyKeepalive(s) \/ (n \in s.def.runtime /\ r = ApplyWatchdogInterval(s, n))
    BY <1>1, <1>10, Zenon DEF NotifyWatchdog, NotifyInterval, Notified
  <2>2. SInv(r) /\ Plain(s, r)
    BY <1>2, <2>1, ApplyWatchdogGood, Zenon
  <2> QED
    BY <1>3, <2>2, Zenon
<1>11. CASE NotifyExtend
  <2>1. PICK n \in Extensions : r = ExtendTimeout(s, n)
    BY <1>1, <1>11, Zenon DEF NotifyExtend, Notified
  <2>2. SInv(r) /\ Plain(s, r)
    BY <1>2, <2>1, ExtendTimeoutGood, Zenon
  <2> QED
    BY <1>3, <2>2, Zenon
<1>12. CASE NotifyBadValue
  <2>1. r = Contain(s)
    BY <1>1, <1>12, Zenon DEF NotifyBadValue, Notified
  <2>2. SInv(r) /\ Plain(s, r)
    BY <1>2, <2>1, ContainGood, Zenon
  <2> QED
    BY <1>3, <2>2, Zenon
<1>13. CASE HookEnds
  <2>1. r = PostStartHookTerminal(s)
    BY <1>1, <1>13, Zenon DEF HookEnds
  <2>2. SInv(r) /\ Plain(s, r)
    BY <1>2, <2>1, HookGood, Zenon
  <2> QED
    BY <1>3, <2>2, Zenon
<1>14. CASE OrphanEnds \/ StrayEnds
  <2>1. PICK n : r = OrphanTerminal(s) \/ r = Contain([s EXCEPT !.strays = n])
    <3>1. PICK n : n = s.strays - 1
      BY Zenon
    <3>2. r = OrphanTerminal(s) \/ r = Contain([s EXCEPT !.strays = n])
      BY <1>1, <1>14, <3>1, Zenon DEF OrphanEnds, StrayEnds
    <3> QED
      BY <3>2, Zenon
  <2>2. SInv(r) /\ Plain(s, r)
    BY <1>2, <2>1, StrayGood, Zenon
  <2> QED
    BY <1>3, <2>2, Zenon
<1>15. CASE ProbeLaunched
  <2>1. PICK p \in Probes, ok \in BOOLEAN : s.probes[p].state = "created" /\ r = LaunchProbe(s, p, ok)
    BY <1>1, <1>15, Zenon DEF ProbeLaunched
  <2>2. SInv(r) /\ Plain(s, r)
    BY <1>2, <2>1, LaunchProbeGood, Zenon
  <2> QED
    BY <1>3, <2>2, Zenon
<1>16. CASE ProbeEnds
  <2>1. PICK p \in Probes, ok \in BOOLEAN : r = HealthTerminal(s, p, ok)
    BY <1>1, <1>16, Zenon DEF ProbeEnds
  <2>2. Good(s, r)
    BY <1>2, <2>1, HealthTerminalGood, Zenon
  <2> QED
    BY <1>4, <2>2, Zenon
<1>17. CASE CommandLaunched
  <2>1. PICK f \in Aside : f = "cmd"
    BY Zenon DEF Aside
  <2>2. PICK v : v = "running"
    BY Zenon
  <2>3. r = [s EXCEPT ![f] = v]
    BY <1>1, <1>17, <2>1, <2>2, Zenon DEF CommandLaunched
  <2>4. SInv(r) /\ Plain(s, r)
    BY <1>2, <2>3, AsideGood, Zenon
  <2> QED
    BY <1>3, <2>4, Zenon
<1>18. CASE CommandEnds
  <2>1. PICK ok \in BOOLEAN : r = ReloadCommandTerminal(s, ok)
    BY <1>1, <1>18, Zenon DEF CommandEnds
  <2>2. SInv(r) /\ Plain(s, r)
    BY <1>2, <2>1, ReloadDueGood, Zenon
  <2> QED
    BY <1>3, <2>2, Zenon
<1>19. CASE TimerTurn
  <2>1. PICK k \in s.armed, raises \in BOOLEAN : IsDue(s, k) /\ r = ProcessDue(s, k, raises)
    BY <1>1, <1>19, Zenon DEF TimerTurn
  <2>2. Good(s, r)
    BY <1>2, <2>1, ProcessDueGood, Zenon
  <2> QED
    BY <1>4, <2>2, Zenon
<1>20. CASE Tick
  BY <1>20, TickGood, Zenon
<1> QED
  BY <1>5, <1>6, <1>7, <1>8, <1>9, <1>10, <1>11, <1>12, <1>13, <1>14, <1>15, <1>16, <1>17, <1>18,
     <1>19, <1>20, Zenon DEF Next

\* The invariant holds: the deadlines are those of the state the service is
\* in and within their caps, the watchdog is due no earlier than its silence,
\* an active service is supervised, and a probe that counts is its own
\* activation's.
THEOREM SupervisionInvariant == Spec => []SInv(w)
<1>1. Init => SInv(w)
  BY InitGood, Zenon
<1>2. SInv(w) /\ [Next]_vars => SInv(w)'
  <2>1. SInv(w) /\ Next => SInv(w)'
    BY StepGood, Zenon DEF Good
  <2>2. SInv(w) /\ UNCHANGED vars => SInv(w)'
    BY Zenon DEF vars
  <2> QED
    BY <2>1, <2>2, Zenon
<1> QED
  BY <1>1, <1>2, PTL DEF Spec

\* A service that is active is watched, however it came to be active and
\* whatever else was due, for every definition and every timeout
\* (apply_health_ and apply_watchdog_scheduling_after_transition).
THEOREM ActiveServicesAreWatched == Spec => []ActiveIsSupervised
<1>1. SInv(w) => ActiveIsSupervised
  BY Zenon DEF SInv, Supervised, ActiveIsSupervised, Armed
<1> QED
  BY <1>1, SupervisionInvariant, PTL

\* No number of EXTEND_TIMEOUT_USEC messages moves a start's, a stop's or a
\* reload command's deadline beyond four timeouts after it began
\* (clamped_deadline).
THEOREM ExtensionsStayCapped == Spec => []ExtensionsAreCapped
<1>1. SInv(w) => ExtensionsAreCapped
  BY Zenon DEF SInv, Base, Capped, ExtensionsAreCapped, Armed
<1> QED
  BY <1>1, SupervisionInvariant, PTL

\* A deadline that raises and cannot be dropped is tried again only when its
\* hold is over (retire_raised, held_due).
THEOREM RaisedDeadlinesAreHeld == Spec => RetriesArePaced
<1>1. SInv(w) /\ [Next]_vars =>
        [w.raises > 0 /\ w'.raises # w.raises => w.hold.on /\ w.hold.left <= 0]_vars
  BY StepGood, Zenon DEF Good, Retried
<1> QED
  BY <1>1, SupervisionInvariant, PTL DEF Spec, RetriesArePaced

\* Nobody is taken down by the watchdog without having been silent for the
\* interval, nor for failed probes that were not its own, as long as no
\* definition has hooks, health checks and a watchdog at once: with all
\* three a probe of the last activation can be counted against this one
\* (GiveUp leaves the health record, the hooks delay its replacement).
THEOREM NobodyIsBlamedForAnother ==
    ASSUME ChecksDoNotOutlive
    PROVE  Spec => EscalationIsEarned
<1>1. SInv(w) /\ [Next]_vars =>
        [/\ w.blame # "watchdog" /\ w'.blame = "watchdog" =>
               w.wd.gen = w.gen /\ w.quiet >= w.wd.interval
         /\ w.blame # "health" /\ w'.blame = "health" => w'.fails >= Retries]_vars
  BY StepGood, Zenon DEF Good, Blamed
<1> QED
  BY <1>1, SupervisionInvariant, PTL DEF Spec, EscalationIsEarned
=============================================================================
