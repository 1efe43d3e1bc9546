------------------------- MODULE SupervisionLemmas --------------------------
(***************************************************************************)
(* The inductive invariant of Supervision, and the handlers of a start,    *)
(* its hooks, the probes and the watchdog, each of which keeps it.         *)
(*                                                                         *)
(* The handlers are functions of the whole state, so the invariant is a    *)
(* predicate of a state and a handler is shown to keep it before any       *)
(* action is looked at.  The first lemmas say which fields the operators   *)
(* the handlers are made of change; SInv is kept field by field.           *)
(***************************************************************************)
EXTENDS Supervision, WellFoundedInduction, TLAPS

Fields == {"def", "state", "gen", "main", "killed", "op", "armed", "due", "hooks", "orphan",
           "strays", "cmd", "confirmed", "phase", "health", "probes", "bad", "wd", "restarts",
           "hold", "raises", "quiet", "fails", "blame"}

Typed(s) ==
    /\ DOMAIN s = Fields
    /\ s.def \in Definitions
    /\ s.gen \in Nat
    /\ s.op \in [type : {"none", "Start", "Stop", "Reload"}, age : Nat]
    /\ s.armed \subseteq Kinds
    /\ s.due \in [Kinds -> Int]
    /\ s.hooks \in [on : BOOLEAN, left : Int]
    /\ s.health \in [on : BOOLEAN, gen : Nat, probe : Nat]
    /\ s.probes \in [Probes -> [state : {"none", "created", "running"}, gen : Nat]]
    /\ s.bad \in Nat /\ s.fails \in Nat /\ s.quiet \in Nat /\ s.raises \in Nat
    /\ s.wd \in [on : BOOLEAN, gen : Nat, interval : Nat]
    /\ s.hold \in [on : BOOLEAN, left : Int]

(***************************************************************************)
(* The invariant.                                                          *)
(***************************************************************************)
\* Who has a deadline, and how far off it can be.  A stop's deadline may
\* outlive the stop, and then meet the next one.
Capped(s) ==
    /\ "ready" \in s.armed =>
          s.state = "Starting" /\ s.op.age + s.due["ready"] <= 4 * StartTimeout
    /\ "stop" \in s.armed =>
          /\ s.due["stop"] <= 4 * StopTimeout
          /\ s.op.type = "Stop" => s.op.age + s.due["stop"] <= 4 * StopTimeout
    /\ "command" \in s.armed =>
          /\ s.due["command"] <= 4 * StartTimeout
          /\ s.op.type = "Reload" => s.op.age + s.due["command"] <= 4 * StartTimeout
    /\ "backoff" \in s.armed => s.state = "Backoff"

\* The watchdog is due no earlier than the silence it stands for.
Silent(s) ==
    /\ s.wd.on => s.wd.interval > 0
    /\ "watchdog" \in s.armed =>
        s.wd.on /\ (s.quiet >= s.wd.interval \/ s.quiet + s.due["watchdog"] >= s.wd.interval)

Paced(s) == "job" \in s.armed /\ s.raises > 0 => s.hold.on

\* A health record and a watchdog are there only for a definition that asks
\* for them; a probe is only with its record.
Owned(s) ==
    /\ s.health.on => s.def.health
    /\ ~s.health.on => s.health.probe = 0
    /\ s.health.gen <= s.gen
    /\ s.wd.on => s.def.watchdog > 0 \/ s.def.runtime # {}
    /\ "probe" \in s.armed => s.health.probe \in Probes
    /\ s.health.probe # 0 => s.health.probe \in Probes

Base(s) == Typed(s) /\ Capped(s) /\ Silent(s) /\ Paced(s) /\ Owned(s)

Supervised(s) ==
    s.state = "Active" /\ ~s.hooks.on =>
        /\ s.def.health => s.health.on /\ s.health.gen = s.gen /\ "interval" \in s.armed
        /\ s.def.watchdog > 0 /\ 0 \notin s.def.runtime =>
              s.wd.on /\ s.wd.gen = s.gen /\ "watchdog" \in s.armed

\* No definition has hooks, health checks and a watchdog at once.
ChecksDoNotOutlive ==
    \A d \in Definitions : d.hooks > 0 /\ d.health => d.watchdog = 0 /\ d.runtime = {}

\* The failures counted against a service are those of its own activation.
Counted(s) ==
    /\ s.state = "Starting" => s.bad = 0 /\ (s.health.on => s.health.gen < s.gen)
    /\ s.state \in {"Active", "Reloading"} => s.bad <= s.fails /\ s.bad < Retries
    /\ s.state = "Reloading" => s.health.probe = 0
    /\ s.def.hooks > 0 /\ s.state # "Active" => s.health.probe = 0
    /\ s.state = "Active" /\ s.health.probe # 0 =>
          s.health.gen = s.gen /\ s.probes[s.health.probe].gen = s.gen

SInv(s) == Base(s) /\ Supervised(s) /\ (ChecksDoNotOutlive => Counted(s))

\* What a step from s to r may do: EscalationIsEarned and RetriesArePaced.
Blamed(s, r) ==
    /\ s.blame # "watchdog" /\ r.blame = "watchdog" =>
          s.wd.gen = s.gen /\ s.quiet >= s.wd.interval
    /\ ChecksDoNotOutlive => (s.blame # "health" /\ r.blame = "health" => r.fails >= Retries)
Retried(s, r) == s.raises > 0 /\ r.raises # s.raises => s.hold.on /\ s.hold.left <= 0

\* A step that blames nobody and retries nothing.
Plain(s, r) == (r.blame = s.blame \/ r.blame = "none") /\ r.raises = s.raises
Good(s, r) == SInv(r) /\ Blamed(s, r) /\ Retried(s, r)

(***************************************************************************)
(* Fields.                                                                 *)
(***************************************************************************)
\* The fields that do not change, in groups.
Life(r, s) == r.def = s.def /\ r.gen = s.gen
Stage(r, s) == r.state = s.state /\ r.op = s.op /\ r.hooks.on = s.hooks.on
Checks(r, s) == r.health = s.health /\ r.probes = s.probes
Dog(r, s) == r.wd = s.wd /\ r.quiet = s.quiet
Counts(r, s) == r.bad = s.bad /\ r.fails = s.fails
Job(r, s) == r.hold = s.hold /\ r.raises = s.raises
Blame(r, s) == r.blame = s.blame
Clocks(r, s, K) == \A k \in K : k \in r.armed => k \in s.armed /\ r.due[k] = s.due[k]
Deadlines(r, s) == r.armed = s.armed /\ r.due = s.due

Frame(r, s) ==
    Life(r, s) /\ Stage(r, s) /\ Checks(r, s) /\ Dog(r, s) /\ Counts(r, s) /\ Job(r, s)
    /\ Blame(r, s)

\* The deadlines, by name.
LEMMA KindsAre ==
    Kinds = {"hook", "orphan", "ready", "stop", "detect", "command", "backoff", "probe",
             "watchdog", "interval", "job"}
BY Zenon DEF Kinds, Rank

\* Probes are numbered from one.
LEMMA ProbesAre == 0 \notin Probes /\ Probes \subseteq Nat
<1>1. PICK n \in Nat : Probes = 1..n
  BY SupervisionAssumption, Zenon
<1> QED
  BY <1>1

\* Timeouts are positive.
LEMMA ConstantsAre ==
    /\ StartTimeout \in Nat /\ StartTimeout > 0 /\ StopTimeout \in Nat /\ StopTimeout > 0
    /\ BackoffDelay \in Nat /\ Window \in Nat /\ HealthInterval \in Nat /\ HealthTimeout \in Nat
    /\ Retries \in Nat /\ Retries > 0 /\ RetryInterval \in Nat
    /\ \A d \in Definitions : d.hooks \in Nat /\ d.watchdog \in Nat /\ d.health \in BOOLEAN
                              /\ d.runtime \subseteq Nat
<1>1. /\ StartTimeout \in Nat \ {0} /\ StopTimeout \in Nat \ {0} /\ BackoffDelay \in Nat \ {0}
      /\ Window \in Nat \ {0} /\ HealthInterval \in Nat \ {0} /\ HealthTimeout \in Nat \ {0}
      /\ Retries \in Nat \ {0} /\ RetryInterval \in Nat \ {0}
  BY SupervisionAssumption, Zenon
<1>3. \A d \in Definitions : d.hooks \in Nat /\ d.watchdog \in Nat /\ d.health \in BOOLEAN
                              /\ d.runtime \subseteq Nat
  BY SupervisionAssumption, Zenon
<1> QED
  BY <1>1, <1>3

\* A set of natural numbers that is not empty has a least element.
LEMMA LeastNatural ==
    ASSUME NEW S \in SUBSET Nat, S # {}
    PROVE  \E x \in S : \A y \in S : x <= y
<1>1. IsWellFoundedOn(OpToRel(<,Nat), Nat)
  BY NatLessThanWellFounded, Zenon
<1> DEFINE R == {p \in Nat \X Nat : p[1] < p[2]}
<1>2. OpToRel(<,Nat) = R
  BY Zenon DEF OpToRel
<1>3. IsWellFoundedOn(R, Nat)
  BY <1>1, <1>2, Zenon
<1> HIDE DEF R
<1>4. PICK x \in S : \A y \in S : ~(<<y, x>> \in R)
  BY <1>3, WFMin, Zenon
<1>5. \A y \in S : y < x => <<y, x>> \in R
  BY Zenon DEF R
<1>6. \A y \in S : ~(y < x)
  BY <1>4, <1>5, Zenon
<1>7. x \in Nat /\ \A y \in S : y \in Nat
  BY Zenon
<1> QED
  BY <1>6, <1>7

\* Arm sets one deadline and leaves the rest of the state as it is.
LEMMA ArmIs ==
    ASSUME NEW s, Typed(s), NEW k \in Kinds, NEW t \in Int, NEW r, r = Arm(s, k, t)
    PROVE  /\ Typed(r) /\ Frame(r, s)
           /\ r.armed = s.armed \cup {k} /\ r.due[k] = t
           /\ \A j \in Kinds \ {k} : r.due[j] = s.due[j]
<1>1. /\ DOMAIN r = Fields /\ r.hooks = s.hooks
      /\ r.armed = s.armed \cup {k} /\ r.due = [s.due EXCEPT ![k] = t]
      /\ Frame(r, s)
  BY Zenon DEF Typed, Fields, Arm, Frame, Life, Stage, Checks, Dog, Counts, Job, Blame
<1>2. r.due \in [Kinds -> Int] /\ r.due[k] = t /\ \A j \in Kinds \ {k} : r.due[j] = s.due[j]
  BY <1>1 DEF Typed
<1> QED
  BY <1>1, <1>2, Zenon DEF Typed, Frame, Life, Stage, Checks, Dog, Counts, Job

\* Disarm takes deadlines away and leaves the rest of the state as it is.
LEMMA DisarmIs ==
    ASSUME NEW s, Typed(s), NEW K, NEW r, r = Disarm(s, K)
    PROVE  /\ Typed(r) /\ Frame(r, s)
           /\ r.armed = s.armed \ K /\ Clocks(r, s, Kinds)
<1>1. /\ DOMAIN r = Fields /\ r.hooks = s.hooks
      /\ r.armed = s.armed \ K /\ r.due = [k \in Kinds |-> IF k \in K THEN 0 ELSE s.due[k]]
      /\ Frame(r, s)
  BY Zenon DEF Typed, Fields, Disarm, Frame, Life, Stage, Checks, Dog, Counts, Job, Blame
<1>2. r.due \in [Kinds -> Int] /\ Clocks(r, s, Kinds)
  BY <1>1 DEF Typed, Clocks
<1> QED
  BY <1>1, <1>2, Zenon DEF Typed, Frame, Life, Stage, Checks, Dog, Counts, Job

\* Nothing but the framed fields and the deadlines matters to the invariant.
LEMMA AlikeGood ==
    ASSUME NEW s, SInv(s), NEW r, DOMAIN r = Fields, r.hooks \in [on : BOOLEAN, left : Int],
           Frame(r, s), Deadlines(r, s)
    PROVE  SInv(r) /\ Plain(s, r)
<1>1. Typed(r)
  BY Zenon DEF SInv, Base, Typed, Frame, Life, Stage, Checks, Dog, Counts, Job, Deadlines
<1>2. Capped(r) /\ Silent(r) /\ Paced(r)
  BY DEF SInv, Base, Capped, Silent, Paced, Frame, Life, Stage, Dog, Job, Deadlines
<1>3. Owned(r) /\ Supervised(r)
  BY Zenon DEF SInv, Base, Owned, Supervised, Frame, Life, Stage, Checks, Dog, Deadlines
<1>4. ChecksDoNotOutlive => Counted(r)
  BY Zenon DEF SInv, Counted, Frame, Life, Stage, Checks, Counts
<1> QED
  BY <1>1, <1>2, <1>3, <1>4, Zenon DEF SInv, Base, Plain, Frame, Job, Blame

\* Deadlines other than those of the supervision can be taken away.
LEMMA DisarmGood ==
    ASSUME NEW s, SInv(s), NEW K, "interval" \notin K, "watchdog" \notin K,
           NEW r, r = Disarm(s, K)
    PROVE  SInv(r) /\ Plain(s, r)
<1>1. /\ Typed(r) /\ Frame(r, s)
      /\ r.armed = s.armed \ K /\ Clocks(r, s, Kinds)
  BY DisarmIs, Zenon DEF SInv, Base
<1>2. Capped(r) /\ Silent(r) /\ Paced(r)
  BY <1>1, KindsAre
 , Zenon DEF SInv, Base, Capped, Silent, Paced, Frame, Life, Stage, Dog, Job, Clocks
<1>3. Owned(r) /\ Supervised(r)
  BY <1>1 DEF SInv, Base, Owned, Supervised, Frame, Life, Stage, Checks, Dog
<1>4. ChecksDoNotOutlive => Counted(r)
  BY <1>1, Zenon DEF SInv, Counted, Frame, Life, Stage, Checks, Counts
<1> QED
  BY <1>1, <1>2, <1>3, <1>4, Zenon DEF SInv, Base, Plain, Frame, Job, Blame

\* A deadline can be set where the invariant allows it.
LEMMA ArmGood ==
    ASSUME NEW s, SInv(s), NEW k \in Kinds, NEW t \in Int, NEW r, r = Arm(s, k, t),
           k = "ready" => s.state = "Starting" /\ s.op.age + t <= 4 * StartTimeout,
           k = "stop" => t <= 4 * StopTimeout /\ s.op.age + t <= 4 * StopTimeout,
           k = "command" => t <= 4 * StartTimeout /\ s.op.age + t <= 4 * StartTimeout,
           k = "probe" => s.health.probe \in Probes,
           k \notin {"backoff", "watchdog", "job"}
    PROVE  SInv(r) /\ Plain(s, r)
<1>1. /\ Typed(r) /\ Frame(r, s)
      /\ r.armed = s.armed \cup {k} /\ r.due[k] = t
      /\ \A j \in Kinds \ {k} : r.due[j] = s.due[j]
  BY ArmIs DEF SInv, Base
<1>2. r.state = s.state /\ r.op = s.op
  BY <1>1, Zenon DEF Frame, Stage
<1>3. Capped(r)
  BY <1>1, <1>2, KindsAre DEF SInv, Base, Capped
<1>4. Silent(r) /\ Paced(r)
  BY <1>1, KindsAre, Zenon DEF SInv, Base, Silent, Paced, Frame, Dog, Job
<1>5. Owned(r) /\ Supervised(r)
  BY <1>1 DEF SInv, Base, Owned, Supervised, Frame, Life, Stage, Checks, Dog
<1>6. ChecksDoNotOutlive => Counted(r)
  BY <1>1, Zenon DEF SInv, Counted, Frame, Life, Stage, Checks, Counts
<1> QED
  BY <1>1, <1>3, <1>4, <1>5, <1>6, Zenon DEF SInv, Base, Plain, Frame, Job, Blame

(***************************************************************************)
(* The watchdog and the health record.                                     *)
(***************************************************************************)
\* CancelWatchdog changes the watchdog only.
LEMMA CancelWatchdogIs ==
    ASSUME NEW s, Typed(s), NEW r, r = CancelWatchdog(s)
    PROVE  /\ Typed(r) /\ r.wd = NoWatchdog
           /\ Life(r, s) /\ Stage(r, s) /\ Checks(r, s) /\ Counts(r, s) /\ Job(r, s) /\ Blame(r, s)
           /\ r.armed = s.armed \ {"watchdog"} /\ Clocks(r, s, Kinds)
<1>1. PICK a : a = Disarm(s, {"watchdog"})
  BY Zenon
<1>2. Typed(a) /\ Frame(a, s) /\ a.armed = s.armed \ {"watchdog"} /\ Clocks(a, s, Kinds)
  BY <1>1, DisarmIs, Zenon
<1>3. r = [a EXCEPT !.wd = NoWatchdog]
  BY <1>1, Zenon DEF CancelWatchdog
<1>4. /\ DOMAIN r = Fields /\ r.wd = NoWatchdog /\ Deadlines(r, a) /\ r.hooks = a.hooks
      /\ Life(r, a) /\ Stage(r, a) /\ Checks(r, a) /\ Counts(r, a) /\ Job(r, a) /\ Blame(r, a)
      /\ r.quiet = a.quiet
  BY <1>2, <1>3
  DEF Typed, Fields, Deadlines, Life, Stage, Checks, Counts, Job, Blame
<1>5. Typed(r)
  BY <1>2, <1>4 DEF Typed, Deadlines, Life, Stage, Checks, Counts, Job, NoWatchdog
<1> QED
  BY <1>2, <1>4, <1>5
  DEF Frame, Deadlines, Clocks, Life, Stage, Checks, Counts, Job, Blame

\* CancelHealth changes the health record only.
LEMMA CancelHealthIs ==
    ASSUME NEW s, Typed(s), NEW r, r = CancelHealth(s)
    PROVE  /\ Typed(r) /\ r.health = NoHealth /\ r.probes = s.probes
           /\ Life(r, s) /\ Stage(r, s) /\ Dog(r, s) /\ Counts(r, s) /\ Job(r, s) /\ Blame(r, s)
           /\ r.armed = s.armed \ {"interval", "probe"} /\ Clocks(r, s, Kinds)
<1>1. PICK a : a = Disarm(s, {"interval", "probe"})
  BY Zenon
<1>2. Typed(a) /\ Frame(a, s) /\ a.armed = s.armed \ {"interval", "probe"} /\ Clocks(a, s, Kinds)
  BY <1>1, DisarmIs, Zenon
<1>3. r = [a EXCEPT !.health = NoHealth]
  BY <1>1, Zenon DEF CancelHealth
<1>4. /\ DOMAIN r = Fields /\ r.health = NoHealth /\ r.probes = a.probes /\ Deadlines(r, a)
      /\ r.hooks = a.hooks
      /\ Life(r, a) /\ Stage(r, a) /\ Dog(r, a) /\ Counts(r, a) /\ Job(r, a) /\ Blame(r, a)
  BY <1>2, <1>3
  DEF Typed, Fields, Deadlines, Life, Stage, Dog, Counts, Job, Blame
<1>5. Typed(r)
  BY <1>2, <1>4 DEF Typed, Deadlines, Life, Stage, Dog, Counts, Job, NoHealth
<1> QED
  BY <1>2, <1>4, <1>5
  DEF Frame, Deadlines, Clocks, Life, Stage, Checks, Dog, Counts, Job, Blame

\* Outside the active state both are dropped when the service leaves it.
LEMMA UnsupervisedIs ==
    ASSUME NEW s, Typed(s), NEW r, r = CancelWatchdog(CancelHealth(s))
    PROVE  /\ Typed(r) /\ r.wd = NoWatchdog /\ r.health = NoHealth /\ r.probes = s.probes
           /\ Life(r, s) /\ Stage(r, s) /\ Counts(r, s) /\ Job(r, s) /\ Blame(r, s)
           /\ r.armed = s.armed \ {"interval", "probe", "watchdog"} /\ Clocks(r, s, Kinds)
<1>1. PICK a : a = CancelHealth(s)
  BY Zenon
<1>2. /\ Typed(a) /\ a.health = NoHealth /\ a.probes = s.probes
      /\ Life(a, s) /\ Stage(a, s) /\ Counts(a, s) /\ Job(a, s) /\ Blame(a, s)
      /\ a.armed = s.armed \ {"interval", "probe"} /\ Clocks(a, s, Kinds)
  BY <1>1, CancelHealthIs, Zenon
<1>3. /\ Typed(r) /\ r.wd = NoWatchdog
      /\ Life(r, a) /\ Stage(r, a) /\ Checks(r, a) /\ Counts(r, a) /\ Job(r, a) /\ Blame(r, a)
      /\ r.armed = a.armed \ {"watchdog"} /\ Clocks(r, a, Kinds)
  BY <1>1, <1>2, CancelWatchdogIs, Zenon
<1>4. Clocks(r, s, Kinds)
  BY <1>2, <1>3, Zenon DEF Clocks
<1> QED
  BY <1>2, <1>3, <1>4, Zenon DEF Life, Stage, Checks, Counts, Job, Blame

\* ScheduleInterval arms the interval of a record of this activation, and
\* keeps the probe of no other.
LEMMA ScheduleIntervalIs ==
    ASSUME NEW s, Typed(s), NEW r, r = ScheduleInterval(s)
    PROVE  /\ Typed(r) /\ r.probes = s.probes
           /\ r.health.on /\ r.health.gen = s.gen
           /\ \/ s.health.on /\ s.health.gen = s.gen /\ r.health.probe = s.health.probe
              \/ r.health.probe = 0 /\ "probe" \notin r.armed
           /\ Life(r, s) /\ Stage(r, s) /\ Dog(r, s) /\ Counts(r, s) /\ Job(r, s) /\ Blame(r, s)
           /\ Clocks(r, s, Kinds \ {"interval"}) /\ "interval" \in r.armed
           /\ s.armed \ {"probe"} \subseteq r.armed
<1> DEFINE same == s.health.on /\ s.health.gen = s.gen
<1>1. PICK kept : kept = IF same THEN s ELSE Disarm(s, {"probe"})
  BY Zenon
<1>2. PICK p : p = IF same THEN s.health.probe ELSE 0
  BY Zenon
<1>3. /\ Typed(kept) /\ Frame(kept, s) /\ Clocks(kept, s, Kinds)
      /\ s.armed \ {"probe"} \subseteq kept.armed
      /\ ~same => "probe" \notin kept.armed
  <2>1. CASE same
    <3>1. kept = s
      BY <1>1, <2>1, Zenon
    <3> QED
      BY <2>1, <3>1, Zenon DEF Frame, Life, Stage, Checks, Dog, Counts, Job, Blame, Clocks
  <2>2. CASE ~same
    <3>1. kept = Disarm(s, {"probe"})
      BY <1>1, <2>2, Zenon
    <3> QED
      BY <2>2, <3>1, DisarmIs
  <2> QED
    BY <2>1, <2>2, Zenon
<1>4. PICK a : a = [kept EXCEPT !.health = [on |-> TRUE, gen |-> s.gen, probe |-> p]]
  BY Zenon
<1>5. /\ DOMAIN a = Fields /\ a.health = [on |-> TRUE, gen |-> s.gen, probe |-> p]
      /\ a.probes = kept.probes /\ Deadlines(a, kept) /\ a.hooks = kept.hooks
      /\ Life(a, kept) /\ Stage(a, kept) /\ Dog(a, kept) /\ Counts(a, kept) /\ Job(a, kept)
      /\ Blame(a, kept)
  BY <1>3, <1>4, Zenon DEF Typed, Fields, Deadlines, Life, Stage, Dog, Counts, Job, Blame
<1>6. p \in Nat /\ (same => p = s.health.probe) /\ (~same => p = 0)
  BY <1>2, Zenon DEF Typed
<1>7. Typed(a)
  BY <1>3, <1>5, <1>6 DEF Typed, Deadlines, Life, Stage, Dog, Counts, Job
<1>8. r = Arm(a, "interval", HealthInterval)
  BY <1>1, <1>2, <1>4, Zenon DEF ScheduleInterval
<1>9. /\ Typed(r) /\ Frame(r, a) /\ r.armed = a.armed \cup {"interval"}
      /\ \A j \in Kinds \ {"interval"} : r.due[j] = a.due[j]
  <2>1. PICK k \in Kinds : k = "interval"
    BY KindsAre, Zenon
  <2>2. r = Arm(a, k, HealthInterval) /\ HealthInterval \in Int
    BY <1>8, <2>1, ConstantsAre
  <2>3. /\ Typed(r) /\ Frame(r, a) /\ r.armed = a.armed \cup {k}
        /\ \A j \in Kinds \ {k} : r.due[j] = a.due[j]
    BY <1>7, <2>2, ArmIs
  <2> QED
    BY <2>1, <2>3, Zenon
<1>10. Clocks(r, s, Kinds \ {"interval"})
  BY <1>3, <1>5, <1>9 DEF Clocks, Deadlines
<1>11. r.health = [on |-> TRUE, gen |-> s.gen, probe |-> p] /\ r.probes = s.probes
  BY <1>3, <1>5, <1>9, Zenon DEF Frame, Checks
<1>12. \/ s.health.on /\ s.health.gen = s.gen /\ r.health.probe = s.health.probe
       \/ r.health.probe = 0 /\ "probe" \notin r.armed
  BY <1>3, <1>5, <1>6, <1>9, <1>11 DEF Deadlines
<1>13. Life(r, s) /\ Stage(r, s) /\ Dog(r, s) /\ Counts(r, s) /\ Job(r, s) /\ Blame(r, s)
  BY <1>3, <1>5, <1>9, Zenon DEF Frame, Life, Stage, Dog, Counts, Job, Blame
<1> QED
  BY <1>3, <1>5, <1>9, <1>10, <1>11, <1>12, <1>13 DEF Deadlines

\* ArmWatchdog starts the silence anew, or turns the watchdog off.
WatchdogSet(r, s, n) ==
    /\ Typed(r)
    /\ Life(r, s) /\ Stage(r, s) /\ Checks(r, s) /\ Counts(r, s) /\ Job(r, s) /\ Blame(r, s)
    /\ Clocks(r, s, Kinds \ {"watchdog"}) /\ s.armed \ {"watchdog"} \subseteq r.armed
    /\ n = 0 => r.wd = NoWatchdog /\ "watchdog" \notin r.armed
    /\ n # 0 => /\ r.wd.on /\ r.wd.gen = s.gen /\ r.wd.interval = n /\ r.quiet = 0
                /\ "watchdog" \in r.armed /\ r.due["watchdog"] = n

\* What ArmWatchdog does.
LEMMA ArmWatchdogIs ==
    ASSUME NEW s, Typed(s), NEW n \in Nat, NEW r, r = ArmWatchdog(s, n)
    PROVE  WatchdogSet(r, s, n)
<1>1. CASE n = 0
  <2>1. r = CancelWatchdog(s)
    BY <1>1, Zenon DEF ArmWatchdog
  <2>2. /\ Typed(r) /\ r.wd = NoWatchdog
        /\ Life(r, s) /\ Stage(r, s) /\ Checks(r, s) /\ Counts(r, s) /\ Job(r, s) /\ Blame(r, s)
        /\ r.armed = s.armed \ {"watchdog"} /\ Clocks(r, s, Kinds)
    BY <2>1, CancelWatchdogIs, Zenon
  <2>3. Clocks(r, s, Kinds \ {"watchdog"})
    BY <2>2, Zenon DEF Clocks
  <2> QED
    BY <1>1, <2>2, <2>3, Zenon DEF WatchdogSet
<1>2. CASE n # 0
  <2>1. PICK a : a = [s EXCEPT !.wd = [on |-> TRUE, gen |-> s.gen, interval |-> n], !.quiet = 0]
    BY Zenon
  <2>2. /\ DOMAIN a = Fields /\ a.wd = [on |-> TRUE, gen |-> s.gen, interval |-> n] /\ a.quiet = 0
        /\ Deadlines(a, s) /\ a.hooks = s.hooks
        /\ Life(a, s) /\ Stage(a, s) /\ Checks(a, s) /\ Counts(a, s) /\ Job(a, s) /\ Blame(a, s)
    BY <2>1, Zenon DEF Typed, Fields, Deadlines, Life, Stage, Checks, Counts, Job, Blame
  <2>3. Typed(a)
    BY <2>2 DEF Typed, Deadlines, Life, Stage, Checks, Counts, Job
  <2>4. r = Arm(a, "watchdog", n)
    BY <1>2, <2>1, Zenon DEF ArmWatchdog
  <2>5. /\ Typed(r) /\ Frame(r, a) /\ r.armed = a.armed \cup {"watchdog"} /\ r.due["watchdog"] = n
        /\ \A j \in Kinds \ {"watchdog"} : r.due[j] = a.due[j]
    <3>1. PICK k \in Kinds : k = "watchdog"
      BY KindsAre, Zenon
    <3>2. r = Arm(a, k, n) /\ n \in Int
      BY <2>4, <3>1
    <3>3. /\ Typed(r) /\ Frame(r, a) /\ r.armed = a.armed \cup {k} /\ r.due[k] = n
          /\ \A j \in Kinds \ {k} : r.due[j] = a.due[j]
      BY <2>3, <3>2, ArmIs
    <3> QED
      BY <3>1, <3>3, Zenon
  <2>6. Clocks(r, s, Kinds \ {"watchdog"}) /\ s.armed \ {"watchdog"} \subseteq r.armed
    BY <2>2, <2>5, Zenon DEF Clocks, Deadlines
  <2>7. Life(r, s) /\ Stage(r, s) /\ Checks(r, s) /\ Counts(r, s) /\ Job(r, s) /\ Blame(r, s)
    BY <2>2, <2>5, Zenon DEF Frame, Life, Stage, Checks, Counts, Job, Blame
  <2>8. r.wd.on /\ r.wd.gen = s.gen /\ r.wd.interval = n /\ r.quiet = 0
    BY <2>2, <2>5 DEF Frame, Dog
  <2> QED
    BY <1>2, <2>5, <2>6, <2>7, <2>8, Zenon DEF WatchdogSet
<1> QED
  BY <1>1, <1>2, Zenon

\* The health half of ActiveIsSupervised.
Probing(s) == s.def.health => s.health.on /\ s.health.gen = s.gen /\ "interval" \in s.armed

\* Setting the watchdog of an active service leaves it supervised.
LEMMA ArmWatchdogGood ==
    ASSUME NEW s, Base(s), s.state = "Active", ~s.hooks.on => Probing(s),
           ChecksDoNotOutlive => Counted(s),
           NEW n \in Nat, n # 0 => s.def.watchdog > 0 \/ s.def.runtime # {},
           n = 0 => s.def.watchdog = 0 \/ 0 \in s.def.runtime,
           NEW r, r = ArmWatchdog(s, n)
    PROVE  SInv(r) /\ Plain(s, r)
<1>1. /\ Typed(r)
      /\ Life(r, s) /\ Stage(r, s) /\ Checks(r, s) /\ Counts(r, s) /\ Job(r, s) /\ Blame(r, s)
      /\ Clocks(r, s, Kinds \ {"watchdog"}) /\ s.armed \ {"watchdog"} \subseteq r.armed
      /\ n = 0 => r.wd = NoWatchdog /\ "watchdog" \notin r.armed
      /\ n # 0 => /\ r.wd.on /\ r.wd.gen = s.gen /\ r.wd.interval = n /\ r.quiet = 0
                  /\ "watchdog" \in r.armed /\ r.due["watchdog"] = n
  <2>1. Typed(s)
    BY Zenon DEF Base
  <2>2. WatchdogSet(r, s, n)
    BY <2>1, ArmWatchdogIs, Zenon
  <2> QED
    BY <2>2, Zenon DEF WatchdogSet
<1>2. r.state = s.state /\ r.op = s.op
  BY <1>1, Zenon DEF Stage
<1>3. \A k \in {"ready", "stop", "command", "backoff", "probe", "job"} :
          k \in r.armed => k \in s.armed /\ r.due[k] = s.due[k]
  BY <1>1, KindsAre, Zenon DEF Clocks
<1>4. Capped(r)
  BY <1>2, <1>3, Zenon DEF Base, Capped
<1>5. Silent(r)
  BY <1>1 DEF Silent, NoWatchdog
<1>6. Paced(r)
  BY <1>1, <1>3, Zenon DEF Base, Paced, Job
<1>7. Owned(r)
  BY <1>1, <1>3 DEF Base, Owned, Life, Checks, NoWatchdog
<1>8. Supervised(r)
  BY <1>1, ConstantsAre DEF Supervised, Probing, Life, Stage, Checks, Base, Typed
<1>9. ChecksDoNotOutlive => Counted(r)
  BY <1>1, Zenon DEF Counted, Life, Stage, Checks, Counts
<1> QED
  BY <1>1, <1>4, <1>5, <1>6, <1>7, <1>8, <1>9, Zenon DEF SInv, Base, Plain, Job, Blame

\* Setting the health interval of an active service, or dropping the record
\* where there are no checks, leaves the record right.
LEMMA HealthScheduled ==
    ASSUME NEW s, Base(s), s.state = "Active",
           ChecksDoNotOutlive =>
               /\ s.bad <= s.fails /\ s.bad < Retries
               /\ s.health.on /\ s.health.gen = s.gen /\ s.health.probe # 0 =>
                      s.probes[s.health.probe].gen = s.gen,
           NEW r, r = ScheduleActiveServiceHealth(s)
    PROVE  /\ Base(r) /\ Probing(r) /\ (ChecksDoNotOutlive => Counted(r))
           /\ Life(r, s) /\ Stage(r, s) /\ Job(r, s) /\ Blame(r, s)
           /\ r.probes = s.probes /\ Counts(r, s) /\ Dog(r, s)
           /\ "watchdog" \in s.armed => "watchdog" \in r.armed
<1>1. /\ Typed(r) /\ r.probes = s.probes
      /\ Life(r, s) /\ Stage(r, s) /\ Dog(r, s) /\ Counts(r, s) /\ Job(r, s) /\ Blame(r, s)
      /\ Clocks(r, s, Kinds \ {"interval"})
      /\ \/ /\ s.def.health /\ r.health.on /\ r.health.gen = s.gen /\ "interval" \in r.armed
            /\ \/ s.health.on /\ s.health.gen = s.gen /\ r.health.probe = s.health.probe
               \/ r.health.probe = 0 /\ "probe" \notin r.armed
         \/ ~s.def.health /\ r.health = NoHealth /\ "probe" \notin r.armed
      /\ "watchdog" \in s.armed => "watchdog" \in r.armed
  <2>1. CASE s.def.health
    <3>1. r = ScheduleInterval(s)
      BY <2>1, Zenon DEF ScheduleActiveServiceHealth, HealthEnabled
    <3> QED
      BY <2>1, <3>1, ScheduleIntervalIs DEF Base
  <2>2. CASE ~s.def.health
    <3>1. r = CancelHealth(s)
      BY <2>2, Zenon DEF ScheduleActiveServiceHealth, HealthEnabled
    <3>2. /\ Typed(r) /\ r.health = NoHealth /\ r.probes = s.probes
          /\ Life(r, s) /\ Stage(r, s) /\ Dog(r, s) /\ Counts(r, s) /\ Job(r, s) /\ Blame(r, s)
          /\ r.armed = s.armed \ {"interval", "probe"} /\ Clocks(r, s, Kinds)
      BY <3>1, CancelHealthIs, Zenon DEF Base
    <3>3. Clocks(r, s, Kinds \ {"interval"})
      BY <3>2, Zenon DEF Clocks
    <3> QED
      BY <2>2, <3>2, <3>3, Zenon
  <2> QED
    BY <2>1, <2>2, Zenon
<1>2. r.state = s.state /\ r.op = s.op /\ r.def = s.def /\ r.gen = s.gen
  BY <1>1, Zenon DEF Stage, Life
<1>3. \A k \in {"ready", "stop", "command", "backoff", "probe", "watchdog", "job"} :
          k \in r.armed => k \in s.armed /\ r.due[k] = s.due[k]
  BY <1>1, KindsAre, Zenon DEF Clocks
<1>4. Capped(r)
  BY <1>2, <1>3, Zenon DEF Base, Capped
<1>5. Silent(r) /\ Paced(r)
  BY <1>1, <1>3, Zenon DEF Base, Silent, Paced, Dog, Job
<1>6. Owned(r)
  <2>1. r.health.gen <= r.gen
    BY <1>1, <1>2 DEF Base, Typed, NoHealth
  <2>2. r.wd = s.wd
    BY <1>1, Zenon DEF Dog
  <2> QED
    BY <1>1, <1>2, <1>3, <2>1, <2>2 DEF Base, Owned, NoHealth
<1>7. Probing(r)
  BY <1>1, <1>2, Zenon DEF Probing
<1>8. ASSUME ChecksDoNotOutlive PROVE Counted(r)
  BY <1>1, <1>2, <1>8 DEF Counted, Counts, NoHealth
<1> QED
  BY <1>1, <1>4, <1>5, <1>6, <1>7, <1>8, Zenon DEF Base

\* A service that is active is supervised from then on.
LEMMA SuperviseGood ==
    ASSUME NEW s, Base(s), s.state = "Active",
           ChecksDoNotOutlive =>
               /\ s.bad <= s.fails /\ s.bad < Retries
               /\ s.health.on /\ s.health.gen = s.gen /\ s.health.probe # 0 =>
                      s.probes[s.health.probe].gen = s.gen,
           NEW from, NEW r, r = Supervise(s, from)
    PROVE  SInv(r) /\ Plain(s, r)
<1>1. PICK a : a = ScheduleActiveServiceHealth(s)
  BY Zenon
<1>2. /\ Base(a) /\ Probing(a) /\ (ChecksDoNotOutlive => Counted(a))
      /\ Life(a, s) /\ Stage(a, s) /\ Job(a, s) /\ Blame(a, s)
  BY <1>1, HealthScheduled, Zenon
<1>3. PICK n : n = a.def.watchdog
  BY Zenon
<1>4. r = ArmWatchdog(a, n)
  BY <1>1, <1>3, Zenon DEF Supervise, ScheduleActiveServiceWatchdog
<1>5. n \in Nat /\ a.state = "Active"
  BY <1>2, <1>3, ConstantsAre, Zenon DEF Base, Typed, Stage
<1>6. SInv(r) /\ Plain(a, r)
  <2>1. n # 0 => a.def.watchdog > 0 \/ a.def.runtime # {}
    BY <1>3, <1>5
  <2>2. n = 0 => a.def.watchdog = 0 \/ 0 \in a.def.runtime
    BY <1>3, Zenon
  <2> QED
    BY <1>2, <1>4, <1>5, <2>1, <2>2, ArmWatchdogGood, Zenon
<1> QED
  BY <1>2, <1>6, Zenon DEF Plain, Job, Blame

(***************************************************************************)
(* Transitions out of the active state.                                    *)
(***************************************************************************)
\* r is s with the service down: its deadlines are those s had, its records
\* too or dropped, its operation too or a new one.
Down(r, s) ==
    /\ Typed(r) /\ Life(r, s) /\ Job(r, s)
    /\ Clocks(r, s, {"stop", "command", "watchdog", "probe", "job"})
    /\ "ready" \notin r.armed /\ ("backoff" \in r.armed => r.state = "Backoff")
    /\ r.op = s.op \/ r.op.age = 0
    /\ r.health = s.health \/ (r.health = NoHealth /\ "probe" \notin r.armed)
    /\ Dog(r, s) \/ (r.wd = NoWatchdog /\ "watchdog" \notin r.armed)
    /\ r.state # "Starting" /\ r.state # "Active"

\* A service that goes down keeps the invariant.
LEMMA DownGood ==
    ASSUME NEW s, Base(s), NEW r, Down(r, s),
           ChecksDoNotOutlive =>
               /\ r.state = "Reloading" =>
                     s.bad <= s.fails /\ s.bad < Retries /\ Counts(r, s) /\ r.health.probe = 0
               /\ r.def.hooks > 0 => r.health.probe = 0
    PROVE  SInv(r)
<1>1. \A k \in {"stop", "command", "watchdog", "probe", "job"} :
          k \in r.armed => k \in s.armed /\ r.due[k] = s.due[k]
  BY Zenon DEF Down, Clocks
<1>2. Capped(r)
  <2>1. "stop" \in r.armed => /\ r.due["stop"] <= 4 * StopTimeout
                              /\ r.op.type = "Stop" => r.op.age + r.due["stop"] <= 4 * StopTimeout
    <3>1. CASE r.op = s.op
      BY <1>1, <3>1, Zenon DEF Base, Capped
    <3>2. CASE r.op.age = 0
      BY <1>1, <3>2, KindsAre DEF Base, Capped, Down, Typed
    <3> QED
      BY <3>1, <3>2, Zenon DEF Down
  <2>2. "command" \in r.armed =>
            /\ r.due["command"] <= 4 * StartTimeout
            /\ r.op.type = "Reload" => r.op.age + r.due["command"] <= 4 * StartTimeout
    <3>1. CASE r.op = s.op
      BY <1>1, <3>1, Zenon DEF Base, Capped
    <3>2. CASE r.op.age = 0
      BY <1>1, <3>2, KindsAre DEF Base, Capped, Down, Typed
    <3> QED
      BY <3>1, <3>2, Zenon DEF Down
  <2> QED
    BY <2>1, <2>2, Zenon DEF Capped, Down
<1>3. Silent(r)
  BY <1>1 DEF Base, Silent, Down, Dog, NoWatchdog
<1>4. Paced(r)
  BY <1>1, Zenon DEF Base, Paced, Down, Job
<1>5. Owned(r)
  <2>1. r.def = s.def /\ r.gen = s.gen
    BY Zenon DEF Down, Life
  <2>2. /\ r.health.on => r.def.health
        /\ ~r.health.on => r.health.probe = 0
        /\ r.health.gen <= r.gen
        /\ "probe" \in r.armed => r.health.probe \in Probes
        /\ r.health.probe # 0 => r.health.probe \in Probes
    <3>1. CASE r.health = s.health
      BY <1>1, <2>1, <3>1, Zenon DEF Base, Owned
    <3>2. CASE r.health = NoHealth /\ "probe" \notin r.armed
      BY <2>1, <3>2 DEF Base, Typed, NoHealth
    <3> QED
      BY <3>1, <3>2, Zenon DEF Down
  <2>3. r.wd.on => r.def.watchdog > 0 \/ r.def.runtime # {}
    BY <2>1 DEF Base, Owned, Down, Dog, NoWatchdog
  <2> QED
    BY <2>2, <2>3, Zenon DEF Owned
<1>6. Supervised(r)
  BY Zenon DEF Supervised, Down
<1>7. ChecksDoNotOutlive => Counted(r)
  BY Zenon DEF Counted, Down, Counts
<1> QED
  BY <1>2, <1>3, <1>4, <1>5, <1>6, <1>7, Zenon DEF SInv, Base, Down

\* Blame and retries come only from the watchdog, a probe and the job's
\* deadline.
LEMMA PlainIsGood ==
    ASSUME NEW s, NEW r, SInv(r), Plain(s, r)
    PROVE  Good(s, r)
BY Zenon DEF Good, Blamed, Retried, Plain

\* Steps without blame compose.
LEMMA PlainThenPlain ==
    ASSUME NEW s, NEW a, NEW r, Plain(s, a), Plain(a, r)
    PROVE  Plain(s, r)
BY Zenon DEF Plain

\* r is s with the service waiting for its restart, or failed.
TakenDown(r, s) ==
    /\ Typed(r) /\ Life(r, s) /\ Checks(r, s) /\ Dog(r, s) /\ Counts(r, s) /\ Job(r, s)
    /\ r.op = s.op
    /\ Clocks(r, s, Kinds \ {"backoff"}) /\ r.armed \ {"backoff"} = s.armed
    /\ r.state \in {"Backoff", "Failed"} /\ ("backoff" \in r.armed => r.state = "Backoff")

\* A restart or a failure takes the service down and touches nothing else.
LEMMA RestartOrFailIs ==
    ASSUME NEW s, Typed(s), "backoff" \notin s.armed, NEW r, r = RestartOrFail(s)
    PROVE  TakenDown(r, s) /\ Blame(r, s)
<1>1. CASE s.restarts < s.def.budget
  <2>1. PICK a : a = [s EXCEPT !.state = "Backoff", !.restarts = @ + 1]
    BY Zenon
  <2>2. /\ DOMAIN a = Fields /\ a.state = "Backoff" /\ a.op = s.op /\ a.hooks = s.hooks
        /\ Deadlines(a, s) /\ Life(a, s) /\ Checks(a, s) /\ Dog(a, s) /\ Counts(a, s) /\ Job(a, s)
        /\ Blame(a, s)
    BY <2>1, Zenon DEF Typed, Fields, Deadlines, Life, Checks, Dog, Counts, Job, Blame
  <2>3. Typed(a)
    BY <2>2, Zenon DEF Typed, Deadlines, Life, Checks, Dog, Counts, Job
  <2>4. PICK k \in Kinds : k = "backoff"
    BY KindsAre, Zenon
  <2>5. r = Arm(a, k, BackoffDelay) /\ BackoffDelay \in Int
    BY <1>1, <2>1, <2>4, ConstantsAre DEF RestartOrFail
  <2>6. /\ Typed(r) /\ Frame(r, a) /\ r.armed = a.armed \cup {k}
        /\ \A j \in Kinds \ {k} : r.due[j] = a.due[j]
    BY <2>3, <2>5, ArmIs
  <2>8. Clocks(r, s, Kinds \ {"backoff"}) /\ r.armed \ {"backoff"} = s.armed
    BY <2>2, <2>4, <2>6, Zenon DEF Clocks, Deadlines
  <2>9. Life(r, s) /\ Checks(r, s) /\ Dog(r, s) /\ Counts(r, s) /\ Job(r, s) /\ Blame(r, s)
    BY <2>2, <2>6, Zenon DEF Frame, Life, Checks, Dog, Counts, Job, Blame
  <2>10. r.op = s.op /\ r.state = "Backoff"
    BY <2>2, <2>6, Zenon DEF Frame, Stage
  <2> QED
    BY <2>2, <2>6, <2>8, <2>9, <2>10, Zenon DEF TakenDown
<1>2. CASE ~(s.restarts < s.def.budget)
  <2>1. r = [s EXCEPT !.state = "Failed"]
    BY <1>2, Zenon DEF RestartOrFail
  <2>2. /\ DOMAIN r = Fields /\ r.state = "Failed" /\ r.op = s.op /\ r.hooks = s.hooks
        /\ Deadlines(r, s) /\ Life(r, s) /\ Checks(r, s) /\ Dog(r, s) /\ Counts(r, s) /\ Job(r, s)
        /\ Blame(r, s)
    BY <2>1 DEF Typed, Fields, Deadlines, Life, Checks, Dog, Counts, Job, Blame
  <2>3. Typed(r)
    BY <2>2, Zenon DEF Typed, Deadlines, Life, Checks, Dog, Counts, Job
  <2>4. Clocks(r, s, Kinds \ {"backoff"}) /\ r.armed \ {"backoff"} = s.armed
    BY <2>2, Zenon DEF Clocks, Deadlines
  <2> QED
    BY <2>2, <2>3, <2>4, Zenon DEF TakenDown, Deadlines
<1> QED
  BY <1>1, <1>2, Zenon

\* Launching the main process begins an activation nothing is held against.
LEMMA LaunchMainGood ==
    ASSUME NEW s, SInv(s), s.state \in {"Inactive", "Failed", "Backoff"}, "backoff" \notin s.armed,
           NEW r, r = LaunchMain(s)
    PROVE  SInv(r) /\ Plain(s, r)
<1>1. PICK a : a = [s EXCEPT !.state = "Starting", !.gen = @ + 1, !.main = TRUE, !.killed = "no",
                  !.op = [type |-> "Start", age |-> 0], !.bad = 0, !.fails = 0, !.blame = "none"]
  BY Zenon
<1>2. Typed(s) /\ Capped(s) /\ Silent(s) /\ Paced(s) /\ Owned(s) /\ (ChecksDoNotOutlive => Counted(s))
  BY Zenon DEF SInv, Base
<1>3. /\ DOMAIN a = Fields /\ a.state = "Starting" /\ a.gen = s.gen + 1 /\ a.def = s.def
      /\ a.op = [type |-> "Start", age |-> 0] /\ a.bad = 0 /\ a.fails = 0 /\ a.blame = "none"
      /\ a.hooks = s.hooks /\ Deadlines(a, s) /\ Checks(a, s) /\ Dog(a, s) /\ Job(a, s)
  BY <1>1, <1>2, Zenon DEF Typed, Fields, Deadlines, Checks, Dog, Job
<1>4. Typed(a)
  BY <1>2, <1>3 DEF Typed, Deadlines, Checks, Dog, Job
<1>5. Capped(a)
  <2>1. "ready" \notin s.armed
    BY <1>2, Zenon DEF Capped
  <2> QED
    BY <1>2, <1>3, <2>1 DEF Capped, Deadlines
<1>6. Silent(a) /\ Paced(a)
  BY <1>2, <1>3, Zenon DEF Silent, Paced, Dog, Job, Deadlines
<1>7. Owned(a)
  BY <1>2, <1>3 DEF Typed, Owned, Checks, Dog, Deadlines
<1>8. Supervised(a)
  BY <1>3, Zenon DEF Supervised
<1>9. ASSUME ChecksDoNotOutlive PROVE Counted(a)
  <2>1. s.health.gen <= s.gen /\ s.health.gen \in Nat /\ s.gen \in Nat
    BY <1>2, Zenon DEF Typed, Owned
  <2>2. a.health = s.health
    BY <1>3, Zenon DEF Checks
  <2>3. s.def.hooks > 0 => s.health.probe = 0
    BY <1>2, <1>9, Zenon DEF Counted
  <2> QED
    BY <1>3, <2>1, <2>2, <2>3 DEF Counted
<1>10. SInv(a) /\ Plain(s, a)
  BY <1>3, <1>4, <1>5, <1>6, <1>7, <1>8, <1>9, Zenon DEF SInv, Base, Plain, Job
<1>11. PICK k \in Kinds : k = "ready"
  BY KindsAre, Zenon
<1>12. r = Arm(a, k, StartTimeout) /\ StartTimeout \in Int
  BY <1>1, <1>11, ConstantsAre DEF LaunchMain
<1>13. a.op.age + StartTimeout <= 4 * StartTimeout
  BY <1>3, ConstantsAre
<1>14. SInv(r) /\ Plain(a, r)
  BY <1>3, <1>10, <1>11, <1>12, <1>13, ArmGood, Zenon
<1> QED
  BY <1>10, <1>14, PlainThenPlain, Zenon

\* An internal error ends the instance: an active or reloading service fails.
LEMMA ContainGood ==
    ASSUME NEW s, SInv(s), NEW r, r = Contain(s)
    PROVE  SInv(r) /\ Plain(s, r)
<1>1. PICK st : st = IF "InternalError" \in AllowedCauses(s.state, "Failed") THEN "Failed" ELSE s.state
  BY Zenon
<1>2. st \notin {"Starting", "Active", "Reloading"}
  <2>1. CASE s.state = "Starting"
    BY <1>1, <2>1, Zenon DEF AllowedCauses
  <2>2. CASE s.state = "Active"
    BY <1>1, <2>2, Zenon DEF AllowedCauses
  <2>3. CASE s.state = "Reloading"
    BY <1>1, <2>3, Zenon DEF AllowedCauses
  <2>4. CASE s.state \notin {"Starting", "Active", "Reloading"}
    BY <1>1, <2>4, Zenon
  <2> QED
    BY <2>1, <2>2, <2>3, <2>4, Zenon
<1>3. PICK n : n = s.strays + (IF s.hooks.on THEN 1 ELSE 0) + (IF s.orphan THEN 1 ELSE 0)
                                  + (IF s.cmd # "none" THEN 1 ELSE 0)
  BY Zenon
<1>4. PICK a : a = [s EXCEPT !.state = st, !.main = FALSE, !.op = NoOp, !.strays = n,
                     !.hooks = NoHooks, !.orphan = FALSE,
                     !.cmd = "none", !.confirmed = FALSE, !.phase = "none",
                     !.health = NoHealth, !.wd = NoWatchdog]
  BY Zenon
<1>5. Typed(s) /\ Base(s)
  BY Zenon DEF SInv, Base
<1>6. /\ DOMAIN a = Fields /\ a.state = st /\ a.op = NoOp /\ a.hooks = NoHooks
      /\ a.health = NoHealth /\ a.wd = NoWatchdog /\ a.probes = s.probes /\ a.quiet = s.quiet
      /\ Life(a, s) /\ Counts(a, s) /\ Job(a, s) /\ Blame(a, s) /\ Deadlines(a, s)
  BY <1>4, <1>5, Zenon DEF Typed, Fields, Life, Counts, Job, Blame, Deadlines
<1>7. Typed(a)
  BY <1>5, <1>6
  DEF Typed, Life, Counts, Job, Deadlines, NoOp, NoHooks, NoHealth, NoWatchdog
<1>8. r = Disarm(a, Kinds \ ContainKeeps)
  BY <1>1, <1>3, <1>4 DEF Contain
<1>9. Typed(r) /\ Frame(r, a) /\ r.armed = a.armed \ (Kinds \ ContainKeeps) /\ Clocks(r, a, Kinds)
  BY <1>7, <1>8, DisarmIs, Zenon
<1>10. /\ "ready" \notin r.armed /\ "backoff" \notin r.armed /\ "probe" \notin r.armed
       /\ "watchdog" \notin r.armed
  BY <1>9, KindsAre, Zenon DEF ContainKeeps
<1>11. Clocks(r, s, {"stop", "command", "watchdog", "probe", "job"})
  BY <1>6, <1>9, KindsAre, Zenon DEF Clocks, Deadlines
<1>12. /\ Life(r, s) /\ Job(r, s) /\ Blame(r, s) /\ r.state = st /\ r.op = NoOp
       /\ r.health = NoHealth /\ r.wd = NoWatchdog
  BY <1>6, <1>9, Zenon DEF Frame, Life, Job, Blame, Stage, Checks, Dog
<1>13. r.op.age = 0 /\ r.health.probe = 0
  BY <1>12 DEF NoOp, NoHealth
<1>14. Down(r, s)
  BY <1>2, <1>9, <1>10, <1>11, <1>12, <1>13, Zenon DEF Down
<1>15. SInv(r)
  BY <1>2, <1>5, <1>12, <1>13, <1>14, DownGood, Zenon
<1> QED
  BY <1>12, <1>15, Zenon DEF Plain, Job, Blame

(***************************************************************************)
(* The start and its hooks.                                                *)
(***************************************************************************)
\* A start that fails is over, its deadline with it.
LEMMA StartFailedGood ==
    ASSUME NEW s, SInv(s), s.state = "Starting", NEW r, r = StartFailed(s)
    PROVE  SInv(r) /\ Plain(s, r)
<1>1. PICK a : a = Disarm(s, {"ready"})
  BY Zenon
<1>2. Typed(s) /\ Base(s) /\ "backoff" \notin s.armed
  BY Zenon DEF SInv, Base, Capped
<1>3. Typed(a) /\ Frame(a, s) /\ a.armed = s.armed \ {"ready"} /\ Clocks(a, s, Kinds)
  BY <1>1, <1>2, DisarmIs, Zenon
<1>4. PICK b : b = RestartOrFail(a)
  BY Zenon
<1>5. /\ Typed(b) /\ Life(b, a) /\ Checks(b, a) /\ Dog(b, a) /\ Counts(b, a) /\ Job(b, a)
      /\ Blame(b, a) /\ b.op = a.op
      /\ Clocks(b, a, Kinds \ {"backoff"}) /\ b.armed \ {"backoff"} = a.armed
      /\ b.state \in {"Backoff", "Failed"} /\ ("backoff" \in b.armed => b.state = "Backoff")
  <2>1. TakenDown(b, a) /\ Blame(b, a)
    BY <1>2, <1>3, <1>4, RestartOrFailIs, Zenon
  <2> QED
    BY <2>1, Zenon DEF TakenDown
<1>6. r = [b EXCEPT !.op = NoOp]
  BY <1>1, <1>4, Zenon DEF StartFailed, EndOp
<1>7. /\ DOMAIN r = Fields /\ r.op = NoOp /\ r.state = b.state /\ r.hooks = b.hooks
      /\ Deadlines(r, b) /\ Life(r, b) /\ Checks(r, b) /\ Dog(r, b) /\ Counts(r, b) /\ Job(r, b)
      /\ Blame(r, b)
  BY <1>5, <1>6 DEF Typed, Fields, Deadlines, Life, Checks, Dog, Counts, Job, Blame
<1>8. Typed(r) /\ r.op.age = 0
  BY <1>5, <1>7 DEF Typed, Deadlines, Life, Checks, Dog, Counts, Job, NoOp
<1>9. Clocks(r, s, {"stop", "command", "watchdog", "probe", "job"})
  BY <1>3, <1>5, <1>7, KindsAre DEF Clocks, Deadlines
<1>10. /\ Life(r, s) /\ Job(r, s) /\ Dog(r, s) /\ Blame(r, s) /\ r.health = s.health
       /\ "ready" \notin r.armed /\ ("backoff" \in r.armed => r.state = "Backoff")
  BY <1>3, <1>5, <1>7 DEF Frame, Life, Job, Dog, Blame, Checks, Deadlines
<1>11. Down(r, s)
  BY <1>5, <1>7, <1>8, <1>9, <1>10, Zenon DEF Down
<1>12. ChecksDoNotOutlive /\ r.def.hooks > 0 => r.health.probe = 0
  BY <1>10, Zenon DEF SInv, Counted, Life
<1>13. SInv(r)
  BY <1>2, <1>5, <1>7, <1>11, <1>12, DownGood, Zenon
<1> QED
  BY <1>10, <1>13, Zenon DEF Plain, Job, Blame

\* A service that is ready is active; it is supervised at once, or its hooks
\* are run first.
LEMMA CompleteStartReadinessGood ==
    ASSUME NEW s, SInv(s), s.state = "Starting", NEW r, r = CompleteStartReadiness(s)
    PROVE  SInv(r) /\ Plain(s, r)
<1>1. PICK a : a = Disarm(s, {"ready"})
  BY Zenon
<1>2. /\ Typed(s) /\ Capped(s) /\ Silent(s) /\ Paced(s) /\ Owned(s)
      /\ (ChecksDoNotOutlive => Counted(s))
  BY Zenon DEF SInv, Base
<1>3. Typed(a) /\ Frame(a, s) /\ a.armed = s.armed \ {"ready"} /\ Clocks(a, s, Kinds)
  BY <1>1, <1>2, DisarmIs, Zenon
<1>4. PICK b : b = [a EXCEPT !.state = "Active"]
  BY Zenon
<1>5. CASE s.def.hooks = 0
  <2>1. PICK c : c = [b EXCEPT !.op = NoOp]
    BY Zenon
  <2>2. r = Supervise(c, s.state)
    BY <1>1, <1>4, <1>5, <2>1, Zenon DEF CompleteStartReadiness, EndOp
  <2>3. /\ DOMAIN c = Fields /\ c.state = "Active" /\ c.op = NoOp /\ c.hooks = a.hooks
        /\ Deadlines(c, a) /\ Life(c, a) /\ Checks(c, a) /\ Dog(c, a) /\ Counts(c, a)
        /\ Job(c, a) /\ Blame(c, a)
    BY <1>3, <1>4, <2>1, Zenon DEF Typed, Fields, Deadlines, Life, Checks, Dog, Counts, Job, Blame
  <2>4. Typed(c)
    BY <1>3, <2>3 DEF Typed, Deadlines, Life, Checks, Dog, Counts, Job, NoOp
  <2>5. /\ Life(c, s) /\ Checks(c, s) /\ Dog(c, s) /\ Counts(c, s) /\ Job(c, s) /\ Blame(c, s)
        /\ c.armed = s.armed \ {"ready"}
    BY <1>3, <2>3, Zenon DEF Frame, Deadlines, Life, Checks, Dog, Counts, Job, Blame
  <2>6. \A k \in {"stop", "command", "watchdog"} :
            k \in c.armed => k \in s.armed /\ c.due[k] = s.due[k]
    BY <1>3, <2>3, KindsAre, Zenon DEF Clocks, Deadlines
  <2>7. Capped(c)
    <3>1. "ready" \notin c.armed /\ "backoff" \notin c.armed
      BY <1>2, <2>5, Zenon DEF Capped
    <3>2. c.op.type = "none"
      BY <2>3 DEF NoOp
    <3> QED
      BY <1>2, <2>6, <3>1, <3>2, Zenon DEF Capped
  <2>8. Silent(c) /\ Paced(c)
    BY <1>2, <2>5, <2>6, Zenon DEF Silent, Paced, Dog, Job
  <2>9. Owned(c)
    BY <1>2, <2>5, Zenon DEF Owned, Life, Checks, Dog
  <2>10. Base(c)
    BY <2>4, <2>7, <2>8, <2>9, Zenon DEF Base
  <2>11. ASSUME ChecksDoNotOutlive
         PROVE  /\ c.bad <= c.fails /\ c.bad < Retries
                /\ ~(c.health.on /\ c.health.gen = c.gen)
    <3>1. s.bad = 0 /\ (s.health.on => s.health.gen < s.gen)
      BY <1>2, <2>11, Zenon DEF Counted
    <3> QED
      BY <1>2, <2>5, <3>1, ConstantsAre DEF Life, Checks, Counts, Typed
  <2>12. SInv(r) /\ Plain(c, r)
    BY <2>2, <2>3, <2>10, <2>11, SuperviseGood, Zenon
  <2> QED
    BY <2>5, <2>12, Zenon DEF Plain, Job, Blame
<1>6. CASE s.def.hooks # 0
  <2>1. PICK left : left = s.def.hooks - 1
    BY Zenon
  <2>2. left \in Int
    BY <1>2, <2>1, ConstantsAre DEF Typed
  <2>3. PICK c : c = [b EXCEPT !.hooks = [on |-> TRUE, left |-> left]]
    BY Zenon
  <2>4. PICK t : t = Larger(0, StartTimeout - s.op.age)
    BY Zenon
  <2>5. t \in Int
    BY <1>2, <2>4, ConstantsAre DEF Larger, Typed
  <2>6. PICK k \in Kinds : k = "hook"
    BY KindsAre, Zenon
  <2>7. r = Arm(c, k, t)
    BY <1>1, <1>4, <1>6, <2>1, <2>3, <2>4, <2>6, Zenon DEF CompleteStartReadiness
  <2>8. /\ DOMAIN c = Fields /\ c.state = "Active" /\ c.op = a.op
        /\ c.hooks = [on |-> TRUE, left |-> left]
        /\ Deadlines(c, a) /\ Life(c, a) /\ Checks(c, a) /\ Dog(c, a) /\ Counts(c, a)
        /\ Job(c, a) /\ Blame(c, a)
    BY <1>3, <1>4, <2>3, Zenon DEF Typed, Fields, Deadlines, Life, Checks, Dog, Counts, Job, Blame
  <2>9. Typed(c)
    BY <1>3, <2>2, <2>8 DEF Typed, Deadlines, Life, Checks, Dog, Counts, Job
  <2>10. /\ Life(c, s) /\ Checks(c, s) /\ Dog(c, s) /\ Counts(c, s) /\ Job(c, s) /\ Blame(c, s)
         /\ c.armed = s.armed \ {"ready"} /\ c.op = s.op
    BY <1>3, <2>8, Zenon DEF Frame, Stage, Deadlines, Life, Checks, Dog, Counts, Job, Blame
  <2>11. \A j \in {"stop", "command", "watchdog"} :
            j \in c.armed => j \in s.armed /\ c.due[j] = s.due[j]
    BY <1>3, <2>8, KindsAre, Zenon DEF Clocks, Deadlines
  <2>12. Capped(c)
    <3>1. "ready" \notin c.armed /\ "backoff" \notin c.armed
      BY <1>2, <2>10, Zenon DEF Capped
    <3> QED
      BY <1>2, <2>10, <2>11, <3>1, Zenon DEF Capped
  <2>13. Silent(c) /\ Paced(c)
    BY <1>2, <2>10, <2>11, Zenon DEF Silent, Paced, Dog, Job
  <2>14. Owned(c)
    BY <1>2, <2>10, Zenon DEF Owned, Life, Checks, Dog
  <2>15. Supervised(c)
    BY <2>8 DEF Supervised
  <2>16. ASSUME ChecksDoNotOutlive PROVE Counted(c)
    <3>1. s.bad = 0 /\ (s.def.hooks > 0 => s.health.probe = 0)
      BY <1>2, <2>16, Zenon DEF Counted
    <3>2. s.def.hooks > 0
      BY <1>2, <1>6, ConstantsAre DEF Typed
    <3> QED
      BY <1>2, <2>8, <2>10, <3>1, <3>2, ConstantsAre DEF Counted, Checks, Counts, Typed
  <2>17. SInv(c) /\ Plain(s, c)
    BY <2>9, <2>10, <2>12, <2>13, <2>14, <2>15, <2>16, Zenon DEF SInv, Base, Plain, Job, Blame
  <2>18. SInv(r) /\ Plain(c, r)
    BY <2>5, <2>6, <2>7, <2>17, ArmGood, Zenon
  <2> QED
    BY <2>17, <2>18, PlainThenPlain, Zenon
<1> QED
  BY <1>5, <1>6, Zenon

\* When the hooks are over the start is, and the service is supervised if it
\* is still active.
LEMMA CompletePostStartGood ==
    ASSUME NEW s, SInv(s), NEW r, r = CompletePostStartOperation(s)
    PROVE  SInv(r) /\ Plain(s, r)
<1>1. PICK a : a = Disarm(s, {"hook"})
  BY Zenon
<1>2. SInv(a) /\ Plain(s, a)
  BY <1>1, DisarmGood, Zenon
<1>3. PICK b : b = [a EXCEPT !.hooks = NoHooks]
  BY Zenon
<1>4. PICK c : c = [b EXCEPT !.op = NoOp]
  BY Zenon
<1>5. r = SuperviseAfterPostStart(c)
  BY <1>1, <1>3, <1>4, Zenon DEF CompletePostStartOperation, EndOp
<1>6. /\ Typed(a) /\ Capped(a) /\ Silent(a) /\ Paced(a) /\ Owned(a)
      /\ (ChecksDoNotOutlive => Counted(a))
  BY <1>2, Zenon DEF SInv, Base
<1>7. /\ DOMAIN c = Fields /\ c.hooks = NoHooks /\ c.op = NoOp /\ c.state = a.state
      /\ Deadlines(c, a) /\ Life(c, a) /\ Checks(c, a) /\ Dog(c, a) /\ Counts(c, a)
      /\ Job(c, a) /\ Blame(c, a)
  BY <1>3, <1>4, <1>6, Zenon DEF Typed, Fields, Deadlines, Life, Checks, Dog, Counts, Job, Blame
<1>8. Typed(c)
  BY <1>6, <1>7 DEF Typed, Deadlines, Life, Checks, Dog, Counts, Job, NoOp, NoHooks
<1>9. Capped(c)
  <2>1. c.op.type = "none" /\ c.op.age = 0
    BY <1>7 DEF NoOp
  <2>2. a.op.age \in Nat
    BY <1>6, Zenon DEF Typed
  <2>3. "ready" \in c.armed => c.due["ready"] \in Int
    BY <1>8, KindsAre, Zenon DEF Typed
  <2> QED
    BY <1>6, <1>7, <2>1, <2>2, <2>3, ConstantsAre DEF Capped, Deadlines
<1>10. Silent(c) /\ Paced(c)
  BY <1>6, <1>7, Zenon DEF Silent, Paced, Dog, Job, Deadlines
<1>11. Owned(c)
  BY <1>6, <1>7, Zenon DEF Owned, Life, Checks, Dog, Deadlines
<1>12. Base(c) /\ Plain(a, c)
  BY <1>7, <1>8, <1>9, <1>10, <1>11, Zenon DEF Base, Plain, Job, Blame
<1>13. ChecksDoNotOutlive => Counted(c)
  BY <1>6, <1>7, Zenon DEF Counted, Life, Checks, Counts
<1>14. SInv(r) /\ Plain(c, r)
  <2>1. CASE c.state = "Active"
    <3>1. PICK from : from = "Active"
      BY Zenon
    <3>2. r = Supervise(c, from)
      BY <1>5, <2>1, <3>1, Zenon DEF SuperviseAfterPostStart
    <3>3. ASSUME ChecksDoNotOutlive
          PROVE  /\ c.bad <= c.fails /\ c.bad < Retries
                 /\ c.health.on /\ c.health.gen = c.gen /\ c.health.probe # 0 =>
                       c.probes[c.health.probe].gen = c.gen
      BY <1>13, <2>1, <3>3, Zenon DEF Counted
    <3> QED
      BY <1>12, <2>1, <3>2, <3>3, SuperviseGood, Zenon
  <2>2. CASE c.state # "Active"
    <3>1. r = c
      BY <1>5, <2>2, Zenon DEF SuperviseAfterPostStart
    <3>2. Supervised(c)
      BY <2>2, Zenon DEF Supervised
    <3> QED
      BY <1>12, <1>13, <3>1, <3>2, Zenon DEF SInv, Plain
  <2> QED
    BY <2>1, <2>2, Zenon
<1> QED
  BY <1>2, <1>12, <1>14, PlainThenPlain, Zenon

\* A hook that ends.
LEMMA HookGood ==
    ASSUME NEW s, SInv(s), NEW r, r = PostStartHookTerminal(s)
    PROVE  SInv(r) /\ Plain(s, r)
<1>1. CASE s.hooks.left > 0
  <2>1. PICK left : left = s.hooks.left - 1
    BY Zenon
  <2>2. Typed(s)
    BY Zenon DEF SInv, Base
  <2>3. r = [s EXCEPT !.hooks = [s.hooks EXCEPT !.left = left]]
    BY <1>1, <2>1, Zenon DEF PostStartHookTerminal
  <2>4. s.hooks.left \in Int /\ left \in Int
    BY <2>1, <2>2 DEF Typed
  <2>5. DOMAIN r = Fields /\ r.hooks = [s.hooks EXCEPT !.left = left] /\ Deadlines(r, s)
    BY <2>2, <2>3, Zenon DEF Typed, Fields, Deadlines
  <2>6. r.hooks \in [on : BOOLEAN, left : Int] /\ r.hooks.on = s.hooks.on
    BY <2>2, <2>4, <2>5, Zenon DEF Typed
  <2>7. Frame(r, s)
    BY <2>2, <2>3, <2>6
    DEF Typed, Fields, Frame, Life, Stage, Checks, Dog, Counts, Job, Blame
  <2> QED
    BY <2>5, <2>6, <2>7, AlikeGood, Zenon
<1>2. CASE ~(s.hooks.left > 0)
  <2>1. r = CompletePostStartOperation(s)
    BY <1>2, Zenon DEF PostStartHookTerminal
  <2> QED
    BY <2>1, CompletePostStartGood, Zenon
<1> QED
  BY <1>1, <1>2, Zenon

(***************************************************************************)
(* Probes and the watchdog.                                                *)
(***************************************************************************)
\* The record can be dropped where it is not required.
LEMMA CancelHealthGood ==
    ASSUME NEW s, SInv(s), s.state = "Active" /\ ~s.hooks.on => ~s.def.health,
           NEW r, r = CancelHealth(s)
    PROVE  SInv(r) /\ Plain(s, r)
<1>1. /\ Typed(s) /\ Capped(s) /\ Silent(s) /\ Paced(s) /\ Owned(s) /\ Supervised(s)
      /\ (ChecksDoNotOutlive => Counted(s))
  BY Zenon DEF SInv, Base
<1>2. /\ Typed(r) /\ r.health = NoHealth /\ r.probes = s.probes
      /\ Life(r, s) /\ Stage(r, s) /\ Dog(r, s) /\ Counts(r, s) /\ Job(r, s) /\ Blame(r, s)
      /\ r.armed = s.armed \ {"interval", "probe"} /\ Clocks(r, s, Kinds)
  BY <1>1, CancelHealthIs, Zenon
<1>3. \A k \in {"ready", "stop", "command", "backoff", "watchdog", "job"} :
          k \in r.armed => k \in s.armed /\ r.due[k] = s.due[k]
  BY <1>2, KindsAre, Zenon DEF Clocks
<1>4. r.state = s.state /\ r.op = s.op /\ r.def = s.def /\ r.gen = s.gen
  BY <1>2, Zenon DEF Stage, Life
<1>5. Capped(r)
  BY <1>1, <1>3, <1>4, Zenon DEF Capped
<1>6. Silent(r) /\ Paced(r)
  BY <1>1, <1>2, <1>3, Zenon DEF Silent, Paced, Dog, Job
<1>7. Owned(r)
  BY <1>1, <1>2, <1>4 DEF Owned, Typed, Dog, NoHealth
<1>8. Supervised(r)
  BY <1>1, <1>2, <1>4, Zenon DEF Supervised, Stage, Dog
<1>9. ChecksDoNotOutlive => Counted(r)
  <2>1. r.health.probe = 0 /\ r.health.on = FALSE
    BY <1>2 DEF NoHealth
  <2> QED
    BY <1>1, <1>2, <1>4, <2>1, Zenon DEF Counted, Counts
<1> QED
  BY <1>2, <1>5, <1>6, <1>7, <1>8, <1>9, Zenon DEF SInv, Base, Plain, Job, Blame

\* So can the watchdog.
LEMMA CancelWatchdogGood ==
    ASSUME NEW s, SInv(s),
           s.state = "Active" /\ ~s.hooks.on => ~(s.def.watchdog > 0 /\ 0 \notin s.def.runtime),
           NEW r, r = CancelWatchdog(s)
    PROVE  SInv(r) /\ Plain(s, r)
<1>1. /\ Typed(s) /\ Capped(s) /\ Silent(s) /\ Paced(s) /\ Owned(s) /\ Supervised(s)
      /\ (ChecksDoNotOutlive => Counted(s))
  BY Zenon DEF SInv, Base
<1>2. /\ Typed(r) /\ r.wd = NoWatchdog
      /\ Life(r, s) /\ Stage(r, s) /\ Checks(r, s) /\ Counts(r, s) /\ Job(r, s) /\ Blame(r, s)
      /\ r.armed = s.armed \ {"watchdog"} /\ Clocks(r, s, Kinds)
  BY <1>1, CancelWatchdogIs, Zenon
<1>3. \A k \in {"ready", "stop", "command", "backoff", "probe", "job"} :
          k \in r.armed => k \in s.armed /\ r.due[k] = s.due[k]
  BY <1>2, KindsAre, Zenon DEF Clocks
<1>4. r.state = s.state /\ r.op = s.op /\ r.def = s.def /\ r.gen = s.gen
  BY <1>2, Zenon DEF Stage, Life
<1>5. Capped(r)
  BY <1>1, <1>3, <1>4, Zenon DEF Capped
<1>6. Silent(r) /\ Paced(r)
  BY <1>1, <1>2, <1>3 DEF Silent, Paced, Job, NoWatchdog
<1>7. Owned(r)
  BY <1>1, <1>2, <1>3, <1>4 DEF Owned, Checks, NoWatchdog
<1>8. Supervised(r)
  BY <1>1, <1>2, <1>4, Zenon DEF Supervised, Stage, Checks
<1>9. ChecksDoNotOutlive => Counted(r)
  BY <1>1, <1>2, <1>4, Zenon DEF Counted, Checks, Counts
<1> QED
  BY <1>2, <1>5, <1>6, <1>7, <1>8, <1>9, Zenon DEF SInv, Base, Plain, Job, Blame

\* Giving the service up is a restart or a failure that somebody is blamed for.
LEMMA GiveUpIs ==
    ASSUME NEW s, Typed(s), "backoff" \notin s.armed, NEW who, NEW r, r = GiveUp(s, who)
    PROVE  TakenDown(r, s) /\ r.blame = who
<1>1. PICK a : a = [s EXCEPT !.main = FALSE, !.blame = who]
  BY Zenon
<1>2. /\ DOMAIN a = Fields /\ a.state = s.state /\ a.op = s.op /\ a.hooks = s.hooks
      /\ a.blame = who
      /\ Deadlines(a, s) /\ Life(a, s) /\ Checks(a, s) /\ Dog(a, s) /\ Counts(a, s) /\ Job(a, s)
  BY <1>1, Zenon DEF Typed, Fields, Deadlines, Life, Checks, Dog, Counts, Job
<1>3. Typed(a)
  BY <1>2, Zenon DEF Typed, Deadlines, Life, Checks, Dog, Counts, Job
<1>4. r = RestartOrFail(a)
  BY <1>1, Zenon DEF GiveUp
<1>5. "backoff" \notin a.armed
  BY <1>2, Zenon DEF Deadlines
<1>6. TakenDown(r, a) /\ Blame(r, a)
  BY <1>3, <1>4, <1>5, RestartOrFailIs, Zenon
<1>7. Clocks(r, s, Kinds \ {"backoff"}) /\ r.armed \ {"backoff"} = s.armed
  BY <1>2, <1>6, Zenon DEF TakenDown, Clocks, Deadlines
<1> QED
  BY <1>2, <1>6, <1>7, Zenon DEF TakenDown, Life, Checks, Dog, Counts, Job, Blame

\* The watchdog takes a service down for the whole interval's silence.
LEMMA WatchdogDueGood ==
    ASSUME NEW s, SInv(s), "watchdog" \in s.armed, s.due["watchdog"] <= 0,
           NEW r, r = WatchdogDue(s)
    PROVE  Good(s, r)
<1>1. /\ Typed(s) /\ Base(s) /\ Capped(s) /\ Silent(s) /\ Owned(s) /\ Supervised(s)
      /\ (ChecksDoNotOutlive => Counted(s))
  BY Zenon DEF SInv, Base
<1>2. CASE s.state # "Active" \/ s.wd.gen # s.gen
  <2>1. r = CancelWatchdog(s)
    BY <1>2, Zenon DEF WatchdogDue
  <2>2. SInv(r) /\ Plain(s, r)
    BY <1>1, <1>2, <2>1, CancelWatchdogGood, Zenon DEF Supervised
  <2> QED
    BY <2>2, PlainIsGood, Zenon
<1>3. CASE ~(s.state # "Active" \/ s.wd.gen # s.gen) /\ ~s.main
  <2>1. r = Contain(s)
    BY <1>3, Zenon DEF WatchdogDue
  <2>2. SInv(r) /\ Plain(s, r)
    BY <2>1, ContainGood, Zenon
  <2> QED
    BY <2>2, PlainIsGood, Zenon
<1>4. CASE ~(s.state # "Active" \/ s.wd.gen # s.gen) /\ s.main
  <2>1. PICK a : a = CancelWatchdog(s)
    BY Zenon
  <2>2. /\ Typed(a) /\ a.wd = NoWatchdog
        /\ Life(a, s) /\ Stage(a, s) /\ Checks(a, s) /\ Counts(a, s) /\ Job(a, s) /\ Blame(a, s)
        /\ a.armed = s.armed \ {"watchdog"} /\ Clocks(a, s, Kinds)
    BY <1>1, <2>1, CancelWatchdogIs, Zenon
  <2>3. "backoff" \notin s.armed /\ "ready" \notin s.armed
    BY <1>1, <1>4, Zenon DEF Capped
  <2>4. PICK who : who = "watchdog"
    BY Zenon
  <2>5. r = GiveUp(a, who)
    BY <1>4, <2>1, <2>4, Zenon DEF WatchdogDue
  <2>6. TakenDown(r, a) /\ r.blame = who
    BY <2>2, <2>3, <2>5, GiveUpIs, Zenon
  <2>7. Clocks(r, s, {"stop", "command", "watchdog", "probe", "job"})
    BY <2>2, <2>6, KindsAre DEF TakenDown, Clocks
  <2>8. /\ Life(r, s) /\ Job(r, s) /\ r.op = s.op /\ r.health = s.health /\ r.wd = NoWatchdog
        /\ "ready" \notin r.armed /\ "watchdog" \notin r.armed
    BY <2>2, <2>3, <2>6, Zenon DEF TakenDown, Life, Job, Stage, Checks, Dog
  <2>9. Down(r, s)
    BY <2>6, <2>7, <2>8, Zenon DEF TakenDown, Down
  <2>10. ASSUME ChecksDoNotOutlive, r.def.hooks > 0 PROVE r.health.probe = 0
    <3>1. s.def \in Definitions /\ s.def.hooks > 0
      BY <1>1, <2>8, <2>10, Zenon DEF Typed, Life
    <3>2. s.def.watchdog > 0 \/ s.def.runtime # {}
      BY <1>1, Zenon DEF Silent, Owned
    <3>3. ~s.def.health
      BY <2>10, <3>1, <3>2, ConstantsAre DEF ChecksDoNotOutlive
    <3> QED
      BY <1>1, <2>8, <3>3, Zenon DEF Owned
  <2>11. SInv(r)
    BY <1>1, <2>6, <2>9, <2>10, DownGood, Zenon DEF TakenDown
  <2>12. s.quiet >= s.wd.interval
    <3>1. s.quiet \in Nat /\ s.wd.interval \in Nat /\ s.due["watchdog"] \in Int
      BY <1>1, KindsAre, Zenon DEF Typed
    <3> QED
      BY <1>1, <3>1 DEF Silent
  <2>13. s.wd.gen = s.gen /\ r.raises = s.raises /\ r.blame = "watchdog"
    BY <1>4, <2>4, <2>6, <2>8, Zenon DEF Job
  <2> QED
    BY <2>11, <2>12, <2>13, Zenon DEF Good, Blamed, Retried
<1> QED
  BY <1>2, <1>3, <1>4, Zenon

\* A probe that is begun belongs to the activation it is begun in.
LEMMA ProbeBegunGood ==
    ASSUME NEW s, SInv(s), s.state = "Active", s.health.on, s.health.gen = s.gen,
           NEW g, g = s.gen, NEW p \in Probes,
           NEW r, r = [s EXCEPT !.health.probe = p, !.probes[p] = [state |-> "created", gen |-> g]]
    PROVE  SInv(r) /\ Plain(s, r)
<1>1. /\ Typed(s) /\ Capped(s) /\ Silent(s) /\ Paced(s) /\ Owned(s) /\ Supervised(s)
      /\ (ChecksDoNotOutlive => Counted(s))
  BY Zenon DEF SInv, Base
<1>2. /\ DOMAIN r = Fields /\ r.hooks = s.hooks
      /\ r.health = [s.health EXCEPT !.probe = p]
      /\ r.probes = [s.probes EXCEPT ![p] = [state |-> "created", gen |-> g]]
      /\ Life(r, s) /\ Stage(r, s) /\ Dog(r, s) /\ Counts(r, s) /\ Job(r, s) /\ Blame(r, s)
      /\ Deadlines(r, s)
  BY <1>1, Zenon DEF Typed, Fields, Life, Stage, Dog, Counts, Job, Blame, Deadlines
<1>3. g \in Nat /\ p \in Nat /\ p # 0
  BY <1>1, ProbesAre, Zenon DEF Typed
<1>4. r.health.on /\ r.health.gen = s.gen /\ r.health.probe = p
      /\ r.health \in [on : BOOLEAN, gen : Nat, probe : Nat]
  BY <1>1, <1>2, <1>3 DEF Typed
<1>5. /\ r.probes \in [Probes -> [state : {"none", "created", "running"}, gen : Nat]]
      /\ r.probes[p].gen = g
  BY <1>1, <1>2, <1>3 DEF Typed
<1>6. Typed(r)
  BY <1>1, <1>2, <1>4, <1>5, Zenon DEF Typed, Life, Stage, Dog, Counts, Job, Deadlines
<1>7. Capped(r) /\ Silent(r) /\ Paced(r)
  BY <1>1, <1>2, Zenon DEF Capped, Silent, Paced, Stage, Dog, Job, Deadlines
<1>8. Owned(r)
  BY <1>1, <1>2, <1>4 DEF Owned, Life, Dog, Typed
<1>9. Supervised(r)
  BY <1>1, <1>2, <1>4 DEF Supervised, Life, Stage, Dog, Deadlines
<1>10. ChecksDoNotOutlive => Counted(r)
  BY <1>1, <1>2, <1>4, <1>5, Zenon DEF Counted, Life, Stage, Counts
<1> QED
  BY <1>2, <1>6, <1>7, <1>8, <1>9, <1>10, Zenon DEF SInv, Base, Plain, Job, Blame

\* The interval begins the next probe of the activation.
LEMMA IntervalDueGood ==
    ASSUME NEW s, SInv(s), NEW r, r = IntervalDue(s)
    PROVE  SInv(r) /\ Plain(s, r)
<1> DEFINE off == s.state # "Active" \/ s.health.gen # s.gen \/ ~s.def.health
<1>1. /\ Base(s) /\ Typed(s) /\ Supervised(s) /\ (ChecksDoNotOutlive => Counted(s))
  BY Zenon DEF SInv, Base
<1>2. CASE off
  <2>1. r = CancelHealth(s)
    BY <1>2, Zenon DEF IntervalDue, HealthEnabled
  <2>2. s.state = "Active" /\ ~s.hooks.on => ~s.def.health
    BY <1>1, <1>2, Zenon DEF Supervised
  <2> QED
    BY <2>1, <2>2, CancelHealthGood, Zenon
<1>3. CASE ~off
  <2>1. PICK a : a = ScheduleInterval(s)
    BY Zenon
  <2>2. a = ScheduleActiveServiceHealth(s) /\ s.state = "Active" /\ s.health.gen = s.gen
    BY <1>3, <2>1, Zenon DEF ScheduleActiveServiceHealth, HealthEnabled
  <2>3. ASSUME ChecksDoNotOutlive
        PROVE  /\ s.bad <= s.fails /\ s.bad < Retries
               /\ s.health.on /\ s.health.gen = s.gen /\ s.health.probe # 0 =>
                     s.probes[s.health.probe].gen = s.gen
    BY <1>1, <2>2, <2>3, Zenon DEF Counted
  <2>4. /\ Base(a) /\ Probing(a) /\ (ChecksDoNotOutlive => Counted(a))
        /\ Life(a, s) /\ Stage(a, s) /\ Job(a, s) /\ Blame(a, s)
        /\ a.probes = s.probes /\ Counts(a, s) /\ Dog(a, s)
        /\ "watchdog" \in s.armed => "watchdog" \in a.armed
    BY <1>1, <2>2, <2>3, HealthScheduled, Zenon
  <2>5. Supervised(a)
    BY <1>1, <2>4, Zenon DEF Supervised, Probing, Life, Stage, Dog
  <2>6. SInv(a) /\ Plain(s, a)
    BY <2>4, <2>5, Zenon DEF SInv, Plain, Job, Blame
  <2>7. CASE a.health.probe # 0 \/ FreeProbes(s) = {}
    <3>1. r = a
      BY <1>3, <2>1, <2>7, Zenon DEF IntervalDue, HealthEnabled
    <3> QED
      BY <2>6, <3>1, Zenon
  <2>8. CASE a.health.probe = 0 /\ FreeProbes(s) # {}
    <3>1. PICK p : p = CHOOSE q \in FreeProbes(s) : \A x \in FreeProbes(s) : q <= x
      BY Zenon
    <3>2. r = [a EXCEPT !.health.probe = p, !.probes[p] = [state |-> "created", gen |-> s.gen]]
      BY <1>3, <2>1, <2>8, <3>1, Zenon DEF IntervalDue, HealthEnabled
    <3>3. p \in Probes
      <4>1. FreeProbes(s) \in SUBSET Nat
        <5>1. FreeProbes(s) \subseteq Probes
          BY Zenon DEF FreeProbes
        <5> QED
          BY <5>1, ProbesAre, Zenon
      <4>2. \E q \in FreeProbes(s) : \A x \in FreeProbes(s) : q <= x
        BY <2>8, <4>1, LeastNatural, Zenon
      <4>3. p \in FreeProbes(s)
        BY <3>1, <4>2, Zenon
      <4> QED
        BY <4>3, Zenon DEF FreeProbes
    <3>4. PICK g : g = s.gen
      BY Zenon
    <3>5. a.state = "Active" /\ a.health.on /\ a.health.gen = a.gen /\ a.gen = g
      BY <1>3, <2>2, <2>4, <3>4, Zenon DEF Life, Stage, Probing
    <3>6. SInv(r) /\ Plain(a, r)
      BY <2>6, <3>2, <3>3, <3>4, <3>5, ProbeBegunGood, Zenon
    <3> QED
      BY <2>6, <3>6, PlainThenPlain, Zenon
  <2> QED
    BY <2>7, <2>8, Zenon
<1> QED
  BY <1>2, <1>3, Zenon

\* The job of a probe that is not the record's is forgotten.
LEMMA ProbeDroppedGood ==
    ASSUME NEW s, SInv(s), NEW p \in Probes,
           ChecksDoNotOutlive /\ s.state = "Active" => s.health.probe # p,
           NEW r, r = [s EXCEPT !.probes[p] = NoProbe]
    PROVE  SInv(r) /\ Plain(s, r)
<1>1. /\ Typed(s) /\ Capped(s) /\ Silent(s) /\ Paced(s) /\ Owned(s) /\ Supervised(s)
      /\ (ChecksDoNotOutlive => Counted(s))
  BY Zenon DEF SInv, Base
<1>2. /\ DOMAIN r = Fields /\ r.hooks = s.hooks /\ r.health = s.health
      /\ r.probes = [s.probes EXCEPT ![p] = NoProbe]
      /\ Life(r, s) /\ Stage(r, s) /\ Dog(r, s) /\ Counts(r, s) /\ Job(r, s) /\ Blame(r, s)
      /\ Deadlines(r, s)
  BY <1>1, Zenon DEF Typed, Fields, Life, Stage, Dog, Counts, Job, Blame, Deadlines
<1>3. /\ r.probes \in [Probes -> [state : {"none", "created", "running"}, gen : Nat]]
      /\ \A q \in Probes : q # p => r.probes[q] = s.probes[q]
  BY <1>1, <1>2 DEF Typed, NoProbe
<1>4. Typed(r)
  BY <1>1, <1>2, <1>3, Zenon DEF Typed, Life, Stage, Dog, Counts, Job, Deadlines
<1>5. Capped(r) /\ Silent(r) /\ Paced(r)
  BY <1>1, <1>2, Zenon DEF Capped, Silent, Paced, Stage, Dog, Job, Deadlines
<1>6. Owned(r) /\ Supervised(r)
  BY <1>1, <1>2, Zenon DEF Owned, Supervised, Life, Stage, Dog, Deadlines
<1>7. ASSUME ChecksDoNotOutlive PROVE Counted(r)
  <2>1. s.state = "Active" /\ s.health.probe # 0 =>
            r.probes[s.health.probe] = s.probes[s.health.probe]
    BY <1>1, <1>3, <1>7, Zenon DEF Owned
  <2> QED
    BY <1>1, <1>2, <1>7, <2>1 DEF Counted, Life, Stage, Counts
<1> QED
  BY <1>2, <1>4, <1>5, <1>6, <1>7, Zenon DEF SInv, Base, Plain, Job, Blame

\* The record's probe and its job are gone, and nothing else is.
Freed(r, s) ==
    /\ SInv(r) /\ Life(r, s) /\ Stage(r, s) /\ Dog(r, s) /\ Counts(r, s) /\ Job(r, s) /\ Blame(r, s)
    /\ r.health.probe = 0

\* RemoveInvocation frees the record of the probe whose job is gone.
LEMMA RemoveInvocationGood ==
    ASSUME NEW s, SInv(s), NEW p \in Probes, NEW a, a = [s EXCEPT !.probes[p] = NoProbe],
           NEW r, r = RemoveInvocation(a)
    PROVE  Freed(r, s)
<1>1. /\ Typed(s) /\ Capped(s) /\ Silent(s) /\ Paced(s) /\ Owned(s) /\ Supervised(s)
      /\ (ChecksDoNotOutlive => Counted(s))
  BY Zenon DEF SInv, Base
<1>2. /\ DOMAIN a = Fields /\ a.hooks = s.hooks /\ a.health = s.health
      /\ a.probes = [s.probes EXCEPT ![p] = NoProbe]
      /\ Life(a, s) /\ Stage(a, s) /\ Dog(a, s) /\ Counts(a, s) /\ Job(a, s) /\ Blame(a, s)
      /\ Deadlines(a, s)
  BY <1>1, Zenon DEF Typed, Fields, Life, Stage, Dog, Counts, Job, Blame, Deadlines
<1>3. a.probes \in [Probes -> [state : {"none", "created", "running"}, gen : Nat]]
  BY <1>1, <1>2 DEF Typed, NoProbe
<1>4. Typed(a)
  BY <1>1, <1>2, <1>3, Zenon DEF Typed, Life, Stage, Dog, Counts, Job, Deadlines
<1>5. PICK b : b = Disarm(a, {"probe"})
  BY Zenon
<1>6. Typed(b) /\ Frame(b, a) /\ b.armed = a.armed \ {"probe"} /\ Clocks(b, a, Kinds)
  BY <1>4, <1>5, DisarmIs, Zenon
<1>7. r = [b EXCEPT !.health = [b.health EXCEPT !.probe = 0]]
  BY <1>5, Zenon DEF RemoveInvocation
<1>8. /\ DOMAIN r = Fields /\ r.hooks = b.hooks /\ r.health = [b.health EXCEPT !.probe = 0]
      /\ r.probes = b.probes /\ Deadlines(r, b)
      /\ Life(r, b) /\ Stage(r, b) /\ Dog(r, b) /\ Counts(r, b) /\ Job(r, b) /\ Blame(r, b)
  BY <1>6, <1>7 DEF Typed, Fields, Life, Stage, Dog, Counts, Job, Blame, Deadlines
<1>9. /\ r.health.on = b.health.on /\ r.health.gen = b.health.gen /\ r.health.probe = 0
      /\ r.health \in [on : BOOLEAN, gen : Nat, probe : Nat]
  BY <1>6, <1>8 DEF Typed
<1>10. Typed(r)
  BY <1>6, <1>8, <1>9, Zenon DEF Typed, Life, Stage, Dog, Counts, Job, Deadlines
<1>11. Life(r, s) /\ Stage(r, s) /\ Dog(r, s) /\ Counts(r, s) /\ Job(r, s) /\ Blame(r, s)
  BY <1>2, <1>6, <1>8 DEF Frame, Life, Stage, Dog, Counts, Job, Blame
<1>12. r.health.on = s.health.on /\ r.health.gen = s.health.gen
  BY <1>2, <1>6, <1>9, Zenon DEF Frame, Checks
<1>13. r.armed = s.armed \ {"probe"} /\ \A k \in Kinds : k \in r.armed => r.due[k] = s.due[k]
  BY <1>2, <1>6, <1>8 DEF Deadlines, Clocks
<1>14. Capped(r)
  BY <1>1, <1>11, <1>13, KindsAre, Zenon DEF Capped, Stage
<1>15. Silent(r) /\ Paced(r)
  BY <1>1, <1>11, <1>13, KindsAre, Zenon DEF Silent, Paced, Dog, Job
<1>16. Owned(r) /\ Supervised(r)
  BY <1>1, <1>9, <1>11, <1>12, <1>13 DEF Owned, Supervised, Life, Stage, Dog
<1>17. ChecksDoNotOutlive => Counted(r)
  BY <1>1, <1>9, <1>11, <1>12, Zenon DEF Counted, Life, Stage, Counts
<1> QED
  BY <1>9, <1>10, <1>11, <1>14, <1>15, <1>16, <1>17, Zenon DEF Freed, SInv, Base

\* r is s with other counts of failures.
Recounted(r, s) ==
    /\ DOMAIN r = Fields /\ r.hooks = s.hooks /\ r.bad \in Nat /\ r.fails \in Nat
    /\ Life(r, s) /\ Stage(r, s) /\ Checks(r, s) /\ Dog(r, s) /\ Job(r, s) /\ Blame(r, s)
    /\ Deadlines(r, s)

\* The counts can be changed between probes.
LEMMA RecountedGood ==
    ASSUME NEW s, SInv(s), s.health.probe = 0, NEW r, Recounted(r, s),
           ChecksDoNotOutlive =>
               /\ r.state = "Starting" => r.bad = 0
               /\ r.state \in {"Active", "Reloading"} => r.bad <= r.fails /\ r.bad < Retries
    PROVE  SInv(r) /\ Plain(s, r)
<1>1. /\ Typed(s) /\ Capped(s) /\ Silent(s) /\ Paced(s) /\ Owned(s) /\ Supervised(s)
      /\ (ChecksDoNotOutlive => Counted(s))
  BY Zenon DEF SInv, Base
<1>2. Typed(r)
  BY <1>1, Zenon DEF Recounted, Typed, Life, Stage, Checks, Dog, Job, Deadlines
<1>3. Capped(r) /\ Silent(r) /\ Paced(r)
  BY <1>1 DEF Recounted, Capped, Silent, Paced, Stage, Dog, Job, Deadlines
<1>4. Owned(r) /\ Supervised(r)
  BY <1>1, Zenon DEF Recounted, Owned, Supervised, Life, Stage, Checks, Dog, Deadlines
<1>5. ChecksDoNotOutlive => Counted(r)
  BY <1>1, Zenon DEF Recounted, Counted, Life, Stage, Checks
<1> QED
  BY <1>2, <1>3, <1>4, <1>5, Zenon DEF SInv, Base, Plain, Recounted, Job, Blame

\* A failure is counted, or the service is given up for its health.
LEMMA HealthFailureGood ==
    ASSUME NEW s, SInv(s), s.state = "Active", s.health.probe = 0,
           ChecksDoNotOutlive => s.bad + 1 <= s.fails, NEW r, r = HealthFailure(s)
    PROVE  /\ SInv(r) /\ r.raises = s.raises
           /\ Plain(s, r) \/ (r.blame = "health" /\ (ChecksDoNotOutlive => r.fails >= Retries))
<1>1. Typed(s) /\ Base(s) /\ Capped(s) /\ s.bad \in Nat /\ s.fails \in Nat
  BY Zenon DEF SInv, Base, Typed
<1>2. PICK n : n = s.bad + 1
  BY Zenon
<1>3. PICK a : a = [s EXCEPT !.bad = n]
  BY Zenon
<1>4. Recounted(a, s) /\ a.bad = n /\ a.fails = s.fails
  BY <1>1, <1>2, <1>3
  DEF Typed, Fields, Recounted, Life, Stage, Checks, Dog, Job, Blame, Deadlines
<1>5. CASE n < Retries
  <2>1. r = a
    BY <1>2, <1>3, <1>4, <1>5, Zenon DEF HealthFailure
  <2>2. a.state = "Active"
    BY <1>4, Zenon DEF Recounted, Stage
  <2>3. ChecksDoNotOutlive => a.bad <= a.fails /\ a.bad < Retries
    BY <1>2, <1>4, <1>5, Zenon
  <2>4. SInv(a) /\ Plain(s, a)
    BY <1>4, <2>2, <2>3, RecountedGood, Zenon
  <2> QED
    BY <2>1, <2>4, Zenon DEF Plain
<1>6. CASE ~(n < Retries) /\ ~s.main
  <2>1. r = Contain(s)
    BY <1>2, <1>3, <1>4, <1>6, Zenon DEF HealthFailure
  <2>2. SInv(r) /\ Plain(s, r)
    BY <2>1, ContainGood, Zenon
  <2> QED
    BY <2>2, Zenon DEF Plain
<1>7. CASE ~(n < Retries) /\ s.main
  <2>1. Typed(a)
    BY <1>1, <1>4, Zenon DEF Recounted, Typed, Life, Stage, Checks, Dog, Job, Deadlines
  <2>2. PICK b : b = CancelHealth(a)
    BY Zenon
  <2>3. /\ Typed(b) /\ b.health = NoHealth /\ b.probes = a.probes
        /\ Life(b, a) /\ Stage(b, a) /\ Dog(b, a) /\ Counts(b, a) /\ Job(b, a) /\ Blame(b, a)
        /\ b.armed = a.armed \ {"interval", "probe"} /\ Clocks(b, a, Kinds)
    BY <2>1, <2>2, CancelHealthIs, Zenon
  <2>4. "backoff" \notin b.armed /\ "ready" \notin b.armed
    BY <1>1, <1>4, <2>3, Zenon DEF Capped, Recounted, Deadlines
  <2>5. PICK who : who = "health"
    BY Zenon
  <2>6. PICK c : c = GiveUp(b, who)
    BY Zenon
  <2>7. TakenDown(c, b) /\ c.blame = who
    <3>1. Typed(b) /\ "backoff" \notin b.armed
      BY <2>3, <2>4, Zenon
    <3> QED
      BY <2>6, <3>1, GiveUpIs, Zenon
  <2>8. Typed(c)
    BY <2>7, Zenon DEF TakenDown
  <2>9. r = CancelWatchdog(c)
    BY <1>2, <1>3, <1>4, <1>7, <2>2, <2>5, <2>6 DEF HealthFailure
  <2>10. /\ Typed(r) /\ r.wd = NoWatchdog
         /\ Life(r, c) /\ Stage(r, c) /\ Checks(r, c) /\ Counts(r, c) /\ Job(r, c) /\ Blame(r, c)
         /\ r.armed = c.armed \ {"watchdog"} /\ Clocks(r, c, Kinds)
    BY <2>8, <2>9, CancelWatchdogIs, Zenon
  <2>11. /\ Life(r, s) /\ Job(r, s) /\ r.op = s.op /\ r.health = NoHealth
         /\ r.fails = s.fails
    BY <1>4, <2>3, <2>7, <2>10 DEF Recounted, TakenDown, Life, Job, Stage, Checks, Counts
  <2>12. /\ "ready" \notin r.armed /\ "watchdog" \notin r.armed /\ "probe" \notin r.armed
         /\ ("backoff" \in r.armed => r.state = "Backoff")
         /\ r.state \in {"Backoff", "Failed"}
    BY <2>3, <2>4, <2>7, <2>10, Zenon DEF TakenDown, Stage
  <2>13. Clocks(r, s, {"stop", "command", "watchdog", "probe", "job"})
    <3>1. Clocks(a, s, Kinds)
      BY <1>4, Zenon DEF Recounted, Deadlines, Clocks
    <3> QED
      BY <2>3, <2>7, <2>10, <3>1, KindsAre DEF TakenDown, Clocks
  <2>14. Down(r, s)
    BY <2>10, <2>11, <2>12, <2>13, Zenon DEF Down
  <2>15. r.health.probe = 0
    BY <2>11 DEF NoHealth
  <2>16. SInv(r)
    BY <1>1, <2>12, <2>14, <2>15, DownGood, Zenon
  <2>17. r.blame = "health" /\ r.raises = s.raises
    BY <2>5, <2>7, <2>10, <2>11, Zenon DEF Blame, Job
  <2>18. ChecksDoNotOutlive => r.fails >= Retries
    BY <1>1, <1>2, <1>7, <2>11, ConstantsAre
  <2> QED
    BY <2>16, <2>17, <2>18, Zenon
<1> QED
  BY <1>5, <1>6, <1>7, Zenon

\* A probe that answers, fails or times out.
LEMMA HealthTerminalGood ==
    ASSUME NEW s, SInv(s), NEW p \in Probes, NEW ok \in BOOLEAN, NEW r, r = HealthTerminal(s, p, ok)
    PROVE  Good(s, r)
<1>1. PICK over : over = [s EXCEPT !.probes[p] = NoProbe]
  BY Zenon
<1>2. CASE s.health.probe # p
  <2>1. r = over
    BY <1>1, <1>2, Zenon DEF HealthTerminal
  <2>2. SInv(r) /\ Plain(s, r)
    BY <1>1, <1>2, <2>1, ProbeDroppedGood, Zenon
  <2> QED
    BY <2>2, PlainIsGood, Zenon
<1>3. CASE s.health.probe = p
  <2>1. PICK a : a = RemoveInvocation(over)
    BY Zenon
  <2>2. Freed(a, s)
    BY <1>1, <2>1, RemoveInvocationGood, Zenon
  <2>3. /\ SInv(a) /\ a.state = s.state /\ a.health.probe = 0 /\ a.bad = s.bad
        /\ a.fails = s.fails /\ a.raises = s.raises /\ a.blame = s.blame
    BY <2>2, Zenon DEF Freed, Stage, Counts, Job, Blame
  <2>4. Typed(s) /\ Typed(a) /\ s.fails \in Nat /\ s.bad \in Nat
    BY <2>3, Zenon DEF SInv, Base, Typed
  <2>5. PICK n : n = IF ok THEN 0
                     ELSE IF s.probes[p].gen = s.gen THEN Smaller(s.fails + 1, Retries) ELSE s.fails
    BY Zenon
  <2>6. n \in Nat
    BY <2>4, <2>5, ConstantsAre DEF Smaller
  <2>7. PICK f : f = [a EXCEPT !.fails = n]
    BY Zenon
  <2>8. Recounted(f, a) /\ f.fails = n /\ f.bad = a.bad
    BY <2>4, <2>6, <2>7, <2>3
   , Zenon DEF Typed, Fields, Recounted, Life, Stage, Checks, Dog, Job, Blame, Deadlines
  <2>9. f.state = s.state /\ f.health.probe = 0 /\ f.raises = s.raises /\ f.blame = s.blame
    BY <2>3, <2>8, Zenon DEF Recounted, Stage, Checks, Job, Blame
  <2>10. p # 0
    BY ProbesAre, Zenon
  <2>11. ASSUME ChecksDoNotOutlive
         PROVE  /\ s.state = "Starting" => s.bad = 0
                /\ s.state # "Reloading"
                /\ s.state = "Active" => /\ s.bad <= s.fails /\ s.bad < Retries
                                         /\ s.probes[p].gen = s.gen
    BY <1>3, <2>10, <2>11, Zenon DEF SInv, Counted
  <2>12. CASE s.state # "Active"
    <3>1. r = f
      BY <1>1, <1>3, <2>1, <2>3, <2>5, <2>7, <2>12, Zenon DEF HealthTerminal
    <3>2. SInv(f) /\ Plain(a, f)
      BY <2>3, <2>8, <2>9, <2>11, <2>12, RecountedGood, Zenon
    <3>3. Plain(s, r)
      BY <2>9, <3>1 DEF Plain
    <3> QED
      BY <3>1, <3>2, <3>3, PlainIsGood, Zenon
  <2>13. CASE s.state = "Active" /\ ok
    <3>1. PICK g : g = [f EXCEPT !.bad = 0]
      BY Zenon
    <3>2. r = g
      BY <1>1, <1>3, <2>1, <2>3, <2>5, <2>7, <2>13, <3>1 DEF HealthTerminal
    <3>3. Recounted(g, a) /\ g.bad = 0 /\ g.state = s.state
      BY <2>8, <2>9, <3>1
     , Zenon DEF Typed, Fields, Recounted, Life, Stage, Checks, Dog, Job, Blame, Deadlines
    <3>4. g.bad <= g.fails /\ g.bad < Retries
      BY <3>3, ConstantsAre DEF Recounted
    <3>5. SInv(g) /\ Plain(a, g)
      BY <2>3, <3>3, <3>4, RecountedGood, Zenon
    <3>6. Plain(s, r)
      BY <2>3, <3>2, <3>5, Zenon DEF Plain
    <3> QED
      BY <3>2, <3>5, <3>6, PlainIsGood, Zenon
  <2>14. CASE s.state = "Active" /\ ~ok
    <3>1. r = HealthFailure(f)
      BY <1>1, <1>3, <2>1, <2>3, <2>5, <2>7, <2>14 DEF HealthTerminal
    <3>2. ChecksDoNotOutlive => f.bad + 1 <= f.fails /\ f.bad <= f.fails /\ f.bad < Retries
      BY <2>3, <2>4, <2>5, <2>8, <2>11, <2>14, ConstantsAre DEF Smaller
    <3>3. SInv(f)
      BY <2>3, <2>8, <2>9, <2>14, <3>2, RecountedGood, Zenon
    <3>4. /\ SInv(r) /\ r.raises = f.raises
          /\ Plain(f, r) \/ (r.blame = "health" /\ (ChecksDoNotOutlive => r.fails >= Retries))
      BY <2>9, <2>14, <3>1, <3>2, <3>3, HealthFailureGood, Zenon
    <3> QED
      BY <2>9, <3>4, Zenon DEF Good, Blamed, Retried, Plain
  <2> QED
    BY <2>12, <2>13, <2>14, Zenon
<1> QED
  BY <1>2, <1>3, Zenon

\* A probe that is started, or is not.
LEMMA LaunchProbeGood ==
    ASSUME NEW s, SInv(s), NEW p \in Probes, s.probes[p].state = "created", NEW ok \in BOOLEAN,
           NEW r, r = LaunchProbe(s, p, ok)
    PROVE  SInv(r) /\ Plain(s, r)
<1> DEFINE stale == s.state # "Active" \/ s.health.probe = 0 \/ s.health.gen # s.probes[p].gen
<1>1. Typed(s) /\ p # 0
  BY ProbesAre, Zenon DEF SInv, Base
<1>2. PICK a : a = [s EXCEPT !.probes[p] = NoProbe]
  BY Zenon
<1>3. CASE stale
  <2>1. r = a
    BY <1>2, <1>3, Zenon DEF LaunchProbe
  <2>2. ChecksDoNotOutlive /\ s.state = "Active" => s.health.probe # p
    BY <1>1, <1>3, Zenon DEF SInv, Counted
  <2> QED
    BY <1>2, <2>1, <2>2, ProbeDroppedGood, Zenon
<1>4. CASE ~stale /\ ~ok /\ s.health.probe = p
  <2>1. r = RemoveInvocation(a)
    BY <1>2, <1>4, Zenon DEF LaunchProbe
  <2>2. Freed(r, s)
    BY <1>2, <2>1, RemoveInvocationGood, Zenon
  <2> QED
    BY <2>2, Zenon DEF Freed, Plain, Job, Blame
<1>5. CASE ~stale /\ ~ok /\ s.health.probe # p
  <2>1. r = a
    BY <1>2, <1>5, Zenon DEF LaunchProbe
  <2> QED
    BY <1>2, <1>5, <2>1, ProbeDroppedGood, Zenon
<1>6. CASE ~stale /\ ok
  <2>1. PICK b : b = [s EXCEPT !.probes[p].state = "running"]
    BY Zenon
  <2>2. /\ DOMAIN b = Fields /\ b.hooks = s.hooks /\ b.health = s.health
        /\ b.probes = [s.probes EXCEPT ![p] = [s.probes[p] EXCEPT !.state = "running"]]
        /\ Life(b, s) /\ Stage(b, s) /\ Dog(b, s) /\ Counts(b, s) /\ Job(b, s) /\ Blame(b, s)
        /\ Deadlines(b, s)
    BY <1>1, <2>1, Zenon DEF Typed, Fields, Life, Stage, Dog, Counts, Job, Blame, Deadlines
  <2>3. /\ b.probes \in [Probes -> [state : {"none", "created", "running"}, gen : Nat]]
        /\ \A q \in Probes : b.probes[q].gen = s.probes[q].gen
    BY <1>1, <2>2 DEF Typed
  <2>4. Typed(b)
    BY <1>1, <2>2, <2>3, Zenon DEF Typed, Life, Stage, Dog, Counts, Job, Deadlines
  <2>5. Capped(b) /\ Silent(b) /\ Paced(b)
    BY <2>2 DEF SInv, Base, Capped, Silent, Paced, Stage, Dog, Job, Deadlines
  <2>6. Owned(b) /\ Supervised(b)
    BY <2>2, Zenon DEF SInv, Base, Owned, Supervised, Life, Stage, Dog, Deadlines
  <2>7. ASSUME ChecksDoNotOutlive PROVE Counted(b)
    <3>1. s.health.probe # 0 => b.probes[s.health.probe].gen = s.probes[s.health.probe].gen
      BY <2>3, Zenon DEF SInv, Base, Owned
    <3> QED
      BY <2>2, <2>7, <3>1 DEF SInv, Counted, Life, Stage, Counts
  <2>8. SInv(b) /\ Plain(s, b)
    BY <2>2, <2>4, <2>5, <2>6, <2>7, Zenon DEF SInv, Base, Plain, Job, Blame
  <2>9. CASE s.health.probe = p
    <3>1. PICK k \in Kinds : k = "probe"
      BY KindsAre, Zenon
    <3>2. r = Arm(b, k, HealthTimeout) /\ HealthTimeout \in Int
      BY <1>6, <2>1, <2>9, <3>1, ConstantsAre DEF LaunchProbe
    <3>3. b.health.probe \in Probes
      BY <2>2, <2>9, Zenon
    <3>4. SInv(r) /\ Plain(b, r)
      BY <2>8, <3>1, <3>2, <3>3, ArmGood, Zenon
    <3> QED
      BY <2>8, <3>4, PlainThenPlain, Zenon
  <2>10. CASE s.health.probe # p
    <3>1. r = b
      BY <1>6, <2>1, <2>10, Zenon DEF LaunchProbe
    <3> QED
      BY <2>8, <3>1, Zenon
  <2> QED
    BY <2>9, <2>10, Zenon
<1> QED
  BY <1>3, <1>4, <1>5, <1>6, Zenon
=============================================================================
