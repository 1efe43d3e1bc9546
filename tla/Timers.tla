------------------------------- MODULE Timers -------------------------------
(***************************************************************************)
(* The calendar timers of one service (src/src/timer/,                     *)
(* src/src/runtime/linux/calendar_timer/, src/src/supervisor/timer/): how  *)
(* the triggers are armed at boot and after a reload, what a firing does   *)
(* and where the next one is armed, and the last runs that a persistent    *)
(* trigger keeps in the registry.  Time is CLOCK_REALTIME, which runs on,  *)
(* can be set, and goes on while the machine is off.  A schedule is the    *)
(* set of instants it names: what an expression means is Calendar's.       *)
(***************************************************************************)
EXTENDS Integers, ServiceStates

CONSTANTS
  Schedules,     \* the schedule strings a trigger of the service may have
  Occurs,        \* for each schedule, the instants it names
  Definitions,   \* the definitions the registry may hold for the service
  Moves,         \* the state changes that are not a timer's doing
  MaxTime        \* the bound on the clock

DefinitionType ==
  [triggers : SUBSET Schedules, type : {"Simple", "Oneshot"},
   persistent : BOOLEAN, jitter : Nat, disabled : BOOLEAN]

ASSUME TimersAssumption ==
  /\ \A s \in Schedules : Occurs[s] \subseteq Nat
  /\ Definitions \subseteq DefinitionType
  /\ \A m \in Moves : AllowedCauses(m[1], m[2]) # {}
  /\ MaxTime \in Nat

VARIABLES
  now,        \* CLOCK_REALTIME
  machine,    \* "off", "up", "shutdown", or "ended": the loop ended in error
  svc,        \* the service's entry in the service table
  reloaded,   \* a reload succeeded this turn and the timers are not replanned
  timers,     \* LinuxCalendarTimerTable::entries, by schedule
  lastRun,    \* the last runs in the registry, by location
  writes,     \* the last-run writes of forked children that have not landed
  ran         \* when a trigger of each location last fired, whatever landed

vars == <<now, machine, svc, reloaded, timers, lastRun, writes, ran>>

Never == -1    \* no last run, or no deadline armed
NoDefinition == [triggers |-> {}]
Gone == [state |-> "Absent"]
IsPresent(v) == v.state # "Absent"
Running == machine \in {"up", "shutdown"}

(***************************************************************************)
(* Where a trigger's last run is kept: a fixed value when it is the only   *)
(* timer of its service, else a value named for its schedule.              *)
(***************************************************************************)
Single == "LastTimerRun"
Locations == Schedules \cup {Single}

TimerLastRunStorage(triggers) ==
  IF \E s \in triggers : triggers = {s} THEN "SingleTimer" ELSE "PerTrigger"

Location(storage, s) == IF storage = "SingleTimer" THEN Single ELSE s

(***************************************************************************)
(* next_after_ns: the first instant of the schedule after t, in a set that *)
(* is empty when there is none (NoFutureOccurrence).                       *)
(***************************************************************************)
NextAfter(s, t) ==
  {o \in Occurs[s] : o > t /\ \A p \in Occurs[s] : p > t => o <= p}

(***************************************************************************)
(* A timer of the table.  `event' is what a read of the descriptor would   *)
(* find: nothing, an expiry, or that the clock was set (TFD_TIMER_CANCEL_  *)
(* ON_SET), which hides an expiry.  `at', `boot' and `done' are history:   *)
(* the clock when the trigger was armed or found the clock set, whether it *)
(* was armed at boot from its last run, and what has fired since.          *)
(***************************************************************************)
Arm(e, next, delay) ==
  [e EXCEPT !.next = next, !.deadline = next + delay,
            !.event = IF next + delay <= now THEN "expired" ELSE "none"]

NewTimer(d, next, delay, boot) ==
  Arm([storage |-> TimerLastRunStorage(d.triggers), persistent |-> d.persistent,
       jitter |-> d.jitter, next |-> next, deadline |-> Never, event |-> "none",
       at |-> now, boot |-> boot, done |-> {}],
      next, delay)

Enabled(v) == IF IsPresent(v) /\ ~v.def.disabled THEN v.def.triggers ELSE {}

(***************************************************************************)
(* What a firing does to the service (handle_timer_firing).  A start is    *)
(* released at once or waits for the graph; the firings of a Oneshot that  *)
(* runs collapse into one pending run, which its next start clears.        *)
(***************************************************************************)
Started(v) == {v, [v EXCEPT !.state = "Starting", !.run = FALSE]}

ClassifyTimerFiring(type, state) ==
  IF \/ type = "Oneshot" /\ state \in {"Inactive", "Completed", "Failed"}
     \/ type = "Simple" /\ state \in {"Inactive", "Failed"}
  THEN "Start"
  ELSE IF type = "Oneshot" /\ state \in {"Active", "Starting"}
  THEN "PendingOneshot"
  ELSE "Noop"

HandleTimerFiring(v) ==
  IF machine = "shutdown" \/ ~IsPresent(v) \/ v.def.disabled THEN {v}
  ELSE CASE ClassifyTimerFiring(v.def.type, v.state) = "Start" -> Started(v)
         [] ClassifyTimerFiring(v.def.type, v.state) = "PendingOneshot" ->
              {[v EXCEPT !.run = TRUE]}
         [] OTHER -> {v}

(***************************************************************************)
(* A read of a timer's descriptor.  A firing is given to the supervisor,   *)
(* recorded when the trigger is persistent and its definition is there,    *)
(* and followed by the next occurrence after the anchor: the one that      *)
(* fired, or what the jitter window has left behind.  An error in any of   *)
(* this ends the loop.                                                     *)
(***************************************************************************)
Latest(a, b) == IF a < b THEN b ELSE a

\* Mutation: the search for the next occurrence starts from the clock (PEI-831).
AnchorAtNow(e) == now

RearmAnchor(e) == Latest(e.next, now - e.jitter)

Rearm(s, after, e) ==
  \/ /\ NextAfter(s, after) = {}
     /\ timers' = [timers EXCEPT ![s] = e]
     /\ machine' = "ended"
  \/ /\ \E next \in NextAfter(s, after), delay \in 0 .. e.jitter :
          timers' = [timers EXCEPT ![s] = Arm(e, next, delay)]
     /\ UNCHANGED machine

\* The descriptor has been read: an expired timer stays disarmed.
Read(e) ==
  [e EXCEPT !.event = "none",
            !.deadline = IF e.deadline <= now THEN Never ELSE e.deadline,
            !.at = IF e.event = "canceled" THEN now ELSE @]

FireAndRearm(s) ==
  LET e == timers[s]
      location == Location(e.storage, s)
  IN IF machine # "shutdown" /\ ~IsPresent(svc)
     THEN /\ timers' = [timers EXCEPT ![s] = Read(e)]
          /\ UNCHANGED <<machine, svc, writes, ran>>
     ELSE /\ svc' \in HandleTimerFiring(svc)
          /\ writes' = IF e.persistent /\ ~(IsPresent(svc') /\ svc'.removed)
                       THEN writes \cup {[location |-> location, at |-> now]}
                       ELSE writes
          /\ ran' = [ran EXCEPT ![location] = Latest(@, now)]
          /\ Rearm(s, RearmAnchor(e),
                   [Read(e) EXCEPT !.done = @ \cup {e.next}])

\* process_timer_event
ReadExpired(s) ==
  /\ Running /\ s \in DOMAIN timers /\ timers[s].event = "expired"
  /\ FireAndRearm(s)
  /\ UNCHANGED <<now, reloaded, lastRun>>

ReadCanceled(s) ==
  /\ Running /\ s \in DOMAIN timers /\ timers[s].event = "canceled"
  /\ IF timers[s].next <= now THEN FireAndRearm(s)
     ELSE /\ Rearm(s, now, [Read(timers[s]) EXCEPT !.done = {}])
          /\ UNCHANGED <<svc, writes, ran>>
  /\ UNCHANGED <<now, reloaded, lastRun>>

(***************************************************************************)
(* Boot: plan_timer_boot and register_boot_timers.  A persistent trigger   *)
(* that has no last run, one in the future, or one that an occurrence has  *)
(* followed since, fires at once and is armed after now; any other goes on *)
(* from its last run.  A trigger with no next occurrence is rejected, and  *)
(* the others are armed.                                                   *)
(***************************************************************************)
LastRun(d, s) == lastRun[Location(TimerLastRunStorage(d.triggers), s)]

PersistentBootDecision(d, s) ==
  /\ d.persistent
  /\ \/ LastRun(d, s) = Never
     \/ LastRun(d, s) > now
     \/ \E o \in NextAfter(s, LastRun(d, s)) : o <= now

PlanTimerTrigger(d, s) ==
  NextAfter(s, IF d.persistent /\ ~PersistentBootDecision(d, s)
               THEN LastRun(d, s) ELSE now)

RegisterBootTimers(v) ==
  LET planned == {s \in Enabled(v) : PlanTimerTrigger(v.def, s) # {}}
      missed  == {s \in planned : PersistentBootDecision(v.def, s)}
      location(s) == Location(TimerLastRunStorage(v.def.triggers), s)
      once == HandleTimerFiring(v)
  IN /\ \E delay \in [planned -> 0 .. v.def.jitter] :
          timers' = [s \in planned |->
                       NewTimer(v.def, CHOOSE o \in PlanTimerTrigger(v.def, s) : TRUE,
                                delay[s], v.def.persistent)]
     /\ svc' \in IF missed = {} THEN {v}
                 ELSE IF \E s \in missed : missed = {s} THEN once
                 ELSE UNION {HandleTimerFiring(w) : w \in once}
     /\ writes' = {[location |-> location(s), at |-> now] : s \in missed}
     /\ ran' = [l \in Locations |->
                  IF \E s \in missed : location(s) = l THEN Latest(ran[l], now)
                  ELSE ran[l]]

\* The service may have been started by Phase 2 before its timers are armed.
Boot(d, state) ==
  /\ machine = "off" /\ machine' = "up"
  /\ state \in {"Inactive", "Starting"}
  /\ RegisterBootTimers([def |-> d, pending |-> NoDefinition, removed |-> FALSE,
                         state |-> state, run |-> FALSE])
  /\ UNCHANGED <<now, reloaded, lastRun>>

(***************************************************************************)
(* A reload (apply_reloaded_definition, reconfigure_timers).  The service  *)
(* table takes the new definition first; Triggers, Disabled and Type stay  *)
(* as they are while an instance runs.  The timers that were ready are     *)
(* read next, and then the table keeps the timers that still match and     *)
(* arms the others from now, without looking at the last runs.             *)
(***************************************************************************)
Effective(old, new) ==
  [new EXCEPT !.triggers = old.triggers, !.disabled = old.disabled, !.type = old.type]

ApplyReloadedDefinition(v, d) ==
  IF IsPresent(v) /\ v.state \in RetainsDefinition
  THEN [v EXCEPT !.removed = FALSE, !.def = Effective(v.def, d),
                 !.pending = IF Effective(v.def, d) = d THEN NoDefinition ELSE d]
  ELSE IF IsPresent(v) THEN [v EXCEPT !.def = d, !.pending = NoDefinition]
  ELSE [def |-> d, pending |-> NoDefinition, removed |-> FALSE,
        state |-> "Inactive", run |-> FALSE]

RemoveDefinition(v) ==
  IF IsPresent(v) /\ v.state \in RetainsDefinition
  THEN [v EXCEPT !.removed = TRUE, !.pending = NoDefinition]
  ELSE Gone

ReloadConfig ==
  /\ Running /\ ~reloaded /\ reloaded' = TRUE
  /\ \/ \E d \in Definitions : svc' = ApplyReloadedDefinition(svc, d)
     \/ svc' = RemoveDefinition(svc)
  /\ UNCHANGED <<now, machine, timers, lastRun, writes, ran>>

Matches(e, d) ==
  /\ e.storage = TimerLastRunStorage(d.triggers)
  /\ e.persistent = d.persistent
  /\ e.jitter = d.jitter

Retained == {s \in Enabled(svc) \cap DOMAIN timers : Matches(timers[s], svc.def)}

ReconfigureTimers ==
  LET fresh == {s \in Enabled(svc) \ Retained : NextAfter(s, now) # {}}
  IN /\ Running /\ reloaded /\ reloaded' = FALSE
     /\ \E delay \in [fresh -> 0 .. (IF fresh = {} THEN 0 ELSE svc.def.jitter)] :
          timers' = [s \in Retained \cup fresh |->
                       IF s \in Retained THEN timers[s]
                       ELSE NewTimer(svc.def, CHOOSE o \in NextAfter(s, now) : TRUE,
                                     delay[s], FALSE)]
     /\ UNCHANGED <<now, machine, svc, lastRun, writes, ran>>

(***************************************************************************)
(* The rest of the supervisor: a state change of the service, and with an  *)
(* instance that ended the definition that waited for it.  Nothing replans *)
(* the timers here.  A pending run of a Oneshot is started when its main   *)
(* process's exit takes it to Completed or Inactive                        *)
(* (start_pending_timer_runs_after_terminal), whatever its definition now  *)
(* says of Disabled.                                                       *)
(***************************************************************************)
Drained(v) ==
  IF v.state \in RetainsDefinition THEN v
  ELSE IF v.removed THEN Gone
  ELSE IF v.pending = NoDefinition THEN v
  ELSE [v EXCEPT !.def = v.pending, !.pending = NoDefinition]

StartPendingTimerRun(v) ==
  IF /\ IsPresent(v) /\ v.state \in {"Completed", "Inactive"}
     /\ v.def.type = "Oneshot" /\ v.run
  THEN Started([v EXCEPT !.run = FALSE]) ELSE {v}

ServiceMoves(to, exit) ==
  LET v == Drained([svc EXCEPT !.state = to, !.run = @ /\ to # "Starting"])
  IN /\ Running /\ IsPresent(svc) /\ <<svc.state, to>> \in Moves
     /\ exit => svc.state \in RetainsDefinition
     /\ svc' \in IF exit THEN StartPendingTimerRun(v) ELSE {v}
     /\ UNCHANGED <<now, machine, reloaded, timers, lastRun, writes, ran>>

BeginShutdown ==
  /\ machine = "up" /\ machine' = "shutdown"
  /\ UNCHANGED <<now, svc, reloaded, timers, lastRun, writes, ran>>

(***************************************************************************)
(* The children that write a last run end in any order, or fail.           *)
(***************************************************************************)
WriteLands(w) ==
  /\ writes' = writes \ {w}
  /\ lastRun' = [lastRun EXCEPT ![w.location] = w.at]
  /\ UNCHANGED <<now, machine, svc, reloaded, timers, ran>>

WriteFails(w) ==
  /\ writes' = writes \ {w}
  /\ UNCHANGED <<now, machine, svc, reloaded, timers, lastRun, ran>>

(***************************************************************************)
(* The environment: the clock runs, also while nobody reads the timers; it *)
(* is set; and the machine goes off, at the end of a shutdown or for want  *)
(* of power.                                                               *)
(***************************************************************************)
Tick ==
  /\ now < MaxTime /\ now' = now + 1
  /\ timers' = [s \in DOMAIN timers |->
                  IF /\ timers[s].event = "none"
                     /\ timers[s].deadline # Never /\ timers[s].deadline <= now'
                  THEN [timers[s] EXCEPT !.event = "expired"] ELSE timers[s]]
  /\ UNCHANGED <<machine, svc, reloaded, lastRun, writes, ran>>

SetClock(t) ==
  /\ t # now /\ now' = t
  /\ timers' = [s \in DOMAIN timers |-> [timers[s] EXCEPT !.event = "canceled"]]
  /\ UNCHANGED <<machine, svc, reloaded, lastRun, writes, ran>>

PowerOff ==
  /\ machine # "off" /\ machine' = "off"
  /\ svc' = Gone /\ reloaded' = FALSE
  /\ timers' = [s \in {} |-> Never] /\ writes' = {}
  /\ UNCHANGED <<now, lastRun, ran>>

TimersInit ==
  /\ now = 0 /\ machine = "off"
  /\ svc = Gone /\ reloaded = FALSE
  /\ timers = [s \in {} |-> Never] /\ writes = {}
  /\ lastRun = [l \in Locations |-> Never]
  /\ ran = [l \in Locations |-> Never]

TimersNext ==
  \/ \E s \in Schedules : ReadExpired(s)
  \/ \E s \in Schedules : ReadCanceled(s)
  \/ \E d \in Definitions, state \in States : Boot(d, state)
  \/ ReloadConfig
  \/ ReconfigureTimers
  \/ \E to \in States, exit \in BOOLEAN : ServiceMoves(to, exit)
  \/ BeginShutdown
  \/ \E w \in writes : WriteLands(w)
  \/ \E w \in writes : WriteFails(w)
  \/ Tick
  \/ \E t \in 0 .. MaxTime : SetClock(t)
  \/ PowerOff

TimersSpec == TimersInit /\ [][TimersNext]_vars

(***************************************************************************)
(* What the timers promise.                                                *)
(***************************************************************************)
\* The occurrences that a timer answers for: those
\* since it was armed and, when it was armed at boot with its last run, all.
Owed(s, e) == {o \in Occurs[s] : e.boot \/ o > e.at}

\* While the loop runs, a timer whose service was there when it fired
\*   - waits for no occurrence later than one that nothing has fired for
\*     since: an occurrence after the last firing of its trigger is the one it
\*     waits for, or comes later, across reloads, settings of the clock, late
\*     turns, crashes and boots (rearm_anchor_ns, persistent_boot_decision);
\*   - passes over no occurrence that its jitter may still delay (PEI-831):
\*     until the window has gone by, it has fired or is still waited for;
\*   - is armed within the window of the occurrence it waits for, and fires
\*     none early and none twice.
OccurrencesAreKept ==
  Running =>
    \A s \in DOMAIN timers :
      LET e == timers[s] IN
      e.deadline # Never =>
        /\ \A o \in Owed(s, e) : o > ran[Location(e.storage, s)] => e.next <= o
        /\ e.event # "canceled" =>
             \A o \in Occurs[s] :
               \/ e.next <= o
               \/ o <= now /\ (o <= e.at \/ o + e.jitter <= now \/ o \in e.done)
        /\ e.deadline \in e.next .. (e.next + e.jitter)
        /\ e.event = "expired" => e.next <= now /\ e.next \notin e.done
=============================================================================
