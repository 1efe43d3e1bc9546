---------------------------- MODULE BootTrackers ----------------------------
(***************************************************************************)
(* What happens to a boot after its plan is made: BootSuccessTracker, that *)
(* confirms the boot once its critical services have been up for the grace *)
(* period, and BootSettleTracker, that starts the services with a          *)
(* boot:settled trigger once the others stop moving.  Both are looked at   *)
(* whenever the lifecycle timer fires; the services move by themselves (as *)
(* ServiceLifecycle describes).  Time is counted in ticks.                 *)
(***************************************************************************)
EXTENDS Integers, FiniteSets, FiniteSetsExt

CONSTANTS
  Services,              \* services of the boot plans
  Grace, SettleTimeout,  \* in ticks
  MaxTime                \* bound: ticks of a boot

ASSUME TrackersAssumption == Grace \in Nat /\ SettleTimeout \in Nat /\ MaxTime \in Nat

VARIABLES
  states,     \* the services' runtime: state, and since when they satisfy
  success,   \* BootSuccessTracker
  settle,    \* BootSettleTracker
  clock,     \* monotonic time
  lastUnmet  \* history: when a required service was last not satisfied

trackerVars == <<states, success, settle, clock, lastUnmet>>

NoTime == -1

(* A reload is no outage.                                                  *)
SatisfiesDependents(s) == states[s].state \in {"Active", "Reloading"}

(***************************************************************************)
(* BootSuccessTracker.                                                     *)
(***************************************************************************)
(* The critical services among those the plan starts, blocks or retains;   *)
(* without any, the boot is satisfied from the plan on.                    *)
ConfigureSuccess(plan, at) ==
  [required |-> {s \in plan.starts \cup plan.blocked \cup plan.retained :
                   s \in plan.critical},
   since |-> IF plan.mode = "Recovery" THEN NoTime ELSE at,
   reset |-> "no"]

(* From the first of the critical services to be satisfied.                *)
FirstSatisfiedSince ==
  IF success.required = {} THEN success.since
  ELSE IF \E s \in success.required : ~ SatisfiesDependents(s) THEN NoTime
  ELSE Min({states[s].since : s \in success.required})

(* The last of the critical services to be satisfied starts the grace.     *)
RequiredSatisfiedSince ==
  IF success.required = {} THEN success.since
  ELSE IF \E s \in success.required : ~ SatisfiesDependents(s) THEN NoTime
  ELSE Max({states[s].since : s \in success.required})

SuccessDeadline ==
  IF success.reset # "no" \/ RequiredSatisfiedSince = NoTime THEN NoTime
  ELSE RequiredSatisfiedSince + Grace

(* boot_status: what the boot still waits for.                             *)
WaitingOn ==
  IF success.reset # "no" THEN {}
  ELSE {s \in success.required : ~ SatisfiesDependents(s)}

(***************************************************************************)
(* BootSettleTracker.                                                      *)
(***************************************************************************)
(* The plan's own time as the due time, 0 included.                        *)
ConfigureSettleAtZero(plan, at) ==
  [awaiting |-> plan.starts \cup plan.blocked,
   deferred |-> plan.deferred,
   deadline |-> at + SettleTimeout,
   due      |-> at,
   fired    |-> FALSE]

(* A blocked service is Failed and so settled from the start.              *)
ConfigureSettle(plan, at) ==
  [awaiting |-> plan.starts \cup plan.blocked,
   deferred |-> plan.deferred,
   deadline |-> at + SettleTimeout,
   due      |-> Max({at, 1}),
   fired    |-> FALSE]

(* States a service does not leave by itself.                              *)
IsTerminal(state) == state \in {"Active", "Failed", "Inactive"}

IsSettled == \A s \in settle.awaiting : IsTerminal(states[s].state)

(* Once settled, a due time in the past.                                   *)
SettleDeadline ==
  IF settle.fired \/ settle.deferred = {} THEN NoTime
  ELSE IF IsSettled THEN settle.due
  ELSE settle.deadline

(***************************************************************************)
(* Steps.                                                                  *)
(***************************************************************************)
(* A timerfd fires once the time it is armed for has come; arming it for 0 *)
(* disarms it.                                                             *)
TimerFires(due) == due > 0 /\ due <= clock

Unplanned == [required |-> {}, since |-> NoTime, reset |-> "no"]

(* The trackers before there is a plan.                                    *)
TrackersInit ==
  /\ states = [s \in Services |-> [state |-> "Inactive", since |-> NoTime]]
  /\ success = Unplanned
  /\ settle = [awaiting |-> {}, deferred |-> {}, deadline |-> 0, due |-> 0,
               fired |-> FALSE]
  /\ clock = 0
  /\ lastUnmet = 0

(* What run_phase2_boot does of the trackers, once it has a plan.  The     *)
(* starts it releases are under way.                                       *)
ConfigurePhase2(plan, at) ==
  /\ states' = [s \in Services |->
                  [state |-> IF s \in plan.retained THEN "Active"
                             ELSE IF s \in plan.blocked THEN "Failed"
                             ELSE IF s \in plan.starts THEN "Starting"
                             ELSE "Inactive",
                   since |-> IF s \in plan.retained THEN at ELSE NoTime]]
  /\ success' = ConfigureSuccess(plan, at)
  /\ settle' = ConfigureSettle(plan, at)
  /\ clock' = at
  /\ lastUnmet' = at

(* History: the time, as long as some required service is not satisfied.   *)
Observe ==
  lastUnmet' = IF \E s \in success.required :
                    states'[s].state \notin {"Active", "Reloading"}
               THEN clock' ELSE lastUnmet

Moves == [Inactive |-> {}, Starting |-> {"Active", "Backoff", "Failed"},
          Active |-> {"Reloading", "Backoff", "Failed"},
          Reloading |-> {"Active", "Backoff"},
          Backoff |-> {"Starting"}, Failed |-> {"Starting"}]

(* The stamp is set when the service comes to satisfy and cleared when it  *)
(* no longer does.                                                         *)
ServiceMoves(s) ==
  /\ \E state \in Moves[states[s].state] :
       states' = [states EXCEPT ![s] = [state |-> state,
                   since |-> IF state \notin {"Active", "Reloading"} THEN NoTime
                             ELSE IF SatisfiesDependents(s) THEN states[s].since
                             ELSE clock]]
  /\ UNCHANGED <<success, settle, clock>>
  /\ Observe

Tick ==
  /\ clock < MaxTime
  /\ clock' = clock + 1
  /\ UNCHANGED <<states, success, settle>>
  /\ Observe

(* process_due: the reset is tried once, and is not tried again if it      *)
(* fails.                                                                  *)
BootSuccessDue ==
  /\ TimerFires(SuccessDeadline)
  /\ success' \in {[success EXCEPT !.reset = r] : r \in {"ok", "failed"}}
  /\ UNCHANGED <<states, settle, clock, lastUnmet>>

(* take_due: the deferred services are started.                            *)
BootSettleDue ==
  /\ TimerFires(SettleDeadline)
  /\ settle' = [settle EXCEPT !.fired = TRUE]
  /\ states' = [s \in Services |->
                 IF s \in settle.deferred /\ states[s].state = "Inactive"
                 THEN [states[s] EXCEPT !.state = "Starting"] ELSE states[s]]
  /\ UNCHANGED <<success, clock>>
  /\ Observe

TrackersNext ==
  \/ \E s \in Services : ServiceMoves(s)
  \/ Tick
  \/ BootSuccessDue
  \/ BootSettleDue

(* What the trackers do whatever plan is made, and whenever it is.         *)
Plans == [mode : {"Full", "Safe", "Recovery"}, starts : SUBSET Services,
          blocked : SUBSET Services, retained : SUBSET Services,
          critical : SUBSET Services, deferred : SUBSET Services]

PlanIsMade ==
  success = Unplanned /\ \E plan \in Plans, at \in Nat : ConfigurePhase2(plan, at)

TrackersSpec == TrackersInit /\ [][PlanIsMade \/ TrackersNext]_trackerVars

(***************************************************************************)
(* Properties.                                                             *)
(***************************************************************************)
(* The counter is reset only when every critical service of the plan has   *)
(* been up without a break for the whole grace period.                     *)
ConfirmedAfterGrace ==
  [][success'.reset # success.reset =>
       /\ WaitingOn = {}
       /\ clock - lastUnmet >= Grace]_trackerVars

(* Services waiting for a quiet console are started, even when the boot    *)
(* never goes quiet and even when the plan was made at time 0.             *)
PromptIsStarted == settle.deferred # {} ~> settle.fired
=============================================================================
