---------------------------- MODULE ServiceTable ----------------------------
(***************************************************************************)
(* The service table of peinit: one entry per service, holding the         *)
(* definition the service runs under, the definition waiting for it, and   *)
(* the runtime state.  The operators are the methods of the table and the  *)
(* functions they rest on (src/src/service/...).  An operator that can     *)
(* refuse answers Refused, as the Rust methods answer Err; a caller that   *)
(* gets Refused commits nothing.                                           *)
(***************************************************************************)
EXTENDS Naturals, ServiceStates

CONSTANTS
    Definitions,    \* the definitions the registry may hold for a service
    MaxRetries      \* RestartMaxRetries, the budget of consecutive restarts

ASSUME MaxRetriesAssumption == MaxRetries \in Nat

(***************************************************************************)
(* Definitions and entries.  Of a ServiceDefinition the model keeps `prog' *)
(* (image, identity, privileges and relationships: the pinned fields that  *)
(* only have to be told apart), the type, RemainAfterExit and the          *)
(* compiled-in flag, which are pinned too, and three fields that a reload  *)
(* applies at run time: Readiness, RestartPolicy and whether there is a    *)
(* TTYPath.                                                                *)
(***************************************************************************)
DefinitionType ==
    [prog : STRING, type : {"Simple", "Oneshot"}, remain : BOOLEAN,
     compiledIn : BOOLEAN, readiness : {"Notify", "Alive"},
     policy : {"Never", "OnFailure", "Always"}, console : BOOLEAN]

ASSUME DefinitionsAssumption == Definitions \subseteq DefinitionType

NoDefinition == [prog |-> "none"]

\* The values outside the table's own entries: no entry, and an Err.
NoEntry == [state |-> "Absent"]
Refused == [state |-> "Refused"]

IsPresent(e) == e.state \in States
IsRefused(e) == e.state = "Refused"

\* clock: restart_backoff_until_ns is set; since: dependent_satisfied_since_ns
\* is set; cgroup: cgroup_generation; leaks: the trees in leaked_cgroups.
NewEntry(d) ==
    [def |-> d, pending |-> NoDefinition, removed |-> FALSE,
     state |-> "Inactive", cause |-> "None", generation |-> 0,
     failures |-> 0, clock |-> FALSE, since |-> FALSE,
     cgroup |-> 0, leaks |-> {}]

(***************************************************************************)
(* transition_service: the runtime's transition, the restart metadata, and *)
(* what becomes of the definition once the instance has drained.           *)
(***************************************************************************)
RuntimeTransition(e, to, cause) ==
    [e EXCEPT !.state = to,
              !.cause = cause,
              !.generation = IF to = "Starting" THEN @ + 1 ELSE @,
              !.since = IF to \in SatisfiesDependents THEN @ ELSE FALSE]

UpdateRestartMetadata(e) ==
    [e EXCEPT !.clock = IF e.state = "Backoff" THEN @ ELSE FALSE,
              !.failures = IF /\ e.state = "Inactive"
                              /\ e.cause \in {"CleanExit", "ExplicitReset"}
                           THEN 0 ELSE @]

\* apply_pending_definition_if_drained, then discard_drained_definition_removed
DrainDefinition(e) ==
    IF e.state \in RetainsDefinition THEN e
    ELSE IF e.removed THEN NoEntry
    ELSE IF e.pending # NoDefinition
         THEN [e EXCEPT !.def = e.pending, !.pending = NoDefinition]
         ELSE e

\* Mutation: a withdrawn entry stays once its instance has drained.
TransitionKeepsRemoved(e, to, cause) ==
    IF ~IsPresent(e) \/ cause \notin AllowedCauses(e.state, to) THEN Refused
    ELSE UpdateRestartMetadata(RuntimeTransition(e, to, cause))

TransitionService(e, to, cause) ==
    IF ~IsPresent(e) \/ cause \notin AllowedCauses(e.state, to) THEN Refused
    ELSE DrainDefinition(UpdateRestartMetadata(RuntimeTransition(e, to, cause)))

MarkDependentSatisfied(e) ==
    IF IsPresent(e) THEN [e EXCEPT !.since = TRUE] ELSE Refused

(***************************************************************************)
(* The restart policy.  A decision is Backoff or Fail with a cause.  The   *)
(* delay it computes is time, which the model does not keep.               *)
(***************************************************************************)
Decision(action, cause) == [action |-> action, cause |-> cause]

\* Mutation: the number of failures is not looked at.
EvaluateWithoutBudget(d, cause, success, failures) ==
    IF \/ d.policy = "Never"
       \/ cause \notin RestartEligible \cup {"CleanExitRestart", "BindsToRecovery"}
       \/ cause = "CleanExitRestart" /\ d.policy # "Always"
       \/ d.policy = "OnFailure" /\ cause = "ProcessCrash" /\ success
    THEN Decision("Fail", cause)
    ELSE Decision("Backoff", cause)

EvaluateRestartAfterFailure(d, cause, success, failures) ==
    IF \/ d.policy = "Never"
       \/ cause \notin RestartEligible \cup {"CleanExitRestart", "BindsToRecovery"}
       \/ cause = "CleanExitRestart" /\ d.policy # "Always"
       \/ d.policy = "OnFailure" /\ cause = "ProcessCrash" /\ success
    THEN Decision("Fail", cause)
    ELSE IF cause = "CleanExitRestart" /\ d.console
         THEN Decision("Backoff", cause)
    ELSE IF failures >= MaxRetries
         THEN Decision("Fail", "RestartBudgetExhausted")
         ELSE Decision("Backoff", cause)

\* A mutant of TransitionToRestartBackoff.
BackoffWithoutClock(e, cause) ==
    LET moved == TransitionService(e, "Backoff", cause)
    IN  IF ~IsPresent(moved) THEN Refused ELSE [moved EXCEPT !.failures = @ + 1]

\* transition_service_to_restart_backoff: the entry may be gone by the time
\* the counter and the deadline are written.
TransitionToRestartBackoff(e, cause) ==
    LET moved == TransitionService(e, "Backoff", cause)
    IN  IF ~IsPresent(moved) THEN Refused
        ELSE [moved EXCEPT
                !.failures = IF cause = "CleanExitRestart" /\ moved.def.console
                             THEN 0 ELSE @ + 1,
                !.clock = TRUE]

ConsumeRestartBackoff(e) == [e EXCEPT !.clock = FALSE]

RestartBackoffDue(e) ==
    IsPresent(e) /\ ~e.removed /\ e.state = "Backoff" /\ e.clock

RestartWindowResetDue(e) ==
    IsPresent(e) /\ ~e.removed /\ e.state = "Active" /\ e.failures > 0 /\ e.since

ReleaseCompletedOneshot(e) ==
    IF ~IsPresent(e) THEN Refused
    ELSE IF /\ e.def.type = "Oneshot"
            /\ ~e.def.remain
            /\ e.state = "Completed"
         THEN TransitionService(e, "Inactive", "CleanExit")
         ELSE e

\* A mutant of RecordLeakedCgroup.
RecordLeakInPlace(e, tree) ==
    IF ~IsPresent(e) THEN Refused ELSE [e EXCEPT !.leaks = @ \cup {tree}]

\* A leak in an older tree is recorded and moves nothing.
RecordLeakedCgroup(e, tree) ==
    IF ~IsPresent(e) THEN Refused
    ELSE [e EXCEPT !.leaks = @ \cup {tree},
                   !.cgroup = IF tree \notin e.leaks /\ tree = @ THEN @ + 1 ELSE @]

\* prepare_activation_snapshot
CanActivate(e) == IsPresent(e) /\ ~e.removed

ActivationSnapshot(e) ==
    [generation |-> e.generation + 1, cgroup |-> e.cgroup, def |-> e.def]

(***************************************************************************)
(* A registry snapshot applied to one entry.  `incoming' is the definition *)
(* the snapshot holds for the service, NoDefinition when it holds none,    *)
(* and Undecodable when its key would not decode.  `frozen' says that the  *)
(* service is a member of the boot plan whose launch was not yet tried.    *)
(***************************************************************************)
Undecodable == [prog |-> "undecodable"]

Effective(current, incoming) ==
    [incoming EXCEPT !.prog = current.prog,
                     !.type = current.type,
                     !.remain = current.remain,
                     !.compiledIn = current.compiledIn]

Deferred(e, incoming) ==
    [e EXCEPT !.pending = IF e.def = incoming THEN NoDefinition ELSE incoming]

\* A mutant of Reloaded.
ReloadedAtOnce(e, incoming) ==
    [e EXCEPT !.def = incoming, !.pending = NoDefinition, !.removed = FALSE]

Reloaded(e, incoming) ==
    IF e.state \in RetainsDefinition
    THEN LET effective == Effective(e.def, incoming)
         IN  [e EXCEPT !.def = effective,
                       !.pending = IF effective = incoming THEN NoDefinition
                                   ELSE incoming,
                       !.removed = FALSE]
    ELSE [e EXCEPT !.def = incoming, !.pending = NoDefinition, !.removed = FALSE]

Withdrawn(e) ==
    IF e.def.compiledIn THEN e
    ELSE IF e.state \in RetainsDefinition THEN [e EXCEPT !.removed = TRUE]
    ELSE NoEntry

PlaceholderDefinition ==
    [prog |-> "placeholder", type |-> "Simple", remain |-> FALSE,
     compiledIn |-> FALSE, readiness |-> "Notify", policy |-> "OnFailure",
     console |-> FALSE]

Placeholder ==
    [NewEntry(PlaceholderDefinition) EXCEPT
        !.removed = TRUE, !.state = "Failed", !.cause = "ValidationError"]

ApplyUndecodable(e) ==
    IF IsPresent(e) /\ e.state \in RetainsDefinition
    THEN [e EXCEPT !.removed = TRUE, !.pending = NoDefinition]
    ELSE Placeholder

\* reload_config puts the running definition of a compiled-in service in the
\* snapshot when the registry does not define it.
WithCompiledIn(e, incoming) ==
    IF /\ IsPresent(e)
       /\ e.def.compiledIn
       /\ incoming \in {NoDefinition, Undecodable}
    THEN e.def
    ELSE incoming

ApplySnapshot(e, registered, frozen) ==
    LET incoming == WithCompiledIn(e, registered)
        defined  == incoming \notin {NoDefinition, Undecodable}
    IN  CASE ~IsPresent(e) /\ defined -> NewEntry(incoming)
          [] ~IsPresent(e) /\ incoming = NoDefinition -> e
          [] IsPresent(e) /\ frozen -> IF defined THEN Deferred(e, incoming) ELSE e
          [] IsPresent(e) /\ ~frozen /\ defined -> Reloaded(e, incoming)
          [] IsPresent(e) /\ ~frozen /\ incoming = NoDefinition -> Withdrawn(e)
          [] OTHER -> ApplyUndecodable(e)

=============================================================================
