---------------------------- MODULE ServiceStates ---------------------------
(***************************************************************************)
(* The state machine of a service: ServiceState, the classes of states the *)
(* supervisor asks for, TransitionCause, and the transitions that are      *)
(* allowed (src/src/service/runtime/).                                     *)
(***************************************************************************)
(***************************************************************************)
(* ServiceState, its classes, and TransitionCause.                         *)
(***************************************************************************)
States == {"Inactive", "Starting", "Active", "Reloading", "Stopping",
           "Completed", "Backoff", "Failed", "Abandoned", "Skipped"}

StartCauses == {"ExplicitStart", "DependencyStart", "RestartPolicy",
                "BindsToRecovery", "Timer"}

StopCauses == {"ExplicitStop", "ConflictEviction", "BindsToPropagation",
               "ShutdownWave"}

\* restart_consultation() = RestartEligible
RestartEligible == {"ProcessCrash", "WatchdogTimeout", "HealthCheckFailure",
                    "ReadinessTimeout", "PreHookFailure", "PreExecFailure",
                    "ParentSetupFailure"}

Causes == StartCauses \cup StopCauses \cup RestartEligible \cup
    {"None", "CleanExit", "CleanExitRestart", "ExplicitReload",
     "ExplicitReset", "ConditionSkipped", "TtyUnavailable", "ValidationError",
     "AssertionError", "CycleDetected", "DependencyFailure",
     "RestartBudgetExhausted", "ProcessUnkillable", "InternalError"}

SatisfiesDependents == {"Active", "Reloading", "Completed", "Skipped"}

\* The states that keep an entry after its definition is withdrawn: there is
\* an instance still to supervise.
RetainsDefinition == {"Starting", "Active", "Reloading", "Stopping"}

(***************************************************************************)
(* The edges of the state machine: the causes under which a service may go *)
(* from one state to another.                                              *)
(***************************************************************************)
StartupRetryCauses == {"ReadinessTimeout", "PreHookFailure", "ProcessCrash",
                       "PreExecFailure", "ParentSetupFailure"}

AllowedCauses(from, to) ==
    CASE from = "Inactive" /\ to = "Starting" ->
            {"ExplicitStart", "DependencyStart", "Timer"}
      [] from = "Inactive" /\ to = "Skipped" ->
            {"ConditionSkipped", "TtyUnavailable"}
      [] from = "Inactive" /\ to = "Failed" ->
            {"ValidationError", "AssertionError", "CycleDetected",
             "DependencyFailure"}
      [] from = "Starting" /\ to \in {"Active", "Completed"} -> StartCauses
      [] from = "Starting" /\ to = "Skipped" -> {"ConditionSkipped"}
      [] from = "Starting" /\ to = "Backoff" -> StartupRetryCauses
      [] from = "Starting" /\ to = "Stopping" -> {"ExplicitStop"}
      [] from = "Starting" /\ to = "Failed" -> StartupRetryCauses \cup
            {"AssertionError", "ShutdownWave", "DependencyFailure",
             "ValidationError", "CycleDetected", "RestartBudgetExhausted",
             "InternalError"}
      [] from = "Active" /\ to = "Reloading" -> {"ExplicitReload"}
      [] from = "Active" /\ to = "Stopping" -> StopCauses
      [] from = "Active" /\ to = "Backoff" ->
            {"ProcessCrash", "CleanExitRestart", "HealthCheckFailure",
             "WatchdogTimeout"}
      [] from = "Active" /\ to = "Failed" ->
            {"ProcessCrash", "HealthCheckFailure", "WatchdogTimeout",
             "RestartBudgetExhausted", "InternalError"}
      [] from = "Active" /\ to = "Inactive" -> {"CleanExit"}
      [] from = "Backoff" /\ to = "Starting" -> {"RestartPolicy"}
      [] from = "Backoff" /\ to = "Inactive" -> {"ExplicitStop"}
      [] from = "Backoff" /\ to = "Skipped" ->
            {"ConditionSkipped", "TtyUnavailable"}
      [] from = "Backoff" /\ to = "Failed" -> {"InternalError"}
      [] from = "Reloading" /\ to = "Active" -> {"ExplicitReload"}
      [] from = "Reloading" /\ to = "Stopping" -> StopCauses
      [] from = "Reloading" /\ to = "Backoff" -> {"ProcessCrash"}
      [] from = "Reloading" /\ to = "Failed" ->
            {"ProcessCrash", "RestartBudgetExhausted", "InternalError"}
      [] from = "Stopping" /\ to = "Inactive" -> {"ExplicitStop", "ShutdownWave"}
      [] from = "Stopping" /\ to = "Failed" ->
            {"ConflictEviction", "BindsToPropagation", "InternalError"}
      [] from = "Stopping" /\ to = "Abandoned" -> {"ProcessUnkillable"}
      [] from = "Stopping" /\ to = "Starting" -> {"ExplicitStart"}
      [] from = "Completed" /\ to = "Inactive" ->
            {"CleanExit", "ExplicitStop", "ShutdownWave"}
      [] from = "Completed" /\ to = "Starting" -> {"ExplicitStart", "Timer"}
      [] from = "Failed" /\ to = "Starting" ->
            {"ExplicitStart", "BindsToRecovery", "Timer"}
      [] from = "Failed" /\ to = "Inactive" -> {"ExplicitReset"}
      [] from = "Failed" /\ to = "Abandoned" -> {"ProcessUnkillable"}
      [] from = "Abandoned" /\ to = "Inactive" -> {"ExplicitReset"}
      [] from = "Skipped" /\ to = "Inactive" -> {"ExplicitReset", "ExplicitStart"}
      [] OTHER -> {}
=============================================================================
