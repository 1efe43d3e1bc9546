---------------------- MODULE ServiceLifecycleProofs ----------------------
(***************************************************************************)
(* The proofs about ServiceLifecycle: what each operator on an entry makes *)
(* of a sound entry, that every action keeps the inductive invariant IInv, *)
(* and the theorems that follow from it.  IInv has four parts: the entry   *)
(* is sound (its restart budget, its withdrawal and the cause of its       *)
(* stop), the other variables have their shape, the starts, the job and    *)
(* the stop agree with the state (WayOut), and, while no definition is     *)
(* withdrawn, every tree the supervisor still names is at most the entry's *)
(* next one and every leaked tree is below it (Trees).                     *)
(***************************************************************************)
EXTENDS ServiceLifecycle, TLAPS

\* The fields of a definition.
DefFields == {"prog", "type", "remain", "compiledIn", "readiness", "policy", "console"}

\* The fields of an entry and the kinds of the ones the proofs compute with.
Shape(e) ==
    /\ DOMAIN e = {"def", "pending", "removed", "state", "cause", "generation", "failures",
                   "clock", "since", "cgroup", "leaks"}
    /\ e.state \in States
    /\ e.generation \in Nat /\ e.failures \in Nat /\ e.cgroup \in Nat
    /\ DOMAIN e.def = DefFields
    /\ e.pending = NoDefinition \/ DOMAIN e.pending = DefFields

\* The restart budget.  A definition that waits differs in the terminal from
\* the one in use only before the first failure: a reload applies that field at
\* once, except to a member of the boot plan.
Budget(e) ==
    /\ MaxRetries # 0 => e.failures <= MaxRetries
    /\ e.generation = 0 => e.failures = 0
    /\ e.pending # NoDefinition /\ e.pending.console # e.def.console => e.failures = 0
    /\ e.state \in RetainsDefinition \cup {"Backoff"} => e.generation # 0

\* Only an instance that still runs, or a key that does not decode, keeps a
\* withdrawn entry.
Kept(e) == e.removed => e.state \in RetainsDefinition \/ e.def = PlaceholderDefinition

\* A service is Stopping for one of the causes a stop has.
Caused(e) == e.state = "Stopping" => e.cause \in StopCauses

\* What holds of an entry whatever the rest of the supervisor does.
Sound(e) == Shape(e) /\ Budget(e) /\ Kept(e) /\ Caused(e)

\* The service is unknown, or its entry is sound.
EntryInv(e) == e = NoEntry \/ Sound(e)

\* What RuntimeTransition and UpdateRestartMetadata leave alone.
SameInstance(e, x) ==
    /\ DOMAIN x = DOMAIN e
    /\ x.def = e.def /\ x.pending = e.pending /\ x.removed = e.removed
    /\ x.cgroup = e.cgroup /\ x.leaks = e.leaks

\* RuntimeTransition sets the state and the cause and counts the starts; it
\* touches nothing else.
LEMMA RuntimeFields ==
    ASSUME NEW e, Shape(e), NEW to, NEW cause,
           NEW r, r = RuntimeTransition(e, to, cause)
    PROVE  /\ SameInstance(e, r)
           /\ r.state = to /\ r.cause = cause
           /\ r.generation = IF to = "Starting" THEN e.generation + 1 ELSE e.generation
           /\ r.failures = e.failures /\ r.clock = e.clock
  BY Zenon DEF Shape, RuntimeTransition, SameInstance

\* UpdateRestartMetadata may reset the failures; it leaves the state and the
\* instance alone.
LEMMA MetadataFields ==
    ASSUME NEW e, NEW r, DOMAIN r = DOMAIN e, Shape(e),
           NEW m, m = UpdateRestartMetadata(r)
    PROVE  /\ SameInstance(r, m)
           /\ m.state = r.state /\ m.cause = r.cause /\ m.generation = r.generation
           /\ m.failures \in {0, r.failures}
  BY Zenon DEF Shape, UpdateRestartMetadata, SameInstance

\* DrainDefinition discards a withdrawn entry without an instance, keeps an
\* entry with one, and otherwise applies the definition that waits.
LEMMA DrainFields ==
    ASSUME NEW e, NEW m, DOMAIN m = DOMAIN e, Shape(e),
           NEW x, x = DrainDefinition(m)
    PROVE  \/ x = NoEntry /\ m.removed /\ m.state \notin RetainsDefinition
           \/ x = m /\ m.state \in RetainsDefinition
           \/ /\ m.state \notin RetainsDefinition /\ ~m.removed
              /\ DOMAIN x = DOMAIN m
              /\ x.state = m.state /\ x.cause = m.cause /\ x.generation = m.generation
              /\ x.failures = m.failures /\ x.removed = m.removed
              /\ x.cgroup = m.cgroup /\ x.leaks = m.leaks
              /\ x.pending = NoDefinition
              /\ x.def = IF m.pending = NoDefinition THEN m.def ELSE m.pending
  BY Zenon DEF Shape, DrainDefinition

\* What a transition that is not refused makes of an entry.
Lands(e, to, cause, x) ==
    /\ Shape(x)
    /\ x.state = to /\ x.cause = cause
    /\ x.generation = IF to = "Starting" THEN e.generation + 1 ELSE e.generation
    /\ x.failures \in {0, e.failures}
    /\ x.cgroup = e.cgroup /\ x.leaks = e.leaks
    /\ x.removed = e.removed
    /\ IF to \in RetainsDefinition
       THEN x.def = e.def /\ x.pending = e.pending
       ELSE /\ ~x.removed /\ x.pending = NoDefinition
            /\ x.def = IF e.pending = NoDefinition THEN e.def ELSE e.pending

\* An allowed transition discards a withdrawn entry or lands in the state it
\* names.
LEMMA TransitionLands ==
    ASSUME NEW e, Shape(e), NEW to \in States, NEW cause,
           NEW x, x = TransitionService(e, to, cause)
    PROVE  \/ x = Refused /\ cause \notin AllowedCauses(e.state, to)
           \/ /\ cause \in AllowedCauses(e.state, to)
              /\ \/ x = NoEntry /\ e.removed /\ to \notin RetainsDefinition
                 \/ Lands(e, to, cause, x)
<1>1. CASE cause \notin AllowedCauses(e.state, to)
  BY <1>1, Zenon DEF TransitionService
<1>2. CASE cause \in AllowedCauses(e.state, to)
  <2>2. PICK r : r = RuntimeTransition(e, to, cause)
    BY Zenon
  <2>3. PICK m : m = UpdateRestartMetadata(r)
    BY Zenon
  <2>4. x = DrainDefinition(m)
    BY <1>2, <2>2, <2>3, Zenon DEF TransitionService, IsPresent, Shape
  <2>5. /\ SameInstance(e, r)
        /\ r.state = to /\ r.cause = cause
        /\ r.generation = IF to = "Starting" THEN e.generation + 1 ELSE e.generation
        /\ r.failures = e.failures
    BY <2>2, RuntimeFields
  <2>6. /\ SameInstance(r, m)
        /\ m.state = r.state /\ m.cause = r.cause /\ m.generation = r.generation
        /\ m.failures \in {0, r.failures}
    BY <2>3, <2>5, MetadataFields DEF SameInstance
  <2>7. \/ x = NoEntry /\ m.removed /\ m.state \notin RetainsDefinition
        \/ x = m /\ m.state \in RetainsDefinition
        \/ /\ m.state \notin RetainsDefinition /\ ~m.removed
           /\ DOMAIN x = DOMAIN m
           /\ x.state = m.state /\ x.cause = m.cause /\ x.generation = m.generation
           /\ x.failures = m.failures /\ x.removed = m.removed
           /\ x.cgroup = m.cgroup /\ x.leaks = m.leaks
           /\ x.pending = NoDefinition
           /\ x.def = IF m.pending = NoDefinition THEN m.def ELSE m.pending
    BY <2>4, <2>5, <2>6, DrainFields DEF SameInstance
  <2>8. CASE x = NoEntry /\ m.removed /\ m.state \notin RetainsDefinition
    BY <1>2, <2>5, <2>6, <2>8, Zenon DEF SameInstance
  <2>9. CASE x = m /\ m.state \in RetainsDefinition
    BY <1>2, <2>5, <2>6, <2>9 DEF SameInstance, Lands, Shape
  <2>10. CASE /\ m.state \notin RetainsDefinition /\ ~m.removed
              /\ DOMAIN x = DOMAIN m
              /\ x.state = m.state /\ x.cause = m.cause /\ x.generation = m.generation
              /\ x.failures = m.failures /\ x.removed = m.removed
              /\ x.cgroup = m.cgroup /\ x.leaks = m.leaks
              /\ x.pending = NoDefinition
              /\ x.def = IF m.pending = NoDefinition THEN m.def ELSE m.pending
    BY <1>2, <2>5, <2>6, <2>10 DEF SameInstance, Lands, Shape
  <2> QED
    BY <2>7, <2>8, <2>9, <2>10, Zenon
<1> QED
  BY <1>1, <1>2, Zenon

\* An entry with fields is present, and is neither the missing entry nor a
\* refusal.
LEMMA Presence ==
    /\ ~IsPresent(NoEntry) /\ ~IsPresent(Refused) /\ ~IsRefused(NoEntry) /\ IsRefused(Refused)
    /\ NoEntry # Refused
    /\ \A e : Shape(e) => IsPresent(e) /\ ~IsRefused(e) /\ e # NoEntry /\ e # Refused
  BY DEF NoEntry, Refused, IsPresent, IsRefused, States, Shape

\* Only an instance becomes Active, Reloading, Stopping or Backoff: the only
\* edge that makes one leads into Starting.
LEMMA InstanceCauses ==
    ASSUME NEW from \in States, NEW to \in {"Active", "Reloading", "Stopping", "Backoff"},
           AllowedCauses(from, to) # {}
    PROVE  from \in RetainsDefinition
  BY Zenon DEF AllowedCauses, States, RetainsDefinition

\* Every edge into Stopping has a cause of a stop.
LEMMA StoppingCauses ==
    ASSUME NEW from \in States
    PROVE  AllowedCauses(from, "Stopping") \subseteq StopCauses
  BY Zenon DEF AllowedCauses, States, StopCauses

\* Only an instance that is not being stopped goes into Backoff.
LEMMA BackoffCauses ==
    ASSUME NEW from \in States, AllowedCauses(from, "Backoff") # {}
    PROVE  from \in {"Starting", "Active", "Reloading"}
  BY Zenon DEF AllowedCauses, States

\* x is what an operation of the table makes of e: an error, nothing, when e was
\* withdrawn, or an entry in one of the states S.
Moves(e, x, S) ==
    \/ x = Refused
    \/ x = NoEntry /\ e.removed
    \/ /\ Sound(x)
       /\ x.state \in S
       /\ x.cgroup = e.cgroup /\ x.leaks = e.leaks /\ x.removed = e.removed
       /\ x.state = "Backoff" => x.clock
       /\ x.generation >= e.generation
       /\ x.state \in RetainsDefinition /\ x.generation = e.generation => x.def = e.def

\* A transition of a sound entry is refused or moves it, and leaves it sound.
LEMMA TransitionMoves ==
    ASSUME NEW e, Sound(e), NEW to \in States \ {"Backoff"}, NEW cause,
           NEW x, x = TransitionService(e, to, cause)
    PROVE  Moves(e, x, {to})
<1>1. \/ x = Refused /\ cause \notin AllowedCauses(e.state, to)
      \/ /\ cause \in AllowedCauses(e.state, to)
         /\ \/ x = NoEntry /\ e.removed /\ to \notin RetainsDefinition
            \/ Lands(e, to, cause, x)
  BY TransitionLands DEF Sound
<1>2. CASE x = Refused \/ (x = NoEntry /\ e.removed)
  BY <1>2, Zenon DEF Moves
<1>3. CASE cause \in AllowedCauses(e.state, to) /\ Lands(e, to, cause, x)
  <2>1. to \in {"Active", "Reloading", "Stopping"} => e.state \in RetainsDefinition
    BY <1>3, InstanceCauses, Zenon DEF Sound, Shape
  <2>2. Shape(x)
    BY <1>3, Zenon DEF Lands
  <2>3. Budget(x)
    BY <1>3, <2>1, <2>2, MaxRetriesAssumption DEF Lands, Sound, Shape, Budget, RetainsDefinition
  <2>4. Kept(x)
    BY <1>3, Zenon DEF Lands, Kept
  <2>5. Caused(x)
    BY <1>3, StoppingCauses, Zenon DEF Lands, Caused, Sound, Shape
  <2> QED
    BY <1>3, <2>2, <2>3, <2>4, <2>5 DEF Moves, Lands, Sound, Shape, RetainsDefinition
<1> QED
  BY <1>1, <1>2, <1>3, Zenon

\* TransitionToRestartBackoff counts the failure within the budget: Evaluate
\* asked for it only below MaxRetries, and a definition that waits can change
\* the answer only before the first failure.
LEMMA RestartBackoffMoves ==
    ASSUME NEW e, Sound(e), NEW cause,
           \/ cause = "CleanExitRestart" /\ e.def.console
           \/ e.failures < MaxRetries,
           NEW x, x = TransitionToRestartBackoff(e, cause)
    PROVE  Moves(e, x, {"Backoff"})
<1>1. PICK m : m = TransitionService(e, "Backoff", cause)
  BY Zenon
<1>2. \/ m = Refused
      \/ /\ cause \in AllowedCauses(e.state, "Backoff")
         /\ m = NoEntry \/ Lands(e, "Backoff", cause, m)
  BY <1>1, TransitionLands, Zenon DEF Sound, States
<1>3. CASE ~IsPresent(m)
  BY <1>1, <1>3, Zenon DEF TransitionToRestartBackoff, Moves
<1>4. CASE IsPresent(m)
  <2>1. /\ cause \in AllowedCauses(e.state, "Backoff")
        /\ Lands(e, "Backoff", cause, m)
    BY <1>2, <1>4, Presence, Zenon
  <2>2. e.state \in RetainsDefinition
    BY <2>1, InstanceCauses, Zenon DEF Sound, Shape
  <2>3. PICK n : n = IF cause = "CleanExitRestart" /\ m.def.console THEN 0 ELSE m.failures + 1
    BY Zenon
  <2>4. PICK b : b = TRUE
    BY Zenon
  <2>5. x = [m EXCEPT !.failures = n, !.clock = b]
    BY <1>1, <1>4, <2>3, <2>4, Zenon DEF TransitionToRestartBackoff
  <2>6. /\ DOMAIN x = DOMAIN m /\ x.failures = n /\ x.clock = b
        /\ x.state = m.state /\ x.generation = m.generation /\ x.removed = m.removed
        /\ x.def = m.def /\ x.pending = m.pending /\ x.cgroup = m.cgroup /\ x.leaks = m.leaks
    <3>1. Shape(m)
      BY <2>1, Zenon DEF Lands
    <3> QED
      BY <2>5, <3>1, Zenon DEF Shape
  <2>7. n \in Nat /\ (MaxRetries # 0 => n <= MaxRetries)
    <3>1. m.failures \in {0, e.failures} /\ e.failures \in Nat
      BY <2>1, Zenon DEF Lands, Sound, Shape
    <3>2. CASE e.failures < MaxRetries
      BY <2>3, <3>1, <3>2, MaxRetriesAssumption
    <3>3. CASE cause = "CleanExitRestart" /\ e.def.console
      <4>1. CASE m.def.console
        BY <2>3, <3>1, <3>3, <4>1, MaxRetriesAssumption
      <4>2. CASE ~m.def.console
        <5>1. m.def = IF e.pending = NoDefinition THEN e.def ELSE e.pending
          BY <2>1, Zenon DEF Lands, RetainsDefinition
        <5>2. e.failures = 0
          BY <3>3, <4>2, <5>1, Zenon DEF Sound, Budget
        <5> QED
          BY <2>3, <3>1, <4>2, <5>2, MaxRetriesAssumption
      <4> QED
        BY <4>1, <4>2, Zenon
    <3> QED
      BY <3>2, <3>3, Zenon
  <2>8. Shape(x)
    BY <2>1, <2>6, <2>7, Zenon DEF Lands, Shape
  <2>9. Budget(x)
    BY <2>1, <2>2, <2>6, <2>7, Zenon DEF Lands, Sound, Budget, RetainsDefinition
  <2>10. Kept(x)
    BY <2>1, <2>6, Zenon DEF Lands, Kept, RetainsDefinition
  <2>11. Caused(x)
    BY <2>1, <2>6, Zenon DEF Lands, Caused
  <2> QED
    BY <2>1, <2>4, <2>6, <2>8, <2>9, <2>10, <2>11
    DEF Moves, Lands, Sound, Shape, RetainsDefinition
<1> QED
  BY <1>3, <1>4, Zenon

\* Everything of an entry but the clocks and the counter.
SameEntry(e, x) ==
    /\ DOMAIN x = DOMAIN e
    /\ x.state = e.state /\ x.cause = e.cause /\ x.generation = e.generation
    /\ x.def = e.def /\ x.pending = e.pending /\ x.removed = e.removed
    /\ x.cgroup = e.cgroup /\ x.leaks = e.leaks

\* An entry that differs from a sound one in its clock alone, or has its
\* failures reset, is sound.
LEMMA SameIsSound ==
    ASSUME NEW e, Sound(e), NEW x, SameEntry(e, x), x.failures \in {0, e.failures}
    PROVE  Sound(x)
  BY MaxRetriesAssumption DEF Sound, Shape, Budget, Kept, Caused, SameEntry

\* MarkDependentSatisfied does not move an entry.
LEMMA MarkMoves ==
    ASSUME NEW e, NEW y, NEW S, Moves(e, y, S), "Backoff" \notin S,
           NEW x, x = MarkDependentSatisfied(y)
    PROVE  Moves(e, x, S)
<1>1. CASE ~IsPresent(y)
  BY <1>1, Zenon DEF MarkDependentSatisfied, Moves
<1>2. CASE IsPresent(y)
  <2>1. Sound(y) /\ y # Refused /\ y # NoEntry
    BY <1>2, Presence, Zenon DEF Moves
  <2>2. x = [y EXCEPT !.since = TRUE]
    BY <1>2, Zenon DEF MarkDependentSatisfied
  <2>3. SameEntry(y, x) /\ x.failures = y.failures
    BY <2>1, <2>2, Zenon DEF Sound, Shape, SameEntry
  <2>4. Sound(x)
    BY <2>1, <2>3, SameIsSound, Zenon
  <2> QED
    BY <2>1, <2>3, <2>4, Zenon DEF Moves, SameEntry
<1> QED
  BY <1>1, <1>2, Zenon

\* Skipped moves an entry to Skipped or refuses.
LEMMA SkippedMoves ==
    ASSUME NEW e, Sound(e), NEW outcome, NEW x, x = Skipped(e, outcome)
    PROVE  Moves(e, x, {"Skipped"})
<1>1. PICK c : c = IF outcome = "tty" THEN "TtyUnavailable" ELSE "ConditionSkipped"
  BY Zenon
<1>2. PICK y : y = TransitionService(e, "Skipped", c)
  BY Zenon
<1>3. Moves(e, y, {"Skipped"})
  BY <1>2, TransitionMoves, Zenon DEF States
<1>4. x = MarkDependentSatisfied(y)
  BY <1>1, <1>2, Zenon DEF Skipped
<1> QED
  BY <1>3, <1>4, MarkMoves, Zenon

\* StartFailed moves an entry to Backoff or Failed, as the restart policy
\* says, or refuses.
LEMMA StartFailedMoves ==
    ASSUME NEW e, Sound(e), NEW cause, NEW success, NEW x, x = StartFailed(e, cause, success)
    PROVE  Moves(e, x, {"Backoff", "Failed"})
<1>1. PICK d : d = EvaluateRestartAfterFailure(e.def, cause, success, e.failures)
  BY Zenon
<1>2. d.action = "Backoff" =>
        \/ d.cause = "CleanExitRestart" /\ e.def.console
        \/ e.failures < MaxRetries
  BY <1>1, MaxRetriesAssumption DEF EvaluateRestartAfterFailure, Decision, Sound, Shape
<1>3. x = IF d.action = "Backoff" THEN TransitionToRestartBackoff(e, d.cause)
          ELSE TransitionService(e, "Failed", d.cause)
  BY <1>1, Presence, Zenon DEF StartFailed, Sound
<1>4. CASE d.action = "Backoff"
  <2>1. Moves(e, x, {"Backoff"})
    BY <1>2, <1>3, <1>4, RestartBackoffMoves, Zenon
  <2> QED
    BY <2>1, Zenon DEF Moves
<1>5. CASE d.action # "Backoff"
  <2>1. Moves(e, x, {"Failed"})
    BY <1>3, <1>5, TransitionMoves, Zenon DEF States
  <2> QED
    BY <2>1, Zenon DEF Moves
<1> QED
  BY <1>4, <1>5, Zenon

\* An unmet condition or assertion moves the entry to Skipped, Backoff or
\* Failed, or is refused.
LEMMA UnmetMoves ==
    ASSUME NEW e, Sound(e), NEW route, NEW outcome, NEW x, x = Unmet(e, route, outcome)
    PROVE  Moves(e, x, {"Skipped", "Backoff", "Failed"})
<1>1. CASE outcome # "assert"
  <2>1. Moves(e, x, {"Skipped"})
    BY <1>1, SkippedMoves, Zenon DEF Unmet
  <2> QED
    BY <2>1, Zenon DEF Moves
<1>2. CASE outcome = "assert" /\ route = "graph"
  <2>1. Moves(e, x, {"Failed"})
    BY <1>2, TransitionMoves, Zenon DEF Unmet, States
  <2> QED
    BY <2>1, Zenon DEF Moves
<1>3. CASE outcome = "assert" /\ route # "graph"
  <2>1. Moves(e, x, {"Backoff", "Failed"})
    BY <1>3, StartFailedMoves, Zenon DEF Unmet
  <2> QED
    BY <2>1, Zenon DEF Moves
<1> QED
  BY <1>1, <1>2, <1>3, Zenon

\* ReleaseToStarting moves an entry to Starting or refuses.
LEMMA ReleaseMoves ==
    ASSUME NEW e, Sound(e), NEW y, NEW S, S \subseteq {"Active", "Completed"}, Moves(e, y, S),
           NEW x, x = ReleaseCompletedOneshot(y)
    PROVE  Moves(e, x, {"Active", "Completed", "Inactive"})
<1>1. CASE ~IsPresent(y)
  BY <1>1, Zenon DEF ReleaseCompletedOneshot, Moves
<1>2. CASE IsPresent(y)
  <2>1. Sound(y) /\ y # Refused /\ y # NoEntry
    BY <1>2, Presence, Zenon DEF Moves
  <2>2. CASE x = y
    BY <2>1, <2>2, Zenon DEF Moves
  <2>3. CASE x = TransitionService(y, "Inactive", "CleanExit")
    <3>1. Moves(y, x, {"Inactive"})
      BY <2>1, <2>3, TransitionMoves, Zenon DEF States
    <3> QED
      BY <2>1, <3>1 DEF Moves, RetainsDefinition, Sound, Shape
  <2> QED
    BY <1>2, <2>2, <2>3, Zenon DEF ReleaseCompletedOneshot
<1> QED
  BY <1>1, <1>2, Zenon

\* Satisfied moves a Starting entry to Active, Completed or, for a oneshot
\* that does not remain, Inactive.
LEMMA SatisfiedMoves ==
    ASSUME NEW e, Sound(e), NEW cause, NEW x, x = Satisfied(e, cause)
    PROVE  Moves(e, x, {"Active", "Completed", "Inactive"})
<1>1. PICK to \in {"Active", "Completed"} :
        to = IF e.def.type = "Simple" THEN "Active" ELSE "Completed"
  BY Zenon
<1>2. PICK c : c = IF cause = "Timer" THEN "ExplicitStart" ELSE cause
  BY Zenon
<1>3. PICK y : y = TransitionService(e, to, c)
  BY Zenon
<1>4. PICK z : z = MarkDependentSatisfied(y)
  BY Zenon
<1>5. x = ReleaseCompletedOneshot(z)
  BY <1>1, <1>2, <1>3, <1>4, Presence, Zenon DEF Satisfied, Sound
<1>6. Moves(e, y, {to})
  BY <1>3, TransitionMoves, Zenon DEF States
<1>7. Moves(e, z, {to})
  BY <1>4, <1>6, MarkMoves, Zenon
<1> QED
  BY <1>5, <1>7, ReleaseMoves, Zenon

\* WithPolicy moves an entry to Backoff or Failed, or refuses.
LEMMA WithPolicyMoves ==
    ASSUME NEW e, Sound(e), NEW cause, NEW success, NEW x, x = WithPolicy(e, cause, success)
    PROVE  Moves(e, x, {"Inactive", "Backoff", "Failed"})
<1>1. Moves(e, x, {"Inactive"}) \/ Moves(e, x, {"Failed"}) \/ Moves(e, x, {"Backoff", "Failed"})
  BY TransitionMoves, StartFailedMoves, Zenon DEF WithPolicy, States
<1> QED
  BY <1>1, Zenon DEF Moves

\* The exit of an Active service moves it to Inactive, Backoff or Failed, or
\* is refused.
LEMMA ExitedActiveMoves ==
    ASSUME NEW e, Sound(e), NEW success, NEW x, x = ExitedActive(e, success)
    PROVE  Moves(e, x, {"Inactive", "Backoff", "Failed"})
<1>1. Moves(e, x, {"Inactive"}) \/ Moves(e, x, {"Inactive", "Backoff", "Failed"})
  BY TransitionMoves, WithPolicyMoves, Zenon DEF ExitedActive, States
<1> QED
  BY <1>1, Zenon DEF Moves

\* A transition whose cause the edge allows is not refused.
LEMMA Allowed ==
    ASSUME NEW e, Sound(e), NEW to \in States, NEW cause, cause \in AllowedCauses(e.state, to)
    PROVE  /\ TransitionService(e, to, cause) # Refused
           /\ ~e.removed => TransitionService(e, to, cause) # NoEntry
<1>1. PICK x : x = TransitionService(e, to, cause)
  BY Zenon
<1>2. \/ x = NoEntry /\ e.removed /\ to \notin RetainsDefinition
      \/ Lands(e, to, cause, x)
  BY <1>1, TransitionLands, Zenon DEF Sound
<1> QED
  BY <1>1, <1>2, Presence, Zenon DEF Lands

\* Every state with an instance has an edge to Failed for an internal error.
LEMMA InternalErrors ==
    ASSUME NEW from \in States
    PROVE  "InternalError" \in AllowedCauses(from, "Failed") <=>
              from \in RetainsDefinition \cup {"Backoff"}
  BY Zenon DEF AllowedCauses, States, RetainsDefinition, StartupRetryCauses

\* Containing an internal error fails a service that has an instance or waits
\* for its restart, and leaves the others alone.
LEMMA FailedInternallyMoves ==
    ASSUME NEW e, EntryInv(e), NEW x, x = FailedInternally(e)
    PROVE  \/ x = e /\ e.state \notin RetainsDefinition \cup {"Backoff"}
           \/ /\ Sound(e) /\ e.state \in RetainsDefinition \cup {"Backoff"}
              /\ x # Refused /\ Moves(e, x, {"Failed"})
<1>1. CASE e = NoEntry
  BY <1>1, Presence, Zenon DEF FailedInternally, NoEntry, RetainsDefinition
<1>2. CASE Sound(e) /\ e.state \notin RetainsDefinition \cup {"Backoff"}
  BY <1>2, InternalErrors, Zenon DEF FailedInternally, Sound, Shape
<1>3. CASE Sound(e) /\ e.state \in RetainsDefinition \cup {"Backoff"}
  <2>1. IsPresent(e)
    BY <1>3, Presence, Zenon DEF Sound
  <2>2. "InternalError" \in AllowedCauses(e.state, "Failed")
    BY <1>3, InternalErrors, Zenon DEF Sound, Shape
  <2>3. x = TransitionService(e, "Failed", "InternalError")
    BY <2>1, <2>2, Zenon DEF FailedInternally
  <2>4. x # Refused
    BY <1>3, <2>2, <2>3, Allowed, Zenon DEF States
  <2>5. Moves(e, x, {"Failed"})
    BY <1>3, <2>3, TransitionMoves, Zenon DEF States
  <2> QED
    BY <1>3, <2>4, <2>5, Zenon
<1> QED
  BY <1>1, <1>2, <1>3, Zenon DEF EntryInv

\* Every cause of a stop allows the edge by which Stopped leaves Stopping.
LEMMA StopEnds ==
    ASSUME NEW cause \in StopCauses
    PROVE  IF cause \in {"ConflictEviction", "BindsToPropagation"}
           THEN cause \in AllowedCauses("Stopping", "Failed")
           ELSE cause \in AllowedCauses("Stopping", "Inactive")
  BY Zenon DEF AllowedCauses, StopCauses

\* The end of a stop is never refused: the service is Failed or Inactive, or
\* discarded if withdrawn.
LEMMA StoppedMoves ==
    ASSUME NEW e, Sound(e), e.state = "Stopping", NEW x, x = Stopped(e)
    PROVE  /\ x # Refused
           /\ Moves(e, x, {"Failed", "Inactive"})
           /\ x # NoEntry => ~e.removed /\ x.generation = e.generation
<1>1. PICK to \in {"Failed", "Inactive"} :
        to = IF e.cause \in {"ConflictEviction", "BindsToPropagation"}
             THEN "Failed" ELSE "Inactive"
  BY Zenon
<1>2. x = TransitionService(e, to, e.cause)
  BY <1>1, Zenon DEF Stopped
<1>3. e.cause \in AllowedCauses(e.state, to)
  BY <1>1, StopEnds, Zenon DEF Sound, Caused
<1>4. x # Refused
  BY <1>2, <1>3, Allowed, Zenon DEF States
<1>5. Moves(e, x, {to})
  BY <1>2, TransitionMoves, Zenon DEF States
<1>6. x # NoEntry => ~x.removed /\ x.removed = e.removed /\ x.generation = e.generation
  BY <1>2, <1>4, TransitionLands DEF States, Sound, Lands, RetainsDefinition
<1> QED
  BY <1>4, <1>5, <1>6, Zenon DEF Moves

\* The start leg of a restart is never refused.
LEMMA RestartStarts ==
    ASSUME NEW e, Sound(e), e.state \in {"Failed", "Inactive"}, ~e.removed,
           NEW x, x = TransitionService(e, "Starting", "ExplicitStart")
    PROVE  /\ Sound(x) /\ x.state = "Starting"
           /\ x.cgroup = e.cgroup /\ x.leaks = e.leaks /\ ~x.removed
           /\ x.generation = e.generation + 1
<1>1. "ExplicitStart" \in AllowedCauses(e.state, "Starting")
  BY Zenon DEF AllowedCauses
<1>2. Lands(e, "Starting", "ExplicitStart", x)
  BY <1>1, TransitionLands, Zenon DEF States, Sound
<1>3. Moves(e, x, {"Starting"})
  BY TransitionMoves, Zenon DEF States
<1>4. Shape(x)
  BY <1>2, Zenon DEF Lands
<1> QED
  BY <1>2, <1>3, <1>4, Presence, Zenon DEF Moves, Lands

\* A condition or assertion that the start leg of a restart does not meet is
\* never refused.
LEMMA RestartUnmet ==
    ASSUME NEW e, Sound(e), e.state = "Starting", ~e.removed,
           NEW outcome \in {"condition", "assert"},
           NEW x, x = Unmet(e, "restart", outcome)
    PROVE  x # Refused /\ x # NoEntry /\ Moves(e, x, {"Skipped", "Backoff", "Failed"})
<1>1. Moves(e, x, {"Skipped", "Backoff", "Failed"})
  BY UnmetMoves, Zenon
<1>2. CASE outcome = "condition"
  <2>1. PICK y : y = TransitionService(e, "Skipped", "ConditionSkipped")
    BY Zenon
  <2>2. "ConditionSkipped" \in AllowedCauses(e.state, "Skipped")
    BY Zenon DEF AllowedCauses
  <2>3. Lands(e, "Skipped", "ConditionSkipped", y)
    BY <2>1, <2>2, TransitionLands, Zenon DEF States, Sound
  <2>4. IsPresent(y)
    BY <2>3, Presence, Zenon DEF Lands
  <2>5. x = [y EXCEPT !.since = TRUE]
    BY <1>2, <2>1, <2>4, Zenon DEF Unmet, Skipped, MarkDependentSatisfied
  <2>6. x.state = "Skipped"
    BY <2>3, <2>5, Zenon DEF Lands, Shape
  <2> QED
    BY <1>1, <2>6 DEF Refused, NoEntry
<1>3. CASE outcome = "assert"
  <2>1. PICK d : d = EvaluateRestartAfterFailure(e.def, "AssertionError", FALSE, e.failures)
    BY Zenon
  <2>2. d = Decision("Fail", "AssertionError")
    BY <2>1, Zenon DEF EvaluateRestartAfterFailure, RestartEligible
  <2>3. x = TransitionService(e, "Failed", "AssertionError")
    <3>1. x = StartFailed(e, "AssertionError", FALSE)
      BY <1>3, Zenon DEF Unmet
    <3>2. IsPresent(e)
      BY Presence, Zenon DEF Sound
    <3>3. d.action = "Fail" /\ d.cause = "AssertionError"
      BY <2>2, Zenon DEF Decision
    <3>4. x = IF d.action = "Backoff" THEN TransitionToRestartBackoff(e, d.cause)
              ELSE TransitionService(e, "Failed", d.cause)
      BY <2>1, <3>1, <3>2, Zenon DEF StartFailed
    <3> QED
      BY <3>3, <3>4, Zenon
  <2>4. "AssertionError" \in AllowedCauses(e.state, "Failed")
    BY Zenon DEF AllowedCauses
  <2> QED
    BY <1>1, <2>3, <2>4, Allowed, Zenon DEF States
<1> QED
  BY <1>2, <1>3, Zenon

\* Recording a leaked tree advances the next tree past it, and changes
\* nothing else.
LEMMA LeakFields ==
    ASSUME NEW e, Sound(e), NEW tree \in Nat, NEW x, x = RecordLeakedCgroup(e, tree)
    PROVE  /\ Sound(x)
           /\ x.state = e.state /\ x.cause = e.cause /\ x.generation = e.generation
           /\ x.def = e.def /\ x.removed = e.removed /\ x.clock = e.clock
           /\ x.leaks = e.leaks \cup {tree}
           /\ tree \notin e.leaks /\ tree = e.cgroup => x.cgroup = e.cgroup + 1
           /\ tree \in e.leaks \/ tree # e.cgroup => x.cgroup = e.cgroup
<1>1. IsPresent(e)
  BY Presence, Zenon DEF Sound
<1>2. PICK n \in Nat :
        n = IF tree \notin e.leaks /\ tree = e.cgroup THEN e.cgroup + 1 ELSE e.cgroup
  BY DEF Sound, Shape
<1>3. x = [e EXCEPT !.leaks = @ \cup {tree}, !.cgroup = n]
  BY <1>1, <1>2, Zenon DEF RecordLeakedCgroup
<1>4. /\ DOMAIN x = DOMAIN e
      /\ x.state = e.state /\ x.cause = e.cause /\ x.generation = e.generation
      /\ x.def = e.def /\ x.pending = e.pending /\ x.removed = e.removed
      /\ x.failures = e.failures /\ x.clock = e.clock
      /\ x.leaks = e.leaks \cup {tree} /\ x.cgroup = n
  BY <1>3, Zenon DEF Sound, Shape
<1> QED
  BY <1>2, <1>4, Zenon DEF Sound, Shape, Budget, Kept, Caused

\* A snapshot that leaves the entry where it is in its life.
Redefines(e, x) ==
    /\ Sound(x)
    /\ x.state = e.state /\ x.generation = e.generation /\ x.clock = e.clock
    /\ x.cgroup = e.cgroup /\ x.leaks = e.leaks
    /\ e.state \in RetainsDefinition =>
          /\ x.def.prog = e.def.prog /\ x.def.type = e.def.type
          /\ x.def.remain = e.def.remain /\ x.def.compiledIn = e.def.compiledIn

\* The registered definitions and the placeholder have a definition's fields.
LEMMA DefinitionFields ==
    /\ \A d \in DefinitionType : DOMAIN d = DefFields
    /\ \A d : DOMAIN d = DefFields => d # NoDefinition /\ d # Undecodable
    /\ DOMAIN PlaceholderDefinition = DefFields
  BY DEF DefinitionType, DefFields, NoDefinition, Undecodable, PlaceholderDefinition

\* A definition deferred behind the instance changes none of the fields the
\* instance was started from.
LEMMA DeferredRedefines ==
    ASSUME NEW e, Sound(e), e.generation = 0, NEW d, DOMAIN d = DefFields,
           NEW x, x = Deferred(e, d)
    PROVE  Redefines(e, x) /\ x.removed = e.removed
<1>1. PICK q : q = IF e.def = d THEN NoDefinition ELSE d
  BY Zenon
<1>2. x = [e EXCEPT !.pending = q]
  BY <1>1, Zenon DEF Deferred
<1>3. /\ DOMAIN x = DOMAIN e
      /\ x.state = e.state /\ x.cause = e.cause /\ x.generation = e.generation
      /\ x.def = e.def /\ x.pending = q /\ x.removed = e.removed
      /\ x.failures = e.failures /\ x.clock = e.clock
      /\ x.leaks = e.leaks /\ x.cgroup = e.cgroup
  BY <1>2, Zenon DEF Sound, Shape
<1>4. Sound(x)
  BY <1>1, <1>3, Zenon DEF Sound, Shape, Budget, Kept, Caused
<1> QED
  BY <1>3, <1>4, Zenon DEF Redefines

\* The fields of a new definition that apply at once leave those of the
\* instance as they are.
LEMMA EffectiveFields ==
    ASSUME NEW c, NEW d, DOMAIN d = DefFields, NEW f, f = Effective(c, d)
    PROVE  /\ DOMAIN f = DefFields
           /\ f.prog = c.prog /\ f.type = c.type /\ f.remain = c.remain
           /\ f.compiledIn = c.compiledIn
           /\ f.console = d.console
  BY Zenon DEF Effective, DefFields

\* A registry definition for a known service redefines it and ends its
\* withdrawal.
LEMMA ReloadedRedefines ==
    ASSUME NEW e, Sound(e), NEW d, DOMAIN d = DefFields, NEW x, x = Reloaded(e, d)
    PROVE  Redefines(e, x) /\ ~x.removed
<1>1. PICK b : b = FALSE
  BY Zenon
<1>2. PICK f : f = IF e.state \in RetainsDefinition THEN Effective(e.def, d) ELSE d
  BY Zenon
<1>3. PICK q : q = IF f = d THEN NoDefinition ELSE d
  BY Zenon
<1>4. x = [e EXCEPT !.def = f, !.pending = q, !.removed = b]
  BY <1>1, <1>2, <1>3, Zenon DEF Reloaded
<1>5. /\ DOMAIN x = DOMAIN e
      /\ x.state = e.state /\ x.cause = e.cause /\ x.generation = e.generation
      /\ x.def = f /\ x.pending = q /\ x.removed = b
      /\ x.failures = e.failures /\ x.clock = e.clock
      /\ x.leaks = e.leaks /\ x.cgroup = e.cgroup
  BY <1>4, Zenon DEF Sound, Shape
<1>6. /\ DOMAIN f = DefFields
      /\ f.console = d.console
      /\ e.state \in RetainsDefinition =>
            /\ f.prog = e.def.prog /\ f.type = e.def.type
            /\ f.remain = e.def.remain /\ f.compiledIn = e.def.compiledIn
  BY <1>2, EffectiveFields
<1>7. Sound(x)
  BY <1>1, <1>3, <1>5, <1>6 DEF Sound, Shape, Budget, Kept, Caused
<1> QED
  BY <1>1, <1>5, <1>6, <1>7, Zenon DEF Redefines

\* A withdrawn definition keeps the entry while it has an instance.
LEMMA WithdrawnRedefines ==
    ASSUME NEW e, Sound(e), NEW x, x = Withdrawn(e)
    PROVE  \/ Redefines(e, x)
           \/ x = NoEntry /\ e.state \notin RetainsDefinition
<1>1. CASE x = e
  BY <1>1, Zenon DEF Redefines
<1>2. CASE x = NoEntry /\ e.state \notin RetainsDefinition
  BY <1>2, Zenon
<1>3. CASE e.state \in RetainsDefinition /\ x = [e EXCEPT !.removed = TRUE]
  <2>1. /\ DOMAIN x = DOMAIN e
        /\ x.state = e.state /\ x.cause = e.cause /\ x.generation = e.generation
        /\ x.def = e.def /\ x.pending = e.pending
        /\ x.failures = e.failures /\ x.clock = e.clock
        /\ x.leaks = e.leaks /\ x.cgroup = e.cgroup
    BY <1>3, Zenon DEF Sound, Shape
  <2>2. Sound(x)
    BY <1>3, <2>1, SMTT(30) DEF Sound, Shape, Budget, Kept, Caused
  <2> QED
    BY <2>1, <2>2, Zenon DEF Redefines
<1> QED
  BY <1>1, <1>2, <1>3, Zenon DEF Withdrawn

\* A service seen for the first time has a sound entry.
LEMMA NewEntryIsSound ==
    ASSUME NEW d, DOMAIN d = DefFields
    PROVE  Sound(NewEntry(d)) /\ NewEntry(d).state = "Inactive" /\ ~NewEntry(d).removed
<1>1. PICK n : n = NewEntry(d)
  BY Zenon
<1>2. /\ Shape(n) /\ n.state = "Inactive" /\ n.pending = NoDefinition
      /\ n.generation = 0 /\ n.failures = 0
  BY <1>1, Zenon DEF NewEntry, Shape, States
<1>3. ~n.removed
  BY <1>1, Zenon DEF NewEntry
<1>4. Budget(n)
  BY <1>2, MaxRetriesAssumption DEF Budget, RetainsDefinition
<1>5. Kept(n) /\ Caused(n)
  BY <1>2, <1>3, Zenon DEF Kept, Caused
<1> QED
  BY <1>1, <1>2, <1>3, <1>4, <1>5, Zenon DEF Sound

\* The placeholder of a key that does not decode is a sound entry.
LEMMA PlaceholderIsSound == Sound(Placeholder) /\ Placeholder.state = "Failed"
<1>1. PICK n : n = NewEntry(PlaceholderDefinition)
  BY Zenon
<1>2. PICK b : b = TRUE
  BY Zenon
<1>3. /\ Shape(n) /\ n.def = PlaceholderDefinition /\ n.pending = NoDefinition
      /\ n.generation = 0 /\ n.failures = 0
  BY <1>1, DefinitionFields, Zenon DEF NewEntry, Shape, States
<1>4. PICK x : x = [n EXCEPT !.removed = b, !.state = "Failed", !.cause = "ValidationError"]
  BY Zenon
<1>5. Placeholder = x
  BY <1>1, <1>2, <1>4, Zenon DEF Placeholder
<1>6. /\ DOMAIN x = DOMAIN n /\ x.state = "Failed" /\ x.def = n.def /\ x.pending = n.pending
      /\ x.generation = n.generation /\ x.failures = n.failures /\ x.cgroup = n.cgroup
  BY <1>3, <1>4, Zenon DEF Shape
<1>7. Sound(x)
  BY <1>3, <1>6, MaxRetriesAssumption
  DEF Sound, Shape, Budget, Kept, Caused, States, RetainsDefinition
<1> QED
  BY <1>5, <1>6, <1>7, Zenon

\* A key that does not decode replaces an entry without an instance by the
\* placeholder, and withdraws one with an instance.
LEMMA UndecodableRedefines ==
    ASSUME NEW e, EntryInv(e), NEW x, x = ApplyUndecodable(e)
    PROVE  \/ Sound(e) /\ Redefines(e, x)
           \/ e.state \notin RetainsDefinition /\ Sound(x) /\ x.state = "Failed"
<1>1. CASE Sound(e) /\ e.state \in RetainsDefinition
  <2>1. x = [e EXCEPT !.removed = TRUE, !.pending = NoDefinition]
    BY <1>1, Presence, Zenon DEF ApplyUndecodable, Sound
  <2>2. /\ DOMAIN x = DOMAIN e
        /\ x.state = e.state /\ x.cause = e.cause /\ x.generation = e.generation
        /\ x.def = e.def /\ x.pending = NoDefinition
        /\ x.failures = e.failures /\ x.clock = e.clock
        /\ x.leaks = e.leaks /\ x.cgroup = e.cgroup
    BY <1>1, <2>1, Zenon DEF Sound, Shape
  <2>3. Sound(x)
    BY <1>1, <2>2, Zenon DEF Sound, Shape, Budget, Kept, Caused
  <2> QED
    BY <1>1, <2>2, <2>3, Zenon DEF Redefines
<1>2. CASE e.state \notin RetainsDefinition
  BY <1>2, PlaceholderIsSound, Zenon DEF ApplyUndecodable
<1> QED
  BY <1>1, <1>2 DEF EntryInv, NoEntry, RetainsDefinition

\* What one snapshot of the registry makes of an entry.
LEMMA SnapshotApplied ==
    ASSUME NEW e, EntryInv(e), NEW d \in Registered, NEW frozen \in BOOLEAN,
           frozen /\ e # NoEntry => e.generation = 0,
           NEW x, x = ApplySnapshot(e, d, frozen)
    PROVE  /\ \/ Sound(e) /\ Redefines(e, x)
              \/ e.state \notin RetainsDefinition /\ x = NoEntry
              \/ e.state \notin RetainsDefinition /\ Sound(x) /\ x.state \in {"Failed", "Inactive"}
           /\ Sound(e) /\ ~e.removed /\ d \notin {NoDefinition, Undecodable} =>
                Redefines(e, x) /\ ~x.removed
<1>1. PICK c : c = WithCompiledIn(e, d)
  BY Zenon
<1>2. PICK defined \in BOOLEAN : defined <=> c \notin {NoDefinition, Undecodable}
  BY Zenon
<1>3. /\ defined => DOMAIN c = DefFields
      /\ d \notin {NoDefinition, Undecodable} => defined
  BY <1>1, <1>2, LifecycleAssumption, DefinitionFields, Presence
 , Zenon DEF WithCompiledIn, EntryInv, Sound, Shape
<1>4. CASE e = NoEntry
  <2>1. ~IsPresent(e) /\ e.state \notin RetainsDefinition /\ ~Sound(e)
    BY <1>4, Presence, Zenon DEF NoEntry, RetainsDefinition, Sound
  <2>2. CASE defined
    BY <1>1, <1>2, <1>3, <2>1, <2>2, NewEntryIsSound, Zenon DEF ApplySnapshot
  <2>3. CASE c = NoDefinition
    BY <1>1, <1>2, <1>4, <2>1, <2>3, Zenon DEF ApplySnapshot
  <2>4. CASE ~defined /\ c # NoDefinition
    <3>1. x = ApplyUndecodable(e)
      BY <1>1, <1>2, <2>1, <2>4, SMTT(30) DEF ApplySnapshot
    <3> QED
      BY <2>1, <3>1, UndecodableRedefines, Zenon
  <2> QED
    BY <1>2, <2>2, <2>3, <2>4, Zenon
<1>5. CASE Sound(e)
  <2>1. IsPresent(e) /\ e # NoEntry
    BY <1>5, Presence, Zenon DEF Sound
  <2>2. CASE frozen /\ defined
    <3>1. x = Deferred(e, c)
      BY <1>1, <1>2, <2>1, <2>2, Zenon DEF ApplySnapshot
    <3> QED
      BY <1>3, <1>5, <2>1, <2>2, <3>1, DeferredRedefines, Zenon
  <2>3. CASE frozen /\ ~defined
    <3>1. x = e
      BY <1>1, <1>2, <2>1, <2>3, Zenon DEF ApplySnapshot
    <3> QED
      BY <1>3, <1>5, <2>3, <3>1, Zenon DEF Redefines
  <2>4. CASE ~frozen /\ defined
    <3>1. x = Reloaded(e, c)
      BY <1>1, <1>2, <2>1, <2>4, Zenon DEF ApplySnapshot
    <3> QED
      BY <1>3, <1>5, <2>4, <3>1, ReloadedRedefines, Zenon
  <2>5. CASE ~frozen /\ c = NoDefinition
    <3>1. x = Withdrawn(e)
      BY <1>1, <1>2, <2>1, <2>5, Zenon DEF ApplySnapshot
    <3> QED
      BY <1>2, <1>3, <1>5, <2>5, <3>1, WithdrawnRedefines, Zenon
  <2>6. CASE ~frozen /\ ~defined /\ c # NoDefinition
    <3>1. x = ApplyUndecodable(e)
      BY <1>1, <1>2, <2>1, <2>6, SMTT(30) DEF ApplySnapshot
    <3> QED
      BY <1>3, <1>5, <2>6, <3>1, UndecodableRedefines, Zenon
  <2> QED
    BY <2>2, <2>3, <2>4, <2>5, <2>6, Zenon
<1> QED
  BY <1>4, <1>5, Zenon DEF EntryInv

(***************************************************************************)
(* The invariant.                                                          *)
(***************************************************************************)
StartShape(st) ==
    /\ DOMAIN st = {"route", "phase", "cause", "live", "snap"}
    /\ st.route \in {"graph", "relaunch", "restart"}
    /\ st.phase \in {"checking", "prechecked", "hooks", "launched"}
    /\ st.route = "relaunch" => st.cause = "RestartPolicy"
    /\ st.phase = "prechecked" => st.route = "graph"
    /\ st.snap.cgroup \in Nat

\* The kinds of the other variables.
VarShape ==
    /\ start = NoStart \/ StartShape(start)
    /\ \/ orphan = NoStart
       \/ StartShape(orphan) /\ orphan.phase = "checking" /\ ~orphan.live
    /\ \/ main = NoJob
       \/ DOMAIN main = {"phase", "generation", "cgroup"} /\ main.cgroup \in Nat
    /\ \/ stop = NoStop
       \/ DOMAIN stop = {"tree", "restart"} /\ stop.tree \in Nat
    /\ cleanup \subseteq Nat

\* How far a start is, and the state the service is then in.
GraphStartInv ==
    start # NoStart /\ start.route = "graph" /\ start.phase \in {"checking", "prechecked"} =>
        entry.state \notin RetainsDefinition \cup {"Backoff"}

\* While the start leg of a restart is checked, the service is Starting.
RestartStartInv ==
    start # NoStart /\ start.route = "restart" /\ start.phase = "checking" =>
        entry.state = "Starting"

\* The helper of a cancelled relaunch may answer for a later start, but only
\* before that start's service is running again.
OrphanInv ==
    orphan # NoStart /\ orphan.route = "relaunch" /\ (StartIs("hooks") \/ StartIs("launched")) =>
        entry.state \notin {"Active", "Reloading", "Stopping", "Backoff"}

\* A launched start of a Starting service has its job.
LaunchedInv == StartIs("launched") /\ entry.state = "Starting" => main # NoJob

\* Something will move a Starting service on.
StartingInv ==
    entry.state = "Starting" =>
        \/ main # NoJob
        \/ StartIs("hooks") \/ StartIs("checking")
        \/ orphan # NoStart /\ orphan.route # "graph"

\* Something will move a service in Backoff on.
BackoffInv ==
    entry.state = "Backoff" => entry.clock \/ (StartIs("checking") /\ start.route = "relaunch")

\* A Stopping service has its stop, with the tree to kill.
StoppingInv == entry.state = "Stopping" => stop # NoStop

\* How the starts, the job and the stop go with the state of the service.
WayOut ==
    /\ GraphStartInv /\ RestartStartInv /\ OrphanInv /\ LaunchedInv
    /\ StartingInv /\ BackoffInv /\ StoppingInv

\* The trees that can still be recorded as leaked.
Trees ==
    /\ entry # NoEntry /\ ~entry.removed
    /\ leaked \subseteq entry.leaks
    /\ \A t \in entry.leaks : t \in Nat /\ t < entry.cgroup
    /\ start # NoStart => start.snap.cgroup <= entry.cgroup
    /\ orphan # NoStart => orphan.snap.cgroup <= entry.cgroup
    /\ main # NoJob => main.cgroup <= entry.cgroup
    /\ stop # NoStop => stop.tree <= entry.cgroup
    /\ \A t \in cleanup : t <= entry.cgroup

\* No definition is withdrawn or stops decoding: discarding an entry forgets
\* its leaked trees.
NoWithdrawal == Registered \cap {NoDefinition, Undecodable} = {}

\* The inductive invariant.
IInv == EntryInv(entry) /\ VarShape /\ WayOut /\ (NoWithdrawal => Trees)

(***************************************************************************)
(* What every step does.                                                   *)
(***************************************************************************)
KeepsDefinition ==
    /\ entry.state \in RetainsDefinition
    /\ entry'.state \in RetainsDefinition
    /\ entry'.generation = entry.generation
    => /\ entry'.def.prog = entry.def.prog
       /\ entry'.def.type = entry.def.type
       /\ entry'.def.remain = entry.def.remain
       /\ entry'.def.compiledIn = entry.def.compiledIn

\* A restart's stop leg does not end in Inactive.
NotCutShort == entry.state = "Stopping" /\ stop.restart => entry'.state # "Inactive"

\* What every step of Next is shown to keep: the invariant, and the two
\* action properties.
Good == IInv' /\ KeepsDefinition /\ NotCutShort

\* The entry goes to a state of S, or is discarded with its last instance.
EntryGoes(S) ==
    /\ EntryInv(entry')
    /\ entry'.state \in S \cup {"Absent"}
    /\ entry'.state = "Backoff" => entry'.clock
    /\ KeepsDefinition
    /\ NoWithdrawal => /\ entry' # NoEntry /\ ~entry'.removed
                       /\ entry'.cgroup = entry.cgroup /\ entry'.leaks = entry.leaks

\* A move of the entry that is not refused, in terms of the primed entry.
LEMMA Goes ==
    ASSUME IInv, Sound(entry), NEW S, Moves(entry, entry', S), entry' # Refused
    PROVE  EntryGoes(S)
<1>1. CASE entry' = NoEntry /\ entry.removed
  BY <1>1, SMTT(30) DEF EntryGoes, IInv, Trees, EntryInv, KeepsDefinition, NoEntry, RetainsDefinition
<1>2. CASE entry' # NoEntry
  BY <1>2, Presence, Zenon DEF Moves, EntryGoes, IInv, Trees, EntryInv, KeepsDefinition, Sound
<1> QED
  BY <1>1, <1>2, Presence, Zenon DEF Moves, Sound

(***************************************************************************)
(* The steps of a start (the internal errors, launches, hooks, answers of  *)
(* helpers and ends of restart delays) keep the inductive invariant.       *)
(***************************************************************************)
\* An error that ends the loop changes nothing of the service.
LEMMA EndLoopGood ==
    ASSUME IInv, EndLoop
    PROVE  Good
<1>1. UNCHANGED <<entry, start, orphan, main, stop, cleanup, leaked>>
  BY Zenon DEF EndLoop
<1>2. VarShape'
  BY <1>1, Zenon DEF IInv, VarShape
<1>3. WayOut'
  BY <1>1, SMTT(30) DEF IInv, WayOut, GraphStartInv, RestartStartInv, OrphanInv, LaunchedInv,
     StartingInv, BackoffInv, StoppingInv, StartIs
<1>4. NoWithdrawal => Trees'
  BY <1>1, Zenon DEF IInv, Trees
<1> QED
  BY <1>1, <1>2, <1>3, <1>4, Zenon DEF Good, IInv, KeepsDefinition, NotCutShort

\* A start cancelled while its helper runs is an orphan of the same tree.
LEMMA OrphanedShape ==
    ASSUME IInv, NEW x, x = Orphaned(start)
    PROVE  /\ \/ x = NoStart
              \/ StartShape(x) /\ x.phase = "checking" /\ ~x.live
           /\ NoWithdrawal /\ x # NoStart => x.snap.cgroup <= entry.cgroup
           /\ StartIs("checking") => x # NoStart /\ x.route = start.route
           /\ ~StartIs("checking") => x = orphan
<1>1. CASE StartIs("checking")
  <2>1. PICK b : b = FALSE
    BY Zenon
  <2>2. x = [start EXCEPT !.live = b]
    BY <1>1, <2>1, Zenon DEF Orphaned, StartIs
  <2>3. StartShape(start)
    BY <1>1, Zenon DEF StartIs, IInv, VarShape
  <2>4. /\ DOMAIN x = DOMAIN start /\ x.route = start.route /\ x.phase = start.phase
        /\ x.cause = start.cause /\ x.live = b /\ x.snap = start.snap
    BY <2>2, <2>3, Zenon DEF StartShape
  <2>5. x # NoStart
    BY <2>3, <2>4, Zenon DEF StartShape, NoStart
  <2> QED
    BY <1>1, <2>1, <2>3, <2>4, <2>5, Zenon DEF StartShape, StartIs, IInv, Trees
<1>2. CASE ~StartIs("checking")
  BY <1>2, Zenon DEF Orphaned, StartIs, IInv, VarShape, Trees
<1> QED
  BY <1>1, <1>2, Zenon

\* Containing an error keeps the invariant, whichever trees it leaves to
\* clean up.
LEMMA ContainLeavingGood ==
    ASSUME IInv, NEW trees, trees \subseteq Nat,
           NoWithdrawal => \A t \in trees : t <= entry.cgroup,
           ContainLeaving(trees)
    PROVE  Good
<1>1. /\ entry' = FailedInternally(entry)
      /\ main' = NoJob /\ start' = NoStart /\ stop' = NoStop /\ cleanup' = trees
      /\ leaked' = leaked
  BY Zenon DEF ContainLeaving
<1>2. EntryInv(entry)
  BY SMTT(30) DEF IInv
<1>3. /\ \/ orphan' = NoStart
         \/ StartShape(orphan') /\ orphan'.phase = "checking" /\ ~orphan'.live
      /\ NoWithdrawal /\ orphan' # NoStart => orphan'.snap.cgroup <= entry.cgroup
  BY OrphanedShape, Zenon DEF ContainLeaving
<1>4. /\ EntryInv(entry') /\ KeepsDefinition
      /\ entry'.state \notin RetainsDefinition \cup {"Backoff"}
      /\ NoWithdrawal => /\ entry' # NoEntry /\ ~entry'.removed
                         /\ entry'.cgroup = entry.cgroup /\ entry'.leaks = entry.leaks
      /\ entry.state = "Stopping" => entry'.state # "Inactive"
  <2>1. \/ entry' = entry /\ entry.state \notin RetainsDefinition \cup {"Backoff"}
        \/ /\ Sound(entry) /\ entry.state \in RetainsDefinition \cup {"Backoff"}
           /\ entry' # Refused /\ Moves(entry, entry', {"Failed"})
    BY <1>1, <1>2, FailedInternallyMoves, Zenon
  <2>2. CASE entry' = entry /\ entry.state \notin RetainsDefinition \cup {"Backoff"}
    BY <1>2, <2>2, Zenon DEF IInv, Trees, KeepsDefinition, RetainsDefinition
  <2>3. CASE /\ Sound(entry) /\ entry.state \in RetainsDefinition \cup {"Backoff"}
             /\ entry' # Refused /\ Moves(entry, entry', {"Failed"})
    <3>1. EntryGoes({"Failed"})
      BY <2>3, Goes, Zenon
    <3> QED
      BY <3>1, Zenon DEF EntryGoes, RetainsDefinition
  <2> QED
    BY <2>1, <2>2, <2>3, Zenon
<1>5. VarShape'
  BY <1>1, <1>3, Zenon DEF VarShape, StartShape
<1>6. WayOut'
  BY <1>1, <1>4, SMTT(30) DEF WayOut, GraphStartInv, RestartStartInv, OrphanInv, LaunchedInv,
     StartingInv, BackoffInv, StoppingInv, StartIs, RetainsDefinition
<1>7. NoWithdrawal => Trees'
  BY <1>1, <1>3, <1>4, Zenon DEF IInv, Trees
<1> QED
  BY <1>4, <1>5, <1>6, <1>7, Zenon DEF Good, IInv, NotCutShort

\* A set of trees that the service has built.
Built(trees) == trees \subseteq Nat /\ (NoWithdrawal => \A t \in trees : t <= entry.cgroup)

\* The tree of the main job is one the service was built with.
LEMMA MainTreeBuilt ==
    ASSUME IInv
    PROVE  Built({}) /\ Built(MainTree)
  BY Zenon DEF IInv, VarShape, Trees, MainTree, Built

\* Containing an error, with more trees to clean up, keeps the invariant.
LEMMA ContainGood ==
    ASSUME IInv, NEW trees, Built(trees), Contain(trees)
    PROVE  Good
<1>1. cleanup \cup trees \subseteq Nat
  BY Zenon DEF IInv, VarShape, Built
<1>2. NoWithdrawal => \A t \in cleanup \cup trees : t <= entry.cgroup
  BY Zenon DEF IInv, Trees, Built
<1> QED
  BY <1>1, <1>2, ContainLeavingGood, Zenon DEF Contain

\* A job, or none, in a tree the service was built with.
JobOK(m) ==
    \/ m = NoJob
    \/ /\ DOMAIN m = {"phase", "generation", "cgroup"} /\ m.cgroup \in Nat
       /\ NoWithdrawal => m.cgroup <= entry.cgroup

\* The end of a start, good or bad, keeps the invariant.
LEMMA SettleGood ==
    ASSUME IInv, NEW e, NEW m, NEW trees, NEW own \in BOOLEAN, NEW S,
           e = Refused \/ (Sound(entry) /\ Moves(entry, e, S)),
           S \subseteq {"Active", "Completed", "Inactive", "Backoff", "Failed"},
           entry.state = "Stopping" => "Inactive" \notin S,
           JobOK(m), Built(trees), Settle(e, m, trees, own)
    PROVE  Good
<1>1. CASE IsRefused(e) \/ ~StartIsLive
  <2>1. Contain(IF own THEN {} ELSE MainTree)
    BY <1>1, Zenon DEF Settle
  <2> QED
    BY <2>1, MainTreeBuilt, ContainGood, Zenon
<1>2. CASE ~IsRefused(e) /\ StartIsLive
  <2>1. /\ entry' = e /\ start' = NoStart /\ main' = m /\ cleanup' = cleanup \cup trees
        /\ orphan' = orphan /\ stop' = stop /\ leaked' = leaked
    BY <1>2, Zenon DEF Settle
  <2>2. Sound(entry) /\ Moves(entry, entry', S) /\ entry' # Refused
    BY <1>2, <2>1, Presence, Zenon
  <2>3. EntryGoes(S)
    BY <2>2, Goes, SMTT(30)
  <2>4. VarShape'
    BY <2>1, SMTT(30) DEF IInv, VarShape, StartShape, JobOK, Built
  <2>5. WayOut'
    BY <2>1, <2>3, SMTT(30) DEF EntryGoes, WayOut, GraphStartInv, RestartStartInv, OrphanInv, LaunchedInv,
       StartingInv, BackoffInv, StoppingInv, StartIs
  <2>6. NoWithdrawal => Trees'
    BY <2>1, <2>3, Zenon DEF EntryGoes, IInv, Trees, JobOK, Built
  <2> QED
    BY <2>3, <2>4, <2>5, <2>6, Zenon DEF Good, IInv, EntryGoes, NotCutShort
<1> QED
  BY <1>1, <1>2, Zenon

\* A failed start is one of the ends SettleGood is about.
LEMMA StartFailedSettles ==
    ASSUME EntryInv(entry), NEW cause, NEW success, NEW e, e = StartFailed(entry, cause, success)
    PROVE  e = Refused \/ (Sound(entry) /\ Moves(entry, e, {"Backoff", "Failed"}))
  BY StartFailedMoves, Presence, Zenon DEF EntryInv, StartFailed

\* The main job the invariant speaks of is a job.
LEMMA MainOK ==
    ASSUME IInv
    PROVE  JobOK(NoJob) /\ JobOK(main)
  BY Zenon DEF IInv, VarShape, Trees, JobOK

\* The main job in another phase is a job.
LEMMA RunningOK ==
    ASSUME IInv, main # NoJob, NEW phase, NEW m, m = [main EXCEPT !.phase = phase]
    PROVE  JobOK(m) /\ m # NoJob
<1>1. DOMAIN main = {"phase", "generation", "cgroup"} /\ main.cgroup \in Nat
  BY Zenon DEF IInv, VarShape
<1>2. DOMAIN m = DOMAIN main /\ m.cgroup = main.cgroup
  BY <1>1, Zenon
<1>3. m # NoJob
  BY <1>1, <1>2, Zenon DEF NoJob
<1> QED
  BY <1>1, <1>2, <1>3, Zenon DEF IInv, Trees, JobOK

\* The start's tree is one the service was built with.
LEMMA StartTree ==
    ASSUME IInv, start # NoStart
    PROVE  StartShape(start) /\ Built({start.snap.cgroup})
  BY Zenon DEF IInv, VarShape, StartShape, Trees, Built

\* A start that goes on: its next phase, and its main job if it gets one.
LEMMA LaunchingFields ==
    ASSUME NEW st, StartShape(st), NEW hook \in BOOLEAN, NEW x, x = Launching(st, hook),
           NEW m, NEW n, n = CreatedMain(m, st, hook), m = NoJob \/ hook
    PROVE  /\ StartShape(x) /\ x # NoStart
           /\ x.phase = IF hook THEN "hooks" ELSE "launched"
           /\ x.snap = st.snap /\ x.route = st.route
           /\ hook => n = m
           /\ ~hook => /\ DOMAIN n = {"phase", "generation", "cgroup"}
                       /\ n.cgroup = st.snap.cgroup /\ n # NoJob
<1>1. /\ DOMAIN x = DOMAIN st /\ x.route = st.route /\ x.cause = st.cause
      /\ x.snap = st.snap /\ x.phase = IF hook THEN "hooks" ELSE "launched"
  BY Zenon DEF Launching, StartShape
<1>2. StartShape(x) /\ x # NoStart
  BY <1>1, Zenon DEF StartShape, NoStart
<1>3. hook => n = m
  BY Zenon DEF CreatedMain
<1>4. ~hook => /\ DOMAIN n = {"phase", "generation", "cgroup"}
               /\ n.cgroup = st.snap.cgroup /\ n # NoJob
  BY Zenon DEF CreatedMain, NoJob
<1> QED
  BY <1>1, <1>2, <1>3, <1>4, Zenon

\* The end of a pre-start hook keeps the invariant.
LEMMA HookEndsGood ==
    ASSUME IInv, NEW ok \in BOOLEAN, HookEnds(ok)
    PROVE  Good
<1>1. start # NoStart /\ start.phase = "hooks"
  BY Zenon DEF HookEnds, StartIs
<1>2. StartShape(start) /\ Built({start.snap.cgroup})
  BY <1>1, StartTree, Zenon
<1>3. CASE /\ main = NoJob
           /\ start' = Launching(start, FALSE)
           /\ main' = CreatedMain(main, start, FALSE)
           /\ UNCHANGED <<entry, orphan, stop, cleanup, leaked, loop>>
  <2>1. /\ StartShape(start') /\ start' # NoStart /\ start'.phase = "launched"
        /\ start'.snap = start.snap /\ start'.route = start.route
        /\ DOMAIN main' = {"phase", "generation", "cgroup"}
        /\ main'.cgroup = start.snap.cgroup /\ main' # NoJob
    <3>1. PICK hook \in BOOLEAN : hook = FALSE
      BY Zenon
    <3>2. start' = Launching(start, hook) /\ main' = CreatedMain(main, start, hook)
      BY <1>3, <3>1, ZenonT(30)
    <3>3. main = NoJob \/ hook
      BY <1>3, Zenon
    <3>4. /\ StartShape(start') /\ start' # NoStart
          /\ start'.phase = IF hook THEN "hooks" ELSE "launched"
          /\ start'.snap = start.snap /\ start'.route = start.route
          /\ ~hook => /\ DOMAIN main' = {"phase", "generation", "cgroup"}
                      /\ main'.cgroup = start.snap.cgroup /\ main' # NoJob
      BY <1>2, <3>2, <3>3, LaunchingFields
    <3> QED
      BY <3>1, <3>4, Zenon
  <2>2. VarShape'
    BY <1>2, <1>3, <2>1, ZenonT(30) DEF IInv, VarShape, StartShape
  <2>3. WayOut'
    BY <1>1, <1>3, <2>1, Zenon DEF IInv, WayOut, GraphStartInv, RestartStartInv, OrphanInv, LaunchedInv,
       StartingInv, BackoffInv, StoppingInv, StartIs
  <2>4. NoWithdrawal => Trees'
    BY <1>1, <1>3, <2>1, Zenon DEF IInv, Trees
  <2> QED
    BY <1>3, <2>2, <2>3, <2>4, Zenon DEF Good, IInv, KeepsDefinition, NotCutShort
<1>4. CASE Contain(MainTree)
  BY <1>4, MainTreeBuilt, ContainGood, Zenon
<1>5. CASE Settle(StartFailed(entry, "PreHookFailure", FALSE), main, {start.snap.cgroup}, FALSE)
  <2>1. PICK e, success : e = StartFailed(entry, "PreHookFailure", success) /\ success = FALSE
    BY Zenon
  <2>2. e = Refused \/ (Sound(entry) /\ Moves(entry, e, {"Backoff", "Failed"}))
    BY <2>1, StartFailedSettles, Zenon DEF IInv
  <2>3. Settle(e, main, {start.snap.cgroup}, FALSE)
    BY <1>5, <2>1, ZenonT(30)
  <2> QED
    BY <1>2, <2>2, <2>3, MainOK, SettleGood, Zenon
<1> QED
  BY <1>3, <1>4, <1>5, Zenon DEF HookEnds, CanCreate

\* The entry's own trees after a step.
TreesGo ==
    NoWithdrawal =>
        /\ entry' # NoEntry /\ ~entry'.removed
        /\ entry'.cgroup >= entry.cgroup
        /\ leaked' \subseteq entry'.leaks
        /\ \A t \in entry'.leaks : t \in Nat /\ t < entry'.cgroup

\* A move of the entry keeps its trees in order.
LEMMA GoesTrees ==
    ASSUME IInv, NEW S, EntryGoes(S), leaked' = leaked
    PROVE  TreesGo
  BY DEF IInv, Trees, EntryGoes, TreesGo, EntryInv, Sound, Shape

\* As Goes, for an entry whose clock was consumed before the move.
LEMMA GoesFrom ==
    ASSUME IInv, Sound(entry), entry.state \notin RetainsDefinition,
           NEW e, Sound(e), e.cgroup = entry.cgroup, e.leaks = entry.leaks,
           e.removed = entry.removed,
           NEW S, Moves(e, entry', S), entry' # Refused
    PROVE  EntryGoes(S)
<1>1. CASE entry' = NoEntry /\ entry.removed
  BY <1>1, SMTT(30) DEF EntryGoes, IInv, Trees, EntryInv, KeepsDefinition, NoEntry, RetainsDefinition
<1>2. CASE entry' # NoEntry
  BY <1>2, Presence, ZenonT(30) DEF Moves, EntryGoes, IInv, Trees, EntryInv, KeepsDefinition, Sound
<1> QED
  BY <1>1, <1>2, Presence, SMTT(30) DEF Moves, Sound

\* A start in a tree the service was built with.
StartOK(st) == StartShape(st) /\ (NoWithdrawal => st.snap.cgroup <= entry.cgroup)

\* A new start is for the tree the entry builds next.
LEMMA NewStartFields ==
    ASSUME NEW route \in {"graph", "relaunch", "restart"}, NEW cause,
           route = "relaunch" => cause = "RestartPolicy",
           NEW e, Sound(e), NEW st, st = NewStart(route, "checking", cause, e)
    PROVE  /\ StartShape(st) /\ st # NoStart /\ st.route = route /\ st.phase = "checking"
           /\ st.snap.cgroup = e.cgroup
<1>1. PICK b : b = TRUE
  BY Zenon
<1>2. st = [route |-> route, phase |-> "checking", cause |-> cause, live |-> b,
            snap |-> ActivationSnapshot(e)]
  BY <1>1, SMTT(30) DEF NewStart
<1>3. /\ DOMAIN st = {"route", "phase", "cause", "live", "snap"}
      /\ st.route = route /\ st.phase = "checking" /\ st.cause = cause
      /\ st.snap = ActivationSnapshot(e)
  BY <1>2, SMTT(30)
<1>4. st.snap.cgroup = e.cgroup
  BY <1>3 DEF ActivationSnapshot
<1> QED
  BY <1>3, <1>4, Zenon DEF StartShape, NoStart, Sound, Shape

\* A relaunch after a restart delay is such a start, owed to the restart policy.
LEMMA RelaunchFields ==
    ASSUME NEW e, Sound(e), NEW st, st = NewStart("relaunch", "checking", "RestartPolicy", e)
    PROVE  /\ StartShape(st) /\ st # NoStart /\ st.route = "relaunch" /\ st.phase = "checking"
           /\ st.snap.cgroup = e.cgroup
  BY NewStartFields, SMTT(30)

\* The numbers of trees are ordered.
LEMMA TreesGrow ==
    /\ \A a \in Nat : a <= a
    /\ \A a, b, c \in Nat : a <= b /\ c >= b => a <= c
  OBVIOUS

\* A launch, into hooks or a job, keeps the invariant.
LEMMA LaunchedGood ==
    ASSUME IInv, NEW st, StartOK(st), NEW hook \in BOOLEAN, NEW m, JobOK(m), CanCreate(m, hook),
           EntryInv(entry'), entry'.state = "Starting", KeepsDefinition, TreesGo,
           start' = Launching(st, hook), main' = CreatedMain(m, st, hook),
           stop' \in {stop, NoStop}, orphan' = orphan, cleanup' = cleanup
    PROVE  Good
<1>1. /\ StartShape(start') /\ start' # NoStart
      /\ start'.phase = IF hook THEN "hooks" ELSE "launched"
      /\ start'.snap = st.snap /\ start'.route = st.route
      /\ hook => main' = m
      /\ ~hook => /\ DOMAIN main' = {"phase", "generation", "cgroup"}
                  /\ main'.cgroup = st.snap.cgroup /\ main' # NoJob
  BY LaunchingFields, SMTT(30) DEF StartOK, CanCreate
<1>2. VarShape'
  <2>1. start' = NoStart \/ StartShape(start')
    BY <1>1, Zenon
  <2>2. st.snap.cgroup \in Nat
    BY SMTT(30) DEF StartOK, StartShape
  <2>3. \/ main' = NoJob
        \/ DOMAIN main' = {"phase", "generation", "cgroup"} /\ main'.cgroup \in Nat
    BY <1>1, <2>2, SMTT(30) DEF JobOK
  <2> QED
    BY <2>1, <2>3, ZenonT(30) DEF IInv, VarShape, StartShape
<1>3. WayOut'
  BY <1>1, SMTT(30) DEF WayOut, GraphStartInv, RestartStartInv, OrphanInv, LaunchedInv,
     StartingInv, BackoffInv, StoppingInv, StartIs
<1>4. NoWithdrawal => Trees'
  <2> SUFFICES ASSUME NoWithdrawal PROVE Trees'
    BY SMTT(30)
  <2>1. entry'.cgroup \in Nat /\ entry.cgroup \in Nat
    BY SMTT(30) DEF TreesGo, EntryInv, Sound, Shape, IInv, Trees
  <2>2. st.snap.cgroup \in Nat /\ st.snap.cgroup <= entry.cgroup
    BY SMTT(30) DEF StartOK, StartShape
  <2>3. start'.snap.cgroup <= entry'.cgroup
    BY <1>1, <2>1, <2>2, TreesGrow, Zenon DEF TreesGo
  <2>4. main' # NoJob => main'.cgroup <= entry'.cgroup
    BY <1>1, <2>1, <2>2, TreesGrow, Zenon DEF TreesGo, JobOK
  <2>5. /\ orphan' # NoStart => orphan'.snap.cgroup <= entry'.cgroup
        /\ stop' # NoStop => stop'.tree <= entry'.cgroup
        /\ \A t \in cleanup' : t <= entry'.cgroup
    BY <2>1 DEF TreesGo, IInv, Trees, VarShape, StartShape
  <2> QED
    BY <2>3, <2>4, <2>5, Zenon DEF Trees, TreesGo
<1> QED
  BY <1>2, <1>3, <1>4, SMTT(30) DEF Good, IInv, NotCutShort

\* A step after which no start is under way, and the service is not Starting.
LEMMA IdleGood ==
    ASSUME IInv, NEW S, EntryGoes(S), S \cap {"Starting", "Stopping"} = {},
           entry.state = "Stopping" => "Inactive" \notin S,
           start' = NoStart, UNCHANGED <<orphan, main, stop, cleanup, leaked>>
    PROVE  Good
<1>1. VarShape'
  BY Zenon DEF IInv, VarShape, StartShape
<1>2. WayOut'
  BY Zenon DEF EntryGoes, WayOut, GraphStartInv, RestartStartInv, OrphanInv, LaunchedInv,
     StartingInv, BackoffInv, StoppingInv, StartIs
<1>3. NoWithdrawal => Trees'
  BY SMTT(30) DEF EntryGoes, IInv, Trees
<1> QED
  BY <1>1, <1>2, <1>3, SMTT(30) DEF Good, IInv, EntryGoes, NotCutShort

\* A launch that releases the entry to Starting keeps the invariant.
LEMMA LaunchFromGood ==
    ASSUME IInv, NEW e, Sound(entry), entry.state \notin RetainsDefinition,
           Sound(e), e.cgroup = entry.cgroup, e.leaks = entry.leaks, e.removed = entry.removed,
           NEW st, StartOK(st), NEW hook \in BOOLEAN, LaunchFrom(e, st, hook)
    PROVE  Good
<1>1. Moves(e, entry', {"Starting"}) /\ entry' # Refused
  BY TransitionMoves, Presence, Zenon DEF LaunchFrom, LaunchRefused, States
<1>2. EntryGoes({"Starting"})
  BY <1>1, GoesFrom, Zenon
<1>3. TreesGo
  BY <1>2, GoesTrees, Zenon DEF LaunchFrom
<1>4. entry'.state = "Starting"
  <2>1. entry' = TransitionService(e, "Starting", st.cause)
    BY Zenon DEF LaunchFrom
  <2>2. Lands(e, "Starting", st.cause, entry')
    BY <1>1, <2>1, TransitionLands, Zenon DEF Sound, States, RetainsDefinition
  <2> QED
    BY <2>2, Zenon DEF Lands
<1>5. CanCreate(main, hook)
  BY Zenon DEF LaunchFrom, LaunchRefused
<1> QED
  BY <1>2, <1>3, <1>4, <1>5, MainOK, LaunchedGood, Zenon DEF EntryGoes, LaunchFrom

\* A start of the graph that waits, for its check or for its dependencies.
LEMMA WaitingGood ==
    ASSUME IInv, EntryInv(entry'), entry.state \notin RetainsDefinition,
           entry'.state \notin RetainsDefinition \cup {"Backoff"}, TreesGo, leaked' = leaked,
           StartOK(start'), start'.route = "graph", start'.phase \in {"checking", "prechecked"},
           UNCHANGED <<orphan, main, stop, cleanup>>
    PROVE  Good
<1>1. VarShape'
  BY Zenon DEF IInv, VarShape, StartShape, StartOK
<1>2. WayOut'
  BY SMTT(30) DEF WayOut, GraphStartInv, RestartStartInv, OrphanInv, LaunchedInv,
     StartingInv, BackoffInv, StoppingInv, StartIs, RetainsDefinition
<1>3. NoWithdrawal => Trees'
  <2> SUFFICES ASSUME NoWithdrawal PROVE Trees'
    BY Zenon
  <2>1. entry'.cgroup \in Nat /\ entry.cgroup \in Nat
    BY SMTT(30) DEF TreesGo, EntryInv, Sound, Shape, IInv, Trees
  <2>2. start'.snap.cgroup <= entry'.cgroup
    BY <2>1, TreesGrow, Zenon DEF TreesGo, StartOK, StartShape
  <2>3. /\ orphan' # NoStart => orphan'.snap.cgroup <= entry'.cgroup
        /\ main' # NoJob => main'.cgroup <= entry'.cgroup
        /\ stop' # NoStop => stop'.tree <= entry'.cgroup
        /\ \A t \in cleanup' : t <= entry'.cgroup
    BY <2>1 DEF TreesGo, IInv, Trees, VarShape, StartShape
  <2> QED
    BY <2>2, <2>3, Zenon DEF Trees, TreesGo
<1> QED
  BY <1>1, <1>2, <1>3, SMTT(30) DEF Good, IInv, KeepsDefinition, NotCutShort, RetainsDefinition

\* A start is asked for in a state without an instance.
LEMMA AskedStates ==
    ASSUME NEW source \in Sources, NEW e, AsksForStart(source, e)
    PROVE  e.state \in {"Inactive", "Completed", "Failed", "Skipped", "Abandoned"}
  BY LifecycleAssumption, Zenon DEF AsksForStart

\* A start that passed its checks is the same start.
LEMMA PrecheckedFields ==
    ASSUME NEW st, StartOK(st), st.route = "graph", NEW x, x = [st EXCEPT !.phase = "prechecked"]
    PROVE  StartOK(x) /\ x.route = "graph" /\ x.phase = "prechecked" /\ x # NoStart
<1>1. /\ DOMAIN x = DOMAIN st /\ x.route = st.route /\ x.phase = "prechecked"
      /\ x.cause = st.cause /\ x.snap = st.snap
  BY Zenon DEF StartOK, StartShape
<1> QED
  BY <1>1, Zenon DEF StartOK, StartShape, NoStart

\* A start request keeps the invariant.
LEMMA BeginStartGood ==
    ASSUME IInv, NEW source \in Sources, NEW outcome \in AllOutcomes, NEW waits \in BOOLEAN,
           NEW hook \in Hooks, BeginStart(source, outcome, waits, hook)
    PROVE  Good
<1>1. Sound(entry) /\ ~entry.removed
  BY Presence, Zenon DEF BeginStart, CanActivate, IInv, EntryInv
<1>2. entry.state \in {"Inactive", "Completed", "Failed", "Skipped", "Abandoned"}
  BY AskedStates, Zenon DEF BeginStart
<1>3. PICK cause : cause = StartCause(source)
  BY Zenon
<1>4. PICK e : e = IF entry.state = "Skipped" /\ cause = "ExplicitStart"
                   THEN TransitionService(entry, "Inactive", "ExplicitStart")
                   ELSE entry
  BY Zenon
<1>5. PICK st : st = NewStart("graph", "checking", cause, e)
  BY Zenon
<1>6. PICK unmet : unmet = Unmet(e, "graph", outcome)
  BY Zenon
<1>7. /\ Sound(e) /\ e.cgroup = entry.cgroup /\ e.leaks = entry.leaks
      /\ e.removed = entry.removed /\ e.state \notin RetainsDefinition \cup {"Backoff"}
  <2>1. CASE e = entry
    BY <1>1, <1>2, <2>1, SMTT(30) DEF RetainsDefinition
  <2>2. CASE entry.state = "Skipped" /\ e = TransitionService(entry, "Inactive", "ExplicitStart")
    <3>1. "ExplicitStart" \in AllowedCauses(entry.state, "Inactive")
      BY <2>2, Zenon DEF AllowedCauses
    <3>2. e # Refused /\ e # NoEntry
      BY <1>1, <2>2, <3>1, Allowed, Zenon DEF States
    <3>3. Moves(entry, e, {"Inactive"})
      BY <1>1, <2>2, TransitionMoves, Zenon DEF States
    <3> QED
      BY <3>2, <3>3, Zenon DEF Moves, RetainsDefinition
  <2> QED
    BY <1>4, <2>1, <2>2, Zenon
<1>8. hook \in BOOLEAN
  BY LifecycleAssumption, Zenon
<1>9. entry.state \notin RetainsDefinition
  BY <1>2, SMTT(30) DEF RetainsDefinition
<1>10. StartShape(st) /\ st.route = "graph" /\ st.phase = "checking" /\ st.snap.cgroup = e.cgroup
  BY <1>5, <1>7, NewStartFields, SMTT(30)
<1>11. StartOK(st)
  BY <1>7, <1>10 DEF StartOK, Sound, Shape
<1>12. CASE entry' = e /\ leaked' = leaked /\ start' \in {st, [st EXCEPT !.phase = "prechecked"]}
              /\ UNCHANGED <<orphan, main, stop, cleanup>>
  <2>1. EntryInv(entry') /\ TreesGo
    BY <1>1, <1>7, <1>12, Presence DEF EntryInv, TreesGo, IInv, Trees, Sound, Shape
  <2>2. StartOK(start') /\ start'.route = "graph" /\ start'.phase \in {"checking", "prechecked"}
    BY <1>10, <1>11, <1>12, PrecheckedFields, SMTT(30)
  <2> QED
    BY <1>7, <1>9, <1>12, <2>1, <2>2, WaitingGood, Zenon
<1>13. CASE LaunchFrom(e, st, hook)
  BY <1>1, <1>7, <1>8, <1>9, <1>11, <1>13, LaunchFromGood, Zenon
<1>14. CASE EndLoop
  BY <1>14, EndLoopGood, Zenon
<1>15. CASE ~IsRefused(unmet) /\ entry' = unmet
             /\ UNCHANGED <<start, orphan, main, stop, cleanup, leaked>>
  <2>1. Moves(e, entry', {"Skipped", "Backoff", "Failed"}) /\ entry' # Refused
    BY <1>6, <1>7, <1>15, UnmetMoves, Presence, Zenon
  <2>2. EntryGoes({"Skipped", "Backoff", "Failed"})
    BY <1>1, <1>7, <1>9, <2>1, GoesFrom, Zenon
  <2>3. start' = NoStart
    BY <1>15, Zenon DEF BeginStart
  <2> QED
    BY <1>15, <2>2, <2>3, IdleGood, SMTT(30)
<1> QED
  BY <1>3, <1>4, <1>5, <1>6, <1>12, <1>13, <1>14, <1>15 DEF BeginStart

\* Launching a start the graph released keeps the invariant.
LEMMA LaunchGood ==
    ASSUME IInv, NEW held \in BOOLEAN, NEW hook \in Hooks, Launch(held, hook)
    PROVE  Good
<1>1. start # NoStart /\ start.phase = "prechecked"
  BY SMTT(30) DEF Launch, StartIs
<1>2. StartOK(start) /\ start.route = "graph"
  BY <1>1, Zenon DEF IInv, VarShape, Trees, StartOK, StartShape
<1>3. entry.state \notin RetainsDefinition \cup {"Backoff"}
  BY <1>1, <1>2, Zenon DEF IInv, WayOut, GraphStartInv
<1>4. hook \in BOOLEAN
  BY LifecycleAssumption, Zenon
<1>5. CASE LaunchFrom(entry, start, hook)
  <2>1. Sound(entry)
    BY <1>5, Presence, Zenon DEF LaunchFrom, LaunchRefused, TransitionService, IInv, EntryInv
  <2> QED
    BY <1>2, <1>3, <1>4, <1>5, <2>1, LaunchFromGood, Zenon
<1>6. CASE /\ ~IsRefused(Skipped(entry, "tty"))
           /\ entry' = Skipped(entry, "tty")
           /\ start' = NoStart
           /\ UNCHANGED <<orphan, main, stop, cleanup, leaked>>
  <2>1. Sound(entry)
    BY <1>6, Presence, Zenon DEF Skipped, MarkDependentSatisfied, TransitionService, IInv, EntryInv
  <2>2. Moves(entry, entry', {"Skipped"}) /\ entry' # Refused
    BY <1>6, <2>1, SkippedMoves, Presence, Zenon
  <2>3. EntryGoes({"Skipped"})
    BY <2>1, <2>2, Goes, Zenon
  <2> QED
    BY <1>6, <2>3, IdleGood, Zenon
<1> QED
  BY <1>5, <1>6, Zenon DEF Launch

\* The failure of a dependency keeps the invariant.
LEMMA DependencyFailsGood ==
    ASSUME IInv, DependencyFails
    PROVE  Good
<1>1. Sound(entry)
  BY Presence, Zenon DEF DependencyFails, TransitionService, IInv, EntryInv
<1>2. Moves(entry, entry', {"Failed"}) /\ entry' # Refused
  BY <1>1, TransitionMoves, Presence, Zenon DEF DependencyFails, States
<1>3. EntryGoes({"Failed"})
  BY <1>1, <1>2, Goes, Zenon
<1> QED
  BY <1>3, IdleGood, SMTT(30) DEF DependencyFails

\* The pending timeout keeps the invariant.
LEMMA PendingExpiresGood ==
    ASSUME IInv, PendingExpires
    PROVE  Good
<1>1. start # NoStart /\ start.phase = "prechecked"
  BY Zenon DEF PendingExpires, StartIs
<1>2. start.route = "graph"
  BY <1>1, Zenon DEF IInv, VarShape, StartShape
<1>3. entry.state \notin RetainsDefinition \cup {"Backoff"}
  BY <1>1, <1>2, Zenon DEF IInv, WayOut, GraphStartInv
<1>4. start' = NoStart /\ UNCHANGED <<entry, orphan, main, stop, cleanup, leaked>>
  BY SMTT(30) DEF PendingExpires
<1>5. VarShape'
  BY <1>4, Zenon DEF IInv, VarShape, StartShape
<1>6. WayOut'
  BY <1>3, <1>4, SMTT(30) DEF WayOut, GraphStartInv, RestartStartInv, OrphanInv, LaunchedInv,
     StartingInv, BackoffInv, StoppingInv, StartIs, RetainsDefinition
<1>7. NoWithdrawal => Trees'
  BY <1>4, Zenon DEF IInv, Trees
<1> QED
  BY <1>3, <1>4, <1>5, <1>6, <1>7 DEF Good, IInv, KeepsDefinition, NotCutShort, RetainsDefinition

\* An unmet check that is not refused was for a service that is there.
LEMMA UnmetIsPresent ==
    ASSUME EntryInv(entry), NEW route, NEW outcome, ~IsRefused(Unmet(entry, route, outcome))
    PROVE  Sound(entry)
  BY Presence, Zenon DEF Unmet, Skipped, MarkDependentSatisfied, TransitionService, StartFailed, EntryInv

\* A release to Starting that is not refused was for a service that is there.
LEMMA StartingIsPresent ==
    ASSUME EntryInv(entry), NEW cause, ~IsRefused(TransitionService(entry, "Starting", cause))
    PROVE  Sound(entry)
  BY Presence, Zenon DEF TransitionService, EntryInv

\* An entry released to Starting, in terms of the primed entry.
LEMMA GoesToStarting ==
    ASSUME IInv, NEW cause, ~IsRefused(TransitionService(entry, "Starting", cause)),
           entry' = TransitionService(entry, "Starting", cause)
    PROVE  EntryGoes({"Starting"}) /\ entry'.state = "Starting"
<1>1. Sound(entry)
  BY StartingIsPresent, Zenon DEF IInv
<1>2. Moves(entry, entry', {"Starting"}) /\ entry' # Refused
  BY <1>1, TransitionMoves, Presence, Zenon DEF States
<1>3. EntryGoes({"Starting"})
  BY <1>1, <1>2, Goes, Zenon
<1>4. Lands(entry, "Starting", cause, entry')
  BY <1>1, <1>2, TransitionLands, Zenon DEF Sound, States, RetainsDefinition
<1> QED
  BY <1>3, <1>4, Zenon DEF Lands

\* A step that leaves the entry alone keeps it sound and its trees in order.
LEMMA EntryStays ==
    ASSUME IInv, entry' = entry, leaked' = leaked
    PROVE  EntryInv(entry') /\ KeepsDefinition /\ TreesGo
  BY SMTT(30) DEF IInv, KeepsDefinition, TreesGo, Trees, EntryInv, Sound, Shape

\* The answer of a check helper keeps the invariant.
LEMMA HelperAnswersGood ==
    ASSUME IInv, NEW outcome \in AllOutcomes, NEW hook \in Hooks, NEW late \in BOOLEAN,
           HelperAnswers(outcome, hook, late)
    PROVE  Good
<1>1. start # NoStart /\ start.phase = "checking"
  BY Zenon DEF HelperAnswers, StartIs
<1>2. StartOK(start)
  BY <1>1, Zenon DEF IInv, VarShape, Trees, StartOK
<1>3. hook \in BOOLEAN
  BY LifecycleAssumption, Zenon
<1>4. CASE HelperRefused(entry, start, outcome, hook)
  <2>1. Contain(MainTree) \/ EndLoop
    BY <1>4, Zenon DEF HelperAnswers
  <2> QED
    BY <2>1, MainTreeBuilt, ContainGood, EndLoopGood, Zenon
<1>5. CASE ~HelperRefused(entry, start, outcome, hook)
  <2>1. UNCHANGED <<orphan, stop, cleanup, leaked>>
    BY <1>5, Zenon DEF HelperAnswers
  <2>2. CASE /\ start.route = "graph"
             /\ start' = [start EXCEPT !.phase = "prechecked"]
             /\ UNCHANGED <<entry, main>>
    <3>1. entry.state \notin RetainsDefinition \cup {"Backoff"}
      BY <1>1, <2>2, Zenon DEF IInv, WayOut, GraphStartInv
    <3>2. StartOK(start') /\ start'.route = "graph" /\ start'.phase = "prechecked"
      BY <1>2, <2>2, PrecheckedFields, SMTT(30)
    <3> QED
      BY <2>1, <2>2, <3>1, <3>2, EntryStays, WaitingGood, Zenon
  <2>3. CASE /\ outcome = "pass" /\ start.route = "relaunch"
             /\ entry' = TransitionService(entry, "Starting", start.cause)
             /\ start' = Launching(start, hook)
             /\ main' = CreatedMain(main, start, hook)
    <3>1. ~IsRefused(TransitionService(entry, "Starting", start.cause)) /\ CanCreate(main, hook)
      BY <1>5, <2>3, Zenon DEF HelperRefused
    <3>2. EntryGoes({"Starting"}) /\ entry'.state = "Starting"
      BY <2>3, <3>1, GoesToStarting, Zenon
    <3>3. TreesGo
      BY <2>1, <3>2, GoesTrees, Zenon
    <3> QED
      BY <1>2, <1>3, <2>1, <2>3, <3>1, <3>2, <3>3, MainOK, LaunchedGood, Zenon DEF EntryGoes
  <2>4. CASE /\ outcome = "pass" /\ start.route = "restart"
             /\ start' = Launching(start, hook)
             /\ main' = CreatedMain(main, start, hook)
             /\ UNCHANGED entry
    <3>1. CanCreate(main, hook)
      BY <1>5, <2>4, Zenon DEF HelperRefused
    <3>2. entry'.state = "Starting"
      BY <1>1, <2>4, Zenon DEF IInv, WayOut, RestartStartInv
    <3>3. EntryInv(entry') /\ KeepsDefinition /\ TreesGo
      BY <2>1, <2>4, EntryStays, Zenon
    <3> QED
      BY <1>2, <1>3, <2>1, <2>4, <3>1, <3>2, <3>3, MainOK, LaunchedGood, Zenon
  <2>5. CASE /\ outcome # "pass"
             /\ entry' = Unmet(entry, start.route, outcome)
             /\ start' = NoStart
             /\ UNCHANGED main
    <3>1. ~IsRefused(entry')
      BY <1>5, <2>5, Zenon DEF HelperRefused
    <3>2. Sound(entry)
      BY <2>5, <3>1, UnmetIsPresent, SMTT(30) DEF IInv
    <3>3. Moves(entry, entry', {"Skipped", "Backoff", "Failed"}) /\ entry' # Refused
      BY <2>5, <3>1, <3>2, UnmetMoves, Presence, Zenon
    <3>4. EntryGoes({"Skipped", "Backoff", "Failed"})
      BY <3>2, <3>3, Goes, Zenon
    <3> QED
      BY <2>1, <2>5, <3>4, IdleGood, Zenon
  <2> QED
    BY <1>5, <2>2, <2>3, <2>4, <2>5, Zenon DEF HelperAnswers
<1> QED
  BY <1>4, <1>5, Zenon

\* Only a service in Backoff is restarted by its policy.
LEMMA RelaunchFrom ==
    ASSUME NEW from \in States, "RestartPolicy" \in AllowedCauses(from, "Starting")
    PROVE  from = "Backoff"
  BY Zenon DEF AllowedCauses, States

\* The answer for a start that was cancelled meanwhile keeps the invariant.
LEMMA OrphanAnswersGood ==
    ASSUME IInv, NEW outcome \in AllOutcomes, NEW hook \in Hooks, OrphanAnswers(outcome, hook)
    PROVE  Good
<1>1. /\ orphan # NoStart /\ StartOK(orphan) /\ orphan.phase = "checking" /\ ~orphan.live
  BY Zenon DEF OrphanAnswers, IInv, VarShape, Trees, StartOK
<1>2. hook \in BOOLEAN
  BY LifecycleAssumption, Zenon
<1>3. CASE HelperRefused(entry, orphan, outcome, hook)
  BY <1>3, EndLoopGood, Zenon DEF OrphanAnswers
<1>4. CASE ~HelperRefused(entry, orphan, outcome, hook)
  <2>1. outcome = "pass"
    BY <1>1, <1>4, ZenonT(30) DEF HelperRefused
  <2>2. orphan' = NoStart /\ UNCHANGED <<stop, cleanup, leaked>>
    BY <1>4, Zenon DEF OrphanAnswers
  <2>3. CASE orphan.route = "graph"
    <3>1. UNCHANGED <<entry, start, main>>
      BY <1>4, <2>3, ZenonT(30) DEF OrphanAnswers
    <3>2. VarShape'
      BY <2>2, <3>1, ZenonT(30) DEF IInv, VarShape, StartShape
    <3>3. WayOut'
      BY <2>2, <2>3, <3>1, SMTT(30) DEF IInv, WayOut, GraphStartInv, RestartStartInv, OrphanInv, LaunchedInv,
         StartingInv, BackoffInv, StoppingInv, StartIs
    <3>4. NoWithdrawal => Trees'
      BY <2>2, <3>1, Zenon DEF IInv, Trees
    <3> QED
      BY <3>1, <3>2, <3>3, <3>4, Zenon DEF Good, IInv, KeepsDefinition, NotCutShort
  <2>4. CASE orphan.route # "graph"
    <3>1. /\ start' = IF start = NoStart THEN Launching(orphan, hook) ELSE start
          /\ main' = CreatedMain(main, orphan, hook)
          /\ orphan.route = "restart" => entry' = entry
          /\ orphan.route = "relaunch" =>
                entry' = TransitionService(entry, "Starting", orphan.cause)
      BY <1>4, <2>4, Zenon DEF OrphanAnswers
    <3>2. main = NoJob \/ hook
      BY <1>1, <1>4, <2>1, <2>4, Zenon DEF HelperRefused, CanCreate, StartOK, StartShape
    <3>3. PICK st : st = Launching(orphan, hook)
      BY Zenon
    <3>4. /\ StartShape(st) /\ st # NoStart
          /\ st.phase = IF hook THEN "hooks" ELSE "launched"
          /\ st.snap = orphan.snap
          /\ hook => main' = main
          /\ ~hook => /\ DOMAIN main' = {"phase", "generation", "cgroup"}
                      /\ main'.cgroup = orphan.snap.cgroup /\ main' # NoJob
      BY <1>1, <1>2, <3>1, <3>2, <3>3, LaunchingFields, SMTT(30) DEF StartOK
    <3>5. /\ EntryInv(entry') /\ KeepsDefinition /\ TreesGo
          /\ \/ orphan.route = "restart" /\ entry' = entry
             \/ /\ orphan.route = "relaunch" /\ entry.state = "Backoff"
                /\ entry'.state = "Starting"
      <4>1. CASE orphan.route = "restart"
        BY <2>2, <3>1, <4>1, EntryStays, Zenon
      <4>2. CASE orphan.route = "relaunch"
        <5>1. orphan.cause = "RestartPolicy"
          BY <1>1, <4>2, Zenon DEF StartOK, StartShape
        <5>2. ~IsRefused(TransitionService(entry, "Starting", orphan.cause))
          BY <1>4, <2>1, <4>2, Zenon DEF HelperRefused
        <5>3. EntryGoes({"Starting"}) /\ entry'.state = "Starting"
          BY <3>1, <4>2, <5>2, GoesToStarting, Zenon
        <5>4. Sound(entry)
          BY <5>2, StartingIsPresent, Zenon DEF IInv
        <5>5. orphan.cause \in AllowedCauses(entry.state, "Starting")
          BY <5>2, Presence, SMTT(30) DEF TransitionService
        <5>6. entry.state = "Backoff"
          BY <5>1, <5>4, <5>5, RelaunchFrom, ZenonT(30) DEF Sound, Shape
        <5> QED
          BY <2>2, <4>2, <5>3, <5>6, GoesTrees, Zenon DEF EntryGoes
      <4> QED
        BY <1>1, <2>4, <4>1, <4>2, Zenon DEF StartOK, StartShape
    <3>6. VarShape'
      <4>1. start' = NoStart \/ StartShape(start')
        BY <3>1, <3>3, <3>4, Zenon DEF IInv, VarShape
      <4>2. orphan.snap.cgroup \in Nat
        BY <1>1, SMTT(30) DEF StartOK, StartShape
      <4>3. \/ main' = NoJob
            \/ DOMAIN main' = {"phase", "generation", "cgroup"} /\ main'.cgroup \in Nat
        BY <1>2, <3>4, <4>2, Zenon DEF IInv, VarShape
      <4> QED
        BY <2>2, <4>1, <4>3, ZenonT(30) DEF IInv, VarShape, StartShape
    <3>7. WayOut'
      <4>1. start # NoStart => StartShape(start)
        BY SMTT(30) DEF IInv, VarShape
      <4>2. GraphStartInv'
        BY <3>1, <3>3, <3>4, <3>5, ZenonT(30) DEF IInv, WayOut, GraphStartInv
      <4>3. RestartStartInv'
        BY <3>1, <3>3, <3>4, <3>5, Zenon DEF IInv, WayOut, RestartStartInv
      <4>4. OrphanInv'
        BY <2>2, SMTT(30) DEF OrphanInv
      <4>5. LaunchedInv'
        BY <1>1, <1>2, <3>1, <3>3, <3>4, <3>5, ZenonT(30) DEF IInv, WayOut, LaunchedInv, OrphanInv, StartIs
      <4>6. StartingInv'
        BY <1>1, <1>2, <3>1, <3>3, <3>4, <3>5, <4>1, ZenonT(30)
        DEF IInv, WayOut, StartingInv, GraphStartInv, OrphanInv, LaunchedInv, StartIs,
            StartShape, RetainsDefinition
      <4>7. BackoffInv' /\ StoppingInv'
        BY <2>2, <3>1, <3>3, <3>4, <3>5, ZenonT(30)
        DEF IInv, WayOut, BackoffInv, StoppingInv, StartIs, NoStart
      <4> QED
        BY <4>2, <4>3, <4>4, <4>5, <4>6, <4>7, SMTT(30) DEF WayOut
    <3>8. NoWithdrawal => Trees'
      <4> SUFFICES ASSUME NoWithdrawal PROVE Trees'
        BY SMTT(30)
      <4>1. entry'.cgroup \in Nat /\ entry.cgroup \in Nat
        BY <3>5, ZenonT(30) DEF TreesGo, EntryInv, Sound, Shape, IInv, Trees
      <4>2. orphan.snap.cgroup \in Nat /\ orphan.snap.cgroup <= entry.cgroup
        BY <1>1, SMTT(30) DEF StartOK, StartShape
      <4>0. /\ entry'.cgroup >= entry.cgroup
            /\ start # NoStart => start.snap.cgroup \in Nat /\ start.snap.cgroup <= entry.cgroup
            /\ main # NoJob => main.cgroup \in Nat /\ main.cgroup <= entry.cgroup
        BY <3>5, ZenonT(30) DEF TreesGo, IInv, Trees, VarShape, StartShape
      <4>3. start' # NoStart => start'.snap.cgroup <= entry'.cgroup
        <5>1. CASE start = NoStart
          <6>1. start'.snap.cgroup = orphan.snap.cgroup
            BY <3>1, <3>3, <3>4, <5>1, Zenon
          <6> QED
            BY <4>0, <4>1, <4>2, <6>1
        <5>2. CASE start # NoStart
          <6>1. start' = start
            BY <3>1, <5>2, Zenon
          <6> QED
            BY <4>0, <4>1, <5>2, <6>1
        <5> QED
          BY <5>1, <5>2, Zenon
      <4>4. main' # NoJob => main'.cgroup <= entry'.cgroup
        <5>1. CASE hook
          <6>1. main' = main
            BY <3>4, <5>1, Zenon
          <6> QED
            BY <4>0, <4>1, <6>1
        <5>2. CASE ~hook
          <6>1. main'.cgroup = orphan.snap.cgroup
            BY <3>4, <5>2, Zenon
          <6> QED
            BY <4>0, <4>1, <4>2, <6>1
        <5> QED
          BY <5>1, <5>2, Zenon
      <4>5. /\ stop' # NoStop => stop'.tree <= entry'.cgroup
            /\ \A t \in cleanup' : t <= entry'.cgroup
        BY <2>2, <3>5, <4>1 DEF TreesGo, IInv, Trees, VarShape
      <4> QED
        BY <2>2, <3>5, <4>3, <4>4, <4>5, Zenon DEF Trees, TreesGo
    <3> QED
      BY <3>5, <3>6, <3>7, <3>8, SMTT(30) DEF Good, IInv, NotCutShort
  <2> QED
    BY <2>3, <2>4, Zenon
<1> QED
  BY <1>3, <1>4, SMTT(30)

\* Consuming the restart clock changes the clock alone.
LEMMA ConsumedFields ==
    ASSUME NEW e, Sound(e), NEW x, x = ConsumeRestartBackoff(e)
    PROVE  Sound(x) /\ SameEntry(e, x)
<1>1. PICK b : b = FALSE
  BY Zenon
<1>2. x = [e EXCEPT !.clock = b]
  BY <1>1, ZenonT(30) DEF ConsumeRestartBackoff
<1>3. SameEntry(e, x) /\ x.failures = e.failures
  BY <1>2, Zenon DEF Sound, Shape, SameEntry
<1> QED
  BY <1>3, SameIsSound, Zenon

\* The end of a restart delay keeps the invariant.
LEMMA BackoffDueGood ==
    ASSUME IInv, NEW outcome \in AllOutcomes, NEW hook \in Hooks, BackoffDue(outcome, hook)
    PROVE  Good
<1>1. Sound(entry) /\ entry.state = "Backoff" /\ start = NoStart
  BY Presence, Zenon DEF BackoffDue, RestartBackoffDue, IInv, EntryInv
<1>2. PICK e : e = ConsumeRestartBackoff(entry)
  BY Zenon
<1>3. PICK st : st = NewStart("relaunch", "checking", "RestartPolicy", e)
  BY Zenon
<1>4. PICK unmet : unmet = Unmet(e, "relaunch", outcome)
  BY Zenon
<1>5. Sound(e) /\ SameEntry(entry, e)
  BY <1>1, <1>2, ConsumedFields, Zenon
<1>6. /\ e.cgroup = entry.cgroup /\ e.leaks = entry.leaks /\ e.removed = entry.removed
      /\ e.state = "Backoff" /\ entry.state \notin RetainsDefinition
  BY <1>1, <1>5, ZenonT(30) DEF SameEntry, RetainsDefinition
<1>7. /\ StartShape(st) /\ st # NoStart /\ st.route = "relaunch" /\ st.phase = "checking"
      /\ st.snap.cgroup = e.cgroup
  BY <1>3, <1>5, RelaunchFields, ZenonT(30)
<1>8. StartOK(st)
  BY <1>5, <1>6, <1>7, SMTT(30) DEF StartOK, Sound, Shape
<1>9. hook \in BOOLEAN
  BY LifecycleAssumption, Zenon
<1>10. UNCHANGED <<orphan, stop, cleanup, leaked>>
  BY Zenon DEF BackoffDue
<1>11. CASE entry' = FailedInternally(e) /\ UNCHANGED <<start, main>>
  <2>1. Moves(e, entry', {"Failed"}) /\ entry' # Refused
    BY <1>5, <1>6, <1>11, FailedInternallyMoves, Zenon DEF EntryInv, RetainsDefinition
  <2>2. EntryGoes({"Failed"})
    BY <1>1, <1>5, <1>6, <2>1, GoesFrom, SMTT(30)
  <2> QED
    BY <1>1, <1>10, <1>11, <2>2, IdleGood, SMTT(30)
<1>12. CASE /\ ~LaunchRefused(e, st, hook)
            /\ entry' = TransitionService(e, "Starting", "RestartPolicy")
            /\ start' = Launching(st, hook)
            /\ main' = CreatedMain(main, st, hook)
  <2>1. st.cause = "RestartPolicy"
    BY <1>7, Zenon DEF StartShape
  <2>2. Moves(e, entry', {"Starting"}) /\ entry' # Refused
    BY <1>5, <1>12, <2>1, TransitionMoves, Presence, Zenon DEF LaunchRefused, States
  <2>3. EntryGoes({"Starting"})
    BY <1>1, <1>5, <1>6, <2>2, GoesFrom, Zenon
  <2>4. Lands(e, "Starting", "RestartPolicy", entry')
    BY <1>5, <1>12, <2>2, TransitionLands, SMTT(30) DEF Sound, States, RetainsDefinition
  <2>5. entry'.state = "Starting" /\ TreesGo /\ CanCreate(main, hook)
    BY <1>10, <1>12, <2>3, <2>4, GoesTrees, ZenonT(30) DEF Lands, LaunchRefused
  <2> QED
    BY <1>8, <1>9, <1>10, <1>12, <2>3, <2>5, MainOK, LaunchedGood, ZenonT(30) DEF EntryGoes
<1>13. CASE entry' = e /\ start' = st /\ UNCHANGED main
  <2>1. VarShape'
    BY <1>7, <1>10, <1>13, ZenonT(30) DEF IInv, VarShape, StartShape
  <2>2. WayOut'
    BY <1>6, <1>7, <1>10, <1>13, SMTT(30) DEF WayOut, GraphStartInv, RestartStartInv, OrphanInv, LaunchedInv,
       StartingInv, BackoffInv, StoppingInv, StartIs
  <2>3. NoWithdrawal => Trees'
    <3> SUFFICES ASSUME NoWithdrawal PROVE Trees'
      BY Zenon
    <3>1. Trees /\ e.cgroup \in Nat /\ e # NoEntry
      BY <1>5, Presence, Zenon DEF IInv, Sound, Shape
    <3>2. /\ entry'.cgroup = entry.cgroup /\ entry'.leaks = entry.leaks
          /\ entry'.removed = entry.removed /\ entry' # NoEntry
      BY <1>6, <1>13, <3>1, Zenon
    <3>3. start' # NoStart => start'.snap.cgroup <= entry'.cgroup
      <4>1. start'.snap.cgroup = e.cgroup /\ entry'.cgroup = e.cgroup
        BY <1>7, <1>13, Zenon
      <4> QED
        BY <3>1, <4>1
    <3>4. UNCHANGED <<orphan, main, stop, cleanup, leaked>>
      BY <1>10, <1>13, Zenon
    <3> QED
      BY <3>1, <3>2, <3>3, <3>4, ZenonT(30) DEF Trees
  <2> QED
    BY <1>5, <1>6, <1>13, <2>1, <2>2, <2>3, SMTT(30)
    DEF Good, IInv, EntryInv, KeepsDefinition, NotCutShort, RetainsDefinition
<1>14. CASE ~IsRefused(unmet) /\ entry' = unmet /\ UNCHANGED <<start, main>>
  <2>1. Moves(e, entry', {"Skipped", "Backoff", "Failed"}) /\ entry' # Refused
    BY <1>4, <1>5, <1>14, UnmetMoves, Presence, Zenon
  <2>2. EntryGoes({"Skipped", "Backoff", "Failed"})
    BY <1>1, <1>5, <1>6, <2>1, GoesFrom, Zenon
  <2> QED
    BY <1>1, <1>10, <1>14, <2>2, IdleGood, Zenon
<1> QED
  BY <1>2, <1>3, <1>4, <1>11, <1>12, <1>13, <1>14, Zenon DEF BackoffDue

\* A satisfied start is one of the ends SettleGood is about.
LEMMA SatisfiedSettles ==
    ASSUME EntryInv(entry), NEW cause, NEW e, e = Satisfied(entry, cause)
    PROVE  e = Refused \/ (Sound(entry) /\ Moves(entry, e, {"Active", "Completed", "Inactive"}))
  BY SatisfiedMoves, Presence, Zenon DEF EntryInv, Satisfied

\* Only the main job changes, and there still is one.
LEMMA MainMovesGood ==
    ASSUME IInv, JobOK(main'), main' # NoJob,
           UNCHANGED <<entry, start, orphan, stop, cleanup, leaked>>
    PROVE  Good
<1>1. VarShape'
  BY SMTT(30) DEF IInv, VarShape, StartShape, JobOK
<1>2. WayOut'
  BY SMTT(30) DEF IInv, WayOut, GraphStartInv, RestartStartInv, OrphanInv, LaunchedInv,
     StartingInv, BackoffInv, StoppingInv, StartIs
<1>3. NoWithdrawal => Trees'
  BY Zenon DEF IInv, Trees, JobOK
<1> QED
  BY <1>1, <1>2, <1>3, SMTT(30) DEF Good, IInv, KeepsDefinition, NotCutShort

\* The clone of the main job keeps the invariant.
LEMMA JobClonedGood ==
    ASSUME IInv, JobCloned
    PROVE  Good
  BY RunningOK, MainMovesGood, Zenon DEF JobCloned, MainIs

\* The exec of the main job keeps the invariant.
LEMMA JobStartsGood ==
    ASSUME IInv, JobStarts
    PROVE  Good
<1>1. PICK running : running = [main EXCEPT !.phase = "Running"]
  BY Zenon
<1>2. JobOK(running) /\ running # NoJob
  BY <1>1, RunningOK, Zenon DEF JobStarts, MainIs
<1>3. CASE Contain({})
  BY <1>3, MainTreeBuilt, ContainGood, SMTT(30)
<1>4. CASE entry.state = "Starting" /\ Settle(Satisfied(entry, CauseOfStart), running, {}, TRUE)
  <2>1. PICK e : e = Satisfied(entry, CauseOfStart)
    BY Zenon
  <2>2. e = Refused \/ (Sound(entry) /\ Moves(entry, e, {"Active", "Completed", "Inactive"}))
    BY <2>1, SatisfiedSettles DEF IInv
  <2>3. Settle(e, running, {}, TRUE)
    BY <1>4, <2>1, Zenon
  <2> QED
    BY <1>2, <1>4, <2>2, <2>3, MainTreeBuilt, SettleGood, Zenon
<1>5. CASE main' = running /\ UNCHANGED <<entry, start, orphan, stop, cleanup, leaked, loop>>
  BY <1>2, <1>5, MainMovesGood, Zenon
<1> QED
  BY <1>1, <1>3, <1>4, <1>5, Zenon DEF JobStarts

\* A job that cannot be launched keeps the invariant.
LEMMA JobLaunchFailsGood ==
    ASSUME IInv, NEW atPump \in BOOLEAN, JobLaunchFails(atPump)
    PROVE  Good
<1>1. PICK cause : cause = IF atPump THEN "ParentSetupFailure" ELSE "PreExecFailure"
  BY Zenon
<1>2. PICK e, success : e = StartFailed(entry, cause, success) /\ success = FALSE
  BY Zenon
<1>3. e = Refused \/ (Sound(entry) /\ Moves(entry, e, {"Backoff", "Failed"}))
  BY <1>2, StartFailedSettles, Zenon DEF IInv
<1>4. Built({main.cgroup})
  BY MainTreeBuilt, Zenon DEF JobLaunchFails, MainIs, MainTree
<1>5. EndLoop \/ Settle(e, NoJob, {main.cgroup}, TRUE)
  BY <1>1, <1>2, Zenon DEF JobLaunchFails
<1> QED
  BY <1>3, <1>4, <1>5, MainOK, EndLoopGood, SettleGood, Zenon

\* Readiness keeps the invariant.
LEMMA ReadyGood ==
    ASSUME IInv, Ready
    PROVE  Good
<1>1. PICK e : e = Satisfied(entry, CauseOfStart)
  BY Zenon
<1>2. e = Refused \/ (Sound(entry) /\ Moves(entry, e, {"Active", "Completed", "Inactive"}))
  BY <1>1, SatisfiedSettles DEF IInv
<1>3. entry.state = "Starting" /\ Settle(e, main, {}, TRUE)
  BY <1>1, Zenon DEF Ready
<1> QED
  BY <1>2, <1>3, MainOK, MainTreeBuilt, SettleGood, Zenon

\* The readiness timeout keeps the invariant.
LEMMA ReadinessTimesOutGood ==
    ASSUME IInv, ReadinessTimesOut
    PROVE  Good
<1>1. PICK e, success : e = StartFailed(entry, "ReadinessTimeout", success) /\ success = FALSE
  BY Zenon
<1>2. e = Refused \/ (Sound(entry) /\ Moves(entry, e, {"Backoff", "Failed"}))
  BY <1>1, StartFailedSettles, Zenon DEF IInv
<1>3. PICK m : m = IF MainIs("Running") THEN NoJob ELSE main
  BY Zenon
<1>4. JobOK(m)
  BY <1>3, MainOK, SMTT(30)
<1>5. Built({start.snap.cgroup})
  BY StartTree, SMTT(30) DEF ReadinessTimesOut, StartIs
<1>6. Settle(e, m, {start.snap.cgroup}, FALSE)
  BY <1>1, <1>3, Zenon DEF ReadinessTimesOut
<1> QED
  BY <1>2, <1>4, <1>5, <1>6, SettleGood, Zenon

\* An exit that finds the service Starting keeps the invariant.
LEMMA ExitWhileStartingGood ==
    ASSUME IInv, NEW success \in BOOLEAN, ExitWhileStarting(success)
    PROVE  Good
<1>1. entry.state = "Starting"
  BY Zenon DEF ExitWhileStarting, Exiting
<1>2. CASE Settle(Satisfied(entry, CauseOfStart), NoJob, {}, TRUE)
  <2>1. PICK e : e = Satisfied(entry, CauseOfStart)
    BY Zenon
  <2>2. e = Refused \/ (Sound(entry) /\ Moves(entry, e, {"Active", "Completed", "Inactive"}))
    BY <2>1, SatisfiedSettles DEF IInv
  <2>3. Settle(e, NoJob, {}, TRUE)
    BY <1>2, <2>1, Zenon
  <2> QED
    BY <1>1, <2>2, <2>3, MainOK, MainTreeBuilt, SettleGood, Zenon
<1>3. CASE Settle(StartFailed(entry, "ProcessCrash", success), NoJob, {}, TRUE)
  <2>1. PICK e : e = StartFailed(entry, "ProcessCrash", success)
    BY Zenon
  <2>2. e = Refused \/ (Sound(entry) /\ Moves(entry, e, {"Backoff", "Failed"}))
    BY <2>1, StartFailedSettles DEF IInv
  <2>3. Settle(e, NoJob, {}, TRUE)
    BY <1>3, <2>1, Zenon
  <2> QED
    BY <2>2, <2>3, MainOK, MainTreeBuilt, SettleGood, Zenon
<1> QED
  BY <1>2, <1>3, Zenon DEF ExitWhileStarting

\* The end of a running instance.
LEMMA RunEndsGood ==
    ASSUME IInv, entry.state \in {"Active", "Reloading"}, Sound(entry), NEW trees, Built(trees),
           Moves(entry, entry', {"Inactive", "Backoff", "Failed"}), entry' # Refused,
           main' = NoJob, cleanup' = cleanup \cup trees,
           UNCHANGED <<start, orphan, stop, leaked>>
    PROVE  Good
<1>1. EntryGoes({"Inactive", "Backoff", "Failed"})
  BY Goes, Zenon
<1>2. VarShape'
  BY ZenonT(30) DEF IInv, VarShape, StartShape, Built
<1>3. WayOut'
  BY <1>1, ZenonT(30) DEF EntryGoes, IInv, WayOut, GraphStartInv, RestartStartInv, OrphanInv, LaunchedInv,
     StartingInv, BackoffInv, StoppingInv, StartIs, RetainsDefinition
<1>4. NoWithdrawal => Trees'
  BY <1>1, Zenon DEF EntryGoes, IInv, Trees, Built
<1> QED
  BY <1>1, <1>2, <1>3, <1>4, Zenon DEF Good, IInv, EntryGoes, NotCutShort

\* An exit that finds the service Active or Reloading keeps the invariant.
LEMMA ExitWhileRunningGood ==
    ASSUME IInv, NEW success \in BOOLEAN, ExitWhileRunning(success)
    PROVE  Good
<1>1. Sound(entry) /\ entry.state \in {"Active", "Reloading"}
  BY Presence, Zenon DEF ExitWhileRunning, Exiting, IInv, EntryInv
<1>2. PICK e : e = IF entry.state = "Active" THEN ExitedActive(entry, success)
                   ELSE WithPolicy(entry, "ProcessCrash", success)
  BY SMTT(30)
<1>3. Moves(entry, e, {"Inactive", "Backoff", "Failed"})
  BY <1>1, <1>2, ExitedActiveMoves, WithPolicyMoves, Zenon
<1>4. CASE IsRefused(e)
  <2>1. Contain({})
    BY <1>2, <1>4, Zenon DEF ExitWhileRunning
  <2> QED
    BY <2>1, MainTreeBuilt, ContainGood, Zenon
<1>5. CASE ~IsRefused(e)
  <2>1. entry' = e /\ main' = NoJob /\ UNCHANGED <<start, orphan, stop, cleanup, leaked, loop>>
    BY <1>2, <1>5, Zenon DEF ExitWhileRunning
  <2>2. cleanup' = cleanup \cup {}
    BY <2>1, Zenon
  <2> QED
    BY <1>1, <1>3, <1>5, <2>1, <2>2, Presence, MainTreeBuilt, RunEndsGood, Zenon
<1> QED
  BY <1>4, <1>5, SMTT(30)

\* A watchdog or health escalation keeps the invariant.
LEMMA EscalateGood ==
    ASSUME IInv, NEW cause, Escalate(cause)
    PROVE  Good
<1>1. Sound(entry) /\ entry.state = "Active"
  BY Presence, Zenon DEF Escalate, IInv, EntryInv
<1>2. PICK e, success : e = StartFailed(entry, cause, success) /\ success = FALSE
  BY ZenonT(30)
<1>3. Moves(entry, e, {"Backoff", "Failed"})
  BY <1>1, <1>2, StartFailedMoves, Zenon
<1>4. Moves(entry, e, {"Inactive", "Backoff", "Failed"})
  BY <1>3, Zenon DEF Moves
<1>5. CASE IsRefused(e)
  <2>1. Contain(MainTree)
    BY <1>2, <1>5, Zenon DEF Escalate
  <2> QED
    BY <2>1, MainTreeBuilt, ContainGood, SMTT(30)
<1>6. CASE ~IsRefused(e)
  <2>1. /\ entry' = e /\ main' = NoJob /\ cleanup' = cleanup \cup MainTree
        /\ UNCHANGED <<start, orphan, stop, leaked>>
    BY <1>2, <1>6, Zenon DEF Escalate
  <2> QED
    BY <1>1, <1>4, <1>6, <2>1, Presence, MainTreeBuilt, RunEndsGood
<1> QED
  BY <1>5, <1>6, SMTT(30)

\* An exit that the state no longer expects keeps the invariant.
LEMMA ExitLateGood ==
    ASSUME IInv, ExitLate
    PROVE  Good
<1>1. /\ entry.state # "Starting" /\ main' = NoJob
      /\ UNCHANGED <<entry, start, orphan, stop, cleanup, leaked>>
  BY Zenon DEF ExitLate, Exiting
<1>2. VarShape'
  BY <1>1, Zenon DEF IInv, VarShape, StartShape
<1>3. WayOut'
  BY <1>1, SMTT(30) DEF IInv, WayOut, GraphStartInv, RestartStartInv, OrphanInv, LaunchedInv,
     StartingInv, BackoffInv, StoppingInv, StartIs
<1>4. NoWithdrawal => Trees'
  BY <1>1, Zenon DEF IInv, Trees
<1> QED
  BY <1>1, <1>2, <1>3, <1>4, SMTT(30) DEF Good, IInv, KeepsDefinition, NotCutShort

\* The exit of a discarded service's process keeps the invariant.
LEMMA ExitUnknownGood ==
    ASSUME IInv, ExitUnknown
    PROVE  Good
  BY MainTreeBuilt, ContainGood, Zenon DEF ExitUnknown

\* Between Active and Reloading, or within either, nothing else moves.
LEMMA RunningGood ==
    ASSUME IInv, entry.state \in {"Active", "Reloading"}, EntryGoes({"Active", "Reloading"}),
           UNCHANGED <<start, orphan, main, stop, cleanup, leaked>>
    PROVE  Good
<1>1. VarShape'
  BY Zenon DEF IInv, VarShape, StartShape
<1>2. WayOut'
  BY SMTT(30) DEF EntryGoes, IInv, WayOut, GraphStartInv, RestartStartInv, OrphanInv, LaunchedInv,
     StartingInv, BackoffInv, StoppingInv, StartIs, RetainsDefinition
<1>3. NoWithdrawal => Trees'
  BY Zenon DEF EntryGoes, IInv, Trees
<1> QED
  BY <1>1, <1>2, <1>3, Zenon DEF Good, IInv, EntryGoes, NotCutShort

\* The reset of the restart window keeps the invariant.
LEMMA WindowResetsGood ==
    ASSUME IInv, WindowResets
    PROVE  Good
<1>1. Sound(entry) /\ entry.state = "Active"
  BY Presence, Zenon DEF WindowResets, RestartWindowResetDue, IInv, EntryInv
<1>2. entry' = [entry EXCEPT !.failures = 0]
  BY Zenon DEF WindowResets
<1>3. SameEntry(entry, entry') /\ entry'.failures = 0
  BY <1>1, <1>2, Zenon DEF Sound, Shape, SameEntry
<1>4. Sound(entry')
  BY <1>1, <1>3, SameIsSound, SMTT(30)
<1>5. EntryGoes({"Active", "Reloading"})
  BY <1>1, <1>3, <1>4, Presence, Zenon
  DEF EntryGoes, EntryInv, SameEntry, KeepsDefinition, IInv, Trees, Sound
<1> QED
  BY <1>1, <1>5, RunningGood, Zenon DEF WindowResets

\* A reload may begin in Active and ends there.
LEMMA ReloadCauses ==
    /\ "ExplicitReload" \in AllowedCauses("Active", "Reloading")
    /\ "ExplicitReload" \in AllowedCauses("Reloading", "Active")
  BY Zenon DEF AllowedCauses

\* The beginning of a reload keeps the invariant.
LEMMA BeginReloadGood ==
    ASSUME IInv, BeginReload
    PROVE  Good
<1>1. /\ Sound(entry) /\ entry.state = "Active"
      /\ entry' = TransitionService(entry, "Reloading", "ExplicitReload")
  BY Presence, SMTT(30) DEF BeginReload, IInv, EntryInv
<1>2. Moves(entry, entry', {"Reloading"}) /\ entry' # Refused
  BY <1>1, ReloadCauses, TransitionMoves, Allowed, SMTT(30) DEF States
<1>3. EntryGoes({"Active", "Reloading"})
  BY <1>1, <1>2, Goes, Zenon DEF Moves
<1> QED
  BY <1>1, <1>3, RunningGood, Zenon DEF BeginReload

\* The end of a reload keeps the invariant.
LEMMA ReloadResolvesGood ==
    ASSUME IInv, ReloadResolves
    PROVE  Good
<1>1. /\ Sound(entry) /\ entry.state = "Reloading"
      /\ entry' = TransitionService(entry, "Active", "ExplicitReload")
  BY Presence, Zenon DEF ReloadResolves, IInv, EntryInv
<1>2. Moves(entry, entry', {"Active"}) /\ entry' # Refused
  BY <1>1, ReloadCauses, TransitionMoves, Allowed, SMTT(30) DEF States
<1>3. EntryGoes({"Active", "Reloading"})
  BY <1>1, <1>2, Goes, Zenon DEF Moves
<1> QED
  BY <1>1, <1>3, RunningGood, Zenon DEF ReloadResolves

\* The edges that a stop, its post-kill deadline and a reset need are there.
LEMMA StopAllowed ==
    /\ StopCauses \subseteq AllowedCauses("Active", "Stopping")
    /\ StopCauses \subseteq AllowedCauses("Reloading", "Stopping")
    /\ "ExplicitStop" \in AllowedCauses("Starting", "Stopping")
    /\ "ExplicitStop" \in AllowedCauses("Completed", "Inactive")
    /\ "ExplicitStop" \in AllowedCauses("Backoff", "Inactive")
    /\ "ProcessUnkillable" \in AllowedCauses("Stopping", "Abandoned")
    /\ \A from \in {"Failed", "Abandoned", "Skipped"} :
            "ExplicitReset" \in AllowedCauses(from, "Inactive")
  BY DEF AllowedCauses, StopCauses

\* A stop or the stop leg of a restart keeps the invariant.
LEMMA StopGood ==
    ASSUME IInv, NEW cause \in StopReasons, NEW restart \in BOOLEAN, Stop(cause, restart)
    PROVE  Good
<1>1. /\ Sound(entry) /\ entry.state \in {"Starting", "Active", "Reloading"}
      /\ entry.state = "Starting" => cause = "ExplicitStop"
      /\ UNCHANGED <<main, cleanup, leaked>>
  BY Presence, Zenon DEF Stop, IInv, EntryInv
<1>2. PICK x : x = Orphaned(start)
  BY SMTT(30)
<1>3. /\ \/ x = NoStart
         \/ StartShape(x) /\ x.phase = "checking" /\ ~x.live
      /\ NoWithdrawal /\ x # NoStart => x.snap.cgroup <= entry.cgroup
      /\ StartIs("checking") => x # NoStart /\ x.route = start.route
      /\ ~StartIs("checking") => x = orphan
  BY <1>2, OrphanedShape, Zenon
<1>4. orphan' = x
  BY <1>2, Zenon DEF Stop
<1>5. CASE MainIs("Running")
  <2>1. /\ entry' = TransitionService(entry, "Stopping", cause) /\ start' = NoStart
        /\ stop' = [tree |-> main.cgroup, restart |-> restart]
    BY <1>5, Zenon DEF Stop
  <2>2. cause \in AllowedCauses(entry.state, "Stopping")
    BY <1>1, StopAllowed, LifecycleAssumption, Zenon
  <2>3. Moves(entry, entry', {"Stopping"}) /\ entry' # Refused
    BY <1>1, <2>1, <2>2, TransitionMoves, Allowed, SMTT(30) DEF States
  <2>4. EntryGoes({"Stopping"})
    BY <1>1, <2>3, Goes, SMTT(30)
  <2>5. /\ DOMAIN stop' = {"tree", "restart"} /\ stop'.tree = main.cgroup /\ stop' # NoStop
        /\ main # NoJob /\ main.cgroup \in Nat
    BY <1>5, <2>1, ZenonT(30) DEF NoStop, MainIs, IInv, VarShape
  <2>6. VarShape'
    BY <1>1, <1>3, <1>4, <2>1, <2>5, ZenonT(30) DEF IInv, VarShape, StartShape
  <2>7. WayOut'
    BY <2>1, <2>4, <2>5, ZenonT(30) DEF EntryGoes, WayOut, GraphStartInv, RestartStartInv, OrphanInv,
       LaunchedInv, StartingInv, BackoffInv, StoppingInv, StartIs
  <2>8. NoWithdrawal => Trees'
    BY <1>1, <1>3, <1>4, <2>1, <2>4, <2>5, ZenonT(30) DEF EntryGoes, IInv, Trees
  <2> QED
    BY <2>4, <2>6, <2>7, <2>8, Zenon DEF Good, IInv, EntryGoes, NotCutShort
<1>6. CASE ~MainIs("Running")
  <2>1. /\ start' = IF StartIs("checking") \/ start = NoStart THEN NoStart
                    ELSE [start EXCEPT !.live = FALSE]
        /\ UNCHANGED <<entry, stop>>
    BY <1>6, Zenon DEF Stop
  <2>2. CASE StartIs("checking") \/ start = NoStart
    <3>1. start' = NoStart
      BY <2>1, <2>2, Zenon
    <3>2. VarShape'
      BY <1>1, <1>3, <1>4, <2>1, <3>1, Zenon DEF IInv, VarShape, StartShape
    <3>3. WayOut'
      BY <1>1, <1>3, <1>4, <2>1, <2>2, <3>1, Zenon DEF IInv, WayOut, GraphStartInv, RestartStartInv,
         OrphanInv, LaunchedInv, StartingInv, BackoffInv, StoppingInv, StartIs, RetainsDefinition
    <3>4. NoWithdrawal => Trees'
      BY <1>1, <1>3, <1>4, <2>1, <3>1, Zenon DEF IInv, Trees
    <3> QED
      BY <1>1, <2>1, <3>2, <3>3, <3>4, Zenon DEF Good, IInv, KeepsDefinition, NotCutShort
  <2>3. CASE ~StartIs("checking") /\ start # NoStart
    <3>1. PICK b : b = FALSE
      BY Zenon
    <3>2. start' = [start EXCEPT !.live = b]
      BY <2>1, <2>3, <3>1, ZenonT(30)
    <3>3. StartShape(start)
      BY <2>3, Zenon DEF IInv, VarShape
    <3>4. /\ DOMAIN start' = DOMAIN start /\ start'.route = start.route
          /\ start'.phase = start.phase /\ start'.cause = start.cause /\ start'.snap = start.snap
      BY <3>2, <3>3, SMTT(30) DEF StartShape
    <3>5. StartShape(start') /\ start' # NoStart
      BY <3>3, <3>4, Zenon DEF StartShape, NoStart
    <3>6. VarShape'
      BY <1>1, <1>3, <1>4, <2>1, <3>5, Zenon DEF IInv, VarShape, StartShape
    <3>7. WayOut'
      BY <1>1, <1>3, <1>4, <2>1, <2>3, <3>4, <3>5, Zenon DEF IInv, WayOut, GraphStartInv,
         RestartStartInv, OrphanInv, LaunchedInv, StartingInv, BackoffInv, StoppingInv, StartIs
    <3>8. NoWithdrawal => Trees'
      BY <1>1, <1>3, <1>4, <2>1, <2>3, <3>4, Zenon DEF IInv, Trees
    <3> QED
      BY <1>1, <2>1, <3>6, <3>7, <3>8, Zenon DEF Good, IInv, KeepsDefinition, NotCutShort
  <2> QED
    BY <2>2, <2>3, Zenon
<1> QED
  BY <1>5, <1>6, Zenon

\* A restart that adopts a stop in progress keeps the invariant.
LEMMA AdoptStopLegGood ==
    ASSUME IInv, AdoptStopLeg
    PROVE  Good
<1>1. entry.state = "Stopping" /\ UNCHANGED <<entry, start, orphan, main, cleanup, leaked>>
  BY SMTT(30) DEF AdoptStopLeg
<1>2. stop # NoStop /\ DOMAIN stop = {"tree", "restart"} /\ stop.tree \in Nat
  BY <1>1, Zenon DEF IInv, WayOut, StoppingInv, VarShape
<1>3. PICK b : b = FALSE
  BY Zenon
<1>4. stop' = [stop EXCEPT !.restart = b]
  BY <1>3, Zenon DEF AdoptStopLeg
<1>5. DOMAIN stop' = {"tree", "restart"} /\ stop'.tree = stop.tree /\ stop' # NoStop
  BY <1>2, <1>4, Zenon DEF NoStop
<1>6. VarShape'
  BY <1>1, <1>2, <1>5, ZenonT(30) DEF IInv, VarShape, StartShape
<1>7. WayOut'
  BY <1>1, <1>5, SMTT(30) DEF IInv, WayOut, GraphStartInv, RestartStartInv, OrphanInv, LaunchedInv,
     StartingInv, BackoffInv, StoppingInv, StartIs
<1>8. NoWithdrawal => Trees'
  BY <1>1, <1>2, <1>5, Zenon DEF IInv, Trees
<1> QED
  BY <1>1, <1>6, <1>7, <1>8, Zenon DEF Good, IInv, KeepsDefinition, NotCutShort

\* A stop of a Completed service or of one in Backoff keeps the invariant.
LEMMA StopClearsGood ==
    ASSUME IInv, StopClears
    PROVE  Good
<1>1. /\ Sound(entry) /\ entry.state \in {"Completed", "Backoff"}
      /\ entry' = TransitionService(entry, "Inactive", "ExplicitStop")
      /\ start' = NoStart /\ orphan' = Orphaned(start)
      /\ UNCHANGED <<main, stop, cleanup, leaked>>
  BY Presence, Zenon DEF StopClears, IInv, EntryInv
<1>2. "ExplicitStop" \in AllowedCauses(entry.state, "Inactive")
  BY <1>1, StopAllowed, SMTT(30)
<1>3. Moves(entry, entry', {"Inactive"}) /\ entry' # Refused
  BY <1>1, <1>2, TransitionMoves, Allowed, Zenon DEF States
<1>4. EntryGoes({"Inactive"})
  BY <1>1, <1>3, Goes, Zenon
<1>5. /\ \/ orphan' = NoStart
         \/ StartShape(orphan') /\ orphan'.phase = "checking" /\ ~orphan'.live
      /\ NoWithdrawal /\ orphan' # NoStart => orphan'.snap.cgroup <= entry.cgroup
  BY <1>1, OrphanedShape, SMTT(30)
<1>6. VarShape'
  BY <1>1, <1>5, ZenonT(30) DEF IInv, VarShape, StartShape
<1>7. WayOut'
  BY <1>1, <1>4, SMTT(30) DEF EntryGoes, WayOut, GraphStartInv, RestartStartInv, OrphanInv,
     LaunchedInv, StartingInv, BackoffInv, StoppingInv, StartIs
<1>8. NoWithdrawal => Trees'
  BY <1>1, <1>4, <1>5, Zenon DEF EntryGoes, IInv, Trees
<1> QED
  BY <1>1, <1>4, <1>6, <1>7, <1>8, SMTT(30) DEF Good, IInv, EntryGoes, NotCutShort

\* A reset keeps the invariant.
LEMMA ResetGood ==
    ASSUME IInv, Reset
    PROVE  Good
<1>1. /\ Sound(entry) /\ entry.state \in {"Failed", "Abandoned", "Skipped"}
      /\ entry' = TransitionService(entry, "Inactive", "ExplicitReset")
  BY Presence, Zenon DEF Reset, IInv, EntryInv
<1>2. "ExplicitReset" \in AllowedCauses(entry.state, "Inactive")
  BY <1>1, StopAllowed, Zenon
<1>3. Moves(entry, entry', {"Inactive"}) /\ entry' # Refused
  BY <1>1, <1>2, TransitionMoves, Allowed, Zenon DEF States
<1>4. EntryGoes({"Inactive"})
  BY <1>1, <1>3, Goes, SMTT(30)
<1> QED
  BY <1>1, <1>4, IdleGood, Zenon DEF Reset

\* What is at most the entry's tree is at most a later one.
LEMMA TreesStay ==
    ASSUME VarShape, Trees, entry.cgroup \in Nat, NEW c \in Nat, c >= entry.cgroup
    PROVE  /\ start # NoStart => start.snap.cgroup <= c
           /\ orphan # NoStart => orphan.snap.cgroup <= c
           /\ main # NoJob => main.cgroup <= c
           /\ stop # NoStop => stop.tree <= c
           /\ \A t \in cleanup : t <= c
<1>1. /\ start # NoStart => start.snap.cgroup \in Nat /\ start.snap.cgroup <= entry.cgroup
      /\ orphan # NoStart => orphan.snap.cgroup \in Nat /\ orphan.snap.cgroup <= entry.cgroup
      /\ main # NoJob => main.cgroup \in Nat /\ main.cgroup <= entry.cgroup
      /\ stop # NoStop => stop.tree \in Nat /\ stop.tree <= entry.cgroup
      /\ \A t \in cleanup : t \in Nat /\ t <= entry.cgroup
  BY Zenon DEF VarShape, StartShape, Trees
<1> QED
  BY <1>1, TreesGrow, Zenon

\* A service without an entry is Absent.
LEMMA NoEntryIsAbsent == NoEntry.state = "Absent" /\ NoEntry.state # "Inactive"
  BY DEF NoEntry

\* The start record of the start leg of a restart.
LEMMA RestartFields ==
    ASSUME NEW e, Sound(e), NEW st, st = NewStart("restart", "checking", "ExplicitStart", e)
    PROVE  /\ StartShape(st) /\ st # NoStart /\ st.route = "restart" /\ st.phase = "checking"
           /\ st.snap.cgroup = e.cgroup
<1>1. PICK route \in {"graph", "relaunch", "restart"} : route = "restart"
  BY Zenon
<1>2. PICK cause : cause = "ExplicitStart"
  BY Zenon
<1>3. st = NewStart(route, "checking", cause, e)
  BY <1>1, <1>2, Zenon
<1>4. route = "relaunch" => cause = "RestartPolicy"
  BY <1>1
<1>5. /\ StartShape(st) /\ st # NoStart /\ st.route = route /\ st.phase = "checking"
      /\ st.snap.cgroup = e.cgroup
  BY <1>1, <1>3, <1>4, NewStartFields
<1> QED
  BY <1>1, <1>5, Zenon

\* The end of a stop, of the entry itself or of the entry with the stop's
\* tree recorded as leaked, keeps the invariant; with a restart it is the
\* start leg, or a contained error.
LEMMA EndStopGood ==
    ASSUME IInv, Sound(entry), entry.state = "Stopping",
           NEW before, Sound(before), before.state = "Stopping",
           before.generation = entry.generation, before.removed = entry.removed,
           NoWithdrawal => /\ before.cgroup >= entry.cgroup
                           /\ entry.leaks \subseteq before.leaks
                           /\ \A t \in before.leaks : t \in Nat /\ t < before.cgroup,
           NEW m, JobOK(m), NEW outcome \in AllOutcomes, NEW hook \in BOOLEAN,
           NEW trees, Built(trees), EndStop(before, m, outcome, hook, trees)
    PROVE  Good
<1>1. PICK e : e = Stopped(before)
  BY SMTT(30)
<1>2. /\ e # Refused
      /\ Moves(before, e, {"Failed", "Inactive"})
      /\ e # NoEntry => ~before.removed /\ e.generation = before.generation
  BY <1>1, StoppedMoves, ZenonT(30)
<1>3. /\ EntryInv(e) /\ e.state \in {"Failed", "Inactive", "Absent"}
      /\ e # NoEntry => /\ Sound(e) /\ ~e.removed /\ e.state \in {"Failed", "Inactive"}
                        /\ e.cgroup = before.cgroup /\ e.leaks = before.leaks
  BY <1>2, Presence, SMTT(30) DEF Moves, EntryInv, NoEntry
<1>4. NoWithdrawal => e # NoEntry
  BY <1>2, Presence, ZenonT(30) DEF IInv, Trees, Moves, Sound
<1>5. /\ entry.cgroup \in Nat /\ before.cgroup \in Nat
      /\ before.generation \in Nat
  BY ZenonT(30) DEF Sound, Shape
<1>6. CASE ~(stop.restart /\ IsPresent(e))
  <2>1. /\ entry' = e /\ main' = m /\ leaked' = leaked \cup before.leaks /\ stop' = NoStop
        /\ UNCHANGED <<start, orphan, cleanup>>
    BY <1>1, <1>6, ZenonT(30) DEF EndStop
  <2>2. VarShape'
    BY <2>1, ZenonT(30) DEF IInv, VarShape, StartShape, JobOK
  <2>3. WayOut'
    BY <1>3, <2>1, ZenonT(30) DEF IInv, WayOut, GraphStartInv, RestartStartInv, OrphanInv, LaunchedInv,
       StartingInv, BackoffInv, StoppingInv, StartIs, RetainsDefinition
  <2>4. NoWithdrawal => Trees'
    <3> SUFFICES ASSUME NoWithdrawal PROVE Trees'
      BY Zenon
    <3>1. /\ entry' # NoEntry /\ ~entry'.removed
          /\ entry'.cgroup = before.cgroup /\ entry'.leaks = before.leaks
      BY <1>3, <1>4, <2>1, Zenon
    <3>2. VarShape /\ Trees
      BY Zenon DEF IInv
    <3>3. /\ start # NoStart => start.snap.cgroup <= before.cgroup
          /\ orphan # NoStart => orphan.snap.cgroup <= before.cgroup
          /\ \A t \in cleanup : t <= before.cgroup
      BY <1>5, <3>2, TreesStay, Zenon
    <3>4. main' # NoJob => main'.cgroup <= before.cgroup
      BY <1>5, <2>1, TreesGrow, Zenon DEF JobOK
    <3>5. leaked' \subseteq before.leaks
      BY <2>1, <3>2, Zenon DEF Trees
    <3> QED
      BY <2>1, <3>1, <3>3, <3>4, <3>5, Zenon DEF Trees
  <2>5. KeepsDefinition
    BY <1>3, <2>1, Zenon DEF KeepsDefinition, RetainsDefinition
  <2>6. NotCutShort
    <3>1. stop.restart => e = NoEntry
      BY <1>3, <1>6, Presence, ZenonT(30) DEF Sound
    <3> QED
      BY <2>1, <3>1, NoEntryIsAbsent, ZenonT(30) DEF NotCutShort
  <2> QED
    BY <1>3, <2>1, <2>2, <2>3, <2>4, <2>5, <2>6, ZenonT(30) DEF Good, IInv
<1>7. CASE stop.restart /\ IsPresent(e)
  <2>1. e # NoEntry
    BY <1>7, Presence, ZenonT(30)
  <2>2. CASE RestartLegRefused(m, outcome, hook)
    <3>1. ContainLeaving(cleanup \cup trees)
      BY <1>1, <1>7, <2>2, ZenonT(30) DEF EndStop
    <3>2. cleanup \cup trees \subseteq Nat
      BY ZenonT(30) DEF IInv, VarShape, Built
    <3>3. NoWithdrawal => \A t \in cleanup \cup trees : t <= entry.cgroup
      BY ZenonT(30) DEF IInv, Trees, Built
    <3> QED
      BY <3>1, <3>2, <3>3, ContainLeavingGood, ZenonT(30)
  <2>3. CASE ~RestartLegRefused(m, outcome, hook)
    <3>1. /\ leaked' = leaked \cup before.leaks /\ RestartLeg(e, m, outcome, hook)
          /\ UNCHANGED <<orphan, cleanup>>
      BY <1>1, <1>7, <2>3, ZenonT(30) DEF EndStop
    <3>2. PICK starting : starting = TransitionService(e, "Starting", "ExplicitStart")
      BY ZenonT(30)
    <3>3. /\ Sound(starting) /\ starting.state = "Starting"
          /\ starting.cgroup = e.cgroup /\ starting.leaks = e.leaks /\ ~starting.removed
          /\ starting.generation = e.generation + 1
      BY <1>3, <2>1, <3>2, RestartStarts, ZenonT(30)
    <3>4. PICK st : st = NewStart("restart", "checking", "ExplicitStart", e)
      BY ZenonT(30)
    <3>5. /\ StartShape(st) /\ st # NoStart /\ st.route = "restart" /\ st.phase = "checking"
          /\ st.snap.cgroup = e.cgroup
      BY <1>3, <2>1, <3>4, RestartFields, ZenonT(30)
    <3>6. stop' = NoStop
      BY <3>1, Zenon DEF RestartLeg
    <3>7. CASE /\ entry' = starting
               /\ StartShape(start') /\ start' # NoStart /\ start'.snap = st.snap
               /\ start'.route = "restart"
               /\ start'.phase \in {"checking", "hooks", "launched"}
               /\ start'.phase = "launched" => main' # NoJob
               /\ \/ main' = NoJob
                  \/ DOMAIN main' = {"phase", "generation", "cgroup"} /\ main'.cgroup \in Nat
               /\ NoWithdrawal /\ main' # NoJob => main'.cgroup <= e.cgroup
      <4>2. VarShape'
        BY <3>1, <3>6, <3>7, ZenonT(30) DEF IInv, VarShape, StartShape
      <4>3. WayOut'
        BY <3>3, <3>6, <3>7, ZenonT(30) DEF WayOut, GraphStartInv, RestartStartInv, OrphanInv,
           LaunchedInv, StartingInv, BackoffInv, StoppingInv, StartIs
      <4>4. NoWithdrawal => Trees'
        <5> SUFFICES ASSUME NoWithdrawal PROVE Trees'
          BY ZenonT(30)
        <5>1. entry'.cgroup = before.cgroup /\ entry'.leaks = before.leaks
          BY <1>3, <2>1, <3>3, <3>7, ZenonT(30)
        <5>2. leaked' \subseteq entry'.leaks
          BY <3>1, <5>1, ZenonT(30) DEF IInv, Trees
        <5>3. /\ start'.snap.cgroup <= entry'.cgroup
              /\ main' # NoJob => main'.cgroup <= entry'.cgroup
          <6>1. e.cgroup = before.cgroup
            BY <1>3, <2>1, Zenon
          <6>2. start'.snap.cgroup = before.cgroup
            BY <3>5, <3>7, <6>1, Zenon
          <6> QED
            BY <1>5, <3>7, <5>1, <6>1, <6>2, TreesGrow, ZenonT(30)
        <5>4. /\ orphan' # NoStart => orphan'.snap.cgroup <= entry'.cgroup
              /\ \A t \in cleanup' : t <= entry'.cgroup
          <6>1. VarShape /\ Trees
            BY Zenon DEF IInv
          <6>2. /\ orphan # NoStart => orphan.snap.cgroup <= before.cgroup
                /\ \A t \in cleanup : t <= before.cgroup
            BY <1>5, <6>1, TreesStay, Zenon
          <6> QED
            BY <3>1, <5>1, <6>2, Zenon
        <5>5. entry' # NoEntry /\ ~entry'.removed
          BY <3>3, <3>7, Presence, Zenon DEF Sound
        <5> QED
          BY <3>6, <5>1, <5>2, <5>3, <5>4, <5>5, ZenonT(30) DEF Trees
      <4>5. KeepsDefinition
        <5>1. entry'.generation = entry.generation + 1
          BY <1>2, <2>1, <3>3, <3>7, Zenon
        <5>2. entry.generation \in Nat
          BY <1>5, Zenon
        <5>3. entry'.generation # entry.generation
          BY <5>1, <5>2
        <5> QED
          BY <5>3, Zenon DEF KeepsDefinition
      <4> QED
        BY <3>3, <3>7, <4>2, <4>3, <4>4, <4>5, ZenonT(30) DEF Good, IInv, EntryInv, NotCutShort
    <3>8. CASE /\ outcome \in {"condition", "assert"}
               /\ entry' = Unmet(starting, "restart", outcome)
               /\ start' = NoStart /\ main' = m
      <4>1. /\ entry' # Refused /\ entry' # NoEntry
            /\ Moves(starting, entry', {"Skipped", "Backoff", "Failed"})
        BY <3>3, <3>8, RestartUnmet, ZenonT(30)
      <4>2. /\ Sound(entry') /\ entry'.state \in {"Skipped", "Backoff", "Failed"}
            /\ entry'.state = "Backoff" => entry'.clock
            /\ entry'.cgroup = before.cgroup /\ entry'.leaks = before.leaks /\ ~entry'.removed
        BY <1>3, <2>1, <3>3, <4>1, ZenonT(30) DEF Moves
      <4>3. VarShape'
        BY <3>1, <3>6, <3>8, ZenonT(30) DEF IInv, VarShape, StartShape, JobOK
      <4>4. WayOut'
        BY <3>6, <3>8, <4>2, ZenonT(30) DEF WayOut, GraphStartInv, RestartStartInv, OrphanInv,
           LaunchedInv, StartingInv, BackoffInv, StoppingInv, StartIs
      <4>5. NoWithdrawal => Trees'
        <5> SUFFICES ASSUME NoWithdrawal PROVE Trees'
          BY Zenon
        <5>1. leaked' \subseteq entry'.leaks
          BY <3>1, <4>2, ZenonT(30) DEF IInv, Trees
        <5>2. main' # NoJob => main'.cgroup <= entry'.cgroup
          BY <1>5, <3>8, <4>2, TreesGrow, ZenonT(30) DEF JobOK
        <5>3. /\ orphan' # NoStart => orphan'.snap.cgroup <= entry'.cgroup
              /\ \A t \in cleanup' : t <= entry'.cgroup
          <6>1. orphan' = orphan /\ cleanup' = cleanup /\ entry'.cgroup = before.cgroup
            BY <3>1, <4>2, Zenon
          <6>2. /\ orphan # NoStart => orphan.snap.cgroup \in Nat
                                       /\ orphan.snap.cgroup <= entry.cgroup
                /\ \A t \in cleanup : t \in Nat /\ t <= entry.cgroup
            BY Zenon DEF IInv, Trees, VarShape, StartShape
          <6> QED
            BY <1>5, <6>1, <6>2, TreesGrow, Zenon
        <5> QED
          BY <3>6, <3>8, <4>1, <4>2, <5>1, <5>2, <5>3, ZenonT(30) DEF Trees
      <4>6. KeepsDefinition
        BY <4>2, ZenonT(30) DEF KeepsDefinition, RetainsDefinition
      <4> QED
        BY <4>2, <4>3, <4>4, <4>5, <4>6, Zenon DEF Good, IInv, EntryInv, NotCutShort
    <3>9. \/ outcome = "helper" /\ entry' = starting /\ start' = st /\ main' = m
          \/ /\ outcome = "pass" /\ entry' = starting /\ start' = Launching(st, hook)
             /\ main' = CreatedMain(m, st, hook)
          \/ /\ outcome \notin {"helper", "pass"}
             /\ entry' = Unmet(starting, "restart", outcome)
             /\ start' = NoStart /\ main' = m
      BY <3>1, <3>2, <3>4, ZenonT(30) DEF RestartLeg
    <3>10. outcome # "tty" /\ (outcome = "pass" => m = NoJob \/ hook)
      BY <2>3, ZenonT(30) DEF RestartLegRefused, CanCreate
    <3>11. CASE outcome = "helper" /\ entry' = starting /\ start' = st /\ main' = m
      <4>1. /\ StartShape(start') /\ start' # NoStart /\ start'.snap = st.snap
            /\ start'.route = "restart" /\ start'.phase = "checking"
        BY <3>5, <3>11, ZenonT(30)
      <4>2. /\ \/ main' = NoJob
               \/ DOMAIN main' = {"phase", "generation", "cgroup"} /\ main'.cgroup \in Nat
            /\ NoWithdrawal /\ main' # NoJob => main'.cgroup <= e.cgroup
        BY <1>3, <1>5, <2>1, <3>11, SMTT(30) DEF JobOK
      <4> QED
        BY <3>7, <3>11, <4>1, <4>2, ZenonT(30)
    <3>12. CASE /\ outcome = "pass" /\ entry' = starting /\ start' = Launching(st, hook)
                /\ main' = CreatedMain(m, st, hook)
      <4>1. m = NoJob \/ hook
        BY <3>10, <3>12, Zenon
      <4>2. /\ StartShape(start') /\ start' # NoStart
            /\ start'.phase = IF hook THEN "hooks" ELSE "launched"
            /\ start'.snap = st.snap /\ start'.route = st.route
            /\ hook => main' = m
            /\ ~hook => /\ DOMAIN main' = {"phase", "generation", "cgroup"}
                        /\ main'.cgroup = st.snap.cgroup /\ main' # NoJob
        BY <3>5, <3>12, <4>1, LaunchingFields, SMTT(30)
      <4>3. /\ start'.phase \in {"hooks", "launched"}
            /\ start'.phase = "launched" => main' # NoJob
        BY <4>2, Zenon
      <4>4. /\ \/ main' = NoJob
               \/ DOMAIN main' = {"phase", "generation", "cgroup"} /\ main'.cgroup \in Nat
            /\ NoWithdrawal /\ main' # NoJob => main'.cgroup <= e.cgroup
        BY <1>3, <1>5, <2>1, <3>5, <4>2, SMTT(30) DEF JobOK
      <4> QED
        BY <3>5, <3>7, <3>12, <4>2, <4>3, <4>4, Zenon
    <3>13. outcome \in {"pass", "condition", "assert", "tty", "helper"}
      BY Zenon DEF AllOutcomes
    <3> QED
      BY <3>8, <3>9, <3>10, <3>11, <3>12, <3>13, ZenonT(30)
  <2> QED
    BY <2>2, <2>3, ZenonT(30)
<1> QED
  BY <1>6, <1>7, Zenon

\* An exit that finds the service Stopping keeps the invariant.
LEMMA ExitWhileStoppingGood ==
    ASSUME IInv, NEW outcome \in AllOutcomes, NEW hook \in Hooks, ExitWhileStopping(outcome, hook)
    PROVE  Good
<1>1. Sound(entry) /\ entry.state = "Stopping" /\ EndStop(entry, NoJob, outcome, hook, {})
  BY Presence, ZenonT(30) DEF ExitWhileStopping, Exiting, IInv, EntryInv
<1>2. NoWithdrawal => /\ entry.cgroup >= entry.cgroup
                      /\ entry.leaks \subseteq entry.leaks
                      /\ \A t \in entry.leaks : t \in Nat /\ t < entry.cgroup
  BY <1>1, SMTT(30) DEF IInv, Trees, Sound, Shape
<1> QED
  BY <1>1, <1>2, MainOK, MainTreeBuilt, LifecycleAssumption, EndStopGood, ZenonT(30)

\* A tree the service was built with, recorded as leaked: the tree of the next
\* start is above every recorded one.
LEMMA TreeLeaks ==
    ASSUME IInv, Sound(entry),
           NEW tree \in Nat, NoWithdrawal => tree <= entry.cgroup,
           NEW x, x = RecordLeakedCgroup(entry, tree)
    PROVE  /\ Sound(x) /\ x.state = entry.state /\ x.generation = entry.generation
           /\ x.def = entry.def /\ x.clock = entry.clock
           /\ x.removed = entry.removed /\ x.leaks = entry.leaks \cup {tree}
           /\ NoWithdrawal => /\ x.cgroup >= entry.cgroup
                              /\ \A t \in x.leaks : t \in Nat /\ t < x.cgroup
<1>1. PICK e : e = entry
  BY Zenon
<1>2. Sound(e) /\ x = RecordLeakedCgroup(e, tree)
  BY <1>1, Zenon
<1>3. /\ Sound(x)
      /\ x.state = e.state /\ x.generation = e.generation
      /\ x.def = e.def /\ x.removed = e.removed /\ x.clock = e.clock
      /\ x.leaks = e.leaks \cup {tree}
  BY <1>2, LeakFields
<1>4. /\ tree \notin e.leaks /\ tree = e.cgroup => x.cgroup = e.cgroup + 1
      /\ tree \in e.leaks \/ tree # e.cgroup => x.cgroup = e.cgroup
  BY <1>2, LeakFields
<1>5. NoWithdrawal => /\ x.cgroup >= entry.cgroup
                      /\ \A t \in x.leaks : t \in Nat /\ t < x.cgroup
  <2> SUFFICES ASSUME NoWithdrawal
               PROVE  /\ x.cgroup >= entry.cgroup
                      /\ \A t \in x.leaks : t \in Nat /\ t < x.cgroup
    BY Zenon
  <2>1. /\ entry.cgroup \in Nat /\ tree <= entry.cgroup
        /\ \A t \in entry.leaks : t \in Nat /\ t < entry.cgroup
    BY ZenonT(30) DEF IInv, Trees, Sound, Shape
  <2> QED
    BY <1>1, <1>3, <1>4, <2>1
<1> QED
  BY <1>1, <1>3, <1>5, Zenon

\* The post-kill deadline keeps the invariant, whatever it finds in the tree.
LEMMA PostKillDueGood ==
    ASSUME IInv, NEW found, NEW outcome \in AllOutcomes, NEW hook \in Hooks,
           PostKillDue(found, outcome, hook)
    PROVE  Good
<1>1. Sound(entry) /\ entry.state = "Stopping" /\ hook \in BOOLEAN
  BY Presence, LifecycleAssumption, Zenon DEF PostKillDue, IInv, EntryInv
<1>2. PICK tree, x : tree = stop.tree /\ x = RecordLeakedCgroup(entry, tree)
  BY SMTT(30)
<1>3. tree \in Nat /\ (NoWithdrawal => tree <= entry.cgroup)
  BY <1>1, <1>2, ZenonT(30) DEF IInv, WayOut, StoppingInv, VarShape, Trees
<1>4. /\ tree \in Nat
      /\ Sound(x) /\ x.state = "Stopping" /\ x.generation = entry.generation
      /\ x.removed = entry.removed /\ x.leaks = entry.leaks \cup {tree}
      /\ NoWithdrawal => /\ x.cgroup >= entry.cgroup
                         /\ \A t \in x.leaks : t \in Nat /\ t < x.cgroup
  BY <1>1, <1>2, <1>3, TreeLeaks, ZenonT(30)
<1>5. CASE /\ entry' = TransitionService(x, "Abandoned", "ProcessUnkillable")
           /\ leaked' = leaked \cup {tree}
           /\ stop' = NoStop
           /\ UNCHANGED <<start, orphan, main, cleanup>>
  <2>1. Moves(x, entry', {"Abandoned"}) /\ entry' # Refused
    BY <1>4, <1>5, StopAllowed, TransitionMoves, Allowed, ZenonT(30) DEF States
  <2>2. /\ EntryInv(entry') /\ entry'.state \in {"Abandoned", "Absent"}
        /\ entry' = NoEntry => entry.removed
        /\ entry' # NoEntry => /\ Sound(entry') /\ entry'.cgroup = x.cgroup
                               /\ entry'.leaks = x.leaks /\ entry'.removed = entry.removed
    BY <1>4, <2>1, Presence, SMTT(30) DEF Moves, EntryInv, NoEntry, Sound
  <2>3. VarShape'
    BY <1>5, ZenonT(30) DEF IInv, VarShape, StartShape
  <2>4. WayOut'
    BY <1>1, <1>5, <2>2, ZenonT(30) DEF IInv, WayOut, GraphStartInv, RestartStartInv, OrphanInv,
       LaunchedInv, StartingInv, BackoffInv, StoppingInv, StartIs, RetainsDefinition
  <2>5. NoWithdrawal => Trees'
    <3> SUFFICES ASSUME NoWithdrawal PROVE Trees'
      BY Zenon
    <3>1. /\ entry' # NoEntry /\ ~entry'.removed
          /\ entry'.cgroup = x.cgroup /\ entry'.leaks = x.leaks
      BY <2>2, Zenon DEF IInv, Trees
    <3>2. /\ entry.cgroup \in Nat /\ x.cgroup \in Nat /\ x.cgroup >= entry.cgroup
      BY <1>1, <1>4, ZenonT(30) DEF Sound, Shape
    <3> QED
      <4>1. VarShape /\ Trees
        BY Zenon DEF IInv
      <4>2. /\ start # NoStart => start.snap.cgroup <= x.cgroup
            /\ orphan # NoStart => orphan.snap.cgroup <= x.cgroup
            /\ main # NoJob => main.cgroup <= x.cgroup
            /\ \A t \in cleanup : t <= x.cgroup
        BY <3>2, <4>1, TreesStay, Zenon
      <4>3. leaked' \subseteq x.leaks
        BY <1>4, <1>5, <4>1, Zenon DEF Trees
      <4> QED
        BY <1>4, <1>5, <3>1, <4>2, <4>3, Zenon DEF Trees
  <2>6. KeepsDefinition /\ NotCutShort
    BY <2>2, SMTT(30) DEF KeepsDefinition, NotCutShort, RetainsDefinition
  <2> QED
    BY <2>2, <2>3, <2>4, <2>5, <2>6, SMTT(30) DEF Good, IInv
<1>6. CASE EndStop(x, main, outcome, hook, MainTree)
  BY <1>1, <1>4, <1>6, MainOK, MainTreeBuilt, EndStopGood, ZenonT(30)
<1>7. CASE EndStop(entry, main, outcome, hook, MainTree)
  <2>1. NoWithdrawal => /\ entry.cgroup >= entry.cgroup
                        /\ entry.leaks \subseteq entry.leaks
                        /\ \A t \in entry.leaks : t \in Nat /\ t < entry.cgroup
    BY <1>1, SMTT(30) DEF IInv, Trees, Sound, Shape
  <2> QED
    BY <1>1, <1>7, <2>1, MainOK, MainTreeBuilt, EndStopGood, ZenonT(30)
<1> QED
  BY <1>2, <1>5, <1>6, <1>7, SMTT(30) DEF PostKillDue

\* The cleanup of a tree keeps the invariant.
LEMMA CleanupDueGood ==
    ASSUME IInv, NEW tree \in cleanup, NEW populated \in BOOLEAN, CleanupDue(tree, populated)
    PROVE  Good
<1>1. tree \in Nat /\ (NoWithdrawal => tree <= entry.cgroup)
  BY ZenonT(30) DEF IInv, VarShape, Trees
<1>2. CASE /\ cleanup' = cleanup \ {tree}
           /\ UNCHANGED <<entry, start, orphan, main, stop, leaked>>
  <2>1. VarShape'
    BY <1>2, Zenon DEF IInv, VarShape, StartShape
  <2>2. WayOut'
    BY <1>2, Zenon DEF IInv, WayOut, GraphStartInv, RestartStartInv, OrphanInv, LaunchedInv,
       StartingInv, BackoffInv, StoppingInv, StartIs
  <2>3. NoWithdrawal => Trees'
    BY <1>2, Zenon DEF IInv, Trees
  <2> QED
    BY <1>2, <2>1, <2>2, <2>3, Zenon DEF Good, IInv, KeepsDefinition, NotCutShort
<1>3. CASE /\ IsPresent(entry)
           /\ entry' = RecordLeakedCgroup(entry, tree)
           /\ cleanup' = cleanup \ {tree}
           /\ leaked' = leaked \cup {tree}
           /\ UNCHANGED <<start, orphan, main, stop>>
  <2>1. Sound(entry)
    BY <1>3, Presence, Zenon DEF IInv, EntryInv
  <2>2. PICK x : x = RecordLeakedCgroup(entry, tree) /\ entry' = x
    BY <1>3, Zenon
  <2>3. /\ Sound(x) /\ x.state = entry.state /\ x.generation = entry.generation
        /\ x.def = entry.def /\ x.clock = entry.clock
        /\ x.removed = entry.removed /\ x.leaks = entry.leaks \cup {tree}
        /\ NoWithdrawal => /\ x.cgroup >= entry.cgroup
                           /\ \A t \in x.leaks : t \in Nat /\ t < x.cgroup
    BY <1>1, <2>1, <2>2, TreeLeaks, SMTT(30)
  <2>4. VarShape'
    BY <1>3, ZenonT(30) DEF IInv, VarShape, StartShape
  <2>5. WayOut'
    BY <1>3, <2>2, <2>3, ZenonT(30) DEF IInv, WayOut, GraphStartInv, RestartStartInv, OrphanInv,
       LaunchedInv, StartingInv, BackoffInv, StoppingInv, StartIs
  <2>6. NoWithdrawal => Trees'
    <3> SUFFICES ASSUME NoWithdrawal PROVE Trees'
      BY Zenon
    <3>1. entry.cgroup \in Nat /\ x.cgroup \in Nat
      BY <2>1, <2>3, Zenon DEF Sound, Shape
    <3>2. x # NoEntry
      BY <2>3, Presence, ZenonT(30) DEF Sound
    <3> QED
      <4>1. VarShape /\ Trees
        BY Zenon DEF IInv
      <4>2. /\ start # NoStart => start.snap.cgroup <= x.cgroup
            /\ orphan # NoStart => orphan.snap.cgroup <= x.cgroup
            /\ main # NoJob => main.cgroup <= x.cgroup
            /\ stop # NoStop => stop.tree <= x.cgroup
            /\ \A t \in cleanup : t <= x.cgroup
        BY <2>3, <3>1, <4>1, TreesStay, Zenon
      <4>3. leaked' \subseteq x.leaks
        BY <1>3, <2>3, <4>1, Zenon DEF Trees
      <4>4. ~x.removed /\ cleanup' \subseteq cleanup
        BY <1>3, <2>3, <4>1, Zenon DEF Trees
      <4> QED
        BY <1>3, <2>2, <2>3, <3>2, <4>2, <4>3, <4>4, Zenon DEF Trees
  <2> QED
    BY <2>2, <2>3, <2>4, <2>5, <2>6, Zenon
       DEF Good, IInv, EntryInv, KeepsDefinition, NotCutShort
<1>4. CASE ContainLeaving((cleanup \cup MainTree) \ {tree})
  BY <1>4, MainTreeBuilt, ContainLeavingGood, ZenonT(30) DEF IInv, VarShape, Trees, Built
<1> QED
  BY <1>2, <1>3, <1>4, Zenon DEF CleanupDue

\* A snapshot of the registry keeps the invariant.
LEMMA ReloadConfigGood ==
    ASSUME IInv, NEW incoming \in Registered, NEW frozen \in BOOLEAN,
           ReloadConfig(incoming, frozen)
    PROVE  Good
<1>1. PICK x : x = ApplySnapshot(entry, incoming, frozen) /\ entry' = x
  BY SMTT(30) DEF ReloadConfig
<1>2. UNCHANGED <<start, orphan, main, stop, cleanup, leaked>>
  BY SMTT(30) DEF ReloadConfig
<1>3. EntryInv(entry) /\ (frozen /\ entry # NoEntry => entry.generation = 0)
  BY Presence, SMTT(30) DEF ReloadConfig, IInv, EntryInv, Sound
<1>4. /\ \/ Sound(entry) /\ Redefines(entry, x)
         \/ entry.state \notin RetainsDefinition /\ x = NoEntry
         \/ entry.state \notin RetainsDefinition /\ Sound(x) /\ x.state \in {"Failed", "Inactive"}
      /\ Sound(entry) /\ ~entry.removed /\ incoming \notin {NoDefinition, Undecodable} =>
            Redefines(entry, x) /\ ~x.removed
  BY <1>1, <1>3, SnapshotApplied, ZenonT(30)
<1>5. VarShape'
  BY <1>2, ZenonT(30) DEF IInv, VarShape, StartShape
<1>6. EntryInv(x)
  BY <1>4, Zenon DEF EntryInv, Redefines
<1>7. \/ x.state = entry.state /\ x.clock = entry.clock
      \/ /\ entry.state \notin RetainsDefinition
         /\ x.state \in {"Failed", "Inactive", "Absent"}
  BY <1>4, SMTT(30) DEF Redefines, NoEntry
<1>8. WayOut'
  BY <1>1, <1>2, <1>7, ZenonT(30) DEF IInv, WayOut, GraphStartInv, RestartStartInv, OrphanInv, LaunchedInv,
     StartingInv, BackoffInv, StoppingInv, StartIs, RetainsDefinition
<1>9. NoWithdrawal => Trees'
  <2> SUFFICES ASSUME NoWithdrawal PROVE Trees'
    BY SMTT(30)
  <2>1. Sound(entry) /\ ~entry.removed /\ incoming \notin {NoDefinition, Undecodable}
    BY <1>3, ZenonT(30) DEF IInv, Trees, EntryInv, NoWithdrawal
  <2>2. /\ Sound(x) /\ ~x.removed /\ x.cgroup = entry.cgroup /\ x.leaks = entry.leaks
    BY <1>4, <2>1, SMTT(30) DEF Redefines
  <2>3. x # NoEntry
    BY <2>2, Presence, ZenonT(30) DEF Sound
  <2> QED
    BY <1>1, <1>2, <2>2, <2>3, Zenon DEF IInv, Trees
<1>10. KeepsDefinition
  BY <1>1, <1>4, ZenonT(30) DEF KeepsDefinition, Redefines
<1>11. NotCutShort
  BY <1>1, <1>7, ZenonT(30) DEF NotCutShort, RetainsDefinition
<1> QED
  BY <1>1, <1>5, <1>6, <1>8, <1>9, <1>10, <1>11, Zenon DEF Good, IInv

\* The invariant holds when the service is first known.
LEMMA InitGood ==
    ASSUME Init
    PROVE  IInv
<1>1. entry.def \in DefinitionType /\ entry = NewEntry(entry.def)
  BY LifecycleAssumption, SMTT(30) DEF Init
<1>2. PICK d : d = entry.def /\ entry = NewEntry(d) /\ DOMAIN d = DefFields
  BY <1>1, DefinitionFields, SMTT(30)
<1>3. Sound(entry) /\ entry.state = "Inactive" /\ ~entry.removed /\ entry.leaks = {}
  BY <1>2, NewEntryIsSound DEF NewEntry
<1>4. /\ start = NoStart /\ orphan = NoStart /\ main = NoJob /\ stop = NoStop
      /\ cleanup = {} /\ leaked = {}
  BY Zenon DEF Init
<1>5. VarShape
  BY <1>4, SMTT(30) DEF VarShape
<1>6. WayOut
  BY <1>3, <1>4, ZenonT(30) DEF WayOut, GraphStartInv, RestartStartInv, OrphanInv, LaunchedInv,
     StartingInv, BackoffInv, StoppingInv, StartIs, NoStart
<1>7. Trees
  BY <1>3, <1>4, Presence, ZenonT(30) DEF Trees, Sound
<1> QED
  BY <1>3, <1>5, <1>6, <1>7, ZenonT(30) DEF IInv, EntryInv

\* Every step keeps the invariant and the two action properties.
LEMMA NextGood ==
    ASSUME IInv, Next
    PROVE  Good
<1>1. CASE \E source \in Sources, o \in AllOutcomes, waits \in BOOLEAN, h \in Hooks :
              BeginStart(source, o, waits, h)
  BY <1>1, BeginStartGood, Zenon
<1>2. CASE \E held \in BOOLEAN, h \in Hooks : Launch(held, h)
  BY <1>2, LaunchGood, Zenon
<1>3. CASE DependencyFails
  BY <1>3, DependencyFailsGood, Zenon
<1>4. CASE PendingExpires
  BY <1>4, PendingExpiresGood, Zenon
<1>5. CASE \E o \in AllOutcomes, h \in Hooks, late \in BOOLEAN : HelperAnswers(o, h, late)
  BY <1>5, HelperAnswersGood, Zenon
<1>6. CASE \E o \in AllOutcomes, h \in Hooks : OrphanAnswers(o, h)
  BY <1>6, OrphanAnswersGood, Zenon
<1>7. CASE \E o \in AllOutcomes, h \in Hooks : BackoffDue(o, h)
  BY <1>7, BackoffDueGood, Zenon
<1>8. CASE \E ok \in BOOLEAN : HookEnds(ok)
  BY <1>8, HookEndsGood, Zenon
<1>9. CASE JobCloned
  BY <1>9, JobClonedGood, Zenon
<1>10. CASE JobStarts
  BY <1>10, JobStartsGood, Zenon
<1>11. CASE \E atPump \in BOOLEAN : JobLaunchFails(atPump)
  BY <1>11, JobLaunchFailsGood, Zenon
<1>12. CASE Ready
  BY <1>12, ReadyGood, Zenon
<1>13. CASE ReadinessTimesOut
  BY <1>13, ReadinessTimesOutGood, Zenon
<1>14. CASE \E success \in BOOLEAN : ExitWhileStarting(success)
  BY <1>14, ExitWhileStartingGood, Zenon
<1>15. CASE \E success \in BOOLEAN : ExitWhileRunning(success)
  BY <1>15, ExitWhileRunningGood, Zenon
<1>16. CASE \E o \in AllOutcomes, h \in Hooks : ExitWhileStopping(o, h)
  BY <1>16, ExitWhileStoppingGood, Zenon
<1>17. CASE ExitLate
  BY <1>17, ExitLateGood, Zenon
<1>18. CASE ExitUnknown
  BY <1>18, ExitUnknownGood, Zenon
<1>19. CASE \E cause \in {"WatchdogTimeout", "HealthCheckFailure"} : Escalate(cause)
  BY <1>19, EscalateGood, Zenon
<1>20. CASE WindowResets
  BY <1>20, WindowResetsGood, Zenon
<1>21. CASE BeginReload
  BY <1>21, BeginReloadGood, Zenon
<1>22. CASE ReloadResolves
  BY <1>22, ReloadResolvesGood, Zenon
<1>23. CASE \E cause \in StopReasons, restart \in BOOLEAN : Stop(cause, restart)
  BY <1>23, StopGood, Zenon
<1>24. CASE AdoptStopLeg
  BY <1>24, AdoptStopLegGood, Zenon
<1>25. CASE StopClears
  BY <1>25, StopClearsGood, Zenon
<1>26. CASE \E found \in {"populated", "busy", "empty"}, o \in AllOutcomes, h \in Hooks :
               PostKillDue(found, o, h)
  BY <1>26, PostKillDueGood, SMTT(30)
<1>27. CASE Reset
  BY <1>27, ResetGood, Zenon
<1>28. CASE \E tree \in cleanup, populated \in BOOLEAN : CleanupDue(tree, populated)
  BY <1>28, CleanupDueGood, Zenon
<1>29. CASE \E incoming \in Registered, frozen \in BOOLEAN : ReloadConfig(incoming, frozen)
  BY <1>29, ReloadConfigGood, Zenon
<1> QED
  BY <1>1, <1>2, <1>3, <1>4, <1>5, <1>6, <1>7, <1>8, <1>9, <1>10, <1>11, <1>12, <1>13,
     <1>14, <1>15, <1>16, <1>17, <1>18, <1>19, <1>20, <1>21, <1>22, <1>23, <1>24, <1>25,
     <1>26, <1>27, <1>28, <1>29, SMTT(30) DEF Next

\* A step of something else keeps the invariant.
LEMMA StutterGood ==
    ASSUME IInv, UNCHANGED vars
    PROVE  IInv'
<1>1. UNCHANGED <<entry, start, orphan, main, stop, cleanup, leaked>>
  BY SMTT(30) DEF vars
<1>2. VarShape'
  BY <1>1, SMTT(30) DEF IInv, VarShape
<1>3. WayOut'
  BY <1>1, ZenonT(30) DEF IInv, WayOut, GraphStartInv, RestartStartInv, OrphanInv, LaunchedInv,
     StartingInv, BackoffInv, StoppingInv, StartIs
<1>4. NoWithdrawal => Trees'
  BY <1>1, Zenon DEF IInv, Trees
<1> QED
  BY <1>1, <1>2, <1>3, <1>4, SMTT(30) DEF IInv

(***************************************************************************)
(* The theorems.                                                           *)
(***************************************************************************)
\* The invariant holds throughout, for all definitions, budgets, registry
\* snapshots and orders of the handlers.
THEOREM LifecycleInvariant == Spec => []IInv
<1>1. Init => IInv
  BY InitGood, Zenon
<1>2. IInv /\ [Next]_vars => IInv'
  BY NextGood, StutterGood, Zenon DEF Good
<1> QED
  BY <1>1, <1>2, PTL DEF Spec

\* The restart policy (src/src/service/restart.rs) never counts more failures
\* than MaxRetries.  A budget of zero is excluded: a boot-plan member whose
\* terminal changes while it waits is allowed one restart.
THEOREM BudgetIsKept ==
    ASSUME MaxRetries # 0
    PROVE  Spec => []RestartsAreBudgeted
<1>1. IInv => RestartsAreBudgeted
  BY Presence, Zenon DEF IInv, EntryInv, Sound, Budget, RestartsAreBudgeted
<1> QED
  BY <1>1, LifecycleInvariant, PTL

\* A start never builds the cgroup tree that an earlier instance leaked
\* (record_leaked_cgroup), as long as the entry that remembers the leaks is
\* not discarded.
THEOREM TreesAreFresh ==
    ASSUME NoWithdrawal
    PROVE  Spec => []NextTreeIsFresh
<1>1. IInv => NextTreeIsFresh
  BY Presence, SMTT(30) DEF IInv, EntryInv, Sound, Shape, Trees, NextTreeIsFresh
<1> QED
  BY <1>1, LifecycleInvariant, PTL

\* A service withdrawn from the registry is in the table only while an
\* instance of it runs (drain_definition), or as the placeholder of a key
\* that does not decode.
THEOREM WithdrawnEndsWithItsInstance == Spec => []WithdrawnIsTransient
<1>1. IInv => WithdrawnIsTransient
  BY Presence, Zenon DEF IInv, EntryInv, Sound, Kept, WithdrawnIsTransient
<1> QED
  BY <1>1, LifecycleInvariant, PTL

\* In Starting and in Backoff the supervisor holds something that will move
\* the service on: a clock, a job, a hook or a helper.
THEOREM NoStateIsADeadEnd == Spec => []TransientStatesHaveAWayOut
<1>1. IInv => TransientStatesHaveAWayOut
  BY Presence, Zenon DEF IInv, EntryInv, Sound, WayOut, StartingInv, BackoffInv,
     TransientStatesHaveAWayOut, StartingHasAWayOut, BackoffHasAWayOut
<1> QED
  BY <1>1, LifecycleInvariant, PTL

\* StateOf reads the state of an entry, and of the missing one.
LEMMA StateIsItsField ==
    ASSUME NEW e, EntryInv(e)
    PROVE  StateOf(e) = e.state
  BY Presence DEF StateOf, EntryInv, Sound, NoEntry

\* The stop leg of a restart never leaves the service merely stopped: its end
\* begins the start leg in the same handler.
THEOREM RestartsAreCompleted == Spec => RestartIsNotCutShort
<1>1. ASSUME IInv, IInv', [Next]_vars
      PROVE  [ /\ StateOf(entry) = "Stopping"
               /\ stop.restart
               => StateOf(entry') # "Inactive" ]_vars
  <2>1. StateOf(entry) = entry.state /\ StateOf(entry') = entry'.state
    BY <1>1, StateIsItsField, Zenon DEF IInv
  <2> QED
    BY <1>1, <2>1, NextGood, SMTT(30) DEF Good, NotCutShort
<1> QED
  BY <1>1, LifecycleInvariant, PTL DEF Spec, RestartIsNotCutShort

\* A configuration reload changes none of the fields the running instance was
\* started from.
THEOREM RunningDefinitionIsKept == Spec => InstanceKeepsItsDefinition
<1>1. ASSUME IInv, IInv', [Next]_vars
      PROVE  [ /\ StateOf(entry) \in RetainsDefinition
               /\ StateOf(entry') \in RetainsDefinition
               /\ entry'.generation = entry.generation
               => /\ entry'.def.prog = entry.def.prog
                  /\ entry'.def.type = entry.def.type
                  /\ entry'.def.remain = entry.def.remain
                  /\ entry'.def.compiledIn = entry.def.compiledIn ]_vars
  <2>1. StateOf(entry) = entry.state /\ StateOf(entry') = entry'.state
    BY <1>1, StateIsItsField, Zenon DEF IInv
  <2> QED
    BY <1>1, <2>1, NextGood, Zenon DEF Good, KeepsDefinition
<1> QED
  BY <1>1, LifecycleInvariant, PTL DEF Spec, InstanceKeepsItsDefinition

=============================================================================
