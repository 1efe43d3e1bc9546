----------------------------- MODULE StartGraph -----------------------------
(***************************************************************************)
(* Starts of several services that depend on each other: the execution     *)
(* graph under the supervisor (src/src/supervisor/, execution/start,       *)
(* execution/failure, execution/restart_policy, control/lifecycle).  An    *)
(* event handler works on a copy of the supervisor's stores (a work        *)
(* record) and commits it only if no step was refused; each action is one  *)
(* handler with its release passes, and says what a refusal costs.         *)
(*                                                                         *)
(* Of an operation the model keeps starts: whose it is, its state, whether *)
(* it queues behind a stop, and whether its lifetime clock has counted     *)
(* time in which it was held.  A stop is the state Stopping.  BindsTo,     *)
(* OnFailure, Conflicts and terminals react to the same transitions and    *)
(* are not here; a service is of type Simple.                              *)
(***************************************************************************)
EXTENDS ExecutionGraph, ServiceStates, SequencesExt

CONSTANTS
    Outcomes,       \* what the pre-start checks may answer: functions of the services
    Started,        \* the services operators start,
    Stopped,        \* the ones they stop,
    Failing,        \* and the ones whose processes fail
    Timed,          \* the services whose operations' lifetimes may run out
    MaxContexts     \* bound on the contexts alive at once

VARIABLES
    work,           \* the supervisor's stores
    loop            \* "running", or "ended" by an error nothing contains

vars == <<work, loop>>

NoOperation == 0

\* Operation ids are reused once nothing refers to them.
OperationIds == 1..(MaxContexts + 2) * Cardinality(Services)

(***************************************************************************)
(* The stores: svc (states), clock (services whose restart is scheduled),  *)
(* levels (services that have published their level), ops, graph,          *)
(* prechecked (operations whose check passed), helpers (checks in a helper *)
(* process), job (the operation that each main process was started for),   *)
(* and err: some step was refused.                                         *)
(***************************************************************************)
Operation(s, queued) ==
    [svc |-> s, state |-> "Pending", queued |-> queued, stale |-> FALSE]

Err(w) == [w EXCEPT !.err = TRUE]

\* The next step, unless one before it was refused.
Then(w, Do(_)) == IF w.err THEN w ELSE Do(w)

OrElse(w, otherwise) == IF w.err THEN otherwise ELSE w

Live(w, op) ==
    op \in DOMAIN w.ops /\ w.ops[op].state \in {"Pending", "Running"}

LiveStart(w, s) == {op \in DOMAIN w.ops : w.ops[op].svc = s /\ Live(w, op)}

Transition(w, s, to, cause) ==
    IF cause \notin AllowedCauses(w.svc[s], to) THEN Err(w)
    ELSE [w EXCEPT !.svc[s] = to,
                   !.clock = IF to = "Backoff" THEN @ \cup {s} ELSE @ \ {s},
                   !.levels = IF to \in SatisfiesDependents THEN @ ELSE @ \ {s}]

EndOperation(w, op, state) ==
    IF Live(w, op) THEN [w EXCEPT !.ops[op].state = state] ELSE Err(w)

CancelOperations(w, ops) ==
    IF \E op \in ops : ~Live(w, op) \/ w.ops[op].state # "Pending" THEN Err(w)
    ELSE [w EXCEPT !.ops = [op \in DOMAIN @ |->
            IF op \in ops THEN [@[op] EXCEPT !.state = "Cancelled"] ELSE @[op]]]

RestartLifetimeClock(w, ops) ==
    [w EXCEPT !.ops = [op \in DOMAIN @ |->
        IF op \in ops THEN [@[op] EXCEPT !.stale = FALSE] ELSE @[op]]]

StartOperation(w, op) ==
    IF op \in DOMAIN w.ops /\ w.ops[op].state = "Pending"
    THEN [w EXCEPT !.ops[op].state = "Running"] ELSE Err(w)

ProbeLevel(w) ==
    [s \in Services |->
        CASE w.svc[s] \notin SatisfiesDependents -> "Absent"
          [] s \in w.levels -> "Satisfied"
          [] OTHER -> "NotYetPublished"]

InOrder(S) == SetToSortSeq(S, LAMBDA s, t : Rank[s] < Rank[t])
Ascending(S) == SetToSortSeq(S, LAMBDA x, y : x < y)

(***************************************************************************)
(* Terminal outcomes of an operation, and what they do to dependents.  A   *)
(* step that raises graph events answers a work record and the pairs of    *)
(* context and service that ended.                                         *)
(***************************************************************************)
Result(w, events) == [w |-> w, events |-> events]

ThenWith(r, Do(_, _)) ==
    IF r.w.err THEN r ELSE Result(Do(r.w, r.events), r.events)

\* apply_operation_terminal
GraphTerminal(w, op, outcome) ==
    LET assoc == AssociatedContexts(w.graph, op)
        s == w.ops[op].svc
        own == EndMember(w.graph, assoc, s, outcome)
        awaiting == AwaitingContexts(own, s)
    IN  IF w.err \/ assoc = {} THEN Result(w, {})
        ELSE IF AnyMemberTerminal(w.graph, op) THEN Result(Err(w), {})
        ELSE Result([w EXCEPT !.graph = EndMember(own, awaiting, s, outcome)],
                    EndedMembers(w.graph, assoc, s, outcome) \cup
                    EndedMembers(own, awaiting, s, outcome))

EventContexts(events) == {e[1] : e \in events}

\* fail_dependents_after_graph_events: each dependent once, by the operation
\* its first event names; the events of assoc come first.
FailDependents(w, events, assoc, target) ==
    LET dependents == {e[2] : e \in events} \ {target}
        FirstContext(s) ==
            LET all == {e[1] : e \in {f \in events : f[2] = s}}
            IN  IF all \cap assoc # {} THEN Min(all \cap assoc) ELSE Min(all)
        failing == {s \in dependents : Live(w, w.graph[FirstContext(s)][s].op)}
        over == {w.graph[FirstContext(s)][s].op : s \in failing}
    IN  [w EXCEPT
            !.svc = [s \in Services |->
                IF s \in failing /\ @[s] = "Inactive" THEN "Failed" ELSE @[s]],
            !.ops = [op \in DOMAIN @ |->
                IF op \in over THEN [@[op] EXCEPT !.state = "Failed"] ELSE @[op]]]

\* apply_start_failure; `to' is what the restart policy answers.
StartFailure(w, s, op, to, cause) ==
    IF op \notin DOMAIN w.ops \/ w.ops[op].state # "Running"
    THEN Result(Err(w), {})
    ELSE IF to = "Backoff"
    THEN IF AnyMemberTerminal(w.graph, op) THEN Result(Err(w), {})
         ELSE LET held == [w EXCEPT !.graph = ApplyOperationAwaitingRestart(@, op)]
              IN  Result(EndOperation(Transition(held, s, to, cause), op, "Failed"),
                         {})
    ELSE ThenWith(GraphTerminal(w, op, "Failed"), LAMBDA ended, events :
            Then(EndOperation(Transition(ended, s, to, cause), op, "Failed"),
                 LAMBDA failed : FailDependents(failed, events,
                                    AssociatedContexts(w.graph, op), s)))

\* Mutation: the pruned members' operations are left pending.
PruneOnly(w, op) == [w EXCEPT !.graph = PruneDormantDependencies(@, op)]

CancelDormantDependencies(w, op) ==
    CancelOperations([w EXCEPT !.graph = PruneDormantDependencies(@, op)],
                     PrunedOperations(w.graph, op))

\* apply_pending_pre_dependency_failure: every event is a transition to Failed
\* and the end of an operation, and any refusal refuses the whole.
PreDependencyFailure(w, op) ==
    LET FailOne(e, acc) ==
            LET mine == acc.graph[e[1]][e[2]].op
            IN  EndOperation(
                    Transition(acc, e[2], "Failed",
                        IF mine = op THEN "AssertionError" ELSE "DependencyFailure"),
                    mine, "Failed")
    IN  ThenWith(GraphTerminal(w, op, "Failed"), LAMBDA ended, events :
            Then(FoldSet(FailOne, ended, events),
                 LAMBDA failed : CancelDormantDependencies(failed, op)))

\* A check that answered `skip': the service is Skipped, its dependents are
\* satisfied, and what only it needed is not started.
SkipStart(w, s, op) ==
    EndOperation(Transition(w, s, "Skipped", "ConditionSkipped"), op, "Completed")

Skip(w, s, op) ==
    ThenWith(GraphTerminal(SkipStart(w, s, op), op, "Satisfied"),
             LAMBDA skipped, events : CancelDormantDependencies(skipped, op))

(***************************************************************************)
(* Release passes.  A step answers the contexts to release next.           *)
(***************************************************************************)
Step(w, next) == [w |-> w, next |-> next]

ClearSkipped(w, s, cause) ==
    IF w.svc[s] = "Skipped" /\ cause = "ExplicitStart"
    THEN Transition(w, s, "Inactive", "ExplicitStart") ELSE w

Prechecked(w, op) ==
    IF AnyMemberTerminal(w.graph, op) THEN Step(Err(w), {})
    ELSE Step([w EXCEPT !.prechecked = @ \cup {op},
                        !.graph = ApplyPreStartCheckPassed(@, op)],
              CheckPassedContexts(w.graph, op))

OfResult(r) == Step(r.w, EventContexts(r.events))

Helper(s, op, cause, kind, from) ==
    [svc |-> s, op |-> op, cause |-> cause, kind |-> kind, from |-> from]

\* begin_graph_pre_start_check
BeginGraphPreStartCheck(w, s, member, outcome) ==
    LET cleared == ClearSkipped(w, s, member.cause)
    IN  CASE outcome = "pass" -> Prechecked(cleared, member.op)
          [] outcome = "skip" -> OfResult(Skip(cleared, s, member.op))
          [] outcome = "assert" -> OfResult(PreDependencyFailure(cleared, member.op))
          [] outcome = "helper" ->
                Step([cleared EXCEPT !.helpers = @ \cup
                        {Helper(s, member.op, member.cause, "GraphPreDependency", w.svc[s])}],
                     {})

Launch(w, s, op, cause) ==
    [Transition(w, s, "Starting", cause) EXCEPT !.job[s] = op]

\* begin_prechecked_ready_start
BeginPrecheckedReadyStart(w, s, member) ==
    IF member.op \notin w.prechecked THEN Step(Err(w), {})
    ELSE Step(Launch(StartOperation([w EXCEPT !.prechecked = @ \ {member.op}],
                                    member.op), s, member.op, member.cause), {})

\* begin_ready_start: the relaunch checks and starts in one step.
StartAndCheck(w, s, member, outcome, from) ==
    IF w.err THEN Step(w, {})
    ELSE CASE outcome = "pass" -> Step(Launch(w, s, member.op, member.cause), {})
           [] outcome = "skip" ->
                OfResult(GraphTerminal(SkipStart(w, s, member.op), member.op, "Satisfied"))
           [] outcome = "assert" ->
                OfResult(StartFailure(w, s, member.op, "Failed", "AssertionError"))
           [] outcome = "helper" ->
                Step([w EXCEPT !.helpers = @ \cup
                        {Helper(s, member.op, member.cause, "Graph", from)}], {})

BeginReadyStart(w, s, member, outcome) ==
    LET cleared == ClearSkipped(w, s, member.cause)
        clocked == IF member.held THEN RestartLifetimeClock(cleared, {member.op})
                   ELSE cleared
    IN  StartAndCheck(StartOperation(clocked, member.op), s, member, outcome, w.svc[s])

\* Mutation: an operation that leaves its hold keeps the old clock.
KeepExitedHolds(before, w) == w

\* restart_exited_hold_lifetimes: operations recorded as held that no context
\* holds any longer start their lifetime over.
RestartExitedHolds(before, w) ==
    LET exited == {op \in RecordedHeldOperations(before.graph) :
                        ~IsOperationHeld(w.graph, op)}
        pending == {op \in exited : Live(w, op) /\ w.ops[op].state = "Pending"}
    IN  [RestartLifetimeClock(w, pending) EXCEPT
            !.graph = ClearRecordedHolds(@, exited)]

\* One pass over a context: what it releases, as members with their status
\* before the pass, and the work record after it.
Released(w, c) ==
    [s \in ReadyMembers(w.graph[c], ProbeLevel(w)) |-> w.graph[c][s]]

ReleasePass(w, c) ==
    [w EXCEPT !.graph[c] = ReleaseReady(@, ProbeLevel(w))]

\* A queue of contexts to release, and the work record so far.
Queue(w, contexts) == [w |-> w, contexts |-> contexts]

Enqueue(q, step) == Queue(step.w, q.contexts \o Ascending(step.next))

RECURSIVE ReleaseQueue(_, _)
RECURSIVE RelaunchQueue(_, _)

\* release_for_context: first in, first out over the contexts that change.
ReleaseQueue(q, o) ==
    IF q.w.err \/ q.contexts = <<>> THEN q.w
    ELSE LET c == Head(q.contexts)
             ready == Released(q.w, c)
             Begin(acc, s) ==
                IF acc.w.err THEN acc
                ELSE Enqueue(acc,
                        IF ready[s].status = "WaitingForPreStartCheck"
                        THEN BeginGraphPreStartCheck(acc.w, s, ready[s], o[s])
                        ELSE BeginPrecheckedReadyStart(acc.w, s, ready[s]))
         IN  ReleaseQueue(
                FoldLeft(Begin,
                         Queue(RestartExitedHolds(q.w, ReleasePass(q.w, c)),
                               Tail(q.contexts)),
                         InOrder(DOMAIN ready)), o)

\* The release loop of begin_due_restart_policy_relaunch: every ready member is
\* started at once, whatever its action.
RelaunchQueue(q, o) ==
    IF q.w.err \/ q.contexts = <<>> THEN q.w
    ELSE LET c == Head(q.contexts)
             ready == Released(q.w, c)
             Begin(acc, s) ==
                IF acc.w.err THEN acc
                ELSE Enqueue(acc, BeginReadyStart(acc.w, s, ready[s], o[s]))
         IN  RelaunchQueue(
                FoldLeft(Begin, Queue(ReleasePass(q.w, c), Tail(q.contexts)),
                         InOrder(DOMAIN ready)), o)

\* Mutation: what the end of an operation made ready is not released.
ReleaseNothing(w, C, o) == w

\* release_after_graph_events, release_after_graph_context_ids
ReleaseContexts(w, C, o) ==
    FoldLeft(LAMBDA acc, c : ReleaseQueue(Queue(acc, <<c>>), o), w, Ascending(C))

ReleaseStep(step, o) ==
    Then(step.w, LAMBDA stepped : ReleaseContexts(stepped, step.next, o))

(***************************************************************************)
(* Holds that are decided by the state of the service waited for, and the  *)
(* reactions to transitions.                                               *)
(***************************************************************************)
DecidedOutcome(w, s) ==
    CASE w.svc[s] \in SatisfiesDependents -> "Satisfied"
      [] w.svc[s] \in {"Backoff", "Starting", "Stopping"} -> "Undecided"
      [] OTHER -> "Failed"

RECURSIVE SettleTargets(_, _, _)

SettleHeldRestarts(w, o) ==
    SettleTargets(w, InOrder(AwaitingRestartServices(w.graph)), o)

SettleTargets(w, targets, o) ==
    IF w.err \/ targets = <<>> THEN w
    ELSE LET s == Head(targets)
             outcome == DecidedOutcome(w, s)
             C == AwaitingContexts(w.graph, s)
             ended == [w EXCEPT !.graph = EndMember(@, C, s, outcome)]
             events == EndedMembers(w.graph, C, s, outcome)
             failed == IF outcome = "Failed" THEN FailDependents(ended, events, C, s)
                       ELSE ended
         IN  IF outcome = "Undecided" THEN SettleTargets(w, Tail(targets), o)
             ELSE SettleTargets(
                    ReleaseContexts(SettleHeldRestarts(failed, o), C, o),
                    Tail(targets), o)

\* apply_relationship_reactions_after_transitions, for s that has moved from
\* the state `from'.
Reactions(w, s, from, o) ==
    LET left == from \in SatisfiesDependents /\ w.svc[s] \notin SatisfiesDependents
    IN  Then(SettleHeldRestarts(w, o), LAMBDA settled :
            ReleaseContexts(settled,
                            IF left THEN LevelWaiters(settled.graph, s) ELSE {}, o))

\* What every handler does once its own step is done.
React(r, s, from, o) ==
    Then(Reactions(r.w, s, from, o), LAMBDA reacted :
        ReleaseContexts(reacted, EventContexts(r.events), o))

(***************************************************************************)
(* Start plans.                                                            *)
(***************************************************************************)

\* collect_start_closure: what the start of s needs and is not up; what waits
\* out a backoff plans its own dependencies when it is due.
StartClosure(w, s) ==
    LET Needed(S) ==
            {t \in Services :
                /\ w.svc[t] \notin SatisfiesDependents
                /\ \E d \in Dependencies :
                    /\ d.target = t
                    /\ d.dependent \in S
                    /\ d.dependent = s \/ w.svc[d.dependent] # "Backoff"}
        reach[n \in Nat] ==
            IF n = 0 THEN {s}
            ELSE LET before == reach[n - 1] IN before \cup Needed(before)
    IN  reach[Cardinality(Services)]

FreshIds(w, S) ==
    LET free == OperationIds \ DOMAIN w.ops
        Before(s) == {t \in S : Rank[t] < Rank[s]}
    IN  [s \in S |-> CHOOSE i \in free :
            Cardinality({j \in free : j < i}) = Cardinality(Before(s))]

\* Request a start of each service of S: merge into the live one, or create
\* one, queued if the service is stopping.
RequestStarts(w, S) ==
    LET new == {s \in S : LiveStart(w, s) = {}}
        ids == FreshIds(w, new)
    IN  [w EXCEPT !.ops = [op \in DOMAIN @ \cup {ids[s] : s \in new} |->
            IF op \in DOMAIN @ THEN @[op]
            ELSE LET s == CHOOSE t \in new : ids[t] = op
                 IN  Operation(s, w.svc[s] = "Stopping")]]

TheStart(w, s) == CHOOSE op \in LiveStart(w, s) : TRUE

\* Plan the start of s and create its context.  A member whose start was
\* requested before is running it, as far as this context knows, except the
\* operation `own' the plan is made for.
PlanStart(w, s, cause, own) ==
    LET plan == StartClosure(w, s)
        requested == RequestStarts(w, plan)
        Status(t) ==
            CASE w.svc[t] = "Backoff" /\ t # s -> "AwaitingRestart"
              [] LiveStart(w, t) \ {own} # {} -> "Running"
              [] OTHER -> "Dormant"
        ctx == [t \in plan |->
                    Member(TheStart(requested, t),
                           IF t = s THEN cause ELSE "DependencyStart",
                           Status(t), w.svc[t] = "Backoff")]
    IN  [requested EXCEPT !.graph =
            [c \in DOMAIN @ \cup {1 + Max(DOMAIN @ \cup {0})} |->
                IF c \in DOMAIN @ THEN @[c] ELSE ActivateRoots(ctx)]]

Planned(w) == Queue(w, <<Max(DOMAIN w.graph)>>)

(***************************************************************************)
(* Initial state, events and commits.                                      *)
(***************************************************************************)
Init ==
    /\ work = [svc |-> [s \in Services |-> "Inactive"], clock |-> {},
               levels |-> {}, ops |-> [op \in {} |-> 0],
               graph |-> [c \in {} |-> 0], prechecked |-> {}, helpers |-> {},
               job |-> [s \in Services |-> NoOperation], err |-> FALSE]
    /\ loop = "running"

RoomForContext == Cardinality(DOMAIN work.graph) < MaxContexts

\* An operation that is over is forgotten, unless a helper will still name it:
\* no other step can tell one such operation from another.
Purge(w) ==
    LET kept == {op \in DOMAIN w.ops : Live(w, op) \/ \E h \in w.helpers : h.op = op}
        Known(op) == IF op \in kept THEN op ELSE NoOperation
    IN  [w EXCEPT
            !.ops = [op \in kept |-> @[op]],
            !.prechecked = @ \cap kept,
            !.job = [s \in Services |-> Known(@[s])],
            !.graph = [c \in DOMAIN @ |-> [s \in DOMAIN @[c] |->
                [@[c][s] EXCEPT !.op = Known(@), !.held = @ /\ w.graph[c][s].op \in kept]]]]

\* Ids are renumbered, in order, so that they stay bounded.
Renumber(w) ==
    LET Before(op) == {p \in DOMAIN w.ops :
                        \/ Rank[w.ops[p].svc] < Rank[w.ops[op].svc]
                        \/ w.ops[p].svc = w.ops[op].svc /\ p <= op}
        id == [op \in DOMAIN w.ops \cup {NoOperation} |->
                IF op = NoOperation THEN op ELSE Cardinality(Before(op))]
        Old(n) == CHOOSE op \in DOMAIN w.ops : id[op] = n
        Context(n) == CHOOSE c \in DOMAIN w.graph :
                        Cardinality({d \in DOMAIN w.graph : d <= c}) = n
    IN  [w EXCEPT
            !.ops = [n \in 1..Cardinality(DOMAIN @) |-> @[Old(n)]],
            !.prechecked = {id[op] : op \in @},
            !.helpers = {[h EXCEPT !.op = id[@]] : h \in @},
            !.job = [s \in Services |-> id[@[s]]],
            !.graph = [n \in 1..Cardinality(DOMAIN @) |->
                LET ctx == @[Context(n)]
                IN  [s \in DOMAIN ctx |-> [ctx[s] EXCEPT !.op = id[@]]]]]

Commit(w) ==
    /\ work' = Renumber(Purge(w))
    /\ UNCHANGED loop

EndLoop ==
    /\ loop' = "ended"
    /\ UNCHANGED work

\* A refused command is answered with the error; a refused step of the pump,
\* of a helper's answer or of maintenance ends the loop.
CommitOrRefuse(w) == ~w.err /\ Commit(w)

CommitOrEndLoop(w) == IF w.err THEN EndLoop ELSE Commit(w)

\* The stores an event finds: time has passed for the operations it finds held.
Now ==
    [work EXCEPT !.ops = [op \in DOMAIN @ |->
        IF Live(work, op) /\ IsOperationHeld(work.graph, op)
        THEN [@[op] EXCEPT !.stale = TRUE] ELSE @[op]]]

\* fail_after_internal_error: the service's job, its current operation and the
\* service fail, and the reactions are applied if none of them is refused.
Contain(s, o) ==
    LET w == Now
        ended == IF w.svc[s] = "Stopping" THEN {} ELSE LiveStart(w, s)
        jobless == [w EXCEPT !.job[s] = NoOperation,
                      !.ops = [op \in DOMAIN @ |->
                        IF op \in ended THEN [@[op] EXCEPT !.state = "Failed"]
                        ELSE @[op]]]
        fails == w.svc[s] \in {"Starting", "Active", "Reloading", "Stopping", "Backoff"}
        failed == IF fails THEN Transition(jobless, s, "Failed", "InternalError")
                  ELSE jobless
    IN  Commit(IF fails THEN OrElse(Reactions(failed, s, w.svc[s], o), failed)
               ELSE failed)

CommitOrContain(w, s, o) == IF w.err THEN Contain(s, o) ELSE Commit(w)

(***************************************************************************)
(* The work pump, which runs until it has nothing to do before the next    *)
(* event is taken: promotion of queued starts.  It also settles holds that *)
(* some handler decided and left; DecidedHoldsAreSettled says that the     *)
(* handlers of this module leave none (a reload that withdraws a definition*)
(* does), so that step of the pump is not an action here.                  *)
(***************************************************************************)
ReadyQueued == {op \in DOMAIN work.ops :
                    /\ work.ops[op].state = "Pending"
                    /\ work.ops[op].queued
                    /\ work.svc[work.ops[op].svc] # "Stopping"}

Quiet == loop = "running" /\ ReadyQueued = {}

PromoteQueued ==
    /\ loop = "running"
    /\ \E op \in ReadyQueued, o \in Outcomes :
        LET s == work.ops[op].svc
            cleared == [Now EXCEPT !.ops[op].queued = FALSE]
        IN  CASE work.svc[s] \in {"Inactive", "Completed", "Failed", "Skipped"} ->
                    /\ RoomForContext
                    /\ CommitOrEndLoop(ReleaseQueue(
                        Planned(PlanStart(cleared, s, "ExplicitStart", op)), o))
              [] work.svc[s] = "Backoff" -> Commit(cleared)
              [] work.svc[s] \in {"Active", "Starting"} ->
                    Commit(EndOperation(cleared, op, "Completed"))

(***************************************************************************)
(* Commands.                                                               *)
(***************************************************************************)

\* start: plan, or defer to the backoff, or queue behind the stop.
StartCommand(s) ==
    /\ Quiet
    /\ s \in Started
    /\ \/ /\ work.svc[s] \in {"Inactive", "Completed", "Failed", "Skipped"}
          /\ RoomForContext
          /\ \E o \in Outcomes :
                CommitOrRefuse(ReleaseQueue(
                    Planned(PlanStart(Now, s, "ExplicitStart", NoOperation)), o))
       \/ /\ work.svc[s] \in {"Backoff", "Stopping"}
          /\ LiveStart(work, s) = {}
          /\ Commit(RequestStarts(Now, {s}))

\* stop: a start under way is aborted and the process stopped; the graph is
\* not told.  A backoff is cleared on the spot.
StopCommand(s) ==
    /\ Quiet
    /\ s \in Stopped
    /\ \E o \in Outcomes :
        LET from == work.svc[s]
            to == IF from = "Backoff" THEN "Inactive" ELSE "Stopping"
            over == [Now EXCEPT !.ops = [op \in DOMAIN @ |->
                        IF op \in LiveStart(work, s)
                        THEN [@[op] EXCEPT !.state =
                                IF @ = "Running" THEN "Aborted" ELSE "Cancelled"]
                        ELSE @[op]]]
        IN  /\ from \in {"Starting", "Active", "Backoff"}
            /\ CommitOrRefuse(Reactions(Transition(over, s, to, "ExplicitStop"),
                                        s, from, o))

(***************************************************************************)
(* Events of processes.                                                    *)
(***************************************************************************)
StopEnds(s) ==
    /\ Quiet
    /\ work.svc[s] = "Stopping"
    /\ \E o \in Outcomes :
        CommitOrContain(
            Reactions([Transition(Now, s, "Inactive", "ExplicitStop")
                            EXCEPT !.job[s] = NoOperation], s, "Stopping", o), s, o)

\* The start succeeds: readiness was reported.
Ready(s) ==
    /\ Quiet
    /\ work.svc[s] = "Starting"
    /\ \E o \in Outcomes :
        LET w == Now
            op == w.job[s]
            completed == EndOperation(Transition(w, s, "Active", "ExplicitStart"),
                                      op, "Completed")
            r == IF op \notin DOMAIN w.ops \/ w.ops[op].state # "Running"
                 THEN Result(Err(w), {})
                 ELSE GraphTerminal(completed, op, "Satisfied")
        IN  CommitOrContain(React(r, s, "Starting", o), s, o)

\* The start fails, for a cause the restart policy is asked about.
StartFails(s) ==
    /\ Quiet
    /\ s \in Failing
    /\ work.svc[s] = "Starting"
    /\ \E o \in Outcomes, to \in {"Backoff", "Failed"} :
        LET w == Now
            r == StartFailure(w, s, w.job[s], to, "ProcessCrash")
        IN  CommitOrContain(React([r EXCEPT !.w.job[s] = NoOperation], s, "Starting", o),
                            s, o)

Crash(s) ==
    /\ Quiet
    /\ s \in Failing
    /\ work.svc[s] = "Active"
    /\ \E o \in Outcomes, to \in {"Backoff", "Failed"} :
        CommitOrContain(
            Reactions([Transition(Now, s, to, "ProcessCrash")
                            EXCEPT !.job[s] = NoOperation], s, "Active", o), s, o)

\* A LEVEL= notification publishes the level, or takes it back.
LevelChanges(s) ==
    /\ Quiet
    /\ work.svc[s] = "Active"
    /\ \E d \in Dependencies : d.target = s /\ d.level
    /\ \E o \in Outcomes :
        LET changed == [Now EXCEPT !.levels = IF s \in @ THEN @ \ {s} ELSE @ \cup {s}]
        IN  CommitOrContain(
                ReleaseContexts(changed, LevelWaiters(changed.graph, s), o), s, o)

\* A check helper answers.
HelperAnswers ==
    /\ Quiet
    /\ \E h \in work.helpers, o \in Outcomes, outcome \in {"pass", "skip", "assert"} :
        LET w == [Now EXCEPT !.helpers = @ \ {h}]
            r == CASE outcome = "skip" -> Skip(w, h.svc, h.op)
                   [] outcome = "assert" /\ h.kind = "GraphPreDependency" ->
                        PreDependencyFailure(w, h.op)
                   [] outcome = "assert" /\ h.kind = "Graph" ->
                        StartFailure(w, h.svc, h.op, "Failed", "AssertionError")
                   [] outcome = "pass" /\ h.kind = "Graph" ->
                        Result(Launch(w, h.svc, h.op, h.cause), {})
                   [] OTHER -> Result(w, {})
        IN  /\ outcome \in {p[h.svc] : p \in Outcomes} \cup {"pass"}
            /\ CommitOrEndLoop(
                IF outcome = "pass" /\ h.kind = "GraphPreDependency"
                THEN ReleaseStep(Prechecked(w, h.op), o)
                ELSE React(r, h.svc, h.from, o))

(***************************************************************************)
(* Deadlines.                                                              *)
(***************************************************************************)

\* A restart is due: relaunch, under the deferred operation if there is one.
\* One that is refused fails the service.
RestartDue(s) ==
    /\ Quiet
    /\ s \in work.clock
    /\ RoomForContext
    /\ \E o \in Outcomes :
        LET w == Now
            pending == {op \in LiveStart(w, s) : w.ops[op].state = "Pending"}
            own == IF pending = {} THEN NoOperation ELSE CHOOSE op \in pending : TRUE
            planned == PlanStart(w, s, "RestartPolicy", own)
            failed == Transition(
                        [w EXCEPT !.ops = [op \in DOMAIN @ |->
                            IF op \in pending THEN [@[op] EXCEPT !.state = "Failed"]
                            ELSE @[op]]], s, "Failed", "InternalError")
        IN  CommitOrEndLoop(
                OrElse(RelaunchQueue(Planned([planned EXCEPT !.clock = @ \ {s}]), o),
                       SettleHeldRestarts(failed, o)))

RetireDrained(w) ==
    [w EXCEPT !.graph = [c \in {d \in DOMAIN @ : ~IsDrained(@[d])} |-> @[c]]]

\* The lifetime of a pending operation runs out, unless it is held: the graph
\* fails its members and their dependents, and the operations end with them.
OperationTimesOut ==
    /\ Quiet
    /\ \E op \in DOMAIN work.ops :
        LET w == Now
            r == GraphTerminal(w, op, "Failed")
            over == IF r.events = {} THEN {op}
                    ELSE {w.graph[e[1]][e[2]].op : e \in r.events}
        IN  /\ work.ops[op].svc \in Timed
            /\ work.ops[op].state = "Pending"
            /\ ~IsOperationHeld(work.graph, op)
            /\ CommitOrEndLoop(
                IF r.w.err THEN r.w
                ELSE RetireDrained(
                        [r.w EXCEPT !.ops = [i \in DOMAIN @ |->
                            IF i \in over /\ Live(w, i)
                            THEN [@[i] EXCEPT !.state = "Failed"] ELSE @[i]]]))

Maintenance ==
    /\ Quiet
    /\ \E c \in DOMAIN work.graph : IsDrained(work.graph[c])
    /\ Commit(RetireDrained(Now))

Next ==
    \/ PromoteQueued
    \/ \E s \in Services :
        \/ StartCommand(s)
        \/ StopCommand(s)
        \/ StopEnds(s)
        \/ Ready(s)
        \/ StartFails(s)
        \/ Crash(s)
        \/ LevelChanges(s)
        \/ RestartDue(s)
    \/ HelperAnswers
    \/ OperationTimesOut
    \/ Maintenance

Spec == Init /\ [][Next]_vars

-----------------------------------------------------------------------------

\* No wakeup is lost: whenever the loop waits for an event, no context has a
\* member that could be released now.  Every handler that ends an operation,
\* settles a hold or changes a level releases what that made ready.
ReadyMembersAreReleased ==
    Quiet => \A c \in DOMAIN work.graph :
                ReadyMembers(work.graph[c], ProbeLevel(work)) = {}

\* A start that has been accepted and not begun has somebody who will begin or
\* end it: the promotion of queued starts, the restart clock of its service, or
\* a context in which its member is not over.
PendingStartsAreOwned ==
    \A op \in DOMAIN work.ops : work.ops[op].state = "Pending" =>
        \/ work.ops[op].queued
        \/ work.svc[work.ops[op].svc] = "Backoff"
        \/ \E c \in AssociatedContexts(work.graph, op) :
            work.graph[c][MemberForOperation(work.graph[c], op)].status \notin Terminal

\* A failure reaches everything that requires the failed service: no member
\* goes on waiting behind a hard dependency whose member has failed.
FailureReachesDependents ==
    Quiet => \A c \in DOMAIN work.graph : LET ctx == work.graph[c] IN
        \A s \in DOMAIN ctx : ctx[s].status = "WaitingForDependencies" =>
            \A d \in EdgesOf(ctx, s) : d.kind \in Hard /\ d.target \in DOMAIN ctx =>
                ctx[d.target].status # "Failed"

\* The lifetime of a start counts no time in which the start was held: once an
\* operation is not held any more, its clock has been started over.
HeldTimeIsNotCounted ==
    Quiet => \A op \in DOMAIN work.ops :
        work.ops[op].state = "Pending" /\ work.ops[op].stale =>
            IsOperationHeld(work.graph, op)

=============================================================================
