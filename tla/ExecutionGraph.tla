--------------------------- MODULE ExecutionGraph ---------------------------
(***************************************************************************)
(* The execution graph of peinit (src/src/execution/graph/): one context   *)
(* per start plan.  A context is a function from its members (services) to *)
(* what the graph knows of each: the operation that starts it, the cause   *)
(* of its start, its status, and whether its last release pass found it    *)
(* held on a fact that has no clock.  A store is a function from context   *)
(* ids to contexts; which contexts an operation is associated with follows *)
(* from their members.  The operators are the store's methods.             *)
(***************************************************************************)
EXTENDS Naturals, FiniteSets

CONSTANTS
    Services,
    Dependencies,   \* the declared edges, see DependencyType
    Rank,           \* the dependency-first order of plans and their sequence
    MaxParallelStarts

Hard == {"Requires", "BindsTo"}

\* level: the edge names a readiness level of its target.
DependencyType ==
    [dependent : Services, target : Services, kind : Hard \cup {"Wants"},
     level : BOOLEAN]

ASSUME DependenciesAssumption == Dependencies \subseteq DependencyType

ASSUME RankAssumption ==
    /\ Rank \in [Services -> Nat]
    /\ \A s, t \in Services : Rank[s] = Rank[t] => s = t
    /\ \A d \in Dependencies : Rank[d.target] < Rank[d.dependent]

ASSUME MaxParallelStartsAssumption == MaxParallelStarts \in Nat \ {0}

Terminal == {"Satisfied", "Failed", "Pruned"}

\* What a level edge is told about its target.
Probes == {"Satisfied", "NotYetPublished", "Absent"}

Member(op, cause, status, held) ==
    [op |-> op, cause |-> cause, status |-> status, held |-> held]

SetStatus(ctx, S, status) ==
    [s \in DOMAIN ctx |->
        IF s \in S THEN [ctx[s] EXCEPT !.status = status] ELSE ctx[s]]

\* context_dependencies: an edge without a level counts between members only.
Edges(ctx) ==
    {d \in Dependencies :
        d.dependent \in DOMAIN ctx /\ (d.target \in DOMAIN ctx \/ d.level)}

EdgesOf(ctx, s) == {d \in Edges(ctx) : d.dependent = s}

Targets(ctx, s) == {d.target : d \in EdgesOf(ctx, s)} \cap DOMAIN ctx

AssociatedContexts(graph, op) ==
    {c \in DOMAIN graph : \E s \in DOMAIN graph[c] : graph[c][s].op = op}

MemberForOperation(ctx, op) == CHOOSE s \in DOMAIN ctx : ctx[s].op = op

IsDrained(ctx) == \A s \in DOMAIN ctx : ctx[s].status \in Terminal

(***************************************************************************)
(* Building a context: the members nothing depends on are checked first.   *)
(***************************************************************************)
ActivateRoots(ctx) ==
    LET depended == {d.target : d \in Edges(ctx)}
    IN  SetStatus(ctx,
            {s \in DOMAIN ctx : ctx[s].status = "Dormant" /\ s \notin depended},
            "WaitingForPreStartCheck")

(***************************************************************************)
(* Release.                                                                *)
(***************************************************************************)

\* dependency_settled: may the dependent proceed past this edge?
DependencySettled(ctx, d, probe) ==
    LET status == IF d.target \in DOMAIN ctx THEN ctx[d.target].status
                  ELSE "NoMember"
        memberSettled == IF d.kind \in Hard THEN {"NoMember", "Satisfied"}
                         ELSE Terminal \cup {"NoMember"}
        levelSettled == IF d.kind \in Hard THEN {"Satisfied"}
                        ELSE {"Satisfied", "Absent"}
    IN  /\ status \in memberSettled
        /\ d.level => probe[d.target] \in levelSettled

IsReady(ctx, s, probe) ==
    \/ ctx[s].status = "WaitingForPreStartCheck"
    \/ /\ ctx[s].status = "WaitingForDependencies"
       /\ \A d \in EdgesOf(ctx, s) : DependencySettled(ctx, d, probe)

Running(ctx) == {s \in DOMAIN ctx : ctx[s].status = "Running"}

\* The ready members that get the free slots, in the order of the plan.
ReadyMembers(ctx, probe) ==
    LET ready == {s \in DOMAIN ctx : IsReady(ctx, s, probe)}
        Before(s) == {t \in ready : Rank[t] < Rank[s]}
    IN  {s \in ready :
            Cardinality(Before(s)) + Cardinality(Running(ctx)) < MaxParallelStarts}

(***************************************************************************)
(* Holds.  A waiting member is held without a clock when every unsettled   *)
(* edge it waits on is undecided: a level not published, a target in       *)
(* Backoff, or a target that is itself so held.                            *)
(***************************************************************************)
WaitsWithoutClock(ctx) ==
    LET waits[s \in DOMAIN ctx] ==
            LET EdgeWait(d) ==
                    LET status == IF d.target \in DOMAIN ctx
                                  THEN ctx[d.target].status ELSE "NoMember"
                    IN  CASE status \in {"Failed", "Pruned"} -> "Settled"
                          [] status \in {"NoMember", "Satisfied"} ->
                                IF d.level THEN "Undecided" ELSE "Settled"
                          [] status = "AwaitingRestart" -> "Undecided"
                          [] status = "WaitingForDependencies" ->
                                IF waits[d.target] THEN "Undecided" ELSE "Clocked"
                          [] OTHER -> "Clocked"
                answers == {EdgeWait(d) : d \in EdgesOf(ctx, s)}
            IN  /\ ctx[s].status = "WaitingForDependencies"
                /\ "Clocked" \notin answers
                /\ "Undecided" \in answers
    IN  waits

NoteHoldsWithoutClock(ctx) ==
    LET waits == WaitsWithoutClock(ctx)
    IN  [s \in DOMAIN ctx |->
            IF ctx[s].status = "WaitingForDependencies"
            THEN [ctx[s] EXCEPT !.held = waits[s]] ELSE ctx[s]]

RecordedHeldOperations(graph) ==
    UNION {{graph[c][s].op :
              s \in {t \in DOMAIN graph[c] :
                        /\ graph[c][t].status = "WaitingForDependencies"
                        /\ graph[c][t].held}} : c \in DOMAIN graph}

ClearRecordedHolds(graph, ops) ==
    [c \in DOMAIN graph |->
        [s \in DOMAIN graph[c] |->
            IF graph[c][s].op \in ops
            THEN [graph[c][s] EXCEPT !.held = FALSE] ELSE graph[c][s]]]

\* is_operation_held: the one case in which a lifetime does not run.
IsOperationHeld(graph, op) ==
    LET assoc == AssociatedContexts(graph, op)
        MemberIn(c) == graph[c][MemberForOperation(graph[c], op)]
    IN  \/ \E c \in assoc :
            WaitsWithoutClock(graph[c])[MemberForOperation(graph[c], op)]
        \/ /\ \E c \in assoc :
                MemberIn(c).status = "AwaitingRestart" /\ MemberIn(c).held
           /\ \A c \in assoc : MemberIn(c).status # "Running"

\* release_ready's effect on its context.
ReleaseReady(ctx, probe) ==
    NoteHoldsWithoutClock(SetStatus(ctx, ReadyMembers(ctx, probe), "Running"))

(***************************************************************************)
(* A pre-start check passed: in every context of the operation its member  *)
(* waits for its dependencies, which are checked in turn.                  *)
(***************************************************************************)
CheckPassedContexts(graph, op) ==
    {c \in AssociatedContexts(graph, op) :
        graph[c][MemberForOperation(graph[c], op)].status
            # "WaitingForDependencies"}

\* The two ways a method answers MemberAlreadyTerminal.
AnyMemberTerminal(graph, op) ==
    \E c \in AssociatedContexts(graph, op) :
        graph[c][MemberForOperation(graph[c], op)].status \in Terminal

PassCheck(ctx, s) ==
    LET waiting == SetStatus(ctx, {s}, "WaitingForDependencies")
    IN  SetStatus(waiting,
            {t \in Targets(waiting, s) : waiting[t].status = "Dormant"},
            "WaitingForPreStartCheck")

ApplyPreStartCheckPassed(graph, op) ==
    [c \in DOMAIN graph |->
        IF c \in CheckPassedContexts(graph, op)
        THEN PassCheck(graph[c], MemberForOperation(graph[c], op)) ELSE graph[c]]

(***************************************************************************)
(* Terminal outcomes.  A failure fails the hard dependents that have passed*)
(* their checks, and theirs.                                               *)
(***************************************************************************)
HardDependents(ctx, S) ==
    {s \in DOMAIN ctx :
        /\ ctx[s].status \in {"WaitingForDependencies", "Running"}
        /\ \E d \in EdgesOf(ctx, s) : d.target \in S /\ d.kind \in Hard}

\* Mutation: only the failed service's own dependents, not theirs.
FailedWithDirect(ctx, s) == {s} \cup HardDependents(ctx, {s})

\* s and what its failure takes with it.
FailedWith(ctx, s) ==
    LET reach[n \in Nat] ==
            IF n = 0 THEN {s}
            ELSE reach[n - 1] \cup HardDependents(ctx, reach[n - 1])
    IN  reach[Cardinality(DOMAIN ctx)]

\* The members a terminal outcome of s ends in this context.
EndedWith(ctx, s, outcome) ==
    IF outcome = "Failed" THEN FailedWith(ctx, s) ELSE {s}

\* Where apply_operation_terminal then settles s for other operations.
AwaitingContexts(graph, s) ==
    {c \in DOMAIN graph :
        s \in DOMAIN graph[c] /\ graph[c][s].status = "AwaitingRestart"}

EndMember(graph, C, s, outcome) ==
    [c \in DOMAIN graph |->
        IF c \in C THEN SetStatus(graph[c], EndedWith(graph[c], s, outcome), outcome)
        ELSE graph[c]]

\* The members of C that ending s there ends: what the events name.
EndedMembers(graph, C, s, outcome) ==
    UNION {{<<c, t>> : t \in EndedWith(graph[c], s, outcome)} : c \in C}

AwaitingRestartServices(graph) ==
    {s \in Services : AwaitingContexts(graph, s) # {}}

ApplyOperationAwaitingRestart(graph, op) ==
    [c \in DOMAIN graph |->
        IF c \in AssociatedContexts(graph, op)
        THEN NoteHoldsWithoutClock(
                [graph[c] EXCEPT ![MemberForOperation(graph[c], op)] =
                    [@ EXCEPT !.status = "AwaitingRestart", !.held = FALSE]])
        ELSE graph[c]]

(***************************************************************************)
(* prune_dormant_dependencies: what only s's start would have needed.      *)
(***************************************************************************)
PrunedWith(ctx, s) ==
    LET Prunable(t) ==
            /\ ctx[t].status = "Dormant"
            /\ \A d \in Edges(ctx) : d.target = t =>
                ctx[d.dependent].status \in Terminal \cup {"Dormant"}
        reach[n \in Nat] ==
            IF n = 0 THEN {t \in Targets(ctx, s) : Prunable(t)}
            ELSE reach[n - 1] \cup
                 {t \in UNION {Targets(ctx, u) : u \in reach[n - 1]} : Prunable(t)}
    IN  reach[Cardinality(DOMAIN ctx)]

PruneDormantDependencies(graph, op) ==
    [c \in DOMAIN graph |->
        IF c \in AssociatedContexts(graph, op)
        THEN SetStatus(graph[c],
                PrunedWith(graph[c], MemberForOperation(graph[c], op)), "Pruned")
        ELSE graph[c]]

PrunedOperations(graph, op) ==
    UNION {{graph[c][t].op :
              t \in PrunedWith(graph[c], MemberForOperation(graph[c], op))}
           : c \in AssociatedContexts(graph, op)}

\* contexts_with_level_dependency_on
LevelWaiters(graph, s) ==
    {c \in DOMAIN graph :
        /\ ~IsDrained(graph[c])
        /\ \E d \in Edges(graph[c]) : d.target = s /\ d.level}
=============================================================================
