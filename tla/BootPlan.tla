------------------------------ MODULE BootPlan ------------------------------
(***************************************************************************)
(* Phase 2 of the boot: the plan made from the registry's service          *)
(* definitions (boot/phase2), the validation a reload makes of the same    *)
(* definitions (service/graph), and the service table the boot leaves.     *)
(* A definition is reduced to what the planner looks at.  Names are        *)
(* numbers, ordered as the code orders names; roles share the namespace.   *)
(***************************************************************************)
EXTENDS Integers, Sequences, FiniteSets, SequencesExt

CONSTANTS
  Names,       \* names a definition may have or refer to
  AuthnRole    \* the role of the authority

VARIABLES
  input,       \* [services, mode, parallel, retained, undecodable]
  plan,        \* what prepare_phase2_boot_plan_with_retained returns
  table        \* service table: the states by name

planVars == <<input, plan, table>>

NoPlan == [made |-> FALSE]

(* What may block a service, and what its state says of the worst of it.   *)
Precedence == [CycleDetected |-> 3, ConflictingBootService |-> 2,
               ValidationError |-> 2, HardDependencyUnavailable |-> 1,
               HardDependencyBlocked |-> 1]

TransitionCause(reasons) ==
  LET worst == CHOOSE r \in reasons :
                 \A other \in reasons : Precedence[other] <= Precedence[r]
  IN [CycleDetected |-> "CycleDetected",
      ConflictingBootService |-> "ValidationError",
      ValidationError |-> "ValidationError",
      HardDependencyUnavailable |-> "DependencyFailure",
      HardDependencyBlocked |-> "DependencyFailure"][worst]

(***************************************************************************)
(* Dependencies.                                                           *)
(***************************************************************************)
HardDependencies(d) == ToSet(d.requires \o d.binds)

StartOrderTargets(d) == d.requires \o d.binds \o d.wants

Ascending(S) == SetToSortSeq(S, <)

Deduplicated(seq) ==
  FoldLeft(LAMBDA acc, x : IF x \in ToSet(acc) THEN acc ELSE Append(acc, x),
           <<>>, seq)

RoleProviders(defs, role) == {s \in DOMAIN defs : role \in defs[s].provides}

(* A reference to a role becomes one to each other service that fills it;  *)
(* a real name wins, and an unfilled role is kept as written.              *)
ResolveRoleReferences(defs) ==
  LET Resolved(me, list) ==
        Deduplicated(FlattenSeq([i \in DOMAIN list |->
          IF list[i] \in DOMAIN defs \/ RoleProviders(defs, list[i]) = {}
          THEN <<list[i]>>
          ELSE Ascending(RoleProviders(defs, list[i]) \ {me})]))
  IN [s \in DOMAIN defs |->
        [defs[s] EXCEPT !.requires = Resolved(s, @), !.wants = Resolved(s, @),
                        !.binds = Resolved(s, @)]]

(* The authority edge an identity implies.                                 *)
SynthesiseRoleDependencies(defs) ==
  LET resolved  == ResolveRoleReferences(defs)
      providers == RoleProviders(resolved, AuthnRole)
      Additions(s) ==
        IF ~ resolved[s].authority \/ AuthnRole \in resolved[s].provides THEN {}
        ELSE providers \ (HardDependencies(resolved[s]) \cup {s})
  IN [s \in DOMAIN defs |->
        [resolved[s] EXCEPT !.requires = @ \o Ascending(Additions(s))]]

(* visit_order: depth first; a cycle is the tail of the stack and ends the *)
(* walk.  w is [permanent, stack, order, cycle].                           *)
RECURSIVE VisitOrder(_, _, _, _)
VisitOrder(s, startable, defs, w) ==
  IF w.cycle # <<>> \/ s \in w.permanent THEN w
  ELSE IF s \in ToSet(w.stack)
  THEN [w EXCEPT !.cycle = SubSeq(w.stack, CHOOSE i \in DOMAIN w.stack : w.stack[i] = s,
                                  Len(w.stack))]
  ELSE LET targets == SelectSeq(StartOrderTargets(defs[s]), LAMBDA t : t \in startable)
           v == FoldLeft(LAMBDA acc, t : VisitOrder(t, startable, defs, acc),
                         [w EXCEPT !.stack = Append(@, s)], targets)
       IN IF v.cycle # <<>> THEN v
          ELSE [v EXCEPT !.stack = Front(@), !.permanent = @ \cup {s},
                         !.order = Append(@, s)]

DependencyStartOrder(startable, defs) ==
  FoldLeft(LAMBDA acc, s : VisitOrder(s, startable, defs, acc),
           [permanent |-> {}, stack |-> <<>>, order |-> <<>>, cycle |-> <<>>],
           Ascending(startable))

(***************************************************************************)
(* The boot graph.                                                         *)
(***************************************************************************)
DependencyEligible(mode, d) ==
  mode = "Full" \/ (d.boot /\ (d.safe \/ d.critical))

BootRoots(mode, defs) ==
  {s \in DOMAIN defs : ~ defs[s].disabled /\ defs[s].boot
                       /\ DependencyEligible(mode, defs[s])}

(* block_service, for a set of services: every reason is kept.             *)
BlockServices(blocked, services, reason) ==
  [s \in Names |-> blocked[s] \cup IF s \in services THEN {reason} ELSE {}]

RECURSIVE IncludeClosure(_, _, _)
IncludeClosure(mode, defs, included) ==
  LET more == included \cup
        {t \in DOMAIN defs :
           /\ ~ defs[t].disabled /\ DependencyEligible(mode, defs[t])
           /\ \E s \in included : t \in ToSet(StartOrderTargets(defs[s]))}
  IN IF more = included THEN included ELSE IncludeClosure(mode, defs, more)

(* A hard dependency that is missing or disabled.  One that Safe mode      *)
(* leaves out is dropped.                                                  *)
Unavailable(mode, defs, s) ==
  \E t \in HardDependencies(defs[s]) : t \notin DOMAIN defs \/ defs[t].disabled

RECURSIVE PropagateBlocked(_, _, _)
PropagateBlocked(included, defs, blocked) ==
  LET more == {s \in included : blocked[s] = {}
                 /\ \E t \in HardDependencies(defs[s]) \cap Names : blocked[t] # {}}
  IN IF more = {} THEN blocked
     ELSE PropagateBlocked(included, defs,
            BlockServices(blocked, more, "HardDependencyBlocked"))

CollectBootClosure(mode, defs) ==
  LET included == IncludeClosure(mode, defs, BootRoots(mode, defs))
      missing  == BlockServices([s \in Names |-> {}],
                    {s \in included : Unavailable(mode, defs, s)},
                    "HardDependencyUnavailable")
  IN [included |-> included, blocked |-> PropagateBlocked(included, defs, missing)]

SymmetricConflicts(defs, s) ==
  defs[s].conflicts \cup {t \in DOMAIN defs \ {s} : s \in defs[t].conflicts}

(* Included services that conflict with s, whatever starts them.           *)
AnyConflicts(included, defs, s) == SymmetricConflicts(defs, s) \cap included

(* Included boot services that conflict with s.                            *)
BootConflicts(included, defs, s) ==
  IF ~ defs[s].boot THEN {}
  ELSE {t \in SymmetricConflicts(defs, s) : t \in included /\ defs[t].boot}

BlockUnresolvableConflicts(included, defs, blocked) ==
  BlockServices(blocked,
    UNION {IF BootConflicts(included, defs, s) = {} THEN {}
           ELSE BootConflicts(included, defs, s) \cup {s} : s \in included},
    "ConflictingBootService")

CriticalBootConflicts(included, defs) ==
  UNION {{{s, t} : t \in BootConflicts(included, defs, s)} :
           s \in {x \in included : defs[x].critical}}

(* Cycles are found one at a time; those in one are left out of the search *)
(* for the next.                                                           *)
RECURSIVE CyclesOneByOne(_, _)
CyclesOneByOne(remaining, defs) ==
  LET cycle == ToSet(DependencyStartOrder(remaining, defs).cycle)
  IN IF cycle = {} THEN {}
     ELSE {cycle} \cup CyclesOneByOne(remaining \ cycle, defs)

CriticalCycles(included, defs) ==
  {c \in CyclesOneByOne(included, defs) : \E s \in c : defs[s].critical}

BlockDependencyCycles(included, defs, blocked) ==
  BlockServices(blocked, UNION CyclesOneByOne(included, defs), "CycleDetected")

(* Every service's schedule, included or not.                              *)
BlockInvalidTimerSchedules(defs, blocked) ==
  BlockServices(blocked, {s \in DOMAIN defs : defs[s].badTimer}, "ValidationError")

BlockInvalidHealthChecks(included, defs, blocked) ==
  BlockServices(blocked, {s \in included : defs[s].badHealth}, "ValidationError")

StartableServices(included, blocked) == {s \in included : blocked[s] = {}}

RECURSIVE OrderStartable(_, _, _)
OrderStartable(included, defs, blocked) ==
  LET propagated == PropagateBlocked(included, defs, blocked)
      walk == DependencyStartOrder(StartableServices(included, propagated), defs)
  IN IF walk.cycle = <<>> THEN [order |-> walk.order, blocked |-> propagated]
     ELSE OrderStartable(included, defs,
            BlockServices(propagated, ToSet(walk.cycle), "CycleDetected"))

(* Nothing is propagated from what the validation finds.                   *)
StartOrderUnpropagated(included, defs, blocked) ==
  LET found == BlockDependencyCycles(included, defs,
                 BlockInvalidHealthChecks(included, defs,
                   BlockInvalidTimerSchedules(defs, blocked)))
  IN [order |-> DependencyStartOrder(StartableServices(included, found), defs).order,
      blocked |-> found]

StartOrderAfterValidation(included, defs, blocked) ==
  OrderStartable(included, defs,
    BlockDependencyCycles(included, defs,
      BlockInvalidHealthChecks(included, defs,
        BlockInvalidTimerSchedules(defs, blocked))))

BuildPhase2BootGraph(mode, defs) ==
  LET closure == CollectBootClosure(mode, defs)
  IN StartOrderAfterValidation(closure.included, defs,
       BlockUnresolvableConflicts(closure.included, defs, closure.blocked))

SafeModeDowngradeFindings(defs) ==
  LET included == CollectBootClosure("Full", defs).included
  IN CriticalBootConflicts(included, defs) \cup CriticalCycles(included, defs)

(***************************************************************************)
(* prepare_phase2_boot_plan_with_retained.                                 *)
(***************************************************************************)
RecoveryPlan == [made |-> TRUE, mode |-> "Recovery", starts |-> <<>>, defs |-> <<>>,
                 blocked |-> [s \in Names |-> {}], downgrade |-> {}]

(* Only called with max_parallel_starts above 0: the caller refuses 0.     *)
PreparePhase2BootPlan(in) ==
  LET defs      == SynthesiseRoleDependencies(in.services)
      downgrade == IF in.mode = "Full" THEN SafeModeDowngradeFindings(defs) ELSE {}
      mode      == IF downgrade = {} THEN in.mode ELSE "Safe"
      graph     == BuildPhase2BootGraph(mode, defs)
  IN IF in.mode = "Recovery" THEN RecoveryPlan
     ELSE [made |-> TRUE, mode |-> mode, downgrade |-> downgrade, defs |-> defs,
           starts  |-> SelectSeq(graph.order, LAMBDA s : s \notin in.retained),
           blocked |-> BlockServices(graph.blocked, in.undecodable, "ValidationError")]

(***************************************************************************)
(* validate_service_graph: what a reload refuses.                          *)
(***************************************************************************)
(* find_cycles: a depth first walk that notes every back edge.  w is       *)
(* [permanent, stack, cycles].                                             *)
RECURSIVE FindCyclesFrom(_, _, _)
FindCyclesFrom(s, defs, w) ==
  IF s \in w.permanent THEN w
  ELSE IF s \in ToSet(w.stack)
  THEN [w EXCEPT !.cycles = @ \cup
          {ToSet(SubSeq(w.stack, CHOOSE i \in DOMAIN w.stack : w.stack[i] = s,
                        Len(w.stack)))}]
  ELSE LET targets == SelectSeq(Deduplicated(StartOrderTargets(defs[s])),
                                LAMBDA t : t \in DOMAIN defs)
           v == FoldLeft(LAMBDA acc, t : FindCyclesFrom(t, defs, acc),
                         [w EXCEPT !.stack = Append(@, s)], targets)
       IN [v EXCEPT !.stack = Front(@), !.permanent = @ \cup {s}]

FindCycles(defs) ==
  FoldLeft(LAMBDA acc, s : FindCyclesFrom(s, defs, acc),
           [permanent |-> {}, stack |-> <<>>, cycles |-> {}],
           Ascending(DOMAIN defs)).cycles

MissingHardDependencies(defs) ==
  {s \in DOMAIN defs : ~ (HardDependencies(defs[s]) \subseteq DOMAIN defs)}

ConflictingBootServices(defs) ==
  {s \in DOMAIN defs : defs[s].boot
     /\ \E t \in defs[s].conflicts \cap DOMAIN defs : defs[t].boot}

InvalidSchedules(defs) == {s \in DOMAIN defs : defs[s].badTimer}

InvalidHealthChecks(defs) == {s \in DOMAIN defs : defs[s].badHealth}

ServiceGraphIsValid(services) ==
  LET defs == SynthesiseRoleDependencies(services)
  IN /\ MissingHardDependencies(defs) = {}
     /\ ConflictingBootServices(defs) = {}
     /\ InvalidHealthChecks(defs) = {} /\ InvalidSchedules(defs) = {}
     /\ FindCycles(defs) = {}

(***************************************************************************)
(* The boot's service table.                                               *)
(***************************************************************************)
Inactive == [state |-> "Inactive", cause |-> "none"]

(* A running Phase 1 service stays, defined in the registry or not.        *)
MergePhase2ServiceTable(old, defs, retained) ==
  [s \in DOMAIN defs \cup retained |-> IF s \in retained THEN old[s] ELSE Inactive]

(* An undecodable service gets a placeholder, already Failed.              *)
ApplyBlockedPhase2Services(services, p) ==
  LET blocked == {s \in Names : p.blocked[s] # {}}
  IN [s \in DOMAIN services \cup blocked |->
        IF s \in blocked /\ (s \in DOMAIN services => services[s] = Inactive)
        THEN [state |-> "Failed", cause |-> TransitionCause(p.blocked[s])]
        ELSE services[s]]

(* Without a plan (no parallel starts allowed) the boot goes to recovery.  *)
RunPhase2Boot ==
  /\ ~ plan.made
  /\ input.parallel > 0
  /\ plan' = PreparePhase2BootPlan(input)
  /\ table' = ApplyBlockedPhase2Services(
                MergePhase2ServiceTable(table, input.services, input.retained), plan')
  /\ UNCHANGED input

RefuseToPlan ==
  /\ ~ plan.made
  /\ input.parallel = 0
  /\ plan' = RecoveryPlan
  /\ UNCHANGED <<input, table>>

(* in is what Phase 2 finds in the registry, and running.                  *)
PlanInit(in) ==
  /\ input = in
  /\ plan = NoPlan
  /\ table = [s \in in.retained |-> [state |-> "Active", cause |-> "none"]]

PlanNext == RunPhase2Boot \/ RefuseToPlan

(* What the trackers of BootTrackers take from a plan.                     *)
PlanSummary(p, in, deferred) ==
  [mode |-> p.mode, starts |-> ToSet(p.starts),
   blocked |-> {s \in Names : p.blocked[s] # {}}, retained |-> in.retained,
   critical |-> {s \in DOMAIN in.services : in.services[s].critical},
   deferred |-> deferred]

(***************************************************************************)
(* Properties.                                                             *)
(***************************************************************************)
Defs        == plan.defs
BlockedSet  == {s \in Names : plan.blocked[s] # {}}
Position(s) == CHOOSE i \in DOMAIN plan.starts : plan.starts[i] = s

(* Enabled services reached from s by dependencies that order its start,   *)
(* in one step or more.                                                    *)
Below(s) ==
  LET Targets(t) == {u \in ToSet(StartOrderTargets(Defs[t])) \cap DOMAIN Defs :
                       ~ Defs[u].disabled}
      Reach[n \in 0..Cardinality(Names)] ==
        IF n = 0 THEN Targets(s)
        ELSE Reach[n - 1] \cup UNION {Targets(t) : t \in Reach[n - 1]}
  IN Reach[Cardinality(Names)]

(* Each service the plan starts comes after everything it needs: each of   *)
(* its hard dependencies is running already, starts before it, or is left  *)
(* out by Safe mode.                                                       *)
StartsAreOrdered ==
  plan.made =>
    \A s \in ToSet(plan.starts) : \A t \in HardDependencies(Defs[s]) :
      \/ t \in input.retained
      \/ t \in ToSet(plan.starts) /\ Position(t) < Position(s)
      \/ /\ plan.mode = "Safe" /\ t \in DOMAIN Defs
         /\ ~ Defs[t].disabled /\ ~ DependencyEligible("Safe", Defs[t])

(* Why a service may be blocked: it is faulty itself, is on a cycle,       *)
(* conflicts with another boot service, or needs a service that is blocked *)
(* or not there.                                                           *)
HasCause(s) ==
  \/ Defs[s].badTimer \/ Defs[s].badHealth
  \/ s \in Below(s)
  \/ Defs[s].boot /\ \E t \in DOMAIN Defs \ {s} :
       Defs[t].boot /\ ~ Defs[t].disabled
       /\ (t \in Defs[s].conflicts \/ s \in Defs[t].conflicts)
  \/ s \in Defs[s].conflicts
  \/ \E t \in HardDependencies(Defs[s]) :
       t \notin DOMAIN Defs \/ Defs[t].disabled \/ t \in BlockedSet

(* A fault takes down no more than those that need it: a blocked service   *)
(* has a cause.  And what a reload accepts (validate_service_graph), the   *)
(* next boot takes in full: it stays in Full mode, and unless a service is *)
(* disabled blocks none and starts every boot service.                     *)
BlockedForACause ==
  /\ plan.made /\ plan.mode # "Recovery" =>
       \A s \in BlockedSet \ input.undecodable : HasCause(s)
  /\ /\ plan.made /\ input.mode = "Full" /\ input.parallel > 0
     /\ input.undecodable = {} /\ ServiceGraphIsValid(input.services)
     => /\ plan.mode = "Full"
        /\ (\A s \in DOMAIN Defs : ~ Defs[s].disabled) =>
             BlockedSet = {} /\ BootRoots("Full", Defs) \subseteq
                                  ToSet(plan.starts) \cup input.retained
=============================================================================
