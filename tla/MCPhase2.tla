------------------------------ MODULE MCPhase2 ------------------------------
(***************************************************************************)
(* Three services (1 to 3), a role (4) and a name with a bad definition    *)
(* or none (5).  Each family varies what the others fix.  A behaviour is   *)
(* either about the making of a plan (BootPlan) or about what follows one  *)
(* (BootTrackers, with the plans of a few registries).                     *)
(***************************************************************************)
EXTENDS BootPlan, BootTrackers

VARIABLE about

Plain == [disabled |-> FALSE, boot |-> TRUE, safe |-> FALSE, critical |-> FALSE,
          requires |-> <<>>, binds |-> <<>>, wants |-> <<>>, conflicts |-> {},
          provides |-> {}, authority |-> FALSE, badTimer |-> FALSE, badHealth |-> FALSE]

Kinds == {Plain,
          [Plain EXCEPT !.critical = TRUE],
          [Plain EXCEPT !.safe = TRUE],
          [Plain EXCEPT !.boot = FALSE],
          [Plain EXCEPT !.disabled = TRUE]}

Few == {Plain, [Plain EXCEPT !.critical = TRUE], [Plain EXCEPT !.boot = FALSE]}

Three == 1..3

Input(services, mode, retained, undecodable, parallel) ==
  [services |-> services, mode |-> mode, retained |-> retained,
   undecodable |-> undecodable, parallel |-> parallel]

NotItself(lists) == {f \in [Three -> lists] : \A s \in Three : f[s] # <<s>>}

(* Who requires whom, among services of every kind.                        *)
RequiresFamily ==
  \E k \in {f \in [Three -> Kinds] : f[3] \in Few}, mode \in {"Full", "Safe"},
     r \in NotItself({<<>>, <<1>>, <<2>>, <<3>>}) :
    PlanInit(Input([s \in Three |-> [k[s] EXCEPT !.requires = r[s]]],
                   mode, {}, {}, 1))

(* Cycles over both kinds of edge that order a start.                      *)
CycleFamily ==
  \E k \in {f \in [Three -> Few] : f[1] = Plain},
     r \in NotItself({<<>>, <<1>>, <<2>>, <<3>>}),
     w \in NotItself({<<>>, <<1>>, <<2>>, <<3>>}) :
    PlanInit(Input([s \in Three |-> [k[s] EXCEPT !.binds = r[s], !.wants = w[s]]],
                   "Full", {}, {}, 1))

(* Conflicts, bad schedules and health checks, a missing dependency, an    *)
(* undecodable definition, and a service that runs since Phase 1.          *)
FaultFamily ==
  \E k \in {f \in [Three -> Few] : f[3] = Plain}, r \in {<<>>, <<2>>, <<5>>}, c \in {{}, {1}, {2}, {3}},
     f \in {"none", "timer", "health"}, mode \in {"Full", "Safe"},
     old \in {{}, {3, 6}}, bad \in {{}, {5}} :
    PlanInit(Input([s \in Three |->
                      [k[s] EXCEPT !.requires = IF s = 1 THEN r ELSE <<>>,
                         !.binds = IF s = 2 THEN <<3>> ELSE <<>>,
                         !.conflicts = IF s = 2 THEN c ELSE {},
                         !.badTimer = (s = 3 /\ f = "timer"),
                         !.badHealth = (s = 3 /\ f = "health")]],
                   mode, old, bad, 1))

(* Roles: the authority's and others, declared and implied.                *)
RoleFamily ==
  \E r \in {<<>>, <<4>>, <<1, 4>>, <<4, 2>>, <<5, 4>>}, a \in [Three -> BOOLEAN],
     p \in [Three -> SUBSET {3, 4}] :
    PlanInit(Input([s \in Three |->
                      [Plain EXCEPT !.requires = IF s = 3 THEN r ELSE <<>>,
                         !.wants = IF s = 2 THEN r ELSE <<>>,
                         !.authority = a[s], !.provides = p[s]]],
                   "Full", {}, {}, 1))

(* Nothing to plan: a recovery boot, or no parallel starts.                *)
NothingFamily ==
  \E mode \in {"Full", "Recovery"}, parallel \in {0, 1} :
    PlanInit(Input([s \in Three |-> Plain], mode, {3}, {5}, parallel))

AnyInput ==
  RequiresFamily \/ CycleFamily \/ FaultFamily \/ RoleFamily \/ NothingFamily

(* Plans to follow: all start; the second is blocked; the second runs      *)
(* since Phase 1; nothing is critical; nothing waits for quiet.            *)
Critical == [Plain EXCEPT !.critical = TRUE]
Prompt   == [Plain EXCEPT !.boot = FALSE]

FollowedInput ==
  \/ PlanInit(Input(<<Critical, Critical, Prompt>>, "Full", {}, {}, 1))
  \/ PlanInit(Input(<<Critical, [Critical EXCEPT !.badTimer = TRUE], Prompt>>,
                    "Full", {}, {}, 1))
  \/ PlanInit(Input(<<Critical, Critical, Prompt>>, "Full", {2}, {}, 1))
  \/ PlanInit(Input(<<Plain, Plain, Prompt>>, "Full", {}, {}, 1))
  \/ PlanInit(Input(<<Critical, Critical>>, "Safe", {}, {}, 1))

MCInit ==
  /\ \/ about = "plan" /\ AnyInput
     \/ about = "trackers" /\ FollowedInput
  /\ TrackersInit

(* The plan may be made at time 0.                                         *)
MCNext ==
  /\ UNCHANGED about
  /\ \/ /\ PlanNext
        /\ IF about = "plan" THEN UNCHANGED trackerVars
           ELSE \E at \in {0, 1} :
                  ConfigurePhase2(PlanSummary(plan', input, DOMAIN input.services \cap {3}), at)
     \/ /\ about = "trackers" /\ plan.made
        /\ TrackersNext /\ UNCHANGED planVars

(* The clock advances and an armed timer fires.  Nothing is assumed of the *)
(* services: one may hang in Starting for ever.                            *)
Following == about = "trackers" /\ plan.made /\ UNCHANGED <<about, planVars>>

MCSpec == MCInit /\ [][MCNext]_<<about, planVars, trackerVars>>
          /\ WF_trackerVars(Following /\ Tick)
          /\ WF_trackerVars(Following /\ BootSettleDue)
=============================================================================
