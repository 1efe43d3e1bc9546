---------------------------- MODULE MCStartGraph ----------------------------
(***************************************************************************)
(* An instance of StartGraph for TLC: six services in two graphs that do   *)
(* not touch.  A behaviour drives one of the two at a time, so that each   *)
(* is explored on its own.                                                 *)
(***************************************************************************)
EXTENDS StartGraph

Edge(s, t, kind, level) ==
    [dependent |-> s, target |-> t, kind |-> kind, level |-> level]

\* The diamond's half: app requires db and wants cache, which requires db.
Diamond == {"app", "cache", "db"}

\* A chain whose first edge waits for a readiness level: web requires proxy,
\* which requires a level of net.
Chain == {"net", "proxy", "web"}

MCServices == Diamond \cup Chain

MCDependencies ==
    {Edge("app", "db", "Requires", FALSE), Edge("app", "cache", "Wants", FALSE),
     Edge("cache", "db", "Requires", FALSE),
     Edge("proxy", "net", "Requires", TRUE), Edge("web", "proxy", "Requires", FALSE)}

MCRank ==
    [s \in MCServices |->
        CASE s = "db" -> 1 [] s = "cache" -> 2 [] s = "app" -> 3
          [] s = "net" -> 4 [] s = "proxy" -> 5 [] s = "web" -> 6]

\* cache may be skipped; app may need a helper, or fail its check.
MCOutcomes ==
    {[s \in MCServices |-> CASE s = "cache" -> c [] s = "app" -> a [] OTHER -> "pass"] :
        c \in {"pass", "skip"}, a \in {"pass", "helper", "assert"}}

Ends == {"app", "web"}
Inner == {"db", "cache", "net", "proxy"}

\* Nothing is known of these services.
Idle(S) ==
    /\ \A s \in S : work.svc[s] = "Inactive"
    /\ \A op \in DOMAIN work.ops : work.ops[op].svc \notin S
    /\ \A c \in DOMAIN work.graph : DOMAIN work.graph[c] \cap S = {}

MCNext == Next /\ (Idle(Diamond)' \/ Idle(Chain)')
MCSpec == Init /\ [][MCNext]_vars
=============================================================================
