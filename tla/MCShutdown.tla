----------------------------- MODULE MCShutdown -----------------------------
(* Instances of Shutdown for TLC.                                          *)
EXTENDS Shutdown

CONSTANTS a, b, alice, system, c1

MCDefinitions == {[readiness |-> FALSE, timed |-> FALSE, output |-> FALSE]}

\* b depends on a, so b stops first.
MCRequires == [s \in Services |-> IF s = b THEN {a} ELSE {}]

Is(state, cause, main, helper, acked, evidence) ==
    [state |-> state, cause |-> cause, main |-> main,
     life |-> IF main \in {"setup", "running"} THEN "alive" ELSE "none", exit |-> "Failure",
     helper |-> helper, killed |-> FALSE, acked |-> acked, evidence |-> evidence,
     stop |-> "None", terms |-> 0]

Exhausted == Is("Failed", "RestartBudgetExhausted", "none", "none", FALSE, "none")
Done      == Is("Completed", "None", "none", "none", FALSE, "none")
InSetup   == Is("Starting", "None", "setup", "none", FALSE, "none")
Running   == Is("Starting", "None", "running", "none", FALSE, "none")
Active    == Is("Active", "None", "running", "none", FALSE, "none")
Acked     == Is("Reloading", "None", "running", "none", TRUE, "none")
Asked     == Is("Stopping", "ExplicitStop", "running", "none", FALSE, "operation")
Bound     == Is("Stopping", "BindsToPropagation", "running", "none", FALSE, "mismatched")
Helped    == Is("Active", "None", "running", "alive", FALSE, "none")

\* What a and b may be: every kind for one of them beside an active other.
Pair(x, y) == [s \in Services |-> IF s = a THEN x ELSE y]
MCInitial ==
    {Pair(Active, y) : y \in {Exhausted, InSetup, Running, Active, Acked, Asked, Bound}} \cup
    {Pair(x, Active) : x \in {Done, Running, Asked, Bound}} \cup
    {Pair(Done, Done), Pair(Asked, Bound), Pair(Active, Helped)}

MCHelpers == {Pair(Active, Helped)}

MCMounts == {<<>>, <<"run">>, <<"run", "user">>}
=============================================================================
