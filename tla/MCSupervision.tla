--------------------------- MODULE MCSupervision ----------------------------
(* Instances of Supervision for TLC.                                       *)
EXTENDS Supervision

Service(hooks, health, watchdog, reload, budget, runtime, garbles) ==
    [hooks |-> hooks, health |-> health, watchdog |-> watchdog, reload |-> reload,
     budget |-> budget, runtime |-> runtime, garbles |-> garbles]

\* A daemon with probes and a watchdog; one with post-start hooks and a
\* watchdog; one with hooks and probes.
MCDefinitions ==
    {Service(0, TRUE, 2, "signal", 1, {}, FALSE),
     Service(2, FALSE, 1, "command", 1, {2}, TRUE),
     Service(1, TRUE, 0, "command", 1, {}, FALSE)}
=============================================================================
