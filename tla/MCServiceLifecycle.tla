------------------------- MODULE MCServiceLifecycle -------------------------
(***************************************************************************)
(* Instances of ServiceLifecycle for TLC.                                  *)
(***************************************************************************)
EXTENDS ServiceLifecycle

\* A daemon that reports readiness, a terminal session restarted for ever,
\* and a oneshot.
Daemon ==
    [prog |-> "daemon", type |-> "Simple", remain |-> FALSE,
     compiledIn |-> FALSE, readiness |-> "Notify", policy |-> "OnFailure",
     console |-> FALSE]

Session ==
    [prog |-> "session", type |-> "Simple", remain |-> FALSE,
     compiledIn |-> FALSE, readiness |-> "Alive", policy |-> "Always",
     console |-> TRUE]

Oneshot ==
    [prog |-> "oneshot", type |-> "Oneshot", remain |-> TRUE,
     compiledIn |-> FALSE, readiness |-> "Notify", policy |-> "Never",
     console |-> FALSE]

MCDefinitions == {Daemon, Session, Oneshot}

OneOfEach  == {NewEntry(Daemon), NewEntry(Session), NewEntry(Oneshot)}
DaemonOrOneshot == {NewEntry(Daemon), NewEntry(Oneshot)}

AnyChange      == {Daemon, Session, NoDefinition, Undecodable}
NothingNew     == {}

=============================================================================
