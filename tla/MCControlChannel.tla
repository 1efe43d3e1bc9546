-------------------------- MODULE MCControlChannel --------------------------
(* Instances of ControlChannel for TLC.                                    *)
EXTENDS ControlChannel

CONSTANTS alice, system

Request(cmd, size) == [cmd |-> cmd, size |-> size]
Client(kind, caller, script) == [kind |-> kind, caller |-> caller, script |-> script]

\* A stop that a wait holds back, beside another wait; a request that is too
\* large behind a wait; an empty one, and a caller over the quota; the jobs
\* socket beside a shutdown.
MCVisits ==
    {<<Client("control", alice, <<Request("startwait", 1), Request("stop", 1)>>),
       Client("control", system, <<Request("startwait", 1)>>)>>,
     <<Client("control", alice, <<Request("startwait", 1), Request("status", 2)>>)>>,
     <<Client("control", alice, <<Request("list", 1), Request("bad", 0)>>),
       Client("control", alice, <<Request("shutdown", 1)>>)>>,
     <<Client("jobs", alice, <<Request("submit", 1), Request("wait", 1)>>),
       Client("control", system, <<Request("job_stop", 1)>>)>>,
     <<Client("control", system, <<Request("shutdown", 1)>>),
       Client("jobs", system, <<Request("submit", 1), Request("stop", 1)>>)>>}

MCRights == [c \in Callers |-> IF c = system THEN {"start", "stop", "query_status", "shutdown"}
                               ELSE {"query_status", "start", "stop"}]
=============================================================================
