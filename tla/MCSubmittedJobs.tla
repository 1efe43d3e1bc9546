-------------------------- MODULE MCSubmittedJobs --------------------------
(* Instances of SubmittedJobs for TLC.                                     *)
EXTENDS SubmittedJobs

CONSTANTS alice, system, c1

\* A job that owes readiness and brings a sink.
MCDefinitions == {[readiness |-> TRUE, timed |-> FALSE, output |-> TRUE]}
=============================================================================
