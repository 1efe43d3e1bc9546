------------------------------- MODULE MCBoot -------------------------------
(***************************************************************************)
(* Boot for TLC, from two kinds of initial state.  In an instance about    *)
(* the files, the counter is written without failures and survives a power *)
(* loss; in an instance about the counter, the machine id is there and     *)
(* readable and the seed is not saved.                                     *)
(***************************************************************************)
EXTENDS Boot

CONSTANTS id1, id2, seed1, mid, seed

VARIABLE about   \* "files" or "counter"

MCIds      == {id1, id2}
MCSeeds    == {seed1}
MCContents == MCIds \cup MCSeeds
MCFiles    == {mid, seed}
MCMounts   == 1 .. 2
MCCommandLines ==
  { [recovery |-> FALSE, threshold |-> Threshold],
    [recovery |-> FALSE, threshold |-> 0],
    [recovery |-> TRUE, threshold |-> Threshold] }

MCInit ==
  /\ about \in {"files", "counter"}
  /\ Init(IF about = "files" THEN [f \in Files |-> Absent]
          ELSE [f \in Files |-> IF f = mid THEN id1 ELSE Absent])

MCNext ==
  /\ Next
  /\ about' = about
  /\ about = "files" =>
       /\ counter' # Torn
       /\ ~ past'.unrecorded
       /\ reset' = None
       /\ cmd' = NoLine
  /\ about = "counter" =>
       /\ UNCHANGED stage

MCSpec == MCInit /\ [][MCNext]_<<vars, about>> /\ BootFairness
=============================================================================
