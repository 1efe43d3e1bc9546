--------------------------- MODULE AtomicRegister ---------------------------
(***************************************************************************)
(* What a small persistent file promises the boots that read it: it holds  *)
(* one whole content at any time, and a power loss leaves one of the whole *)
(* contents it may have held, never a mixture.                             *)
(***************************************************************************)
EXTENDS Naturals

CONSTANTS Files, Contents, Absent, Torn

VARIABLES
  value,   \* what a reader of the file finds now
  mayBe    \* what a reader may find after a power loss

registerVars == <<value, mayBe>>

(* Torn: what other hands may have left before the first write.            *)
Held == Contents \cup {Absent, Torn}

RegisterInit ==
  /\ value \in [Files -> Held]
  /\ mayBe = [f \in Files |-> {value[f]}]

(* A new content takes the place of the old one in a single step.          *)
Replace(f) ==
  \E c \in Contents :
    /\ value' = [value EXCEPT ![f] = c]
    /\ mayBe' = [mayBe EXCEPT ![f] = @ \cup {c}]

(* From here on a power loss leaves the present content.                   *)
Settle(f) ==
  /\ mayBe' = [mayBe EXCEPT ![f] = {value[f]}]
  /\ UNCHANGED value

RegisterLoss ==
  /\ \E left \in [Files -> Held] :
       /\ \A f \in Files : left[f] \in mayBe[f]
       /\ value' = left
  /\ mayBe' = [f \in Files |-> {value'[f]}]

RegisterNext ==
  \/ \E f \in Files : Replace(f) \/ Settle(f)
  \/ RegisterLoss

RegisterSpec == RegisterInit /\ [][RegisterNext]_registerVars
=============================================================================
