--------------------------- MODULE MCOperationStore ---------------------------
(* OperationStore for TLC. *)
EXTENDS OperationStore

=============================================================================
