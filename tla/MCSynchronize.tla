--------------------------- MODULE MCSynchronize ---------------------------
(* Synchronize with three workers and CheckSynchronize nested three deep. *)
EXTENDS Synchronize
=============================================================================
