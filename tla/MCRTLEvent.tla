----------------------------- MODULE MCRTLEvent -----------------------------
(* RTLEvent with three threads that wait while any of them sets or resets. *)
EXTENDS RTLEvent
=============================================================================
