------------------------------ MODULE MCLifecycle ------------------------------
(***************************************************************************)
(* A parent and a child, two confirmations that may race, and one restart;  *)
(* three tasks for the run that looks for an unanswered confirmation.       *)
(***************************************************************************)
EXTENDS TaskLifecycle
===============================================================================
