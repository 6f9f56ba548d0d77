---------------------------- MODULE MCSchoolBundle ----------------------------
(* Packs of one or two artifacts fit a batch; three need two batches. *)
EXTENDS SchoolBundle
MCSizes == 1..3
===============================================================================
