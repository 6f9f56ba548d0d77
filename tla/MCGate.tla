-------------------------------- MODULE MCGate --------------------------------
(***************************************************************************)
(* Two tasks with one approval each, and three browser calls: a double       *)
(* click, two operators who disagree, a call for the wrong task.              *)
(***************************************************************************)
EXTENDS WebHumanGate

MCApprovals == {"a1", "a2"}
MCTasks == {"t1", "t2"}
MCTaskOf == [a \in MCApprovals |-> IF a = "a1" THEN "t1" ELSE "t2"]
===============================================================================
