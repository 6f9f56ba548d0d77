-------------------------------- MODULE MCLoop --------------------------------
(***************************************************************************)
(* One task drafts and then releases, another runs one action beside it;    *)
(* two browser calls reach the shared gate.  Each action takes every way    *)
(* through the loop.                                                        *)
(***************************************************************************)
EXTENDS ActionLoop

MCActions == {"draft", "release", "other"}
MCTasks == {"t1", "t2"}
MCPlan == [t \in MCTasks |-> IF t = "t1" THEN <<"draft", "release">> ELSE <<"other">>]

Plain == [held |-> FALSE, missing |-> FALSE, link |-> "none", guard |-> "pass",
          verdict |-> "BLUE", tool |-> "ordinary"]
External == [Plain EXCEPT !.verdict = "GREEN"]

Blocked == [Plain EXCEPT !.verdict = "RED"]
Held == [Plain EXCEPT !.held = TRUE]
Linked == [External EXCEPT !.link = "draft"]

\* What the planner proposed for the draft and for the release.
Pairs == { <<Plain, Linked>>, <<External, Linked>>, <<Held, Linked>>,
           <<Blocked, [External EXCEPT !.tool = "human"]>>,
           <<[Plain EXCEPT !.tool = "unregistered"], [Plain EXCEPT !.guard = "RED"]>> }

MCProposals ==
    {[a \in MCActions |-> CASE a = "draft" -> p[1] [] a = "release" -> p[2]
                             [] OTHER -> External] : p \in Pairs}
===============================================================================
