------------------------------ MODULE MCPipeline ------------------------------
(***************************************************************************)
(* RunPipeline on one draft, one release of it, and the goals that tell the *)
(* branches apart.                                                          *)
(***************************************************************************)
EXTENDS RunPipeline
CONSTANTS draft, release

Plain == [floor |-> FALSE, soft |-> Nothing, lexicon |-> TRUE, checked |-> FALSE, domain |-> FALSE,
          situation |-> FALSE, pack |-> {}, gap |-> FALSE, bounded |-> FALSE, release |-> FALSE, probe |-> FALSE]
Case == [Plain EXCEPT !.checked = TRUE, !.domain = TRUE, !.situation = TRUE, !.soft = "RED", !.pack = {draft, release}]
MCRequests == {
    [Plain EXCEPT !.lexicon = FALSE], [Plain EXCEPT !.probe = TRUE],
    [Plain EXCEPT !.soft = "INFEASIBLE"], [Plain EXCEPT !.floor = TRUE, !.release = TRUE],
    [Plain EXCEPT !.floor = TRUE, !.checked = TRUE, !.domain = TRUE],
    [Plain EXCEPT !.checked = TRUE], [Plain EXCEPT !.checked = TRUE, !.domain = TRUE],
    Case, [Case EXCEPT !.gap = TRUE], [Case EXCEPT !.pack = {draft}, !.bounded = TRUE]}
MCLeafRequests == {Plain, [Plain EXCEPT !.soft = "RED"]}
MCPlans == {
    <<Act("search", 0)>>, <<Act("search", 0), Act("other", draft)>>,
    <<Act("gate", release)>>, <<Act("artifact", draft), Act("artifact", draft)>>}
=============================================================================
