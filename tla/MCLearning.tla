------------------------------ MODULE MCLearning ------------------------------
(***************************************************************************)
(* Two task threads and three tasks over one plan shape.  Two successes make *)
(* the category confident and the plan reusable, so the third task may be    *)
(* served from the cache; the code's own thresholds are three and three.     *)
(***************************************************************************)
EXTENDS TaskLearning
CONSTANTS w1, w2, s1

MCWorkers == {w1, w2}
MCShapes == {s1}

Clean == [red |-> FALSE, infeasible |-> FALSE, rejected |-> FALSE,
          success |-> TRUE, failed |-> FALSE, verified |-> TRUE, judged |-> FALSE]
\* The work is good; the judge disagrees; a step fails; a human says no; an action
\* is RED and the judge dislikes the rest.
MCResults == {Clean,
              [Clean EXCEPT !.verified = FALSE, !.judged = TRUE],
              [Clean EXCEPT !.failed = TRUE],
              [Clean EXCEPT !.rejected = TRUE, !.failed = TRUE],
              [Clean EXCEPT !.red = TRUE, !.verified = FALSE, !.judged = TRUE]}
===============================================================================
