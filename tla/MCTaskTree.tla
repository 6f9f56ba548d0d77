------------------------------ MODULE MCTaskTree ------------------------------
(* Four leaves emitted in order; the first three with any dependencies among  *)
(* themselves (self-loops and cycles included), the last on at most two, and  *)
(* one decomposition that names an id the model never emitted.                *)
EXTENDS TaskTree

CONSTANTS l1, l2, l3, l4, ghost

MCLeaves == {l1, l2, l3, l4}
MCEmitted == <<l1, l2, l3, l4>>
MCProposals ==
    {[l \in MCLeaves |-> IF l = l4 THEN last ELSE p[l]] :
        p \in [MCLeaves \ {l4} -> SUBSET (MCLeaves \ {l4})],
        last \in {S \in SUBSET (MCLeaves \ {l4}) : Cardinality(S) <= 2}}
    \union {[l \in MCLeaves |-> IF l = l1 THEN {l4, ghost} ELSE {}]}

Run(executed, verified, route, raises) ==
    [executed |-> executed, verified |-> verified, route |-> route, raises |-> raises]
MCLeafRuns == {Run({"success"}, TRUE, "GREEN", FALSE), Run({"success"}, FALSE, "BLUE", FALSE),
               Run({"success", "failed"}, FALSE, "RED", FALSE), Run({"success"}, FALSE, "BLUE", TRUE)}
===============================================================================
