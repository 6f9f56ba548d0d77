----------------------------- MODULE HumanApproval -----------------------------
(***************************************************************************)
(* What a human gate promises, whatever its mechanism: a request that was   *)
(* asked ends exactly once, with an answer some human gave while it was     *)
(* open, or rejected when nobody answered.  No answer given outside that    *)
(* window counts.                                                           *)
(***************************************************************************)
CONSTANTS Approvals,    \* identifiers of approval requests
          Answers       \* what a human may answer; "approved" is one of them

VARIABLES open,         \* the requests a human can answer now
          given,        \* given[a]: the answers humans gave to a
          verdict       \* verdict[a]: how a ended, "pending" until then
vars == <<open, given, verdict>>

Init == /\ open = {}
        /\ given = [a \in Approvals |-> {}]
        /\ verdict = [a \in Approvals |-> "pending"]

Ask(a) == /\ a \notin open /\ verdict[a] = "pending" /\ given[a] = {}
          /\ open' = open \union {a}
          /\ UNCHANGED <<given, verdict>>

Answer(a) == /\ a \in open
             /\ \E s \in Answers : given' = [given EXCEPT ![a] = @ \union {s}]
             /\ UNCHANGED <<open, verdict>>

Close(a) == /\ a \in open
            /\ open' = open \ {a}
            /\ \E s \in given[a] \union {"rejected"} :
                   verdict' = [verdict EXCEPT ![a] = s]
            /\ UNCHANGED given

Next == \E a \in Approvals : Ask(a) \/ Answer(a) \/ Close(a)
Spec == Init /\ [][Next]_vars
===============================================================================
