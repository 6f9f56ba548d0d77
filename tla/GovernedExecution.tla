--------------------------- MODULE GovernedExecution ---------------------------
(***************************************************************************)
(* What the governed pipeline promises about the actions a planner          *)
(* proposes: each is classified once, one that asks a human runs only after *)
(* a human consented to it, a refused one never runs, none runs twice.      *)
(***************************************************************************)
CONSTANT Actions
VARIABLES mode, consent, ran
vars == <<mode, consent, ran>>

Modes == {"silent", "asks", "refused"}

Init == /\ mode = [a \in Actions |-> "undecided"]
        /\ consent = {}
        /\ ran = {}

Classify(a) == /\ mode[a] = "undecided"
               /\ \E m \in Modes : mode' = [mode EXCEPT ![a] = m]
               /\ UNCHANGED <<consent, ran>>

Consent(a) == /\ mode[a] = "asks"
              /\ consent' = consent \union {a}
              /\ UNCHANGED <<mode, ran>>

Run(a) == /\ a \notin ran
          /\ mode[a] = "silent" \/ (mode[a] = "asks" /\ a \in consent)
          /\ ran' = ran \union {a}
          /\ UNCHANGED <<mode, consent>>

Next == \E a \in Actions : Classify(a) \/ Consent(a) \/ Run(a)
Spec == Init /\ [][Next]_vars
===============================================================================
