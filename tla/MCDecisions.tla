---------------------------- MODULE MCDecisions ----------------------------
(***************************************************************************)
(* Two operators and two runs over two patches, one of them on a signature  *)
(* of the hard safety, a skill, a clean-up and two SOPs of one workflow.                *)
(***************************************************************************)
EXTENDS ProposalDecisions, TLC
CONSTANTS p1, p2, k1, c1, s1, s2, o1, o2, t1, t2

MCItems == {p1, p2, k1, c1, s1, s2}
MCKind == [i \in MCItems |-> CASE i \in {p1, p2} -> "patch" [] i = k1 -> "skill" [] i = c1 -> "cleanup" [] OTHER -> "sop"]
MCKey == [i \in MCItems |-> CASE i = p1 -> "sigA" [] i = p2 -> "hard" [] i \in {k1, c1} -> "cat" [] OTHER -> "wf"]
\* The patch on the hard safety is a replayed one, the other patch and the clean-up are new.
MCInit == Init /\ mem[p2] # Absent /\ mem[p1] = Absent /\ mem[c1] = Absent
MCSpec == MCInit /\ [][Next]_vars

MCSymmetry == Permutations({o1, o2}) \cup Permutations({t1, t2})
=============================================================================
