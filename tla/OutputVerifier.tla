---------------------------- MODULE OutputVerifier ----------------------------
(***************************************************************************)
(* Module 110: what the verifier says of a plan, given the actions, the     *)
(* route each was decided, the human's answer and the executor's status.    *)
(* A plan maps the places of its actions to them, did[i] is what became of  *)
(* the one at i; no check depends on their order.  What the content checks  *)
(* say of the texts is an input (sound).                                    *)
(***************************************************************************)
EXTENDS Naturals

Nothing == "none"
Route == {"BLUE", "GREEN", "INFEASIBLE", "RED"}

(***************************************************************************)
(* An action: kind is "artifact", "gate" (an external or record action of a *)
(* school pack), "companion" (the chat cover), "info", "search" or "other"; *)
(* deliv the deliverable it carries (0: none); held:                        *)
(* metadata.school_generation_failed; by: who wrote the artifact.           *)
(* A result: tech says that a technical failure made it INFEASIBLE.         *)
(***************************************************************************)
Substantive(a) == a.kind # "companion"
Carrying(plan, d) == {i \in DOMAIN plan : plan[i].deliv = d}
Done(did, i) == did[i].exec = "success"
Approved(did, i) == did[i].approval = "approved"

\* BLUE is judged, GREEN once approved, blocked work only if it failed technically.
InScope(did, i) ==
    \/ did[i].route = "BLUE"
    \/ did[i].route = "GREEN" /\ Approved(did, i)
    \/ did[i].tech
Expected(plan, did) == {i \in DOMAIN plan : InScope(did, i) /\ Substantive(plan[i])}
Pending(plan, did) == {i \in DOMAIN plan : did[i].route = "GREEN" /\ ~Approved(did, i)}
Blocked(plan, did) == {i \in DOMAIN plan : did[i].route \in {"RED", "INFEASIBLE"}
                                              /\ ~did[i].tech /\ Substantive(plan[i])}
\* Executed without authority: before approval, or although blocked.
Unauthorised(plan, did) ==
    {i \in DOMAIN plan : Done(did, i) /\ (i \in Pending(plan, did) \/ did[i].route \in {"RED", "INFEASIBLE"})}

(***************************************************************************)
(* _response_pack_coverage: one disposition per selected deliverable.       *)
(***************************************************************************)
\* Mutant: an artifact stopped by policy counts as settled, as a gate does.
DispositionLenient(plan, did, d) ==
    IF Carrying(plan, d) = {} THEN "MISSING" ELSE "COMPLETED"
Disposition(plan, did, d) ==
    LET S == Carrying(plan, d)
        i == CHOOSE j \in S : TRUE
    IN  IF \A j \in S : S # {j} THEN "MISSING"
        ELSE IF plan[i].kind = "artifact"
        THEN IF Done(did, i) THEN "CREATED"
             ELSE IF did[i].exec = "failed" \/ did[i].tech THEN "FAILED"
             ELSE IF did[i].route \in {"RED", "INFEASIBLE"} THEN "BLOCKED"
             ELSE IF did[i].route = "GREEN" /\ ~Approved(did, i) THEN "AWAITING_APPROVAL"
             ELSE "MISSING"
        ELSE IF did[i].tech THEN "FAILED"
             ELSE IF did[i].route \in {"RED", "INFEASIBLE"} \/ did[i].approval = "rejected" THEN "BLOCKED"
             ELSE IF did[i].route = "GREEN" /\ did[i].approval = Nothing THEN "AWAITING_APPROVAL"
             ELSE IF Done(did, i) THEN "COMPLETED"
             ELSE IF did[i].exec = "failed" THEN "FAILED"
             ELSE "MISSING"
\* Drafts must exist; a gate is settled by being stopped or left to the human.
Settled(plan, did, d) ==
    \/ Disposition(plan, did, d) \in {"CREATED", "COMPLETED"}
    \/ Disposition(plan, did, d) \in {"BLOCKED", "AWAITING_APPROVAL"}
       /\ \A i \in Carrying(plan, d) : plan[i].kind # "artifact"
\* A goal some of whose declared outputs the intake lost (r.gap) is never covered.
Covered(plan, did, r) == ~r.gap /\ \A d \in r.pack : Settled(plan, did, d)

(***************************************************************************)
(* The checks of a plan that did something, and verify itself, in the order *)
(* of its exits.                                                            *)
(***************************************************************************)
Contract(plan) == \E i \in DOMAIN plan : plan[i].school
ArtifactsHold(plan, did) ==
    \A i \in Expected(plan, did) :
        plan[i].kind = "artifact" /\ plan[i].school => Done(did, i) /\ ~plan[i].held

Says(status, grade) == [status |-> status, grade |-> grade, pass |-> status # "failed",
                        skipped |-> status \in {"verified_safe_stop", "awaiting_approval", "skipped"}]

\* r: the task's pack, its gap, and whether its own input boundary stopped part of the
\* goal (bounded); finalRoute: the severest route, those of an earlier pass included.
Verify(plan, did, r, finalRoute, sound) ==
    LET working == \E i \in Expected(plan, did) : Done(did, i)
        partial == r.bounded \/ Blocked(plan, did) # {}
    IN  IF Unauthorised(plan, did) # {} \/ ~Covered(plan, did, r) THEN Says("failed", "failed")
        ELSE IF ~working /\ Expected(plan, did) = {} /\ finalRoute \in {"RED", "INFEASIBLE"}
        THEN Says("verified_safe_stop", "safe_stop")
        ELSE IF ~working /\ Expected(plan, did) = {} /\ Pending(plan, did) # {}
        THEN Says("awaiting_approval", "partial")
        ELSE IF ~working
        THEN IF \E i \in DOMAIN plan : plan[i].school /\ InScope(did, i)
             THEN Says("failed", "failed") ELSE Says("skipped", "safe_format_only")
        ELSE IF ~(sound /\ ArtifactsHold(plan, did)) THEN Says("failed", "failed")
        ELSE IF partial THEN Says("verified_partial", "partial")
        ELSE Says("verified", "safe_format_only")

(***************************************************************************)
(* _run_verification: the judge is asked after a mechanical pass, unless    *)
(* every school artifact is a verified code fallback, or live-authored with *)
(* both semantic audits passed on the fast path.                            *)
(***************************************************************************)
GovernedArtifacts(plan) == {i \in DOMAIN plan : plan[i].kind = "artifact" /\ plan[i].school}
AllBy(plan, author) == GovernedArtifacts(plan) # {}
                       /\ \A i \in GovernedArtifacts(plan) : ~plan[i].held /\ plan[i].by = author

Judged(v, plan, fast, j) ==
    IF v.skipped \/ ~v.pass THEN v
    ELSE IF AllBy(plan, "fallback") THEN [v EXCEPT !.grade = "safe_format_only"]
    ELSE IF fast /\ AllBy(plan, "audited") THEN [v EXCEPT !.grade = "goal_complete"]
    ELSE CASE j = "fail" -> Says("failed", "failed")
           [] j = "pass" -> [v EXCEPT !.grade = IF @ = "partial" THEN @ ELSE "goal_complete"]
           [] j = "delta" -> v       \* a pack that only adds to an answered case
           [] j = "unavailable" -> IF Contract(plan) THEN Says("failed", "failed") ELSE v
=============================================================================
