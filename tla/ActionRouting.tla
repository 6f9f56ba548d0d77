----------------------------- MODULE ActionRouting -----------------------------
(***************************************************************************)
(* How one candidate action gets its route: the risk score of module 101B   *)
(* (teow_agl/modules/module_101b_action_risk.py with                        *)
(* configs/risk_weights.json) and the arbitration of module 103             *)
(* (module_103_governance.py with the shipped governance profile and        *)
(* action taxonomy).  Both are pure functions of the action, the profile    *)
(* and the learned policy, so the module has operators and no variables.    *)
(*                                                                          *)
(* The inputs of one decision are a record:                                 *)
(*   pre       what pre-governance (101A) said: "clear", "infeasible",      *)
(*             "hard" (hard_block) or "category" (a hard-red code)          *)
(*   traits    what 101B reads off the operation, target and risk factors   *)
(*   backup    the backup status: "unknown", "verified" or "stale"          *)
(*   confident subject_confidence.is_confident(task_category)               *)
(*   adj       the learned adjustment stored under the action's signature   *)
(*   dataUse   the verdict of the data-use guard (101D) that reaches 103    *)
(*   draft     the action writes a local draft under an output contract     *)
(*   sensitive the goal mentions sensitive student or guardian data         *)
(***************************************************************************)
EXTENDS Integers

Route == {"BLUE", "GREEN", "INFEASIBLE", "RED"}
RouteOrder == [BLUE |-> 0, GREEN |-> 1, INFEASIBLE |-> 2, RED |-> 3]
RouteByRank == [r \in 0..3 |-> CHOOSE q \in Route : RouteOrder[q] = r]

Atleast(route, floor) ==
    IF RouteOrder[route] < RouteOrder[floor] THEN floor ELSE route

(***************************************************************************)
(* 101B: features, score, recommended route.                                *)
(***************************************************************************)
Weights ==
    [destructive |-> 4, irreversible |-> 3, external_facing |-> 4,
     source_code |-> 3, high_value_asset |-> 5, sensitive_path |-> 3,
     credential_path |-> 12, out_of_workspace |-> 6, bulk_operation |-> 2,
     backup_unknown |-> 2, generated_output |-> -3, temp_or_cache |-> -3,
     repeated_approved_pattern |-> -4, repeated_rejected_pattern |-> 4,
     preview_safe_operation |-> -5, shell_operation |-> 4,
     gui_automation |-> 5, gui_keyboard |-> 3, subject_confident |-> -4]

\* Features that carry no weight but that the taxonomy of 103 reads.
Unweighted == {"backup_verified", "legal_content", "parent_notice",
               "student_record_change", "system_level_change"}

\* What the operation, target and risk factors of an action can show.
Trait == (DOMAIN Weights \union Unweighted)
         \ {"backup_unknown", "backup_verified", "repeated_approved_pattern",
            "repeated_rejected_pattern", "subject_confident"}

Features(in) ==
    (in.traits \ (IF "credential_path" \in in.traits THEN {"sensitive_path"} ELSE {}))
    \union (IF in.backup = "unknown"
               /\ {"destructive", "external_facing"} \intersect in.traits # {}
            THEN {"backup_unknown"} ELSE {})
    \union (IF in.backup = "verified" THEN {"backup_verified"} ELSE {})
    \union (IF in.confident THEN {"subject_confident"} ELSE {})
    \union (IF in.adj < 0 THEN {"repeated_approved_pattern"} ELSE {})
    \union (IF in.adj > 0 THEN {"repeated_rejected_pattern"} ELSE {})

\* The sum is written out, term by term: the provers have no induction for a
\* fold over a set.
Score(features) ==
    LET w(f) == IF f \in features THEN Weights[f] ELSE 0
    IN  w("destructive") + w("irreversible") + w("external_facing") + w("source_code")
        + w("high_value_asset") + w("sensitive_path") + w("credential_path")
        + w("out_of_workspace") + w("bulk_operation") + w("backup_unknown")
        + w("generated_output") + w("temp_or_cache") + w("repeated_approved_pattern")
        + w("repeated_rejected_pattern") + w("preview_safe_operation")
        + w("shell_operation") + w("gui_automation") + w("gui_keyboard")
        + w("subject_confident")

RouteFor(score) ==
    CASE score <= 4 -> "BLUE"
      [] score > 4 /\ score <= 14 -> "GREEN"
      [] OTHER -> "RED"

\* The recommended route once a GREEN verdict of 101D has lifted a BLUE.
Recommended(in) ==
    LET byScore == RouteFor(Score(Features(in)))
    IN  IF in.dataUse = "GREEN" THEN Atleast(byScore, "GREEN") ELSE byScore

(***************************************************************************)
(* 103: the profile's symbolic action names, as the features they require.  *)
(***************************************************************************)
HardBlockActions ==
    { {"credential_path"}, {"destructive", "out_of_workspace"} }
ApprovalRequiredActions ==
    { {"destructive", "high_value_asset"}, {"destructive", "backup_unknown"},
      {"source_code"}, {"external_facing"}, {"shell_operation"},
      {"gui_automation"}, {"gui_keyboard"}, {"legal_content"},
      {"parent_notice"}, {"student_record_change"}, {"system_level_change"} }
MaxAutoDowngrade == [destructive |-> 10, external_facing |-> 8, high_value_asset |-> 0]

Matches(names, features) == \E required \in names : required \subseteq features

\* A policy approval binds unless the action only writes a contract draft.
MandatoryApproval(in) ==
    /\ ~in.draft
    /\ Matches(ApprovalRequiredActions, Features(in))

\* Mutant: only the data-use guard sets a floor.
PolicyFloorOfGuardOnly(in) == IF in.dataUse = "GREEN" THEN "GREEN" ELSE "BLUE"

PolicyFloor(in) ==
    IF MandatoryApproval(in) \/ in.dataUse = "GREEN" THEN "GREEN" ELSE "BLUE"

\* Mutants: no cap; a cap of 0 read as "no cap".
NoDowngradeCap(in) == FALSE
ZeroIsNoCap(in) ==
    \E f \in DOMAIN MaxAutoDowngrade \intersect Features(in) :
        MaxAutoDowngrade[f] # 0 /\ -in.adj > MaxAutoDowngrade[f]

ViolatesDowngradeCap(in) ==
    \E f \in DOMAIN MaxAutoDowngrade \intersect Features(in) :
        -in.adj > MaxAutoDowngrade[f]

Tiers(adj) == IF (-adj) \div 5 < 1 THEN 1 ELSE (-adj) \div 5

\* Mutant: the tiers are taken off whatever the sign of the adjustment.
LearnedUnsigned(in, route) ==
    IF in.adj # 0 /\ ~ViolatesDowngradeCap(in)
    THEN LET rank == RouteOrder[route] - Tiers(IF in.adj < 0 THEN in.adj ELSE -in.adj)
         IN  RouteByRank[IF rank < 0 THEN 0 ELSE rank]
    ELSE route

Learned(in, route) ==
    IF in.adj < 0 /\ ~ViolatesDowngradeCap(in)
    THEN LET rank == RouteOrder[route] - Tiers(in.adj)
         IN  RouteByRank[IF rank < 0 THEN 0 ELSE rank]
    ELSE IF in.adj > 0 /\ route = "BLUE" THEN "GREEN" ELSE route

\* Mutant: no fail-safe for sensitive data.
ArbitratedWithoutFailSafe(in) ==
    LET asked   == IF MandatoryApproval(in)
                   THEN Atleast(Recommended(in), "GREEN") ELSE Recommended(in)
    IN  Atleast(Learned(in, asked), PolicyFloor(in))

\* The route after approvals, learning, the policy floor and the fail-safe.
Arbitrated(in) ==
    LET asked   == IF MandatoryApproval(in)
                   THEN Atleast(Recommended(in), "GREEN") ELSE Recommended(in)
        floored == Atleast(Learned(in, asked), PolicyFloor(in))
    IN  IF floored = "BLUE" /\ in.sensitive /\ ~in.draft THEN "GREEN" ELSE floored

(***************************************************************************)
(* GovernanceModule.decide.  The last branch builds an approval request for *)
(* every route that is neither RED nor BLUE, INFEASIBLE included.           *)
(***************************************************************************)
Decide(in) ==
    CASE in.pre = "infeasible" -> "INFEASIBLE"
      [] in.pre \in {"hard", "category"} -> "RED"
      [] in.pre = "clear" /\ Matches(HardBlockActions, Features(in)) -> "RED"
      [] OTHER -> IF Arbitrated(in) = "INFEASIBLE" THEN "GREEN" ELSE Arbitrated(in)

Input == [pre : {"clear", "infeasible", "hard", "category"},
          traits : SUBSET Trait, backup : {"unknown", "verified", "stale"},
          confident : BOOLEAN, adj : Int, dataUse : {"NO_OVERRIDE", "GREEN"},
          draft : BOOLEAN, sensitive : BOOLEAN]
===============================================================================
