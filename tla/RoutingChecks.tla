----------------------------- MODULE RoutingChecks -----------------------------
(***************************************************************************)
(* What the routing of one action promises, one decision at a time.  A task *)
(* is understood first (the labels of its data use), then the action is     *)
(* judged by the data-use guard and decided by 103, as                      *)
(* Runtime._execute_actions does.                                           *)
(***************************************************************************)
EXTENDS ActionRouting, DataUse

CONSTANTS Cases,      \* the decisions under study: records of a routing input,
                      \* a data use and a task
          Labels      \* the labels a live model may give
ASSUME CasesAssumption ==
    Cases \subseteq [in : Input, use : Use,
                     task : [checked : BOOLEAN, live : BOOLEAN, given : SUBSET Label]]
ASSUME LabelsAssumption == Labels \subseteq Label

VARIABLES case, labels, out
vars == <<case, labels, out>>

in == case.in
use == case.use

\* A RED or INFEASIBLE verdict of the guard settles the action before 101B and
\* 103 see it; GREEN goes with it.
Governed(c, ls) ==
    LET verdict == Assess(c.use, ls)
    IN  IF verdict \in {"RED", "INFEASIBLE"} THEN verdict
        ELSE Decide([c.in EXCEPT !.dataUse = verdict])

Init == case \in Cases /\ labels = {} /\ out = "unread"

Understand ==
    /\ out = "unread" /\ out' = "undecided"
    /\ labels' \in Understood(case.task, use.goal, in.sensitive, Labels)
    /\ UNCHANGED case

Govern ==
    /\ out = "undecided"
    /\ out' = Governed(case, labels)
    /\ UNCHANGED <<case, labels>>

Decided == out \in Route

Next == Understand \/ Govern
Spec == Init /\ [][Next]_vars

-------------------------------------------------------------------------------
\* The same action under a different learned adjustment or confidence.
Unlearned(c) == [c EXCEPT !.in.adj = 0, !.in.confident = FALSE]

Strictness == [BLUE |-> 0, GREEN |-> 1, INFEASIBLE |-> 2, RED |-> 2]

\* A gate that the profile, a domain pack or the data-use guard imposes is
\* never learned away: such an action does not run silently, whatever was
\* learned (module_103_governance.py, the policy floor).
MandatoryGateNeverLearnedAway ==
    Decided /\ (MandatoryApproval(in) \/ Assess(use, labels) = "GREEN")
        => out # "BLUE"

\* Habit and learning shorten the path of safe work; they never make an action
\* run silently that 103 would have blocked without them.  Two discounts add up
\* here (the score loses 4 for a learned pattern and 4 for a confident subject,
\* and the route loses a tier), and only caps and floors stop them.  Contract
\* drafts are left out: they are exempt from the profile's approvals.
BlockedWorkIsNeverSilent ==
    Decided /\ ~in.draft /\ Governed(Unlearned(case), labels) = "RED"
        => out # "BLUE"

\* Rejections make an action dearer, never cheaper: a positive adjustment
\* yields a route at least as strict as no adjustment.
RejectionNeverRelaxes ==
    Decided /\ in.adj > 0
        => RouteOrder[out] >= RouteOrder[Governed([case EXCEPT !.in.adj = 0], labels)]

\* The labels of a model add to the term lists and never overrule them: an
\* action is decided at least as strictly as without them (runtime.py,
\* _understand_data_use, "the model never decides the route").
LabelsOnlyTighten ==
    Decided => Strictness[out] >= Strictness[Governed(case, {})]

\* A number that is somebody's, written into a text the public reads, blocks
\* the action: neither the school's own channel in the same text nor an
\* exclusion stated beside it lets the number through.
PersonalValuesAreNeverPublished ==
    /\ Decided /\ Tagged(use) /\ ~use.companion
    /\ use.scope \in {"public", "public_draft"} \/ use.audience = "public"
    /\ use.body \intersect Value # {}
    => out \in {"RED", "INFEASIBLE"}

\* A private delivery is not a publication: the health or learning detail a
\* guardian is sent about the own child goes to a human, neither silently out
\* nor blocked, unless 103 blocks the action by itself.
PrivateDeliveryIsAsked ==
    /\ Decided /\ in.pre = "clear"
    /\ Private(use) /\ use.verb = "send" /\ ~use.draftOnly
    /\ use.tool = "email" /\ use.scope = "guardian" /\ ~use.companion
    /\ Own(use) \subseteq {"health", "student"} /\ Text(use) \subseteq {"health", "student"}
    /\ Concepts(use, labels) \subseteq {"health_or_discipline", "student_sensitive_data"}
    => out = (IF Decide(in) = "RED" THEN "RED" ELSE "GREEN")

\* The profile says allow_destructive_auto_only_if_backup_verified.
DestructiveAutoOnlyIfBackupVerified ==
    out = "BLUE" /\ "destructive" \in in.traits /\ in.adj = 0 /\ ~in.confident
        => in.backup = "verified"

\* module_103_governance.py: INFEASIBLE is "Like RED, no ticket issued and 107
\* will never execute".  When arbitration arrives at INFEASIBLE, 103 must not
\* answer with a route that can be ticketed.
InfeasibleIsNeverTicketed ==
    Decided /\ in.pre = "clear" /\ Arbitrated(in) = "INFEASIBLE"
        => out \notin {"BLUE", "GREEN"}

\* module_101d_data_use_guard.py: "existing RED stays RED".
ExistingRedStaysRed ==
    Decided /\ Decide(in) = "RED" => out = "RED"

\* module_101d_data_use_guard.py: RED when the agent's own plan would "publish
\* IC/MyKid/passport/phone/ home address to a public/external surface".
NumbersNeverLeave ==
    /\ Decided /\ Tagged(use) /\ External(use)
    /\ Own(use) \intersect (PersonTerm \union Value) # {}
    => out \in {"RED", "INFEASIBLE"}
===============================================================================
