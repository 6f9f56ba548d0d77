------------------------------ MODULE RunPipeline ------------------------------
(***************************************************************************)
(* Runtime.run and _run_once from end to end: intake and pre-governance     *)
(* (101A, 101C), who supplies the plan (102W, 102T, the direct answers, the *)
(* plan cache, 102, 102R), the school output contract, 102B, the execution  *)
(* of the plan and of one follow-up plan, 110, and what the run teaches.    *)
(*                                                                          *)
(* One task is followed; the leaves of its task tree re-enter the pipeline  *)
(* one after the other.  What becomes of one action is ActionLoop's         *)
(* subject, what the stores do with an outcome TaskLearning's: here an      *)
(* execution picks any result those allow, and an outcome is only noted.    *)
(***************************************************************************)
EXTENDS OutputVerifier, FiniteSets

CONSTANTS Requests,       \* goals with their metadata: see Request
          LeafRequests,   \* goals 102T may split off, metadata aside
          Files, Gates,   \* deliverables a school pack may select: drafts, releases
          Plans,          \* plans 102, the cache or a workflow may supply
          MaxIterations,  \* self_fix.max_iterations
          MaxLeaves       \* bound on the leaves of a tree

(***************************************************************************)
(* floor     a credential or destructive intent, or a red pattern, is in it *)
(* soft      "RED" or "INFEASIBLE" for a contextual risk rule or pattern    *)
(* lexicon   a keyword gives it a category                                  *)
(* checked, domain   the school semantics were read, and say school         *)
(* situation, pack   the compiled case, the deliverables selected           *)
(* gap       some output the goal declares is in no deliverable of its pack *)
(* bounded   the pack's input governance stopped part of the goal           *)
(* release   explicit external recipients;  probe  a labelled demo probe    *)
(***************************************************************************)
Request == [floor : BOOLEAN, soft : {Nothing, "RED", "INFEASIBLE"}, lexicon : BOOLEAN,
            checked : BOOLEAN, domain : BOOLEAN, situation : BOOLEAN,
            pack : SUBSET (Files \cup Gates), gap : BOOLEAN, bounded : BOOLEAN,
            release : BOOLEAN, probe : BOOLEAN]
School(r) == r.checked /\ r.domain
ASSUME RequestsAssumption ==
    /\ Requests \cup LeafRequests \subseteq Request /\ Files \cap Gates = {}
    /\ \A d \in Files \cup Gates : d \notin Nat
    /\ \A r \in Requests : /\ r.situation => School(r)
                           /\ r.pack # {} \/ r.gap => r.situation
                           /\ r.probe => ~r.checked
Act(kind, d) == [kind |-> kind, deliv |-> d, clean |-> kind # "search", held |-> FALSE,
                 by |-> Nothing, school |-> FALSE]
\* What a planner proposes: actions of these kinds, of which some name a deliverable.
Proposed == {Act(kind, d) : kind \in {"artifact", "gate", "info", "search", "other"},
                            d \in {0} \cup Files \cup Gates}
ASSUME PlansAssumption ==
    \A p \in Plans : DOMAIN p \subseteq Nat \ {0} /\ \A i \in DOMAIN p : p[i] \in Proposed
ASSUME BoundsAssumption == MaxIterations \in Nat /\ MaxLeaves \in Nat

VARIABLES
    root,       \* the task's own request
    req,        \* the request of the run in hand: root, or a leaf's
    leaf,       \* leaves run so far; 0 while the task is not a tree
    attempt,    \* the _run_once in hand, counted by self-fix
    stage,      \* where _run_once is
    pre,        \* 101A's category and stop
    source,     \* who supplies the plan
    web,        \* web_search_context is in the brief
    pass,       \* 1, or 2 for the follow-up plan
    plan, did,  \* the plan in hand and what became of it
    past,       \* pairs <<action, result>> of the first pass, once there is a second
    refused,    \* result.refusal is a model_error
    verdict,    \* verify's report with the judge applied, or Nothing
    judge,      \* the judge found the output wanting
    learned,    \* the outcomes recorded
    made        \* made[d]: how often the pack's deliverable d was executed with success
work == <<plan, did, past>>
report == <<verdict, judge>>
ident == <<root, req, leaf, attempt>>
pipeVars == <<root, req, leaf, attempt, stage, pre, source, web, pass, plan, did, past,
          refused, verdict, judge, learned, made>>

Unassessed == [category |-> "unknown", stop |-> Nothing]
NoVerdict == [status |-> Nothing, grade |-> Nothing, pass |-> TRUE, skipped |-> TRUE]
Fresh(r) == /\ req = r /\ stage = "intake" /\ pre = Unassessed /\ source = Nothing /\ web = FALSE
            /\ pass = 1 /\ plan = <<>> /\ did = <<>> /\ past = {} /\ refused = FALSE
            /\ verdict = NoVerdict /\ judge = FALSE
PipeInit == /\ root \in Requests /\ Fresh(root)
        /\ leaf = 0 /\ attempt = 1 /\ learned = {} /\ made = [d \in Files \cup Gates |-> 0]

Subgoal == leaf > 0

(***************************************************************************)
(* 101A: assess.  A hard floor rejects any override; an overriding category *)
(* may itself be a hard one; contextual rules may be deferred.              *)
(***************************************************************************)
\* Mutant: an accepted override replaces the lexical hard category.
AssessLoosely(r, override, defer) ==
    LET category == IF override # Nothing THEN override
                    ELSE IF r.floor THEN "hard" ELSE IF r.lexicon THEN "known" ELSE "unknown"
    IN  [category |-> category, stop |-> IF category = "hard" THEN "RED" ELSE IF defer THEN Nothing ELSE r.soft]
Assess(r, override, defer) ==
    LET category == IF r.floor THEN "hard" ELSE IF override # Nothing THEN override
                    ELSE IF r.lexicon THEN "known" ELSE "unknown"
    IN  [category |-> category, stop |-> IF category = "hard" THEN "RED" ELSE IF defer THEN Nothing ELSE r.soft]

\* A school case is assessed as the kind of work it asks for and leaves the
\* contextual rules to its per-action governance; an explicit release is tightened.
PreAssessment == IF School(req) THEN Assess(req, "school", TRUE)
                 ELSE IF req.release THEN Assess(req, "external", FALSE)
                 ELSE Assess(req, Nothing, FALSE)

\* 101C labels a goal no keyword knows, with a label of its closed set, hard ones
\* included if that is misconfigured; it may also ask the user, or abstain.
Reassessed(p) ==
    IF p.category # "unknown" THEN {p}
    ELSE {p, [p EXCEPT !.category = "clarify"]}
         \cup {q \in {Assess(req, label, FALSE) : label \in {"known", "hard"}} : q.stop = Nothing}

\* What the stores are told; the properties ask whether the run made all its pack
\* names, and whether it was verified.
Note(outcome, whole, verified) ==
    learned' = learned \cup {[outcome |-> outcome, whole |-> whole, verified |-> verified]}

Block ==
    /\ stage = "intake" /\ PreAssessment.stop # Nothing
    /\ pre' = PreAssessment
    /\ IF req.probe THEN UNCHANGED learned
       ELSE Note(IF PreAssessment.stop = "RED" THEN "failure" ELSE "infeasible", FALSE, FALSE)
    /\ stage' = "returned"
    /\ UNCHANGED <<ident, source, web, pass, work, refused, report, made>>

Admit ==
    /\ stage = "intake" /\ PreAssessment.stop = Nothing
    /\ pre' \in Reassessed(PreAssessment)
    /\ stage' = "source"
    /\ UNCHANGED <<ident, source, web, pass, work, refused, report, learned, made>>

(***************************************************************************)
(* Who supplies the plan, in the order the code asks.                       *)
(***************************************************************************)
Suppliers ==
    IF pre.category = "clarify" THEN {"clarify"}
    ELSE (IF ~Subgoal /\ req.pack = {} THEN {"workflow"} ELSE {})
         \cup (IF req.checked /\ ~req.domain THEN {"boundary"}
               ELSE {"direct", "planner"} \cup (IF ~req.checked /\ ~req.probe THEN {"cache"} ELSE {}))

\* Unless a workflow took the goal, the runtime may search the web for the brief.
Supply ==
    /\ stage = "source"
    /\ source' \in Suppliers
    /\ web' \in {FALSE} \cup {source' # "workflow" /\ ~req.checked}
    /\ stage' = "plan"
    /\ UNCHANGED <<ident, pre, pass, work, refused, report, learned, made>>

\* 102T decomposes; each leaf inherits the school metadata but not the probe's mark.
LeafOf(r) == [r EXCEPT !.checked = root.checked, !.domain = root.domain,
                       !.situation = root.situation, !.pack = root.pack, !.gap = root.gap]
RunLeaf(r) ==
    /\ req' = LeafOf(r)
    /\ leaf' = leaf + 1

FreshRun ==
    /\ stage' = "intake" /\ pre' = Unassessed /\ source' = Nothing /\ web' = FALSE /\ pass' = 1
    /\ plan' = <<>> /\ did' = <<>> /\ past' = {} /\ refused' = FALSE
    /\ verdict' = NoVerdict /\ judge' = FALSE
    /\ UNCHANGED <<root, learned, made>>

MayDecompose == ~Subgoal /\ ~req.checked /\ pre.category # "clarify" /\ MaxLeaves > 0
SplitGoal ==
    /\ stage = "source" /\ MayDecompose
    /\ \E r \in LeafRequests : RunLeaf(r)
    /\ FreshRun /\ UNCHANGED attempt

(***************************************************************************)
(* The plan, its school contract and its content.                           *)
(***************************************************************************)
Answer == <<Act("other", 0)>>
\* The staged plan of 102R when the planner refuses.
RecoveryPlan == <<Act("info", 0), Act("other", 0)>>

Fits(a, d) == a.kind = IF d \in Files THEN "artifact" ELSE "gate"
Shell(d) == Act(IF d \in Files THEN "artifact" ELSE "gate", d)

\* reconcile_school_response_pack: each selected deliverable is borne by the first
\* action that names it and has its shape, or by a shell, at a place of its own;
\* files and releases that bear none are superseded.
Reconciled(p) ==
    IF req.pack = {} THEN p
    ELSE LET fit(i) == p[i].deliv \in req.pack /\ Fits(p[i], p[i].deliv)
             bears(i) == fit(i) /\ \A j \in DOMAIN p : j < i /\ fit(j) => p[j].deliv # p[i].deliv
             kept == {i \in DOMAIN p : p[i].kind \in {"artifact", "gate"} => bears(i)}
             missing == {d \in req.pack : \A i \in DOMAIN p : bears(i) => p[i].deliv # d}
         IN  [i \in kept \cup missing |-> IF i \in missing THEN Shell(i) ELSE p[i]]

\* govern_school_research_actions: every search of a school task becomes the
\* official, case-free query.
\* Mutant: only the first plan's queries are rewritten.
SanitizedFirst(p) == [i \in DOMAIN p |-> IF School(req) /\ pass' = 1 THEN [p[i] EXCEPT !.clean = TRUE] ELSE p[i]]
Sanitized(p) == [i \in DOMAIN p |-> IF School(req) THEN [p[i] EXCEPT !.clean = TRUE] ELSE p[i]]

\* normalize_school_markdown_plan: with a text file in the plan, the chat is folded
\* into one companion and every file comes under the contract.
Normalized(p) ==
    IF School(req) /\ \E i \in DOMAIN p : p[i].kind = "artifact"
    THEN [i \in {0} \cup {k \in DOMAIN p : p[k].kind # "other"} |->
             IF i = 0 THEN [Act("companion", 0) EXCEPT !.school = TRUE]
             ELSE [p[i] EXCEPT !.school = @ \/ p[i].kind \in {"artifact", "gate"}]]
    ELSE p

\* The follow-up plan is not reconciled with the pack.
Contracted(p) == Normalized(Sanitized(IF pass' = 1 THEN Reconciled(p) ELSE p))

\* 102B writes each governed artifact or fails on it; if it raises, all are held.
Writers == {"live", "audited", "fallback", "failed"}
Written(p) ==
    LET A == GovernedArtifacts(p)
        by(f) == [i \in DOMAIN p |-> IF i \in A THEN [p[i] EXCEPT !.by = f[i], !.held = f[i] = "failed"] ELSE p[i]]
    IN  {by(f) : f \in [A -> Writers]}

Planned(P) == \E p \in P : plan' \in Written(Contracted(p))

MakePlan ==
    /\ stage = "plan" /\ UNCHANGED pass
    /\ \/ source \in {"clarify", "boundary", "direct"} /\ Planned({Answer}) /\ UNCHANGED refused
       \/ source \in {"workflow", "cache", "planner"} /\ Planned(Plans) /\ UNCHANGED refused
       \* A refusal, a planner API error or an exhausted budget is recovered from.
       \/ source = "planner" /\ Planned({RecoveryPlan}) /\ refused' \in BOOLEAN
    /\ stage' = "act"
    /\ UNCHANGED <<ident, pre, source, web, did, past, report, learned, made>>

\* A refusal on universal hard safety is escalated, recorded nowhere.
Escalate ==
    /\ stage = "plan" /\ source = "planner"
    /\ stage' = "returned"
    /\ UNCHANGED <<ident, pre, source, web, pass, work, refused, report, learned, made>>

(***************************************************************************)
(* _execute_actions, reduced to what may become of each action.             *)
(***************************************************************************)
Outcome(route, approval, exec) == [route |-> route, approval |-> approval, exec |-> exec, tech |-> FALSE]
Technical == [route |-> "INFEASIBLE", approval |-> Nothing, exec |-> Nothing, tech |-> TRUE]
Ran == {"success", "failed"}
Fates(a) ==
    IF a.held THEN {Technical}
    ELSE IF a.kind = "companion" THEN {Outcome("BLUE", Nothing, "success")}
    ELSE {Outcome("RED", Nothing, Nothing), Outcome("INFEASIBLE", Nothing, Nothing)}
         \cup (IF a.kind = "gate" THEN {} ELSE {Outcome("BLUE", Nothing, e) : e \in Ran})
         \cup {Outcome("GREEN", "approved", e) : e \in Ran} \cup {Outcome("GREEN", "rejected", Nothing)}
\* A release waits for its drafts: with one missing it is a technical failure.
Results(p) ==
    {f \in [DOMAIN p -> (UNION {Fates(p[i]) : i \in DOMAIN p}) \cup {Technical}] :
        \A i \in DOMAIN p :
            IF p[i].kind = "gate" /\ \E j \in DOMAIN p : p[j].kind = "artifact" /\ f[j].exec # "success"
            THEN f[i] = Technical ELSE f[i] \in Fates(p[i])}

Execute ==
    /\ stage = "act"
    /\ did' \in Results(plan)
    /\ made' = [d \in DOMAIN made |-> IF d \in req.pack THEN made[d] + Cardinality({i \in Carrying(plan, d) : Fits(plan[i], d) /\ Done(did', i)})
                                       ELSE made[d]]
    /\ stage' = "acted"
    /\ UNCHANGED <<ident, pre, source, web, pass, plan, past, refused, report, learned>>

\* Only information was gathered, and some was: plan again with it, once.
NeedsFollowup ==
    /\ pass = 1
    /\ \A i \in DOMAIN plan : plan[i].kind \in {"info", "search"}
    /\ \E i \in DOMAIN plan : Done(did, i)

Followup ==
    /\ stage = "acted" /\ NeedsFollowup
    /\ pass' = 2 /\ Planned(Plans)
    /\ past' = {<<plan[i], did[i]>> : i \in DOMAIN plan}
    /\ did' = <<>> /\ stage' = "act"
    /\ UNCHANGED <<ident, pre, source, web, refused, report, learned, made>>

\* The follow-up planner may refuse: the task ends with the first plan.
Settle ==
    /\ stage = "acted" /\ stage' = "verify"
    /\ UNCHANGED <<ident, pre, source, web, pass, work, refused, report, learned, made>>

(***************************************************************************)
(* 110 and the learning.                                                    *)
(***************************************************************************)
All == {<<plan[i], did[i]>> : i \in DOMAIN plan} \cup past
Severity == [r \in Route |-> CASE r = "BLUE" -> 0 [] r = "GREEN" -> 1 [] r = "INFEASIBLE" -> 2 [] r = "RED" -> 3]
FinalRoute == LET S == {x[2].route : x \in All}
              IN  IF S = {} THEN Nothing ELSE CHOOSE r \in S : \A q \in S : Severity[r] >= Severity[q]

VerifyRun ==
    /\ stage = "verify"
    /\ \/ \E sound, fast \in BOOLEAN, j \in {"pass", "fail", "unavailable"} :
              LET v == Verify(plan, did, req, FinalRoute, sound)
              IN  /\ verdict' = Judged(v, plan, fast, j)
                  /\ judge' = (j = "fail" /\ v.pass /\ ~v.skipped /\ ~AllBy(plan, "fallback")
                                /\ ~(fast /\ AllBy(plan, "audited")))
       \* The verifier is switched off, or raises: the run goes on without a verdict.
       \/ verdict' = NoVerdict /\ judge' = FALSE
    /\ stage' = "record"
    /\ UNCHANGED <<ident, pre, source, web, pass, work, refused, learned, made>>

Routed(route) == \E x \in All : x[2].route = route
Refused == \E x \in All : x[2].approval = "rejected"
Works == \E x \in All : Substantive(x[1]) /\ x[2].exec = "success"
\* A failed verification leaves a synthetic failed execution, which is not counted.
Fails == \E x \in All : Substantive(x[1]) /\ x[2].exec = "failed"

\* Mutant: blocked work is left to the verifier to object to.
RunOutcomeUnblocked ==
    IF Refused THEN "human_rejected"
    ELSE IF Works /\ ~Fails /\ verdict.pass THEN "success" ELSE "failure"
\* No verdict is no objection.
RunOutcome ==
    IF Routed("INFEASIBLE") THEN "infeasible"
    ELSE IF Refused THEN "human_rejected"
    ELSE IF Works /\ ~Fails /\ verdict.pass THEN "success" ELSE "failure"

PackMade == \A d \in req.pack : \E i \in Carrying(plan, d) : Fits(plan[i], d) /\ Done(did, i)
Verified == verdict # NoVerdict /\ verdict.pass

\* A RED decision, or a probe, records nothing here.
Record ==
    /\ stage = "record"
    /\ IF req.probe \/ Routed("RED") THEN UNCHANGED learned
       ELSE Note(RunOutcome, PackMade, Verified)
    /\ stage' = "returned"
    /\ plan' = <<>> /\ did' = <<>> /\ past' = {} /\ verdict' = NoVerdict    \* the run's own
    /\ UNCHANGED <<ident, pre, source, web, pass, refused, judge, made>>

(***************************************************************************)
(* Runtime.run: the next leaf, another attempt with the judge's feedback,   *)
(* or the end.                                                              *)
(***************************************************************************)
NextLeaf ==
    /\ stage = "returned" /\ Subgoal /\ leaf < MaxLeaves
    /\ \E r \in LeafRequests : RunLeaf(r)
    /\ FreshRun /\ UNCHANGED attempt

\* A refusal, or a governed case, is looked for in the first attempt only.
\* Mutant: a governed case is fixed like any other task.
MayRetryAnything == ~Subgoal /\ (attempt = 1 => ~refused)
MayRetry == ~Subgoal /\ (attempt = 1 => ~refused /\ ~req.situation)

\* Mutant: the attempt is not counted.
SameAttempt == attempt
NextAttempt == attempt + 1
SelfFix ==
    /\ stage = "returned" /\ MayRetry
    /\ judge /\ attempt <= MaxIterations
    /\ attempt' = NextAttempt
    /\ FreshRun /\ UNCHANGED <<req, leaf>>

Return ==
    /\ stage = "returned"
    /\ ~(MayRetry /\ judge /\ attempt <= MaxIterations)
    /\ stage' = "done"
    /\ UNCHANGED <<ident, pre, source, web, pass, work, refused, report, learned, made>>

PipeNext == Block \/ Admit \/ Supply \/ SplitGoal \/ MakePlan \/ Escalate \/ Execute \/ Followup \/ Settle
        \/ VerifyRun \/ Record \/ NextLeaf \/ SelfFix \/ Return
\* The run is one thread, and every call it makes returns (the gate times out).
PipeSpec == PipeInit /\ [][PipeNext]_pipeVars /\ WF_pipeVars(PipeNext)

(***************************************************************************)
(* Properties.                                                              *)
(***************************************************************************)
\* A run taught as a success made its whole pack: every draft was written and every
\* release approved and executed, also when the verifier never spoke, when the plan in
\* hand is a follow-up, and whatever the planner proposed (runtime.py:2410, 3986).
SuccessMadeThePack ==
    \A e \in learned : e.outcome = "success" => e.whole

\* "credits each skill's success_count ONLY when the task verified good"
\* (runtime.py:4006).
SuccessWasVerified ==
    \A e \in learned : e.outcome = "success" => e.verified

\* A verification passes only if the intake lost no output of the goal and every draft
\* the pack selected was written by an action that was not held back, whatever became
\* of its siblings (module 110, school.goal_coverage).
PassMeansPackMade ==
    stage = "record" /\ Verified =>
        /\ ~req.gap
        /\ \A d \in req.pack \cap Files :
               \E i \in Carrying(plan, d) : Done(did, i) /\ ~plan[i].held /\ plan[i].by # "failed"

\* A school goal is never planned from the web or the category's cache, nor split
\* up; what it does search, in either pass, is the official case-free query.
SchoolGoalStaysLocal ==
    School(root) => /\ ~web /\ source # "cache" /\ leaf = 0
                    /\ \A i \in DOMAIN plan : plan[i].clean

\* However often a governed case is judged a failure, no draft is written and
\* nothing is released twice (the comment at runtime.py:1076).
GovernedCaseActsOnce ==
    root.situation => \A d \in DOMAIN made : made[d] <= 1

\* A goal on the deterministic floor is planned by nobody, whatever category the
\* school contract, the release floor or the classifier would give it.
FloorReachesNoPlanner ==
    req.floor => stage \in {"intake", "returned", "done"} /\ plan = <<>>

\* Every task comes to an end.
TaskReturns == <>(stage = "done")

\* "A labelled Main Demo probe must never read from or write to
\* plan_cache/subject_confidence" (app.py:1104).
ProbeTeachesNothing == root.probe => learned = {} /\ source # "cache"

\* A plan part of which was stopped is not graded as the complete goal.
PartialStaysPartial ==
    verdict.status = "verified_partial" => verdict.grade = "partial"
=============================================================================
