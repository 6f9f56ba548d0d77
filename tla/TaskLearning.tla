----------------------------- MODULE TaskLearning -----------------------------
(***************************************************************************)
(* What a run spends and what it teaches: Runtime.run with its self-fix     *)
(* loop, Runtime._run_once from the choice of a plan to                     *)
(* _record_task_outcome, and the three files that outlive it: the outcome   *)
(* ledger (SubjectConfidence), the plan cache (PlanCache) and the planner   *)
(* budget (CostGuard).                                                      *)
(*                                                                          *)
(* Every task runs on a runtime of its own, so the read caches of the two   *)
(* learning stores (_cache, _entries) are private to a worker and may be    *)
(* stale: they are dropped only by the worker's own writes.  One task       *)
(* category is modelled: the stores are keyed by it.  What the actions of a *)
(* plan do is in ActionLoop; here a run is reduced to what the outcome      *)
(* depends on.                                                              *)
(***************************************************************************)
EXTENDS Naturals, FiniteSets

CONSTANTS Workers,          \* task threads
          Shapes,           \* shape signatures of plans
          Results,          \* what the execution of a plan may come to: see Result
          MinSuccesses,     \* PlanCache.min_successes_for_cache
          MinObservations,  \* SubjectConfidence.min_observations_for_confident
          MaxIterations,    \* self_fix.max_iterations
          Limit,            \* daily_limits.planner_calls
          MaxRuns           \* bound on the tasks started

None == "none"
Result == [red : BOOLEAN, infeasible : BOOLEAN,     \* a decision with that route
           rejected : BOOLEAN,                      \* an approval came back rejected
           success : BOOLEAN, failed : BOOLEAN,     \* a substantive execution did
           verified : BOOLEAN,                      \* module 110 did not reject it
           judged : BOOLEAN]                        \* its LLM judge said no

ASSUME WorkersAssumption == IsFiniteSet(Workers) /\ Workers # {}
ASSUME ShapesAssumption == None \notin Shapes
ASSUME ResultsAssumption ==
    /\ Results \subseteq Result
    /\ \A res \in Results : res.judged => ~res.verified
ASSUME BoundsAssumption ==
    /\ MinSuccesses \in Nat \ {0} /\ MinObservations \in Nat
    /\ MaxIterations \in Nat /\ Limit \in Nat \ {0} /\ MaxRuns \in Nat

VARIABLES
    ledger,     \* the outcomes recorded for the category, counted
    store,      \* store[s]: the latest record of the plan cache for shape s
    spent,      \* the planner calls in today's cost ledger
    started,    \* the tasks started
    pc,         \* pc[w]: where the worker is in its run
    school,     \* school[w]: an open school case: no cache, no self-fix
    attempt,    \* attempt[w]: 1 for the first _run_once, then the retries
    sure,       \* sure[w]: is_confident on the aggregate the runtime holds
    loaded, view,   \* the plan-cache entries the runtime holds (_entries)
    served,     \* served[w]: the shape of the cache entry used, else None
    shape,      \* shape[w]: the shape of the plan
    refused,    \* refused[w]: result.refusal is a model_error
    judged,     \* judged[w]: the judge failed the attempt
    outcome     \* outcome[w]: the outcome recorded for the attempt
files == <<ledger, store, spent>>
run == <<school, attempt>>
caches == <<sure, loaded, view>>
plan == <<served, shape, refused>>
verdict == <<judged, outcome>>
vars == <<ledger, store, spent, started, pc, school, attempt, sure, loaded, view,
          served, shape, refused, judged, outcome>>

Outcomes == {"success", "failure", "human_rejected", "infeasible"}
Absent == [status |-> "absent", successes |-> 0]
NoEntries == [s \in Shapes |-> Absent]

Init ==
    /\ ledger = [o \in Outcomes |-> 0]
    /\ store = NoEntries
    /\ spent = 0
    /\ started = 0
    /\ pc = [w \in Workers |-> "idle"]
    /\ school = [w \in Workers |-> FALSE]
    /\ attempt = [w \in Workers |-> 1]
    /\ sure = [w \in Workers |-> "unread"]
    /\ loaded = [w \in Workers |-> FALSE]
    /\ view = [w \in Workers |-> NoEntries]
    /\ served = [w \in Workers |-> None]
    /\ shape = [w \in Workers |-> None]
    /\ refused = [w \in Workers |-> FALSE]
    /\ judged = [w \in Workers |-> FALSE]
    /\ outcome = [w \in Workers |-> None]

Goto(w, label) == pc' = [pc EXCEPT ![w] = label]

(***************************************************************************)
(* The run.                                                                 *)
(***************************************************************************)
Start(w) ==
    /\ pc[w] = "idle" /\ started < MaxRuns
    /\ started' = started + 1
    /\ \E b \in BOOLEAN : school' = [school EXCEPT ![w] = b]
    /\ Goto(w, "ready")
    /\ UNCHANGED <<files, attempt, caches, plan, verdict>>

Counted(o) == ledger' = [ledger EXCEPT ![o] = @ + 1]

\* 101A blocks the task before it is planned; the outcome is recorded at once.
HardBlocked(w) ==
    /\ pc[w] = "ready"
    /\ \E o \in {"failure", "infeasible"} :
           Counted(o) /\ outcome' = [outcome EXCEPT ![w] = o]
    /\ sure' = [sure EXCEPT ![w] = "unread"]
    /\ Goto(w, "end")
    /\ UNCHANGED <<store, spent, started, run, loaded, view, plan, judged>>

\* A workflow, a clarification, a greeting, a built-in: planned without 102.
DirectPlan(w) ==
    /\ pc[w] = "ready"
    /\ \E s \in Shapes : shape' = [shape EXCEPT ![w] = s]
    /\ Goto(w, "executing")
    /\ UNCHANGED <<files, started, run, caches, served, refused, verdict>>

Total == ledger["success"] + ledger["failure"] + ledger["human_rejected"] + ledger["infeasible"]
\* The smoothed score is at least 0.7; infeasible outcomes only count as observations.
Confident ==
    /\ Total >= MinObservations
    /\ 10 * (ledger["success"] + 1)
           >= 7 * (ledger["success"] + ledger["failure"] + ledger["human_rejected"] + 2)

\* The aggregate is read from the ledger unless the runtime still holds one.
CheckConfidence(w) ==
    /\ pc[w] = "ready"
    /\ IF school[w]
       THEN UNCHANGED sure /\ Goto(w, "budget")
       ELSE LET now == IF sure[w] # "unread" THEN sure[w]
                       ELSE IF Confident THEN "yes" ELSE "no"
            IN  /\ sure' = [sure EXCEPT ![w] = now]
                /\ Goto(w, IF now = "yes" THEN "lookup" ELSE "budget")
    /\ UNCHANGED <<files, started, run, loaded, view, plan, verdict>>

\* PlanCache._load: the entries of the file, unless the runtime still holds some.
Loaded(w) == /\ loaded' = [loaded EXCEPT ![w] = TRUE]
             /\ view' = [view EXCEPT ![w] = IF loaded[w] THEN @ ELSE store]

\* EXECUTE_DIRECT: any active entry of the category stands in for the planner.
Lookup(w) ==
    /\ pc[w] = "lookup"
    /\ Loaded(w)
    /\ LET active == {s \in Shapes : view'[w][s].status = "active"}
       IN  \/ /\ active = {}
              /\ Goto(w, "budget")
              /\ UNCHANGED <<served, shape>>
           \/ \E s \in active :
                  /\ served' = [served EXCEPT ![w] = s]
                  /\ shape' = [shape EXCEPT ![w] = s]
                  /\ Goto(w, "executing")
    /\ UNCHANGED <<files, started, run, sure, refused, verdict>>

\* The plan recovered by 102R from a refusal; model: the refusal was a model_error.
Recovered(w, model) ==
    /\ \E s \in Shapes : shape' = [shape EXCEPT ![w] = s]
    /\ refused' = [refused EXCEPT ![w] = model]
    /\ Goto(w, "executing")

\* Mutant: the limit itself still fits.
AllowsTheLimit == spent <= Limit
\* CostGuard.allow("planner_calls").
BudgetAllows == spent < Limit

\* An exhausted budget is a model_error that was never sent.
CheckBudget(w) ==
    /\ pc[w] = "budget"
    /\ \/ BudgetAllows /\ Goto(w, "planning") /\ UNCHANGED <<shape, refused>>
       \/ ~BudgetAllows /\ Recovered(w, TRUE)
    /\ UNCHANGED <<files, started, run, caches, served, verdict>>

\* The planner returned, and only now the call is recorded (CostGuard.record).
PlannerReturns(w) ==
    /\ pc[w] = "planning"
    /\ spent' = spent + 1
    /\ \/ Recovered(w, FALSE)                   \* a plan, or a refusal of another kind
       \/ Recovered(w, TRUE)
       \/ /\ Goto(w, "end")                     \* a hard-safety refusal: RED, escalated
          /\ UNCHANGED <<shape, refused>>
    /\ UNCHANGED <<ledger, store, started, run, caches, served, verdict>>

\* The plan only gathered information: the planner is called once more with what
\* it found.  No budget is asked for and the call is not recorded.
FollowUp(w) ==
    /\ pc[w] = "executing"
    /\ Goto(w, "following")
    /\ UNCHANGED <<files, started, run, caches, plan, verdict>>

(***************************************************************************)
(* _record_task_outcome.                                                    *)
(***************************************************************************)
OutcomeOf(res) ==
    CASE res.infeasible -> "infeasible"
      [] ~res.infeasible /\ res.rejected -> "human_rejected"
      [] OTHER -> IF res.success /\ ~res.failed /\ res.verified THEN "success" ELSE "failure"

\* The plan cache hears of every success of a plan that may be cached, and of the
\* failure of a served plan.
Feedback(w, o, cacheable) ==
    cacheable /\ (o = "success" \/ (o = "failure" /\ served[w] # None))

\* A run with a RED decision records nothing.
Settled(w, res, cacheable) ==
    /\ pc[w] = "following" => res.success
    /\ school[w] => ~cacheable
    /\ served[w] # None => cacheable
    /\ judged' = [judged EXCEPT ![w] = res.judged]
    /\ \/ /\ res.red
          /\ Goto(w, "end")
          /\ UNCHANGED <<ledger, outcome, sure>>
       \/ /\ ~res.red
          /\ Counted(OutcomeOf(res))
          /\ outcome' = [outcome EXCEPT ![w] = OutcomeOf(res)]
          /\ sure' = [sure EXCEPT ![w] = "unread"]
          /\ Goto(w, IF Feedback(w, OutcomeOf(res), cacheable) THEN "load" ELSE "end")

RecordOutcome(w) ==
    /\ pc[w] \in {"executing", "following"}
    /\ \E res \in Results, cacheable \in BOOLEAN : Settled(w, res, cacheable)
    /\ UNCHANGED <<store, spent, started, run, loaded, view, plan>>

LoadPlans(w) ==
    /\ pc[w] = "load"
    /\ Loaded(w)
    /\ Goto(w, "append")
    /\ UNCHANGED <<files, started, run, sure, plan, verdict>>

\* Mutant: a success makes the entry active whatever its count.
SucceededAtOnce(e) == [status |-> "active", successes |-> e.successes + 1]
\* record_success: warming or invalidated entries are (re)activated by the total.
Succeeded(e) ==
    LET n == e.successes + 1
    IN  [status |-> IF n >= MinSuccesses THEN "active"
                    ELSE IF e.status = "absent" THEN "warming" ELSE e.status,
         successes |-> n]
\* record_failure: an entry that is not there is not created.
FailedEntry(e) == [e EXCEPT !.status = "invalidated"]

\* The whole record is appended, as computed from the entries the runtime holds.
AppendPlan(w) ==
    /\ pc[w] = "append"
    /\ LET s == shape[w]
           e == view[w][s]
       IN  store' = [store EXCEPT ![s] = IF outcome[w] = "success" THEN Succeeded(e)
                                         ELSE IF e.status = "absent" THEN @ ELSE FailedEntry(e)]
    /\ loaded' = [loaded EXCEPT ![w] = FALSE]
    /\ view' = [view EXCEPT ![w] = NoEntries]
    /\ Goto(w, "end")
    /\ UNCHANGED <<ledger, spent, started, run, sure, plan, verdict>>

(***************************************************************************)
(* Runtime.run after an attempt.                                            *)
(***************************************************************************)
\* Mutant: one iteration too many.
RetryingOnceMore(w) ==
    /\ judged[w] /\ ~school[w]
    /\ ~(attempt[w] = 1 /\ refused[w])
    /\ attempt[w] <= MaxIterations + 1
\* The model_error of the first attempt ends the run; the loop does not look again.
Retrying(w) ==
    /\ judged[w] /\ ~school[w]
    /\ ~(attempt[w] = 1 /\ refused[w])
    /\ attempt[w] <= MaxIterations

\* What an attempt leaves in its own result, cleared for the next one.
Cleared(w) ==
    /\ served' = [served EXCEPT ![w] = None]
    /\ shape' = [shape EXCEPT ![w] = None]
    /\ refused' = [refused EXCEPT ![w] = FALSE]
    /\ judged' = [judged EXCEPT ![w] = FALSE]
    /\ outcome' = [outcome EXCEPT ![w] = None]

Retry(w) ==
    /\ pc[w] = "end" /\ Retrying(w)
    /\ attempt' = [attempt EXCEPT ![w] = @ + 1]
    /\ Goto(w, "ready") /\ Cleared(w)
    /\ UNCHANGED <<files, started, school, caches>>

\* Mutant: the loop is left only by a passing judge.
FinishOncePassed(w) ==
    /\ pc[w] = "end" /\ ~judged[w]
    /\ attempt' = [attempt EXCEPT ![w] = 1]
    /\ school' = [school EXCEPT ![w] = FALSE]
    /\ sure' = [sure EXCEPT ![w] = "unread"]
    /\ loaded' = [loaded EXCEPT ![w] = FALSE]
    /\ view' = [view EXCEPT ![w] = NoEntries]
    /\ Goto(w, "idle") /\ Cleared(w)
    /\ UNCHANGED <<files, started>>
\* The worker is free, and its runtime with its caches is gone.
Finish(w) ==
    /\ pc[w] = "end" /\ ~Retrying(w)
    /\ attempt' = [attempt EXCEPT ![w] = 1]
    /\ school' = [school EXCEPT ![w] = FALSE]
    /\ sure' = [sure EXCEPT ![w] = "unread"]
    /\ loaded' = [loaded EXCEPT ![w] = FALSE]
    /\ view' = [view EXCEPT ![w] = NoEntries]
    /\ Goto(w, "idle") /\ Cleared(w)
    /\ UNCHANGED <<files, started>>

\* The process dies and starts again: the runs are gone, the files are not.
Restart ==
    /\ \E w \in Workers : pc[w] # "idle"
    /\ pc' = [w \in Workers |-> "idle"]
    /\ school' = [w \in Workers |-> FALSE]
    /\ attempt' = [w \in Workers |-> 1]
    /\ sure' = [w \in Workers |-> "unread"]
    /\ loaded' = [w \in Workers |-> FALSE]
    /\ view' = [w \in Workers |-> NoEntries]
    /\ served' = [w \in Workers |-> None]
    /\ shape' = [w \in Workers |-> None]
    /\ refused' = [w \in Workers |-> FALSE]
    /\ judged' = [w \in Workers |-> FALSE]
    /\ outcome' = [w \in Workers |-> None]
    /\ UNCHANGED <<files, started>>

Proceed(w) ==
    \/ HardBlocked(w) \/ DirectPlan(w) \/ CheckConfidence(w) \/ Lookup(w)
    \/ CheckBudget(w) \/ PlannerReturns(w) \/ FollowUp(w) \/ RecordOutcome(w)
    \/ LoadPlans(w) \/ AppendPlan(w) \/ Retry(w) \/ Finish(w)

Next == (\E w \in Workers : Start(w) \/ Proceed(w)) \/ Restart

\* A thread keeps running: the planner answers or times out, the actions end.
Spec == Init /\ [][Next]_vars /\ \A w \in Workers : WF_vars(Proceed(w))

-------------------------------------------------------------------------------
Labels == {"idle", "ready", "lookup", "budget", "planning", "executing", "following",
           "load", "append", "end"}
Entry == [status : {"absent", "warming", "active", "invalidated"},
          successes : Nat]

TypeOK ==
    /\ ledger \in [Outcomes -> Nat]
    /\ store \in [Shapes -> Entry]
    /\ spent \in Nat /\ started \in 0..MaxRuns
    /\ pc \in [Workers -> Labels]
    /\ school \in [Workers -> BOOLEAN]
    /\ attempt \in [Workers -> 1..MaxIterations + 1]
    /\ sure \in [Workers -> {"unread", "yes", "no"}]
    /\ loaded \in [Workers -> BOOLEAN]
    /\ view \in [Workers -> [Shapes -> Entry]]
    /\ served \in [Workers -> Shapes \union {None}]
    /\ shape \in [Workers -> Shapes \union {None}]
    /\ refused \in [Workers -> BOOLEAN] /\ judged \in [Workers -> BOOLEAN]
    /\ outcome \in [Workers -> Outcomes \union {None}]
    /\ \A w \in Workers : pc[w] \in {"executing", "following", "load", "append"} => shape[w] # None

\* The budget is checked before the call and counted after it, so threads may pass
\* the check together: the first calls exceed the limit by at most the other
\* threads, and never by more, whatever the retries.
OvershootIsBounded ==
    spent + Cardinality({w \in Workers : pc[w] = "planning"}) <= Limit + Cardinality(Workers) - 1

\* A plan may be served, or is being served, without the planner only after that
\* many runs of the category were recorded as successes, whatever records stale
\* runtimes wrote over each other's.
ServedIsEarned ==
    \A s \in Shapes :
        store[s].status = "active" \/ (\E w \in Workers : served[w] = s)
            => ledger["success"] >= MinSuccesses

\* A run ends: the self-fix loop gives up.
EveryRunEnds == \A w \in Workers : (pc[w] # "idle") ~> (pc[w] = "idle")

\* configs/cost_guard.json: over budget the planner returns a model_error refusal,
\* and "self-fix will NOT retry it".
RefusalIsNotRetried ==
    [][\A w \in Workers : pc[w] = "end" /\ refused[w] => pc'[w] # "ready"]_vars
===============================================================================
