# A verification project for GovGuard-MY (TEOW AGL)

The repository is a governed agent: a teacher states a goal, a planner (a language
model) proposes tool actions, and a chain of modules decides for each action whether
it runs silently, waits for a human, or does not run. Around the runtime stand a
FastAPI server that runs one thread per task, a page that polls it, and a set of
JSON/JSONL files through which one task teaches the next.

This directory holds TLA+ modules translated from that code, TLC configurations that
check them on small instances, and theorems about them, proved with TLAPS for every
value of the constants. `PROJECT.json` maps every definition to its source lines, and
lists the hazards of the code, the runs, the theorems and the findings.

Contents: [1 Inventory](#1-inventory), [2 Modules](#2-the-modules-and-the-code),
[3 Runs](#3-the-runs), [4 Bounds](#4-bounds), [5 Fairness](#5-fairness),
[6 Proofs](#6-the-proofs), [7 Findings](#7-what-the-work-found),
[8 Limits](#8-what-is-abstracted-and-what-is-left-out), [9 Plan](#9-plan).

---

## 1 Inventory

Paths are relative to the repository's root. `RT` is `teow_agl/runtime.py`, `APP` is
`server/app.py`.

### 1.1 Components, their state and what makes them correct

| Component | State it keeps | Operations | What must hold |
|---|---|---|---|
| **101A/101C/106 intake and pre-governance** | none (rules from `configs/`) | `PreGovernance.check`, hard floors, semantic classifier | a hard floor is never relaxed by the semantic verdict |
| **101B action risk** | weights, boundaries | `assess`: features, score, bucket | the score's discounts never turn blocked work into silent work |
| **101D data-use guard** | none; the labels of a task (`RT._understand_data_use`) | `assess`, verdict `NO_OVERRIDE/GREEN/INFEASIBLE/RED` | its verdict is a floor for 103; a model's labels only tighten it; somebody's number is not published; a private delivery is asked, not blocked |
| **103 governance** | tickets issued, profile, learned policy (read) | `decide`, `issue_ticket_after_approval`, `verify` | mandatory approvals and hard blocks survive learning; rejections never relax |
| **105 human gate** | `_pending`, `_events`, `_decisions` under one lock | `review` (worker), `decide` (HTTP), `pending_snapshot` | approved only by an accepted answer, no lost wake-up, no stray decision, every wait ends |
| **Action loop, 107 executor, 108 emergency** | `result.decisions`, `executions`, `emergency.halted` | `RT._execute_actions`, `execute` | nothing runs unauthorised; a release follows its artifact; a halted runtime does nothing; the plan is worked off |
| **Task lifecycle (server)** | `_app_state["tasks"]` under a lock, `tasks.jsonl` | `start_task`, its runner, `get_task`, `confirm_response_pack`, `add_deliverables`, restart | hard-stopped cases end; an outcome is changed by its own runner alone; the store holds nothing half-done; children keep their case |
| **102T task tree** | sub-goals, their status | `decompose`, `topo_sort`, `RT._run_tree` | topological order, cycles refused, no leaf after a failure, the parent shows the worst leaf |
| **Run pipeline (`RT.run`, `_run_once`)** | one task: plan, results, verdict, attempt | intake, choice of a plan, school contract, writing, execution, follow-up, 110, judge, retry | a run taught as a success made its pack, verified or not; a pass means the pack was made; a school goal stays local; a governed case acts once; the task returns |
| **Run loop and learning stores** | `outcome_ledger`, plan cache, cost ledger; a private copy in every runtime | `RT.run`, `_record_task_outcome`, `PlanCache`, `SubjectConfidence`, `CostGuard` | the budget is overshot by no more than the race allows; a cached plan was earned; runs end |
| 102 planner, adapters | circuit breaker, JSON schemas | prompts, HTTP | external; its answers are nondeterministic here |
| **102B/102S content synthesizer** | the texts of a bundle in hand, `_school_provider_unavailable` | write, check, audit, repair, keep, replace or hold, audit of the whole pack | a recorded audit is about the text that ships; a faulted text is replaced; nothing is asked after an outage; every artifact settles |
| 102R refusal recovery | none | staged recovery of a refusal | a hard-safety refusal is escalated |
| 102W workflow resolver | workflow cards | match | a workflow's plan passes the same gates as any other |
| **104 patches, curator, 109B and SOP proposals** | `proposals.jsonl`, `curator_proposals.jsonl`, the learned policy file, one shared dict for each proposal | draft, register, decide, apply, restart | every effect was approved; one SOP waits for a workflow; a decision answered with success survives |
| **Skill manager, 109 reflector, user memory** | an append-only skill index, notebooks with a limit | retrieve, count, archive, supersede, sweep; read, update, write back | counters never exceed what happened; nothing leaves retrieval unasked |
| **110 verifier** | none | scope, coverage of the pack, rules over artifacts, judge | no pass without the pack; a hard rule is not outvoted |
| **School case context** | `case_context` of a task: facts, registry of artifacts, topics | relate a message, bind, merge, restore | facts stay in their case; a follow-up keeps what it inherits |
| **School situation compiler, floors, release intent** | none outside the task | floors from the words, compile, response pack, critical question | a danger in the words is heard and keeps its floor; an answer stands; a release was commanded; a broadcast is rewritten |
| School artifact guard, privacy, input semantics | none | harden texts, link releases | a release links to its artifact |
| Tools, retrieval, trace, utilities, authentication, UI, scripts, evaluation | files, indexes, sessions | I/O | not governance state |

`PROJECT.json` lists all of them, with the source files and, for each part that is not
modelled, the reason.

### 1.2 How they interact

```
 browser ──POST /api/tasks──────────> APP.start_task ──thread──> runner
    │                                    │  lock: _app_state        │
    │<──poll GET /api/tasks/{id}─────────┘                          │ RT.run  (self-fix: up to n attempts)
    │                                                               │   └─ _run_tree → run() per leaf
    │                                                               │        └─ _run_once
    │                                                               │             101A → plan cache │ budget → 102 → 102R
    │                                                               │             _execute_actions:
    │                                                               │               guard, 101D, 101B, 103
    │──POST .../decide──> WebHumanGate.decide                       │               105 review() ── blocks
    │                       _pending/_events/_decisions <───────────┤               107 execute
    │                       (one gate for the whole process)        │             110 verify, judge
    │──POST .../confirm─> settle the question, then start_task      │             _record_task_outcome
    │                                                               ▼
    └───────────────────────────────────────── tasks.jsonl, outcome ledger, plan cache, cost ledger
```

* **Threads.** Every task has a daemon thread. All of them share one gate, the
  application lock, the files, and nothing else: every task builds its own runtime, with
  its own read caches of the files.
* **Waiting.** The worker's only wait is `ev.wait(timeout)` in `review`; the critical
  section before it and the one after it are separate, and HTTP threads run in between.
* **Files.** The task store has one lock for the process and the cost ledger one for
  the module; the outcome ledger and the plan cache have one per runtime, so nothing
  orders the writes of two tasks but the append itself. Whole records are appended that
  were computed before (`plan_cache`, `_state_to_dict`).
* **Crashes.** A restart replays `tasks.jsonl` and loses threads, gate and caches.

### 1.3 What is hard

* an answer that arrives after the timeout and before the second critical section;
  two operators who disagree; a call for the wrong task;
* tickets and approvals of concurrent tasks on one gate;
* a release action placed before its artifact, or after an artifact that was held;
* two kinds of discount (confidence in the score, a learned tier on the route) that
  act on the same decision;
* a record read under the lock and written outside it, while another thread writes;
* a question that is settled first and continued afterwards, in two steps that may be
  separated by a refusal or a restart;
* a decomposition by a language model: cycles, self-loops, unknown ids;
* check and record of the budget around a call that takes seconds;
* whole records written back from a stale copy of the plan cache;
* retry loops controlled by a judge's opinion;
* one shared dict for each proposal: an append writes whatever another operator has made
  of it by then; a learned policy that is read, changed and written back whole;
* locks that belong to one instance while every task builds its own instances;
* texts written by one call for several files, audited as a whole, repaired one by one:
  which audit is about which version of which file;
* a provider that disappears between the writing and the audit;
* a conversation whose third message must inherit from the right one of two cases, with
  facts corrected, a question answered and a release refused on the way;
* floors that may only raise, written as a sequence of updates of which some overwrite.

---

## 2 The modules and the code

| Module | Models | Composes |
|---|---|---|
| `ActionRouting` | 101B and 103 as operators | |
| `DataUse` | 101D as operators, the labels of a task | |
| `RoutingChecks` | one task's labels and one decision, and what routing promises | EXTENDS `ActionRouting`, `DataUse` |
| `HumanApproval` | *abstract*: what any human gate promises | |
| `WebHumanGate` | `module_105_web_gate.py`, `decide` in `APP` | implements `HumanApproval` |
| `GovernedExecution` | *abstract*: what the governed pipeline promises | |
| `ActionLoop` | `RT._execute_actions`, 107 | INSTANCE `WebHumanGate`; implements `GovernedExecution` |
| `TaskLifecycle` | `start_task` … `confirm_response_pack` in `APP`, `persistence.py` | |
| `TaskTree` | 102T, `RT._run_tree` | |
| `TaskLearning` | `RT.run`, the learning half of `_run_once`, `_record_task_outcome`, the three policy files | |
| `OutputVerifier` | module 110 as operators | |
| `RunPipeline` | `RT.run` and `_run_once` from end to end, with its leaves and its retry | EXTENDS `OutputVerifier` |
| `SchoolBundle` | 102S, `enrich_school_plan`: write, audit, repair, keep | |
| `ProposalDecisions` | 104's patches, the curator queue and the SOPs, `decide_patch`, `curator_decide` | |
| `LearnedStores` | the skill index and the notebooks | |
| `CaseContinuity` | how a message is tied to a case and what it inherits | |
| `SourceFloors` | what the words of a message alone establish | EXTENDS `CaseContinuity` |
| `ResponsePack` | the situation compiler and the response pack | EXTENDS `SourceFloors` |
| `SchoolCase` | conversations: `start_task`, `confirm_response_pack`, `add_deliverables` over the compiler | EXTENDS `ResponsePack` |
| `MC…` | the constants of each run | EXTENDS the module it instantiates |
| `…_proofs` | theorems and proofs | EXTENDS the module and TLAPS |
| `Runtime_proofs` | the proofs of both modules of the runtime | EXTENDS `TaskTree`, `RunPipeline` |
| `Knowledge_proofs` | the proofs of both modules of what is learned from users and runs | EXTENDS `ProposalDecisions`, `LearnedStores` |
| `School_proofs` | the proofs of the bundle and of the conversation | EXTENDS `SchoolBundle`, `SchoolCase` |

In every module, an operator whose comment starts with *Mutant* is a plausible wrong
version of the definition after it. It is used by no specification; putting it in the
definition's place makes the property named in `PROJECT.json` fail, which is how each
property is known to say something about the code.

### ActionRouting, DataUse, RoutingChecks

One decision is a record `in`: what 101A said, the traits 101B reads off the action,
the backup status, the confidence flag, the learned adjustment, 101D's verdict, and two
flags (contract draft, sensitive goal). `Features`, `Score`, `RouteFor` are 101B with
the shipped `configs/risk_weights.json`; `Score` writes its nineteen terms out, so that
theorems can speak of it. `PolicyFloor`, `Learned`, `Arbitrated`,
`Decide` are 103, in the order of its code: hard blocks, mandatory approvals, learned
adjustment with its caps, policy floor, fail-safe. Text matching is replaced by the
traits it produces. Numbers are the shipped ones: they decide the buckets, so they are
not abstracted.

`DataUse` is 101D. A text is the set of its *readings* (what the guard's term lists and
patterns find in it), an action the record of the metadata the guard looks at. `Assess`
is the guard's list of rules in its order; `Concepts` says whose labels count (an empty
list of an action's own hides the task's); `Understood` says which labels a task may get
from the classifier or from a live model. `RoutingChecks` runs one task in two steps,
`Understand` and `Govern`, and `Governed` joins the two verdicts as `_execute_actions`
does: RED and INFEASIBLE of the guard settle the action, GREEN is a floor for 103.

### HumanApproval, WebHumanGate

| Code | Model |
|---|---|
| `_pending`, `_events`, `_decisions` | `pending`, `signal` (a function on the registered ids), `decisions` |
| `review`: first critical section | `Register` |
| `ev.wait(timeout)` returns True / False | `WakeSignaled` / `WakeTimedOut` |
| `review`: second critical section and the status after it | `Collect`, `Verdict` |
| HTTP `decide`: the snapshot test | `Snapshot` |
| HTTP `decide`: `gate.decide` | `DecideOk`, `DecideGone` |

`timedOut` and `acked` are the local `timed_out` and a history of the answers
that calls saw accepted. The refinement maps `pending`, `acked` and `status` to the
abstract `open`, `given`, `verdict`. An approval id is drawn afresh by 103 for each
decision, so `review` is called once for each.

### GovernedExecution, ActionLoop

A task's plan is a sequence of actions; `Proposals` says what the planner put in them
(held artifact, missing prerequisite, link, guard verdict, 103's route, kind of tool).
Each action is one pass of the loop body: `Block` (RED, INFEASIBLE, halt), `Permit`
(BLUE), `AskHuman` / `Wake` / `Collect` (GREEN, on the shared gate), `Execute`. `RouteOf`
is the order of the early exits. `LinkedSuccess` is the check of a release against the
executions so far. The ticket is abstracted to who authorised it, because it is issued
and verified by the same thread with nothing in between. `entries` counts how often a
decision is appended to `result.decisions` (a RED one twice, see the findings).

The abstract `GovernedExecution` knows only that an action is classified once, that one
which asks runs only after consent, a refused one never runs, and none runs twice.

### TaskLifecycle

| Code | Model |
|---|---|
| `_app_state["tasks"][id]` | `task[t]`: status, `ready` (a compiled case context), case, parent |
| `tasks.jsonl` replayed | `store[t]`: the last record |
| the runner between its steps | `runner[t]`, `write[t]` (record read, not yet appended) |
| `start_task`, `add_deliverables` | `StartFresh`, `StartFollowUp`, `AddDeliverables`, `Launch` |
| the runner | `Prepare`, `Compile`, `AskClarification`, `PrepareRaises`, `HardStop`, `AskHuman`, `ReviewEnds`, `RunAsksNobody`, `FinishRun`, `ReadRecord`, `AppendRecord` |
| the runner's `try` and its handler: the run, the results under the lock, registration, the append | `RunRaises` (from `govern`, `finish`, `complete`), `SaveRaises` (from `save`) |
| an append that raises outside the `try`, after a question or an error | `AppendRaises` |
| `get_task`'s correction of the status | `GetTask` |
| `confirm_response_pack` | `Confirm`, `ConfirmRead`, `ConfirmAppend`, `ConfirmLaunch`, `ConfirmRefused` |
| process restart, `_load_initial_state` | `Restart` |

The result of a run is read and appended inside the `try` (`complete`, `save`), a question
and an error outside it (`read`, `append`). So the code does turn a done task into an error
while the server stays up, when registering or storing its result raises.
`SettledStaysSettled` says that nothing else changes an outcome.

`origin` and `hardStop` are history: how a task was started, and which runs 101A stopped.
Ids are drawn (`app.py:926`) and never the word for "no parent", which is the module's one
assumption on `Tasks`.

### TaskTree

`Decompose` drops unknown ids; `Seed`, `Relax`, `Pop` are Kahn's algorithm one visit of
a leaf at a time; `Sorted` compares the lengths. `SkipLeaf`, `StartLeaf`, `LeafReturns`,
`LeafRaises`, `EndTree` are `_run_tree`. A leaf's run is what `_run_tree` reads of it:
statuses of executions, the verifier's verdict, the route, and whether it raised.

### TaskLearning

A worker runs tasks one after another. `CheckConfidence`, `Lookup`, `CheckBudget`,
`PlannerReturns`, `FollowUp` are the choice of a plan in `_run_once`; `HardBlocked` and
`DirectPlan` its two short cuts; `RecordOutcome`, `LoadPlans`, `AppendPlan` are
`_record_task_outcome` with the load and the append of the plan cache as two steps;
`Retry`, `Finish` are the self-fix loop of `run`. `sure`, `loaded`, `view` are the
copies the runtime keeps (`_cache`, `_entries`), which other runtimes' writes do not
refresh. A `Restart` drops every run and keeps the files.

### OutputVerifier, RunPipeline

A request is what intake distinguishes in a goal (floor, soft rule, category, checked
school semantics, compiled case, selected deliverables, and `gap`: an output the goal
declares is in none of them, which 110 reports as an incomplete intent contract). An action is its kind, the
deliverable it carries and who wrote it; an execution is one of the fates `ActionLoop`
allows (`Fates`). A plan maps the places of its actions to them; the contracts that
rewrite a plan keep places, so that an action can be followed from the planner to the
verifier, and none of the checks of 110 depends on more than who stands where. A shell
made for a deliverable has that deliverable for its place, the chat cover of a school
plan has 0.

| Code | Model |
|---|---|
| 101A before and after the school semantics | `PreAssessment`, `Reassessed` |
| hard block, admission | `Block`, `Admit` |
| who supplies the plan: workflow, direct answer, cache, planner | `Suppliers`, `Supply`, `MakePlan` |
| 102T and the leaves' re-entry | `SplitGoal`, `RunLeaf`, `NextLeaf` |
| school contract: reconcile (by name and by shape: `Fits`), sanitise, normalise | `Reconciled`, `Sanitized`, `Normalized`, `Contracted` |
| 102B's marks on what it wrote | `Written` |
| 102R | `Escalate` |
| execution, the one follow-up plan | `Execute`, `Followup`, `Settle` |
| 110, the judge | `VerifyRun` with `Verify`, `Judged`, `Covered`, `Disposition` |
| `_record_task_outcome` | `Record` with `RunOutcome` |
| the self-fix loop | `SelfFix`, `Return` |

`refused`, `learned` and `past` are what later steps read of earlier ones: a refusal of
the first attempt, the outcomes taught, the actions of the plan before the follow-up.
Refusal and case are looked at after the first attempt only (`MayRetry`), as in `run`.

`VerifyRun` may also end without a verdict: the code swallows an exception of the verifier
and goes on as if it had been switched off, and a missing verdict is not a failed one. A
success can then be taught that nothing verified (a finding, `SuccessWasVerified`). What
holds of every success, verified or not, is `SuccessMadeThePack`, for which contract,
execution and record have to agree: `learned` keeps of each outcome whether the whole pack
was made and whether a verification passed.

### SchoolBundle

`Write` is one call of the writer and the deterministic checks of every text, `Audit`
one answer of the auditor read twice, `Retry` the next attempt with what it must repair,
`WrongKeys` and `Outage` the two ways a call fails. After the attempts `AuditRest`
audits the clean siblings of a bad file once and `Close` keeps, replaces or holds each
text. A pack larger than a batch starts the next batch (`Proceed`) and ends with
`AuditPack` or, without a usable provider, `GiveUp`. `cleared` is history: the texts an
audit read, in this version, and named nothing in. It ties `out`, the metadata 110
trusts later, to what really happened.

### ProposalDecisions

`mem` is the dict every endpoint shares, `disk` the last record replayed from the JSONL
file, `torn` a file whose last line has no end. `Evaluate`, `RunSkillDistiller`,
`ProposeWorkflowSop`, `RunCuration` draft; `Register` puts a draft into the queue under
the lock. `decide_patch` is `TakeUp`, `RejectPatch`, `BuildRuntime` (the fresh runtime
reads the policy), `ApplyPatch`, `Mark`, `Persist`; `curator_decide` is `TakeUp`,
`DecideProposal`, `ApplyProposal`, `Mark`, `Persist`. Steps that the code takes
without the lock are steps of the model. `Restart` replays the files, torn lines
included; `EditWorkflow` is a workflow whose steps changed after its SOP.

### LearnedStores

`index` is the latest record of each skill, `copy` what a run is about to append: the
record as it read it, and the change. `Retrieve`, `BumpUsageSuccess`, `ArchiveSkill`,
`MarkStale`, `SweepProposes`, `ApproveProposal` read, `AppendIndex` writes. `Reflect`,
`ReadNotebook`, `WriteNotebook` are 109 and `UserMemory`, a page read whole and written
back whole. `uses`, `wins` and `asked` are the truth the records are compared with.

### CaseContinuity, SourceFloors, ResponsePack, SchoolCase

A message is a record: what the patterns read from its words (`reads`, `cues`,
`topics`, `says`, the clauses about release) and what the classifier claims (`family`,
`severity`, `signals`, `outputs`, `facts`). The two are kept apart because the code's
promises are about which may overrule which.

| Code | Model |
|---|---|
| `module_school_case_context.py`: relation, binding, merge, registry | `CaseContinuity`: `ResolveRelation`, `ConfirmBinding`, `MergeFacts`, `CaseRegistry`, `MergeFollowUp`, `CaseContext` |
| `module_school_fallback_floors.py`, `_safe_fallbacks`, what the words support | `SourceFloors`: the four tables of pattern rules, `SafetyFloors`, `LexicalFloors`, `Unsupported`, `Ceiling`, `Floored` |
| `compile_school_situation` | `ResponsePack`: `WithFloors`, `WithAnswer`, `Peopled` (who is affected when nobody was named), `Reanswered`, `Commanded`, `CompileSituation` |
| the files of a pack named again by a follow-up | `CaseContinuity`: `RestorePackWide`, `OnePerRole` |
| `build_response_pack` | the outputs that count (`Structured`: no negated role; `Wanted`: of an unsafe broadcast what the source named, if it named any), the contracts by signal (`DangerContracts`, `MissingContracts`, …), `Requested`, `AddAll` (one entry for each role, the strongest origin), `Rewritten`, `SelectedEntry`, `BuildPack` |
| the one critical question | `CriticalQuestion` |
| server endpoints | `SchoolCase`: `StartTask`, `ConfirmResponsePack`, `AddDeliverables`; `Finish`, `Decide` are the run and its human, of which only the status matters here |

The pattern rules are data in the code, and data here: a rule says which patterns must
match, what it adds and how it treats the severity, and `AddFacet` applies the rules in
their order.

---

## 3 The runs

All are explored exhaustively.

| Run | Instance | Distinct states | What it shows |
|---|---|---|---|
| `routing` | 9 interacting traits × backup × confidence × adjustment × draft × sensitive under two data uses; the data uses whose rules interact, under 4 decisions and every way a task gets its labels | 4,588,518 | learning never silences a mandatory or blocked action; a model's labels only tighten; somebody's number is never published; a private delivery is asked |
| `gate` | 2 approvals of 2 tasks, 3 browser calls | 273,136 | `HumanApproval` is implemented: no approval without a human's accepted answer; every review ends |
| `loop` | 2 tasks, 3 actions, 2 calls, 5 pairs of proposals, halted or not | 284,240 | a release follows its artifact; `GovernedExecution` is implemented; plans are worked off |
| `lifecycle` | parent and child, 2 confirmations, 1 restart, exceptions before and after the outcome | 123,391 | hard-stopped cases end, the store holds no ghost, one confirmation wins, every task settles |
| `tree` | 4 leaves, 3 of them with any dependencies among themselves | 88,369 | no leaf after a failed dependency, the worst route is carried |
| `learning` | 2 threads, 3 tasks, 1 plan shape, budget 1, 1 retry | 254,636 | the overshoot of the budget is bounded by the other threads, served plans are earned |
| `decisions` | 2 patches, a skill, a clean-up, 2 SOPs of one workflow; 2 operators, 2 threads, torn lines, 1 restart | 751,869 | every effect was approved by a human while it was undecided, and no patch touches the hard safety; one SOP of a workflow waits at a time; a decision that was answered with success survives |
| `skills` | 2 runs, 2 skills of one shape, 4 notes, 2 updates | 183,206 | counters never exceed what happened although increments may be lost; what leaves retrieval was asked for |
| `pipeline` | 10 requests, 4 plans, a draft and its release, 2 leaves, 1 retry, a verifier that may raise | 777,199 | a run taught as a success made its whole pack, verified or not; a pass means the selected pack was made; a school goal is not searched on the web; a governed case acts once; the task returns |
| `bundle` | packs of 1 to 3 artifacts, batches of 2, every outcome of every check and audit | 59,528 | a recorded audit is about the text that ships; a text the last findings name is replaced or held; 110's fast path was passed; nobody is called after an outage; every artifact settles |
| `school` | 16 messages of one incident and its neighbours, conversations of up to 3 tasks | 290,076 | facts stay in their case, an answer stands, a danger keeps its floor and is heard in the words, a follow-up keeps the case, a release was commanded, a broadcast is rewritten |
| `school_stand_down` | the same, one property | | the disagreement of section 7 |

Every run is reproduced by its configuration: `tlc -config MCGate.cfg MCGate.tla`;
`school_stand_down` is `tlc -config MCSchoolCase_NoDangerIsStoodDown.cfg MCSchoolCase.tla`.

A module also defines properties that no configuration names: the type invariants,
which the proofs establish or which were used while modelling; invariants that follow
from a refinement or a theorem; and statements of the repository that the code does not
keep. Adding such a name to the configuration under INVARIANT or PROPERTY shows the
counterexample (section 7 gives the names).

Deadlock is not an error in any run: a decided action, a settled set of tasks or a tree
that ended has nothing left to do, and browsers need not call.

---

## 4 Bounds

* **Routing.** `Inputs` covers the traits whose weights or rules interact; a trait with
  no rule of its own only shifts the score, and every bucket boundary (4/5, 14/15) is
  reached from both sides by the sums of the nine. Adjustments are the ones 104 proposes.
  `MCUses` crosses the fields of a data use that one of the properties or an exemption
  of the guard reads, and adds one use for each remaining rule; four labels are one for
  each rule that only a label can fire. The two families are not multiplied: the guard's
  verdict is all that 103 sees of a data use.
* **Gate.** Two approvals let a call name the wrong task and a decision outlive its
  request; a third call adds "two disagree while one is late". There is no counter to
  bound: every approval and every call is used once.
* **Loop.** Two actions in one plan are the least for a link, with the linked artifact
  executed, failed, rejected, held or blocked; a second task is the least for a shared
  gate. Two calls let one request be answered twice, or both tasks be answered.
* **Lifecycle.** Two tasks are a parent and a child; `Confirms` has two calls that race;
  `MaxRestarts` = 1 puts one restart between any two steps.
* **Tree.** Four leaves hold every shape of a cycle up to three, a leaf behind a cycle,
  a diamond, a chain of skips. `MCLeafRuns` has one run for each thing `_run_tree`
  distinguishes.
* **Learning.** `MinSuccesses` and `MinObservations` are 2 where the code ships 3, so
  that the third task (`MaxRuns` = 3) can be served from the cache; `Limit` = 1 and two
  threads make the race of the budget happen; `MaxIterations` = 1 gives one retry. The
  theorems of section 6 hold for all values of these.

* **Decisions.** Two operators race on one proposal or work on two; two threads draft two
  SOPs of one workflow without seeing each other. Two requests, one restart, one torn line
  and one edit of the workflow: a third request meets nothing that two do not leave.
* **Skills.** Two runs are the least for a stale copy, two skills of one shape the least
  for a succession; a notebook with room for one note makes the limit, the veto and the
  lost entry happen with two updates.
* **Pipeline.** `MCRequests` has one request for each branch of intake and of the school
  contract; `MCPlans` has plans that carry a duplicate, lack the artifact of a release, claim
  a deliverable with an action of the wrong shape, or search. One request has lost an output
  at intake. One draft and one gate decide coverage; two leaves give a first and
  a later one; one retry (`MaxIterations` = 1; 2 is
  shipped) already runs everything a second time.
* **Bundle.** With `BatchSize` = 2 (6 in the code) packs of 1, 2 and 3 are a single text, a
  full batch, and a pack in two batches whose last is not full.
* **School.** Three tasks hold a case, a neighbour, and a message that has to choose; each
  message is there for a rule (its comment says which). `MaxFacts` and `MaxRegistry` (40
  and 24 in the code) are small enough to overflow. Tasks run one after another in this
  run, and how the last one ends is left out: the endpoints read only settled tasks.

Each theorem of section 6 removes the bound for the property it states.

---

## 5 Fairness

| Specification | Fairness | Why the code justifies it |
|---|---|---|
| `WebHumanGate` | weak, for the wake-up and the collection of each review | `ev.wait` has a timeout (600 s by default), the critical sections do not block. Nobody has to ask or to answer |
| `ActionLoop` | weak, for each task's worker | a worker thread keeps running and its only wait is the one above. Browsers owe nothing |
| `TaskLifecycle` | weak, for each runner | the same thread; a review ends by its timeout. Nobody has to start, poll, confirm or restart anything |
| `TaskTree` | weak, for the next step | one thread; a leaf's run returns or raises |
| `RunPipeline` | weak, for the next step | one thread; every call it makes returns: the gate times out, a provider call returns, fails or times out |
| `SchoolBundle` | weak, for the next step | one thread; a provider call returns, fails or times out |
| `TaskLearning` | weak, for each worker once it started | a planner call returns, fails or times out; a worker need not start a task |

`RoutingChecks`, `ProposalDecisions`, `LearnedStores` and `SchoolCase` state no fairness:
nothing there has to happen, operators and users included. Strong fairness is never
assumed. A runner that dies before its `try` block is a final
state of `TaskLifecycle` (`runner = "dead"`) and is excepted, explicitly, in
`EveryTaskSettles`.

---

## 6 The proofs

Eight modules of proofs cover fourteen modules of the model; nothing in them is assumed besides
the named assumptions on constants, which TLC evaluates in the runs. A theorem holds for
every value of the constants. Most properties are not inductive as they stand: each
section names the invariant that is, and what it has to add.

### WebHumanGate_proofs

Invariant `GateInv`: types, and that the three dictionaries agree. An id is registered
exactly while its reviewer waits or was woken, and is pending exactly then; a decision
stands only for a registered id whose event is set, and is one of the accepted answers;
a finished review has one of those answers or `rejected`. The properties alone are not
inductive: `ApprovedOnlyByAHuman` needs to know that what `Collect` pops was accepted,
and `SignaledReviewHasAnAnswer` that a set event comes with a stored decision.
Theorems: `TypeCorrect`, `NeverApprovedWithoutAHuman`, `DecisionsNeverStray`,
`NoWakeUpIsEmpty`, `WebGateImplementsHumanApproval` (each step of the gate is a step of
`HumanApproval` or a stutter).

### ActionLoop_proofs

Invariant `LoopInv`: the gate's invariant under the instance, types, and where each
action is. The actions before `at[t]` are decided, the ones after it untouched; only the
one in hand may be under review or ticketed; a human ticket means an approved status; a
GREEN action that ran had one; nothing of a halted task was asked or executed. The loop
adds to the gate's proof that a plan names each action once, so that an answer for one
action cannot be taken for another. `ReleaseOnlyAfterArtifact` needs more than an
invariant of one state: what `RouteOf` saw when the release was decided must still be
true when it runs, which holds because an execution, once recorded, is never changed.
Theorems: `LoopTypeCorrect`, `NothingRunsUnauthorised`, `HaltIsRespected`,
`QuestionsAreInHand`, `ReleasesFollowTheirArtifact`, `LoopImplementsGovernedExecution`.

### RoutingChecks_proofs

One decision is two steps, so the invariant is short: a decided route is
`Governed(case, labels)` (`RoutingIsDecided`), and what the theorems say is arithmetic and
monotony of that operator. `LabelsOnlyTighten`: every rule of the guard that a label can
fire only adds a reason to block or to ask. `MandatoryGateNeverLearnedAway`: a mandatory
approval is in `PolicyFloor`, which is applied after the learned adjustment.
`BlockedWorkIsNeverSilent` is the one with a real argument. The two features habit can
take off a score (a known user, a repeated success) are worth at most 8; a score above 14
without a hard block and without a mandatory approval is reached only by an action on a
high-value asset (`RedNeedsAnAsset`, over all nineteen weights); the downgrade cap of that
asset is 0, so the learned tier is refused, and 14 less 8 is above the 4 at which work is
silent. A change of a weight, a cap or a boundary that breaks the chain breaks the proof.
`CasesAssumption` says that the cases are built of the traits and data uses of the two
modules. Theorems: `RoutingIsDecided`, `GatesAreNotLearnedAway`, `HabitIsBounded`,
`LabelsNeverRelax`, `NumbersAreNotPublished`, `PrivateDeliveryGoesToAHuman`.

### TaskLifecycle_proofs

Four copies of a task's record are about at a time: the live one, the stored one, the one
its runner read and has not appended yet, and those that confirm calls read. Invariant
`LifecycleInv` says of each what it may hold at each stage of the runner. The stages after
the outcome are two: `Closing`, in which the run is done but its own `try` can still make
it an error, and `Late`, past that block. A question is confirmed only when its runner is
late (`RecordsAreSettled`), which is why the exception and the confirmation cannot both
change one task. `StoppedIsWithdrawn`: no copy of a hard-stopped task offers anything to
continue; `ParentsArePastGovernance`: what was continued can no longer be stopped;
`RecordsAreSettled`: a record in hand was read after the outcome was set;
`ConfirmedIsDone`: a confirmed question is `done` while the server stays up, so that the
second call is refused. `OutcomeStands` is an action property: while the server stays up
an error stands, and a done task becomes an error only by its own runner, before its
result is stored. No poll, confirmation, continuation or other thread changes an outcome.
Theorems: `TypeCorrect`, `StopIsFinal`, `RestartFindsNoGhost`, `OneConfirmation`,
`ChildKeepsTheCase`, `OutcomeStands`.

### Runtime_proofs

*The tree.* Invariant `SortInv`: the in-degree of a leaf outside the queue is the number
of its dependencies not yet relaxed, counted around the position of `cursor`, so a leaf
that enters the queue has all its dependencies in `order`. `FreeAreQueued` is the converse:
a visited leaf that nothing holds is in the queue or the order. The two give
`OnlyCyclesFallBack`: when the sort ends, the leaves left over depend on each other, and
of the leaves taken the first one in `order` of any set depends on none of that set (the
least place exists because `<` is well-founded). `TreeInv`: the leaves before `next` in
`order` have settled, those after it are pending, and the merged ones are those that
returned. Theorems: `TheOrderIsTopological`, `OnlyCyclesFallBack`, `TreeTypeCorrect`,
`LeavesWaitForTheirDependencies`, `TheWorstLeafIsCarried`, for any finite set of leaves
and any dependencies, cyclic ones included.

*The pipeline.* Invariant `PipeInv` follows a plan through its contracts. From the moment
it is made, each deliverable of the pack has exactly one action of its shape in it
(`PackIsBorne`: reconciliation establishes it, sanitising, normalising and writing keep
places, names and shapes); the results are ones the plan allows (`ResultsFit`); a pass, if
there is a verdict, is about the plan in hand (`VerdictIsEarned`); a governed case has
made nothing before its one execution (`NothingMadeYet`), because its pack keeps it out of
the follow-up and its situation out of the retry; and a leaf has no school metadata
(`LeavesInherit`), because only a goal without any is split. `SuccessMadeThePack` does not
use the verdict: `ResultsFit` leaves an action that was not blocked, refused, held or
failed no fate but to have run, and `PackIsBorne` says that each deliverable has one
(`SuccessFacts`). `PassMeansPackMade` needs `PackIsBorne` where the code counts: 110 finds
a deliverable's action by its name, and with two actions of one name the count would be of
the wrong one. Proving it changed the model: plans are functions of places, and
reconciliation asks for the shape as `valid_shape` does; with the name alone a misshapen
claim would have stood for the draft.
Theorems: `PipelineKeepsInv`, `SuccessesMadeThePack`, `PassesHaveTheirPack`,
`SchoolStaysLocal`, `CasesActOnce`, `FlooredGoalsAreNotPlanned`, for any requests, plans,
deliverables, leaves and retries.

### TaskLearning_proofs

`TheOvershootIsBounded` is inductive with one addition: a thread in `planning` passed
the test when less than `Limit` was spent, and the cardinality of the set of planning
threads changes by one at a time.

`ServedPlansAreEarned` is not inductive, because a stale copy may be written back at any
time. `LearningInv` says that every count in the store and in every copy is *backed*: it
is at most the number of successes in the ledger, even after every success that is
recorded but not yet written is added to it. A thread with a pending success holds, or
will load, a count below the ledger's by at least one; writing a stale copy therefore only
loses successes and never invents any. From it, an active entry has at least
`MinSuccesses`, all of them backed, and a thread that is served found such an entry.
Theorems: `LearningTypeCorrect`, `TheOvershootIsBounded`, `ServedPlansAreEarned`, for any
finite set of threads and any thresholds.

### Knowledge_proofs

*The decisions.* Invariant `DecisionInv`. `EffectsWereApproved` ties three places of a
policy change together: what the runtime built for an approval read (`learned`), what is in
force (`policy`) and what was written (`written`) are all within `approved`, and touch no
hard key (`EffectsAreClear`). The first candidate was not inductive: a request in `patch`
must hold a patch, or the runtime's copy could be marked for a skill
(`RequestsHoldProposals`). `ReturnedDecisionsSurvive` is an accounting
(`TearsCoverLosses`): the proposals whose record is not what memory says, and that no
request in flight will still append, and the torn lines that have not swallowed an append
yet, are together no more than the lines a crash tore. Theorems: `TypeCorrect`,
`NothingUnasked`, `SkillsAreScanned`, `OnePendingSop`, `DecisionsSurvive`, for any
proposals, operators, threads, restarts and torn lines.

*The stores.* Invariant `StoresInv`. Every copy in flight, with the change its run is about
to make, claims only what has happened by then (`CopiesAreEarned`): it counts no use and
no win that was not one, and takes out of retrieval only what somebody asked to take out.
Histories only grow, so a copy stays earned however late it is appended. A note of an open
case is in no page, update or edit (`UpdatesKeepTheBoundary`), so that a page written back
whole brings none. Theorems: `StoresKeepInv`, `CountersAreEarned`, `NothingLeavesUnasked`,
`SuccessorsAreNewer`, `NotesStayInside`, for any runs, skills, notes and updates.

### School_proofs

*The bundle.* Invariant `BundleInv`. What makes `RecordedAuditIsReal` inductive is `AuditStands`: the
texts of the batch in hand that the last audit does not name are *cleared*, that is, were
read by an audit as they are now; every rewriting forgets the audit of the batch, and
`FlawsAreTold` says that the last issues name every text that is faulted. A pack written in
batches has no audited text before the audit of the whole (`BatchesAreUnaudited`), so that
the fast path, which asks for one audit of all, cannot be pieced together.
`OutageEndsTheAsking` is an action property.

How often the provider is asked, `CallsAreBounded`, has an invariant of its own over
`BundleInv`. `CallsCounted` says which batch is in hand (`first = k * BatchSize + 1`) and
how many calls that allows: of a pack of one batch, two for each attempt begun, and fewer
while the audit of the rest is still due; of a larger pack, one for each attempt of each
batch so far, and one more after the audit of the whole. An attempt with findings keeps it
(`RetryCounts`), and so does going on to the next batch (`ProceedCounts`); since a batch in
hand begins inside the pack, `k + 1` is at most the number of batches, which is where a
product of two unknowns comes in (`ProductsGrow`, `QuotientFacts`). Theorems: `TypeCorrect`, `AuditsAreReal`,
`FaultsAreReplaced`, `FastPathIsEarned`, `OutageEndsTheAsking`, `CallsStayBounded`, for
packs and batches of every size.

*The conversation.* What a task holds was computed when it was compiled, over a snapshot of
a task that may have been answered, decided and ended since. Invariant `CaseInv` says that
the snapshot is still what it was: every task's parent is earlier and compiled, the task
belongs to the parent's case, and its situation, its pack and its question are what the
compiler makes of its own words over `CaseContext` of the parent as it is *now*
(`WellFormed`). It is inductive because the handlers change nothing of an earlier task but
its status, which no snapshot reads (`ContextOfSame`, `StaysWellFormed`), and because a new
task is compiled from what the handler found (`NewTaskIsWellFormed`).

The situation itself is described by what each stage of the compiler does to it. A floor
keeps facts and texts and makes no danger the words do not report (`Floor`), and while the
words speak of a danger none takes one back (`Keeps`); the chain of stages of
`SourceFloors` is composed from these (`FlooredHears`), and answer, merge and second answer
are added (`CompileIsSound`, whose conclusion `CompiledFrom` is the only thing the
properties use). Facts are folds over sequences: `FoldExists` shows that a function defined
step by step along a sequence exists, and what a filter or a merge keeps follows by
induction on its place (`FilteredKeeps`, `MergeFactsKeeps`). With that every property is a
statement about one well-formed conversation: along the parents, which are earlier
(`ByNumber`), for the facts and for a declared end, and within one task for the rest.

`BroadcastIsRewritten` is about the pack of one task, but the outputs it is made of pass
through the registry of every task before it: what a turn names comes back in a later turn,
under another rule, with the data it had then. Two things are shown. The outputs and the
registry of every task are sequences (`ListsOfEveryTask`, along the parents again: the
snapshot puts the files of a pack into the registry, `WithFilesListed`, and the merge
restores from it, `RestoredListed`), so that the last output of a role, which gives its
entry the audience, exists. And no stage of the pack opens an entry: entries are *shielded*
when one with a broad audience carries the privacy contract. What was requested is shielded
because `RequestedContract` rewrites by role and by audience, and because privacy set by one
output of a role is kept by the next (`RequestedIsShielded`); what the rules add is internal
(`SignalsAreInside`) and hands an existing entry no other audience
(`JoinedHandsOver`); the drafts that the releases bring come last, under a broad role, and
`Rewritten` puts the contract on those (`EntriesAreShielded`). An added deliverable changes
nothing but what is chosen.

Writing the proofs changed the form of the model, never its behaviour. Alternatives of a
CASE that overlap are written as IF (the code tries them in order); the union in `Items` has
its parentheses; the two limits and the fields of what a message names are named assumptions
(`LimitsAssumption`, `MessagesAssumption`). A registry (`Registered`, `WithFiles`) and the
requested entries (`Requested`) say which version of a role stays, and where, in place of a
fold over a parameter.
Theorems: `CasesAreWellFormed`, `CaseTypeCorrect`, `FactsNeverLeak`, `DeclaredEndStands`,
`FloorIsKept`, `WordsAreHeard`, `CaseIsKept`, `NoUncommandedRelease`,
`BroadcastsStayPrivate`, for any messages, any authorities and additions, and conversations
of every length.

### Only model-checked

* Every liveness property: `EveryReviewEnds`, `EveryPlanFinishes`, `EveryTaskSettles`,
  `TaskReturns`, `EveryArtifactSettles` (and `EveryTreeEnds`, `EveryRunEnds`, which no
  configuration names any more). Liveness under fairness and ENABLED are out of the
  prover's reach; the refinement theorems are about safety (the abstract
  specifications state no fairness).

Every safety invariant and every action property that a passing run checks is the
statement of a theorem. `CallsAreBounded` is the other way round: it is proved and no
configuration names it.

---

## 7 What the work found

`PROJECT.json` records 42 disagreements between the code and a comment, docstring,
configuration or page of the repository, each with both lines quoted. One has a run of
its own; where a definition states the sentence that fails, its name is given here and in
the record, and adding it to the configuration of its module shows the counterexample.

`school_stand_down` (`NoDangerIsStoodDown`): the safety floors "run even when semantic
intake succeeded" and "can only add coverage or raise severity". Once a classification
was checked, a text that asks for an ordinary document as well loses the danger its words
state, with the question about it and the safety documents.

| The repository says | The code does | Property |
|---|---|---|
| `allow_destructive_auto_only_if_backup_verified: true` | nothing reads the flag; a destructive action over a stale backup can be BLUE | `DestructiveAutoOnlyIfBackupVerified` |
| INFEASIBLE: no ticket, 107 never executes | RED relaxed by one learned tier is INFEASIBLE in the rank table, and gets an approval request | `InfeasibleIsNeverTicketed` |
| "existing RED stays RED" | the guard's INFEASIBLE settles an action 103 would block as RED | `ExistingRedStaysRed` |
| the guard blocks a plan that sends numbers to an external surface | only a public or school-wide surface is RED; an outside recipient is asked | `NumbersNeverLeave` |
| one question is resolved and its continuation launched | the question is settled and stored before `start_task` may refuse | `ConfirmationLaunchesContinuation` |
| an error of a background task alerts the operator | what precedes the `try` is outside it: the task stays running for ever | `EveryTaskSettles` (excepted there) |
| what an owner archived is archived | a run that read the skill before appends its old status after | `ArchivedIsNotRevived` |
| the notebook's read-modify-write is under a lock | every instance has its own lock; entries are lost | `EntriesAreNotLost` |
| an answer "rejected" | a patch another operator's approval is applying is in force all the same | `RefusedPatchIsNotInForce` |
| a changed workflow proposes an update of its SOP | the server's guard drops it | `SopUpdateIsQueued` |
| skills are credited only when the task verified good | an exception of the verifier leaves no verdict, and a run that worked is taught as a success | `SuccessWasVerified` |
| a demo probe never touches the learning stores | its leaves and the school branch lose the flag | `ProbeTeachesNothing` |
| a live text needs an explicit semantic audit | a text pending the audit of the whole pack passes the contract when the provider is lost before it | `LiveTextWasAudited` |
| only the file an audit names is quarantined | a name from an earlier round is forgotten | `NamedTextIsQuarantined` |
| floors raise, never lower | later rules overwrite what earlier ones raised | `FloorIsNeverLowered` |
| a release follows a draft that exists | narrowing may deselect the draft and keep its gate | `EveryReleaseHasItsDraft` |
| obligations are not merged | a rewritten circular and a letter of the same role are | `NoObligationIsMerged` |
| documents are not bolted on past the privacy rules | a second document of a role is | `CustomsAreRewrittenToo` |
| an explicit non-release is stronger than a suggestion | a custom deliverable has its gate anyway | `DraftOnlyIsNeverReleased` |
| recommendations never become required | an inferred custom deliverable counts as explicit | `NothingUnaskedIsRequired` |
| repeating a value does not raise a fact's status | it does under another fact's id | `RepetitionKeepsStatus` |
| severity and the danger in the source are enough to ask about it | without a classifier a danger that only a pattern rule heard is not asked about | `EveryDangerIsAsked` |
| the question is dropped only when that hazard is contained | an earlier turn's "no immediate danger" silences it for the next hazard | `EveryDangerIsAsked` |
| an answer does not resurrect a danger | added deliverables start from the raw text, without the answers | `AdditionKeepsTheAnswer` |
| the agent does not guess at an open question | one answer of two lets the case through | `EveryQuestionIsAnswered` |

The others have no definition, or are about records the models leave out: a 404 shown as
success, a second `decide` that overwrites the first, a RED decision appended twice, a leaf
that raises and is not merged, the wrong action id in `add_deliverables`, cached plans
that are not invalidated, a budget that does not count the follow-up call, a chain of
skipped leaves of which one runs, a retry of a `model_error`.

---

## 8 What is abstracted and what is left out

* Text is not modelled: what a classifier, a pattern or a language model concludes is a
  nondeterministic choice among its possible conclusions. In 101D and in the school
  modules a text is what their recognisers read in it; the recognisers themselves (some
  thousands of lines of patterns) are not part of any model, and neither are narrative
  texts, languages, layout and the wording of questions.
* Appending one line to a file is one step. Only `ProposalDecisions` has torn lines; the
  task store, the ledgers and the skill index are replayed by the same code but do not
  tear in their models.
* `ActionRouting` has the shipped profile; domain packs add approvals of the same form.
* `ActionLoop` starts from a plan; `RunPipeline` has the order of normalisation before it
  and takes the loop's results as any of the fates it allows. The executor's tools are
  their status.
* `TaskLifecycle` takes the run as one of: hard stop, question at the gate, completion,
  exception. Uploads, health and login are not modelled.
* `TaskLearning` has one day of the budget, one task category (the stores are keyed by
  it), no demo probes, no nested leaf runs, and no exception out of the planner.
* `TaskTree` runs in one thread, as the code does.
* `OutputVerifier` has the scope, the coverage of the pack, the contract and the order in
  which the verdicts win; whether a text is sound is an input.
* `SchoolBundle` is the governed bundle. The synthesis of a single file, and the
  enrichment of Markdown at `module_102b_synthesizer.py:5846`, which governed artifacts
  do not reach, are not modelled.
* `ProposalDecisions` leaves out the text of a patch and the backtest of a workflow;
  `LearnedStores` leaves out ranking, embeddings, briefs and the adaptation of a skill.
* `CaseContinuity`, `SourceFloors`, `ResponsePack`, `SchoolCase` leave out the page's own
  selection of deliverables, declared roles and channels, the matching of a label to a
  deliverable, the generic report role and the tables that only phrase things.
* Not modelled, and why: tools, retrieval, trace, utilities (I/O whose result the models
  take as a status); prompts and adapters (external, their answers are nondeterministic);
  authentication (one test for each request); the page (only its decide calls); scripts and
  evaluation (not part of the running system).

---

## 9 Plan

Done, in the order in which the parts matter: routing, gate, action loop, lifecycle, tree,
learning; then the decisions on proposals, the skill and notebook stores, the pipeline with
its verifier, the school bundle, the school case, and the data-use guard.

Then the proofs of all of these.

What is left, most useful first:

1. **DurableStore**: torn lines, replay and compaction of the cost ledger and the task
   store, composed with `TaskLearning` and `TaskLifecycle`.
2. **WorkflowMatch, CircuitBreaker, uploads**: decision tables, checked against reference
   definitions.
