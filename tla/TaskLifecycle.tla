----------------------------- MODULE TaskLifecycle -----------------------------
(***************************************************************************)
(* The life of a task in server/app.py: start_task and its runner thread,   *)
(* get_task, confirm_response_pack and add_deliverables, with the JSONL     *)
(* store (server/persistence.py) and restarts of the server.                *)
(*                                                                          *)
(* The in-memory tasks are guarded by one lock, but a record is written to  *)
(* the store outside it: _state_to_dict reads the state, append writes what *)
(* was read, and other threads run in between.  A restart keeps only what   *)
(* the store holds.  The run itself is Runtime.run: here it may ask the     *)
(* human gate, stop in pre-governance, complete or raise; and what follows   *)
(* it in the runner's try block may raise too.                              *)
(***************************************************************************)
EXTENDS Naturals, FiniteSets

CONSTANTS Tasks,            \* task ids, drawn by start_task
          Confirms,         \* calls of POST .../response-pack/confirm
          MaxRestarts       \* bound on restarts of the server

None == "none"

\* Ids are drawn ("task_" and a random hex): none of them is the missing id.
ASSUME TaskLifecycleAssumption == MaxRestarts \in Nat /\ None \notin Tasks

Absent == [status |-> "absent", ready |-> FALSE, case |-> None, parent |-> None]
Status == {"absent", "running", "awaiting_approval", "awaiting_clarification", "done", "error"}
Record == [status : Status, ready : BOOLEAN, case : Tasks \union {None},
           parent : Tasks \union {None}]

VARIABLES
    task,       \* _app_state["tasks"]: status, whether the case context is
                \* ready (situation and response pack), case_context_id, parent
    store,      \* what replaying tasks.jsonl yields: the last record appended
    runner,     \* where the runner thread of a task stands
    write,      \* the record the runner read and has yet to append
    onGate,     \* the tasks with a live request on the human gate
    origin,     \* how a task was started: its kind and candidate parent
    hardStop,   \* the tasks whose run 101A stopped
    confirm,    \* the confirm calls in flight
    restarts
vars == <<task, store, runner, write, onGate, origin, hardStop, confirm, restarts>>

Idle == [at |-> "idle", on |-> None, write |-> Absent, accepted |-> FALSE]

Init ==
    /\ task = [t \in Tasks |-> Absent]
    /\ store = [t \in Tasks |-> Absent]
    /\ runner = [t \in Tasks |-> "none"]
    /\ write = [t \in Tasks |-> Absent]
    /\ onGate = {}
    /\ origin = [t \in Tasks |-> [kind |-> "unborn", from |-> None, case |-> None]]
    /\ hardStop = {}
    /\ confirm = [c \in Confirms |-> Idle]
    /\ restarts = 0

Set(t, s) == task' = [task EXCEPT ![t].status = s]
Goto(t, p) == runner' = [runner EXCEPT ![t] = p]

(***************************************************************************)
(* start_task.                                                              *)
(***************************************************************************)
\* The parent checks, made under the lock.
ContinuableParent(p) ==
    /\ task[p].status \in {"done", "awaiting_approval"}
    /\ task[p].ready /\ task[p].case # None

\* Registers the task and starts its runner; the parent context is a copy.
Launch(t, kind, p) ==
    /\ origin[t].kind = "unborn"
    /\ task' = [task EXCEPT ![t] = [Absent EXCEPT !.status = "running", !.case = t]]
    /\ origin' = [origin EXCEPT ![t] =
           [kind |-> kind, from |-> p, case |-> IF p = None THEN None ELSE task[p].case]]
    /\ Goto(t, "prepare")

StartFresh(t) ==
    /\ Launch(t, "fresh", None)
    /\ UNCHANGED <<store, write, onGate, hardStop, confirm, restarts>>

\* A message that names an earlier task as candidate parent.
StartFollowUp(t) ==
    /\ \E p \in Tasks : ContinuableParent(p) /\ Launch(t, "candidate", p)
    /\ UNCHANGED <<store, write, onGate, hardStop, confirm, restarts>>

\* add_deliverables makes the same checks.  Its own refusal of a hard-stopped
\* parent looks for the action id "pre_governance_hard_block"; the runtime writes
\* "pre_block", so that refusal never fires and is no guard here.
AddDeliverables(t) ==
    /\ \E p \in Tasks : ContinuableParent(p) /\ Launch(t, "delta", p)
    /\ UNCHANGED <<store, write, onGate, hardStop, confirm, restarts>>

(***************************************************************************)
(* The runner thread.                                                       *)
(***************************************************************************)
\* Mutant: the classifier decides for trusted children too.
PrepareByClassifier(t) ==
    /\ runner[t] = "prepare"
    /\ \E followUp \in BOOLEAN :
         task' = IF followUp /\ origin[t].from # None
                 THEN [task EXCEPT ![t].parent = origin[t].from, ![t].case = origin[t].case]
                 ELSE task
    /\ Goto(t, "compile")
    /\ UNCHANGED <<store, write, onGate, origin, hardStop, confirm, restarts>>

\* Semantics, case binding, runtime and hard-floor probe.  A trusted child is
\* always a follow-up; another task is one when its classifier says so.
Prepare(t) ==
    /\ runner[t] = "prepare"
    /\ \E followUp \in IF origin[t].kind \in {"clarification", "delta"} THEN {TRUE} ELSE BOOLEAN :
         task' = IF followUp /\ origin[t].from # None
                 THEN [task EXCEPT ![t].parent = origin[t].from, ![t].case = origin[t].case]
                 ELSE task
    /\ Goto(t, "compile")
    /\ UNCHANGED <<store, write, onGate, origin, hardStop, confirm, restarts>>

\* The situation compiler: skipped on a hard floor or outside a school case;
\* otherwise it sets the case context.
Compile(t) ==
    /\ runner[t] = "compile"
    /\ \E ready \in BOOLEAN : task' = [task EXCEPT ![t].ready = ready]
    /\ Goto(t, "govern")
    /\ UNCHANGED <<store, write, onGate, origin, hardStop, confirm, restarts>>

\* Mutant: the runner does not return after the question.
AskAndGoOn(t) ==
    /\ runner[t] = "compile"
    /\ origin[t].kind \notin {"clarification", "delta"}
    /\ task' = [task EXCEPT ![t].status = "awaiting_clarification", ![t].ready = TRUE]
    /\ Goto(t, "govern")
    /\ UNCHANGED <<store, write, onGate, origin, hardStop, confirm, restarts>>

\* A critical question pauses the task, unless answers came with it or the
\* pack is a delta.  The record is written after the lock is released.
AskClarification(t) ==
    /\ runner[t] = "compile"
    /\ origin[t].kind \notin {"clarification", "delta"}
    /\ task' = [task EXCEPT ![t].status = "awaiting_clarification", ![t].ready = TRUE]
    /\ Goto(t, "read")
    /\ UNCHANGED <<store, write, onGate, origin, hardStop, confirm, restarts>>

\* An exception before the runner's try block ends the thread.
PrepareRaises(t) ==
    /\ runner[t] \in {"prepare", "compile"}
    /\ Goto(t, "dead")
    /\ UNCHANGED <<task, store, write, onGate, origin, hardStop, confirm, restarts>>

\* rt.run stops in pre-governance: nothing was asked or executed.
HardStop(t) ==
    /\ runner[t] = "govern"
    /\ hardStop' = hardStop \union {t}
    /\ Goto(t, "finish")
    /\ UNCHANGED <<task, store, write, onGate, origin, confirm, restarts>>

AskHuman(t) ==
    /\ runner[t] = "govern"
    /\ onGate' = onGate \union {t}
    /\ Goto(t, "review")
    /\ UNCHANGED <<task, store, write, origin, hardStop, confirm, restarts>>

\* The review ends, by an answer or its timeout.
ReviewEnds(t) ==
    /\ runner[t] = "review"
    /\ onGate' = onGate \ {t}
    /\ Goto(t, "finish")
    /\ UNCHANGED <<task, store, write, origin, hardStop, confirm, restarts>>

RunAsksNobody(t) ==
    /\ runner[t] = "govern"
    /\ Goto(t, "finish")
    /\ UNCHANGED <<task, store, write, onGate, origin, hardStop, confirm, restarts>>

\* Mutants: a hard stop keeps the compiled proposal; the status is not set.
FinishKeepsProposal(t) ==
    /\ runner[t] = "finish"
    /\ task' = [task EXCEPT ![t].status = "done"]
    /\ Goto(t, "complete")
    /\ UNCHANGED <<store, write, onGate, origin, hardStop, confirm, restarts>>
FinishKeepsStatus(t) ==
    /\ runner[t] = "finish"
    /\ task' = [task EXCEPT ![t].ready = @ /\ t \notin hardStop]
    /\ Goto(t, "complete")
    /\ UNCHANGED <<store, write, onGate, origin, hardStop, confirm, restarts>>

\* The results under the lock.  A hard stop withdraws the compiled proposal.
FinishRun(t) ==
    /\ runner[t] = "finish"
    /\ task' = [task EXCEPT ![t].status = "done",
                            ![t].ready = @ /\ t \notin hardStop]
    /\ Goto(t, "complete")
    /\ UNCHANGED <<store, write, onGate, origin, hardStop, confirm, restarts>>

\* Mutant: no handler around the run.
RunRaisesUncaught(t) ==
    /\ runner[t] \in {"govern", "finish", "complete"}
    /\ Goto(t, "ended")
    /\ UNCHANGED <<task, store, write, onGate, origin, hardStop, confirm, restarts>>

\* The try covers the run, its results under the lock and the registration of what it
\* proposed, after the status is done already.
RunRaises(t) ==
    /\ runner[t] \in {"govern", "finish", "complete"}
    /\ Set(t, "error")
    /\ Goto(t, "read")
    /\ UNCHANGED <<store, write, onGate, origin, hardStop, confirm, restarts>>

\* It covers the append of the result as well, which may have written its line.
SaveRaises(t) ==
    /\ runner[t] = "save"
    /\ Set(t, "error")
    /\ Goto(t, "read")
    /\ store' \in {store, [store EXCEPT ![t] = write[t]]}
    /\ UNCHANGED <<write, onGate, origin, hardStop, confirm, restarts>>

\* The result is read and appended inside the try ("complete", "save"), a question and
\* an error outside it ("read", "append").
ReadRecord(t) ==
    /\ runner[t] \in {"complete", "read"}
    /\ write' = [write EXCEPT ![t] = task[t]]
    /\ Goto(t, IF runner[t] = "complete" THEN "save" ELSE "append")
    /\ UNCHANGED <<task, store, onGate, origin, hardStop, confirm, restarts>>

AppendRecord(t) ==
    /\ runner[t] \in {"save", "append"}
    /\ store' = [store EXCEPT ![t] = write[t]]
    /\ Goto(t, "ended")
    /\ UNCHANGED <<task, write, onGate, origin, hardStop, confirm, restarts>>

\* Outside the try an append that raises ends the thread with nothing stored.
AppendRaises(t) ==
    /\ runner[t] = "append"
    /\ Goto(t, "ended")
    /\ UNCHANGED <<task, store, write, onGate, origin, hardStop, confirm, restarts>>

Runner(t) == \/ Prepare(t) \/ Compile(t) \/ AskClarification(t) \/ PrepareRaises(t)
             \/ HardStop(t) \/ AskHuman(t) \/ ReviewEnds(t) \/ RunAsksNobody(t)
             \/ FinishRun(t) \/ RunRaises(t) \/ SaveRaises(t)
             \/ ReadRecord(t) \/ AppendRecord(t) \/ AppendRaises(t)

(***************************************************************************)
(* The other handlers.                                                      *)
(***************************************************************************)
\* GET /api/tasks/{id} corrects the status from the live gate.
GetTask(t) ==
    /\ \/ /\ t \in onGate /\ task[t].status \notin {"done", "error", "absent"}
          /\ Set(t, "awaiting_approval")
       \/ /\ t \notin onGate /\ task[t].status = "awaiting_approval"
          /\ Set(t, "running")
    /\ UNCHANGED <<store, runner, write, onGate, origin, hardStop, confirm, restarts>>

\* Mutants: the pack's state written into the task's status; a settled question
\* confirmed again.
ConfirmMixesStates(c) ==
    /\ confirm[c].at = "idle"
    /\ \E t \in Tasks :
         /\ task[t].status = "awaiting_clarification"
         /\ Set(t, "confirmed_for_governance")
         /\ confirm' = [confirm EXCEPT ![c] = [@ EXCEPT !.at = "read", !.on = t]]
    /\ UNCHANGED <<store, runner, write, onGate, origin, hardStop, restarts>>
ConfirmAnyReady(c) ==
    /\ confirm[c].at = "idle"
    /\ \E t \in Tasks :
         /\ task[t].status \in {"awaiting_clarification", "done"} /\ task[t].ready
         /\ Set(t, "done")
         /\ confirm' = [confirm EXCEPT ![c] = [@ EXCEPT !.at = "read", !.on = t]]
    /\ UNCHANGED <<store, runner, write, onGate, origin, hardStop, restarts>>

\* confirm_response_pack, under the lock: the question counts as answered.
Confirm(c) ==
    /\ confirm[c].at = "idle"
    /\ \E t \in Tasks :
         /\ task[t].status = "awaiting_clarification"
         /\ Set(t, "done")
         /\ confirm' = [confirm EXCEPT ![c] = [@ EXCEPT !.at = "read", !.on = t]]
    /\ UNCHANGED <<store, runner, write, onGate, origin, hardStop, restarts>>

ConfirmRead(c) ==
    /\ confirm[c].at = "read"
    /\ confirm' = [confirm EXCEPT ![c] =
           [@ EXCEPT !.at = "append", !.write = task[confirm[c].on]]]
    /\ UNCHANGED <<task, store, runner, write, onGate, origin, hardStop, restarts>>

ConfirmAppend(c) ==
    /\ confirm[c].at = "append"
    /\ store' = [store EXCEPT ![confirm[c].on] = confirm[c].write]
    /\ confirm' = [confirm EXCEPT ![c].at = "launch"]
    /\ UNCHANGED <<task, runner, write, onGate, origin, hardStop, restarts>>

Answered(c, accepted) ==
    [Idle EXCEPT !.at = "answered", !.on = confirm[c].on, !.accepted = accepted]

\* Only then start_task runs, with its own checks.
ConfirmLaunch(c, t) ==
    /\ confirm[c].at = "launch"
    /\ ContinuableParent(confirm[c].on)
    /\ Launch(t, "clarification", confirm[c].on)
    /\ confirm' = [confirm EXCEPT ![c] = Answered(c, TRUE)]
    /\ UNCHANGED <<store, write, onGate, hardStop, restarts>>

\* start_task refuses: the declared outcome needs a selection the answer lacks
\* ("prepare_selected_documents_requires_a_selection").  Or the append has raised.
ConfirmRefused(c) ==
    /\ confirm[c].at \in {"append", "launch"}
    /\ confirm' = [confirm EXCEPT ![c] = Answered(c, FALSE)]
    /\ UNCHANGED <<task, store, runner, write, onGate, origin, hardStop, restarts>>

\* The process ends and starts again: threads, gate and unwritten records are
\* gone, _load_initial_state replays the store.
Restart ==
    /\ restarts < MaxRestarts
    /\ restarts' = restarts + 1
    /\ task' = store
    /\ runner' = [t \in Tasks |-> IF runner[t] = "none" THEN "none" ELSE "ended"]
    /\ write' = [t \in Tasks |-> Absent]
    /\ onGate' = {}
    /\ confirm' = [c \in Confirms |->
           IF confirm[c].at \in {"idle", "answered"} THEN confirm[c]
           ELSE [Idle EXCEPT !.at = "lost"]]
    /\ UNCHANGED <<store, origin, hardStop>>

Next ==
    \/ \E t \in Tasks : StartFresh(t) \/ StartFollowUp(t) \/ AddDeliverables(t)
                        \/ Runner(t) \/ GetTask(t)
    \/ \E c \in Confirms : \/ Confirm(c) \/ ConfirmRead(c) \/ ConfirmAppend(c)
                           \/ ConfirmRefused(c) \/ (\E t \in Tasks : ConfirmLaunch(c, t))
    \/ Restart

\* Threads that run keep running; a review ends by its timeout.  Nobody has to
\* start, poll or confirm anything.
Fairness == \A t \in Tasks : WF_vars(Runner(t))
Spec == Init /\ [][Next]_vars /\ Fairness

-------------------------------------------------------------------------------
TypeOK ==
    /\ task \in [Tasks -> Record] /\ store \in [Tasks -> Record]
    /\ write \in [Tasks -> Record]
    /\ runner \in [Tasks -> {"none", "prepare", "compile", "govern", "review", "finish",
                             "complete", "save", "read", "append", "ended", "dead"}]
    /\ onGate \subseteq Tasks /\ hardStop \subseteq Tasks
    /\ restarts \in 0..MaxRestarts

Children(p) == {t \in Tasks : origin[t].kind = "clarification" /\ origin[t].from = p}

\* A case that 101A stopped is never continued: no delta, follow-up or
\* clarification child grows from it, before or after a restart.
HardStoppedCaseNeverContinues ==
    \A t \in Tasks : origin[t].from # None => origin[t].from \notin hardStop

\* What a restart brings back is settled or waits for a clarification: no task
\* comes back waiting on a gate or a thread that died with the process.
StoreHoldsNoGhost ==
    \A t \in Tasks : store[t].status \notin {"running", "awaiting_approval"}

\* A trusted child stays in the case of the task it continues.
TrustedChildKeepsTheCase ==
    \A t \in Tasks :
        origin[t].kind \in {"clarification", "delta"}
        /\ runner[t] \notin {"none", "prepare"} /\ task[t].status # "absent"
            => \/ task[t].case = origin[t].case /\ task[t].parent = origin[t].from
               \/ runner[t] = "dead"

\* However confirmations of one question race, while the server stays up one
\* of them is taken: the others find the question settled.
OneConfirmationWhileUp ==
    restarts = 0 => \A c, d \in Confirms :
        c # d /\ confirm[c].on = confirm[d].on => confirm[c].on = None

\* While the server stays up an error stands, and a done task can only turn into an
\* error, by an exception of its own runner that still had to register and store the
\* result: no poll, confirmation, continuation or other thread changes an outcome.
SettledStaysSettled ==
    [][\A t \in Tasks : task[t].status \in {"done", "error"} /\ restarts' = restarts
           => \/ task'[t].status = task[t].status
              \/ task[t].status = "done" /\ task'[t].status = "error"
                 /\ runner[t] \in {"complete", "save"}]_vars

\* Every started task leaves "running" and "awaiting_approval" for good, is lost
\* to a restart, or its thread died before the runner's try block.
EveryTaskSettles ==
    \A t \in Tasks : task[t].status = "running"
        ~> [](\/ task[t].status \in {"awaiting_clarification", "done", "error", "absent"}
              \/ runner[t] = "dead")

\* server/app.py: "Resolve one high-impact question and launch the governed
\* continuation."  A confirmation that was answered has launched one.
ConfirmationLaunchesContinuation ==
    \A c \in Confirms : confirm[c].at = "answered" => Children(confirm[c].on) # {}
===============================================================================
