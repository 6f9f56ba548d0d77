------------------------------ MODULE WebHumanGate ------------------------------
(***************************************************************************)
(* The web human gate, teow_agl/modules/module_105_web_gate.py, and the     *)
(* HTTP endpoint that answers it, decide() of server/app.py.                *)
(*                                                                          *)
(* A task's worker thread calls review(): it registers the request, blocks  *)
(* on an Event with a timeout, and then takes the lock again to collect the *)
(* decision.  Between the timeout and that second lock a browser can still  *)
(* answer.  A browser call first reads a snapshot of the pending requests,  *)
(* then calls decide(); the lock is free in between.                        *)
(***************************************************************************)
EXTENDS Naturals, FiniteSets

CONSTANTS Approvals,    \* approval ids; one review() each (103 draws fresh ids)
          Tasks,
          TaskOf,       \* TaskOf[a]: the task whose worker asks for a
          Calls         \* calls of POST /api/tasks/{task_id}/decide

Answers == {"approved", "rejected", "modified"}
None == "none"

ASSUME TaskOfAssumption == TaskOf \in [Approvals -> Tasks]

NoRequest == [approval |-> None, task |-> None, status |-> None]
Request == [approval : Approvals, task : Tasks, status : Answers]

VARIABLES
    pending,    \* _pending: the approval ids registered for review
    signal,     \* _events: id -> whether its Event is set, for registered ids
    decisions,  \* _decisions: id -> status, None when there is no entry
    reviewer,   \* where review(a) stands
    status,     \* approval.status
    timedOut,   \* the reviews whose ev.wait returned False
    callAt,     \* where each HTTP call stands
    request,    \* what it carries
    acked       \* acked[a]: the statuses that calls on a saw accepted

gateVars == <<pending, signal, decisions>>
callVars == <<callAt, request, acked>>
vars == <<pending, signal, decisions, reviewer, status, timedOut, callAt, request, acked>>

Registered == DOMAIN signal

Init ==
    /\ pending = {}
    /\ signal = [a \in {} |-> FALSE]
    /\ decisions = [a \in Approvals |-> None]
    /\ reviewer = [a \in Approvals |-> "idle"]
    /\ status = [a \in Approvals |-> "pending"]
    /\ timedOut = {}
    /\ callAt = [c \in Calls |-> "idle"]
    /\ request = [c \in Calls |-> NoRequest]
    /\ acked = [a \in Approvals |-> {}]

(***************************************************************************)
(* review(approval), called by the worker of TaskOf[a].                     *)
(***************************************************************************)
Register(a) ==
    /\ reviewer[a] = "idle"
    /\ pending' = pending \union {a}
    /\ signal' = [b \in Registered \union {a} |-> IF b = a THEN FALSE ELSE signal[b]]
    /\ reviewer' = [reviewer EXCEPT ![a] = "waiting"]
    /\ UNCHANGED <<decisions, status, timedOut, callVars>>

\* ev.wait returns True: the Event was set before the timeout.
WakeSignaled(a) ==
    /\ reviewer[a] = "waiting" /\ signal[a]
    /\ reviewer' = [reviewer EXCEPT ![a] = "woken"]
    /\ UNCHANGED <<gateVars, status, timedOut, callVars>>

\* Mutant: ev.wait() without a timeout.
WakeTimedOutNever(a) == FALSE

\* ev.wait returns False: the timeout fired while the Event was not set.
WakeTimedOut(a) ==
    /\ reviewer[a] = "waiting" /\ ~signal[a]
    /\ reviewer' = [reviewer EXCEPT ![a] = "woken"]
    /\ timedOut' = timedOut \union {a}
    /\ UNCHANGED <<gateVars, status, callVars>>

\* What review() makes of the wait and the popped decision.
Verdict(a) == IF a \in timedOut \/ decisions[a] = None THEN "rejected" ELSE decisions[a]

\* Mutants of Collect: the decision popped whatever ev.wait returned; a timeout
\* that lets the action pass; the decision popped before it is read; the
\* request left in _pending.
CollectAs(a, verdict, stillPending) ==
    /\ reviewer[a] = "woken"
    /\ pending' = stillPending
    /\ signal' = [b \in Registered \ {a} |-> signal[b]]
    /\ decisions' = [decisions EXCEPT ![a] = None]
    /\ status' = [status EXCEPT ![a] = verdict]
    /\ reviewer' = [reviewer EXCEPT ![a] = "done"]
    /\ UNCHANGED <<timedOut, callVars>>
CollectWithoutDefault(a) == CollectAs(a, decisions[a], pending \ {a})
CollectFailsOpen(a) ==
    CollectAs(a, IF a \in timedOut THEN "approved" ELSE Verdict(a), pending \ {a})
CollectPopsFirst(a) == CollectAs(a, "rejected", pending \ {a})
CollectKeepsPending(a) == CollectAs(a, Verdict(a), pending)

\* The second critical section and the assignments after it.
Collect(a) ==
    /\ reviewer[a] = "woken"
    /\ pending' = pending \ {a}
    /\ signal' = [b \in Registered \ {a} |-> signal[b]]
    /\ decisions' = [decisions EXCEPT ![a] = None]
    /\ status' = [status EXCEPT ![a] = Verdict(a)]
    /\ reviewer' = [reviewer EXCEPT ![a] = "done"]
    /\ UNCHANGED <<timedOut, callVars>>

(***************************************************************************)
(* POST /api/tasks/{task_id}/decide.                                        *)
(***************************************************************************)
\* The call arrives and reads pending_snapshot(): 404 unless the request is
\* pending for the task that the URL names.
Snapshot(c) ==
    /\ callAt[c] = "idle"
    /\ \E r \in Request :
         /\ request' = [request EXCEPT ![c] = r]
         /\ callAt' = [callAt EXCEPT ![c] =
               IF r.approval \in pending /\ TaskOf[r.approval] = r.task
               THEN "checked" ELSE "notFound"]
    /\ UNCHANGED <<gateVars, reviewer, status, timedOut, acked>>

\* gate.decide(): 404 when the Event is gone.
DecideGone(c) ==
    /\ callAt[c] = "checked" /\ request[c].approval \notin Registered
    /\ callAt' = [callAt EXCEPT ![c] = "notFound"]
    /\ UNCHANGED <<gateVars, reviewer, status, timedOut, request, acked>>

\* Mutant: decide() that does not ask whether the Event is still there.
DecideUnchecked(c) ==
    LET a == request[c].approval
    IN  /\ callAt[c] = "checked"
        /\ decisions' = [decisions EXCEPT ![a] = request[c].status]
        /\ signal' = [signal EXCEPT ![a] = TRUE]
        /\ acked' = [acked EXCEPT ![a] = @ \union {request[c].status}]
        /\ callAt' = [callAt EXCEPT ![c] = "ok"]
        /\ UNCHANGED <<pending, reviewer, status, timedOut, request>>

\* gate.decide(): otherwise store the status, set the Event and answer ok.
DecideOk(c) ==
    LET a == request[c].approval
    IN  /\ callAt[c] = "checked" /\ a \in Registered
        /\ decisions' = [decisions EXCEPT ![a] = request[c].status]
        /\ signal' = [signal EXCEPT ![a] = TRUE]
        /\ acked' = [acked EXCEPT ![a] = @ \union {request[c].status}]
        /\ callAt' = [callAt EXCEPT ![c] = "ok"]
        /\ UNCHANGED <<pending, reviewer, status, timedOut, request>>

Review(a) == Register(a) \/ WakeSignaled(a) \/ WakeTimedOut(a) \/ Collect(a)
Call(c) == Snapshot(c) \/ DecideGone(c) \/ DecideOk(c)

Next == (\E a \in Approvals : Review(a)) \/ (\E c \in Calls : Call(c))

\* A worker that entered review() leaves it: the wait has a timeout and the
\* critical sections are short.  Nobody has to answer, nor to ask.
Fairness == \A a \in Approvals :
    WF_vars(WakeSignaled(a) \/ WakeTimedOut(a)) /\ WF_vars(Collect(a))

Spec == Init /\ [][Next]_vars /\ Fairness

-------------------------------------------------------------------------------
TypeOK ==
    /\ pending \subseteq Approvals
    /\ Registered \subseteq Approvals /\ signal \in [Registered -> BOOLEAN]
    /\ decisions \in [Approvals -> Answers \union {None}]
    /\ reviewer \in [Approvals -> {"idle", "waiting", "woken", "done"}]
    /\ status \in [Approvals -> Answers \union {"pending"}]
    /\ timedOut \subseteq Approvals
    /\ callAt \in [Calls -> {"idle", "checked", "ok", "notFound"}]
    /\ request \in [Calls -> Request \union {NoRequest}]
    /\ \A c \in Calls : callAt[c] # "idle" => request[c] \in Request
    /\ acked \in [Approvals -> SUBSET Answers]

\* An approval that ends approved was approved by a call the server accepted
\* while the request was open: a timeout, a stale call or a call for another
\* task never authorises anything.
ApprovedOnlyByAHuman ==
    \A a \in Approvals : status[a] = "approved" => "approved" \in acked[a]

\* A decision is stored only for a request still under review, so nothing an
\* operator said is left behind in _decisions once the review has ended.
NoStrayDecision ==
    \A a \in Approvals : decisions[a] # None => a \in Registered /\ a \in pending

\* No wake-up is lost or empty: a review that the Event woke ends with one of
\* the accepted answers, never with the "no decision" rejection.
SignaledReviewHasAnAnswer ==
    \A a \in Approvals :
        reviewer[a] = "done" /\ a \notin timedOut => status[a] \in acked[a]

\* The gate is a human gate in the sense of HumanApproval: each request ends
\* once, with an answer accepted while it was open, or rejected.
Gate == INSTANCE HumanApproval WITH
            open <- pending, given <- acked, verdict <- status
ImplementsHumanApproval == Gate!Spec

\* A worker waiting for a human is never parked for good.
EveryReviewEnds ==
    \A a \in Approvals : reviewer[a] = "waiting" ~> reviewer[a] = "done"

\* static/app.js: on 404 the "server already processed this approval" and "the
\* action IS done".  So a 404 on a request of this task that was ever asked for
\* comes after an accepted answer.
NotFoundMeansProcessed ==
    \A c \in Calls :
        LET a == request[c].approval
        IN  callAt[c] = "notFound" /\ TaskOf[a] = request[c].task /\ status[a] # "pending"
                => acked[a] # {}
===============================================================================
