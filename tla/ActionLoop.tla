------------------------------ MODULE ActionLoop ------------------------------
(***************************************************************************)
(* Runtime._execute_actions (teow_agl/runtime.py): the loop that takes each *)
(* action of a plan through the guards, 101D, 101B, 103, the human gate     *)
(* (105) and the executor (107), one task per worker thread.  The tasks     *)
(* share one WebHumanGate; an approval is identified with the action it is  *)
(* for, since 103 draws a fresh approval per decision and an action is      *)
(* decided once per run.                                                    *)
(***************************************************************************)
EXTENDS Naturals, Sequences, FiniteSets

CONSTANTS Tasks, Actions, Calls,
          Plan,         \* Plan[t]: the actions of t's plan, in order
          Proposals     \* what planners may put in the actions: see Proposal

None == "none"
Route == {"BLUE", "GREEN", "INFEASIBLE", "RED"}

(***************************************************************************)
(* What decides an action's fate before and in 103:                         *)
(*   held      metadata.school_generation_failed                            *)
(*   missing   metadata.release_prerequisite_missing is True                *)
(*   link      the action whose deliverable metadata.linked_deliverable_id  *)
(*             names, or None                                               *)
(*   guard     "RED" or "INFEASIBLE" from the data-use guard, else "pass"   *)
(*   verdict   the route 103 decides, as computed in ActionRouting          *)
(*   tool      "ordinary" (registered), "human" (marker) or "unregistered"  *)
(***************************************************************************)
Proposal == [held : BOOLEAN, missing : BOOLEAN, link : Actions \union {None},
             guard : {"pass", "INFEASIBLE", "RED"}, verdict : Route,
             tool : {"ordinary", "human", "unregistered"}]

ASSUME PlanAssumption ==
    /\ Plan \in [Tasks -> Seq(Actions)]
    /\ \A t, u \in Tasks : \A i \in 1..Len(Plan[t]), j \in 1..Len(Plan[u]) :
           Plan[t][i] = Plan[u][j] => t = u /\ i = j
    /\ \A a \in Actions : \E t \in Tasks : \E i \in 1..Len(Plan[t]) : Plan[t][i] = a
ASSUME ProposalsAssumption == Proposals \subseteq [Actions -> Proposal]

Owner == [a \in Actions |-> CHOOSE t \in Tasks : \E i \in 1..Len(Plan[t]) : Plan[t][i] = a]

VARIABLES
    pending, signal, decisions, reviewer, status, timedOut, callAt, request, acked,
    proposal,   \* the plans as proposed
    halted,     \* emergency.halted of each task's Runtime
    at,         \* at[t]: the index of the action in hand
    phase,      \* phase[t]: "next", "review", "ticketed" or "finished"
    route,      \* route[a]: the route of a's decision, None before it
    entries,    \* entries[a]: how often a's decision is in result.decisions
    ticket,     \* ticket[a]: None, "policy" (BLUE) or "human" (GREEN, approved)
    execution   \* execution[a]: the status 107 recorded, or None

gateVars == <<pending, signal, decisions, reviewer, status, timedOut, callAt, request, acked>>
loopVars == <<proposal, halted, at, phase, route, entries, ticket, execution>>
vars == <<pending, signal, decisions, reviewer, status, timedOut, callAt, request, acked,
          proposal, halted, at, phase, route, entries, ticket, execution>>

G == INSTANCE WebHumanGate WITH Approvals <- Actions, TaskOf <- Owner

Init ==
    /\ G!Init
    /\ proposal \in Proposals
    /\ halted \in [Tasks -> BOOLEAN]    \* a Runtime may be reused after an emergency
    /\ at = [t \in Tasks |-> 1]
    /\ phase = [t \in Tasks |-> "next"]
    /\ route = [a \in Actions |-> None]
    /\ entries = [a \in Actions |-> 0]
    /\ ticket = [a \in Actions |-> None]
    /\ execution = [a \in Actions |-> None]

Current(t) == Plan[t][at[t]]

\* Mutant: any execution of the linked action counts, a failed one included.
LinkedAttempted(a) ==
    LET b == proposal[a].link
    IN  /\ \E i \in 1..Len(Plan[Owner[a]]) : Plan[Owner[a]][i] = b
        /\ ~proposal[b].held
        /\ execution[b] # None

\* The linked artifact must be in the plan, generated, and written with success.
LinkedSuccess(a) ==
    LET b == proposal[a].link
    IN  /\ \E i \in 1..Len(Plan[Owner[a]]) : Plan[Owner[a]][i] = b
        /\ ~proposal[b].held
        /\ execution[b] = "success"

\* The route of the decision, in the order of the early exits.
RouteOf(a) ==
    LET p == proposal[a]
    IN  CASE p.held \/ p.missing -> "INFEASIBLE"
          [] ~(p.held \/ p.missing) /\ p.link # None /\ ~LinkedSuccess(a) -> "INFEASIBLE"
          [] OTHER -> IF p.guard = "pass" THEN p.verdict ELSE p.guard

\* 103's own RED is appended by the loop and again by _on_red; the guard's RED
\* is appended by _on_red only.
EntriesOf(a) ==
    IF RouteOf(a) = "RED" /\ proposal[a].guard # "RED" THEN 2 ELSE 1

\* Mutant: the index moves twice.
AdvanceTwice(t) == /\ at' = [at EXCEPT ![t] = @ + 2]
                   /\ phase' = [phase EXCEPT ![t] = "next"]
Advance(t) == /\ at' = [at EXCEPT ![t] = @ + 1]
              /\ phase' = [phase EXCEPT ![t] = "next"]

Decided(a) == /\ route' = [route EXCEPT ![a] = RouteOf(a)]
              /\ entries' = [entries EXCEPT ![a] = EntriesOf(a)]

InHand(t) == phase[t] = "next" /\ at[t] <= Len(Plan[t])

\* RED and INFEASIBLE leave a block record; a halted runtime blocks the rest.
Block(t) ==
    LET a == Current(t)
    IN  /\ InHand(t)
        /\ RouteOf(a) \in {"RED", "INFEASIBLE"} \/ halted[t]
        /\ Decided(a) /\ Advance(t)
        /\ UNCHANGED <<gateVars, proposal, halted, ticket, execution>>

\* Mutant: the halt is not looked at before a BLUE action.
PermitWhileHalted(t) ==
    LET a == Current(t)
    IN  /\ InHand(t) /\ RouteOf(a) = "BLUE"
        /\ Decided(a)
        /\ ticket' = [ticket EXCEPT ![a] = "policy"]
        /\ phase' = [phase EXCEPT ![t] = "ticketed"]
        /\ UNCHANGED <<gateVars, proposal, halted, at, execution>>

\* BLUE: 103 issued the ticket with the decision.
Permit(t) ==
    LET a == Current(t)
    IN  /\ InHand(t) /\ ~halted[t] /\ RouteOf(a) = "BLUE"
        /\ Decided(a)
        /\ ticket' = [ticket EXCEPT ![a] = "policy"]
        /\ phase' = [phase EXCEPT ![t] = "ticketed"]
        /\ UNCHANGED <<gateVars, proposal, halted, at, execution>>

\* Mutant: nor before a human is asked.
AskWhileHalted(t) ==
    LET a == Current(t)
    IN  /\ InHand(t) /\ RouteOf(a) = "GREEN"
        /\ Decided(a)
        /\ G!Register(a)
        /\ phase' = [phase EXCEPT ![t] = "review"]
        /\ UNCHANGED <<proposal, halted, at, ticket, execution>>

\* GREEN: the worker registers the request and waits.
AskHuman(t) ==
    LET a == Current(t)
    IN  /\ InHand(t) /\ ~halted[t] /\ RouteOf(a) = "GREEN"
        /\ Decided(a)
        /\ G!Register(a)
        /\ phase' = [phase EXCEPT ![t] = "review"]
        /\ UNCHANGED <<proposal, halted, at, ticket, execution>>

\* Mutant: a timeout goes to the next action without the second critical section.
WakeAbandons(t) ==
    /\ phase[t] = "review"
    /\ \/ G!WakeSignaled(Current(t)) /\ UNCHANGED loopVars
       \/ /\ G!WakeTimedOut(Current(t)) /\ Advance(t)
          /\ UNCHANGED <<proposal, halted, route, entries, ticket, execution>>

Wake(t) ==
    /\ phase[t] = "review"
    /\ G!WakeSignaled(Current(t)) \/ G!WakeTimedOut(Current(t))
    /\ UNCHANGED loopVars

\* Mutants of Collect: everything but a rejection gets a ticket; a rejection
\* leaves the index where it is.
CollectAnyAnswer(t) ==
    LET a == Current(t)
    IN  /\ phase[t] = "review"
        /\ G!Collect(a)
        /\ IF status'[a] # "rejected"
           THEN /\ ticket' = [ticket EXCEPT ![a] = "human"]
                /\ phase' = [phase EXCEPT ![t] = "ticketed"]
                /\ UNCHANGED at
           ELSE Advance(t) /\ UNCHANGED ticket
        /\ UNCHANGED <<proposal, halted, route, entries, execution>>
CollectStays(t) ==
    LET a == Current(t)
        ok == status'[a] = "approved"
    IN  /\ phase[t] = "review"
        /\ G!Collect(a)
        /\ ticket' = IF ok THEN [ticket EXCEPT ![a] = "human"] ELSE ticket
        /\ phase' = [phase EXCEPT ![t] = IF ok THEN "ticketed" ELSE "next"]
        /\ UNCHANGED <<proposal, halted, at, route, entries, execution>>

\* review() returns; only "approved" gets a ticket.
Collect(t) ==
    LET a == Current(t)
    IN  /\ phase[t] = "review"
        /\ G!Collect(a)
        /\ IF status'[a] = "approved"
           THEN /\ ticket' = [ticket EXCEPT ![a] = "human"]
                /\ phase' = [phase EXCEPT ![t] = "ticketed"]
                /\ UNCHANGED at
           ELSE Advance(t) /\ UNCHANGED ticket
        /\ UNCHANGED <<proposal, halted, route, entries, execution>>

\* ExecutorModule.execute with the ticket just issued: a marker is skipped, a
\* tool without handler denied, a handler succeeds or fails.
Execute(t) ==
    LET a == Current(t)
        outcomes == CASE proposal[a].tool = "human" -> {"skipped"}
                      [] proposal[a].tool = "unregistered" -> {"denied"}
                      [] OTHER -> {"success", "failed"}
    IN  /\ phase[t] = "ticketed"
        /\ \E s \in outcomes : execution' = [execution EXCEPT ![a] = s]
        /\ Advance(t)
        /\ UNCHANGED <<gateVars, proposal, halted, route, entries, ticket>>

Finish(t) ==
    /\ phase[t] = "next" /\ at[t] > Len(Plan[t])
    /\ phase' = [phase EXCEPT ![t] = "finished"]
    /\ UNCHANGED <<gateVars, proposal, halted, at, route, entries, ticket, execution>>

Worker(t) == Block(t) \/ Permit(t) \/ AskHuman(t) \/ Wake(t) \/ Collect(t)
             \/ Execute(t) \/ Finish(t)

Browser(c) == G!Call(c) /\ UNCHANGED loopVars

Next == (\E t \in Tasks : Worker(t)) \/ (\E c \in Calls : Browser(c))

\* A worker thread keeps running; its only wait has a timeout.  Browsers owe nothing.
Fairness == \A t \in Tasks : WF_vars(Worker(t))
Spec == Init /\ [][Next]_vars /\ Fairness

-------------------------------------------------------------------------------
Ran(a) == execution[a] \in {"success", "failed"}

TypeOK ==
    /\ G!TypeOK
    /\ proposal \in [Actions -> Proposal]
    /\ halted \in [Tasks -> BOOLEAN]
    /\ at \in [Tasks -> Nat \ {0}]
    /\ \A t \in Tasks : at[t] <= Len(Plan[t]) + 1
    /\ phase \in [Tasks -> {"next", "review", "ticketed", "finished"}]
    /\ route \in [Actions -> Route \union {None}]
    /\ entries \in [Actions -> 0..2]
    /\ ticket \in [Actions -> {None, "policy", "human"}]
    /\ execution \in [Actions -> {None, "success", "failed", "skipped", "denied"}]

\* No tool handler runs without authority: the route was BLUE, or it was GREEN
\* and an operator's "approved" was accepted for this very action.
ExecutedOnlyIfAuthorised ==
    \A a \in Actions : Ran(a) =>
        \/ route[a] = "BLUE"
        \/ route[a] = "GREEN" /\ status[a] = "approved" /\ "approved" \in acked[a]

\* A release goes out only after the artifact it is linked to was written, and
\* a held artifact never counts.
ReleaseOnlyAfterArtifact ==
    \A a \in Actions : Ran(a) /\ proposal[a].link # None =>
        LET b == proposal[a].link
        IN  execution[b] = "success" /\ ~proposal[b].held

\* A halted runtime runs nothing and asks nobody.
HaltedRunsNothing ==
    \A t \in Tasks : halted[t] =>
        \A i \in 1..Len(Plan[t]) :
            LET a == Plan[t][i] IN execution[a] = None /\ reviewer[a] = "idle"

\* One worker, one question: a task has at most the action in hand on the gate,
\* and a question on the gate is always one a worker still waits for.
PendingIsInHand ==
    \A a \in pending : phase[Owner[a]] = "review" /\ Current(Owner[a]) = a

\* The loop is a governed execution whose consents are the accepted approvals.
ModeOf(a) == CASE route[a] = "BLUE" /\ ~halted[Owner[a]] -> "silent"
               [] route[a] = "GREEN" /\ ~halted[Owner[a]] -> "asks"
               [] route[a] = None -> "undecided"
               [] OTHER -> "refused"
Governed == INSTANCE GovernedExecution WITH
    mode <- [a \in Actions |-> ModeOf(a)],
    consent <- {a \in Actions : "approved" \in acked[a]},
    ran <- {a \in Actions : Ran(a)}
ImplementsGovernedExecution == Governed!Spec

\* Whatever operators do or fail to do, every task's plan is worked off.
EveryPlanFinishes == \A t \in Tasks : <>(phase[t] = "finished")
===============================================================================
