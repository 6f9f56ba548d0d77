--------------------------- MODULE ActionLoop_proofs ---------------------------
(***************************************************************************)
(* Proofs about the action loop for any tasks, plans, proposals and browser *)
(* calls.  The facts about the gate are those of WebHumanGate_proofs, taken *)
(* over at the gate's instance in the loop.                                 *)
(***************************************************************************)
EXTENDS ActionLoop, TLAPS

GP == INSTANCE WebHumanGate_proofs WITH Approvals <- Actions, TaskOf <- Owner

\* What lies ahead of the index is untouched.
AheadUntouched ==
    \A t \in Tasks : \A i \in 1..Len(Plan[t]) :
        i > at[t] \/ (i = at[t] /\ phase[t] = "next") =>
            /\ route[Plan[t][i]] = None /\ ticket[Plan[t][i]] = None
            /\ execution[Plan[t][i]] = None /\ reviewer[Plan[t][i]] = "idle"

\* The action in hand, while it is under review or has its ticket.
InHandConsistent ==
    \A t \in Tasks :
        /\ phase[t] \in {"review", "ticketed"} =>
               at[t] <= Len(Plan[t]) /\ ~halted[t] /\ execution[Current(t)] = None
        /\ phase[t] = "review" => route[Current(t)] = "GREEN" /\ ticket[Current(t)] = None
        /\ phase[t] = "ticketed" =>
               ticket[Current(t)] # None /\ reviewer[Current(t)] \notin {"waiting", "woken"}

\* A registered request is for the action its task has in hand.
OnGateInHand ==
    \A a \in Actions : reviewer[a] \in {"waiting", "woken"} =>
        phase[Owner[a]] = "review" /\ Current(Owner[a]) = a

\* A ticket states its authority.
TicketsJustified ==
    \A a \in Actions :
        /\ ticket[a] = "policy" => route[a] = "BLUE"
        /\ ticket[a] = "human" => route[a] = "GREEN" /\ status[a] = "approved"
        /\ execution[a] # None => ticket[a] # None
        /\ halted[Owner[a]] => ticket[a] = None /\ reviewer[a] = "idle"

LoopInv == /\ TypeOK /\ GP!GateInv
           /\ AheadUntouched /\ InHandConsistent /\ OnGateInHand /\ TicketsJustified

-------------------------------------------------------------------------------
\* A plan's actions are nobody else's: where an action stands says whose it is.
LEMMA PlanFacts ==
    ASSUME NEW t \in Tasks, NEW i \in 1..Len(Plan[t])
    PROVE  /\ Plan[t][i] \in Actions
           /\ Owner[Plan[t][i]] = t
           /\ \A u \in Tasks : \A j \in 1..Len(Plan[u]) :
                  Plan[u][j] = Plan[t][i] => u = t /\ j = i
<1>1. Plan[t] \in Seq(Actions)
  BY PlanAssumption
<1>2. Plan[t][i] \in Actions
  BY <1>1
<1>3. \A u \in Tasks : \A j \in 1..Len(Plan[u]) : Plan[u][j] = Plan[t][i] => u = t /\ j = i
  BY PlanAssumption
<1>4. Owner[Plan[t][i]] = t
  <2>1. Owner[Plan[t][i]] = CHOOSE u \in Tasks : \E j \in 1..Len(Plan[u]) : Plan[u][j] = Plan[t][i]
    BY <1>2 DEF Owner
  <2>2. \E u \in Tasks : \E j \in 1..Len(Plan[u]) : Plan[u][j] = Plan[t][i]
    OBVIOUS
  <2> QED BY <1>3, <2>1, <2>2
<1> QED BY <1>2, <1>3, <1>4


\* Every action belongs to the plan of some task.
LEMMA OwnerType == Owner \in [Actions -> Tasks]
<1>1. \A a \in Actions : \E t \in Tasks : \E i \in 1..Len(Plan[t]) : Plan[t][i] = a
  BY PlanAssumption
<1> QED BY <1>1 DEF Owner

\* The steps of a review and of a call keep the gate's invariant here too.
LEMMA GateReview ==
    ASSUME NEW a \in Actions, GP!GateInv, G!Review(a)
    PROVE  GP!GateInv'
<1>1. GP!Review(a)
  BY DEF G!Review, GP!Review, G!Register, GP!Register, G!WakeSignaled, GP!WakeSignaled,
         G!WakeTimedOut, GP!WakeTimedOut, G!Collect, GP!Collect, G!Verdict, GP!Verdict,
         G!gateVars, GP!gateVars, G!callVars, GP!callVars, G!Registered, GP!Registered, G!None, GP!None
<1>2. GP!TaskOfAssumption
  BY OwnerType DEF GP!TaskOfAssumption
<1> QED BY <1>1, <1>2, GP!ReviewKeepsInv

\* A call of the gate made by the loop is a call of the gate module.
LEMMA GateCall ==
    ASSUME NEW c \in Calls, GP!GateInv, G!Call(c)
    PROVE  GP!GateInv'
<1>1. GP!Call(c)
  BY DEF G!Call, GP!Call, G!Snapshot, GP!Snapshot, G!DecideGone, GP!DecideGone, G!DecideOk,
         GP!DecideOk, G!gateVars, GP!gateVars, G!Registered, GP!Registered, G!Request,
         GP!Request, G!Answers, GP!Answers
<1>2. GP!TaskOfAssumption
  BY OwnerType DEF GP!TaskOfAssumption
<1> QED BY <1>1, <1>2, GP!CallKeepsInv

\* A step that leaves the gate alone keeps its invariant.
LEMMA GateStays == GP!GateInv /\ UNCHANGED gateVars => GP!GateInv'
<1> SUFFICES ASSUME GP!GateInv, UNCHANGED gateVars PROVE GP!GateInv'
  OBVIOUS
<1>1. UNCHANGED GP!vars
  BY DEF gateVars, GP!vars
<1>2. GP!TaskOfAssumption
  BY OwnerType DEF GP!TaskOfAssumption
<1> QED BY <1>1, <1>2, GP!GateStutter

\* The gate's invariant contains its type invariant.
LEMMA GateTypes == GP!GateInv => G!TypeOK
BY DEF GP!GateInv, GP!TypeOK, G!TypeOK, GP!Registered, G!Registered, GP!Answers, G!Answers,
       GP!None, G!None, GP!Request, G!Request, GP!NoRequest, G!NoRequest

-------------------------------------------------------------------------------
\* The loop's own types, apart from the gate's.
LoopTypes ==
    /\ proposal \in [Actions -> Proposal] /\ halted \in [Tasks -> BOOLEAN]
    /\ at \in [Tasks -> Nat \ {0}] /\ \A t \in Tasks : at[t] <= Len(Plan[t]) + 1
    /\ phase \in [Tasks -> {"next", "review", "ticketed", "finished"}]
    /\ route \in [Actions -> Route \union {None}]
    /\ entries \in [Actions -> 0..2]
    /\ ticket \in [Actions -> {None, "policy", "human"}]
    /\ execution \in [Actions -> {None, "success", "failed", "skipped", "denied"}]

\* The loop's type invariant is the gate's and the loop's own.
LEMMA TypesSplit == TypeOK <=> G!TypeOK /\ LoopTypes
BY DEF TypeOK, LoopTypes

\* The action in hand belongs to the plan of its task.
LEMMA InHandFacts ==
    ASSUME NEW t \in Tasks, LoopTypes, at[t] <= Len(Plan[t])
    PROVE  /\ at[t] \in 1..Len(Plan[t])
           /\ Current(t) \in Actions /\ Owner[Current(t)] = t
           /\ \A u \in Tasks : \A i \in 1..Len(Plan[u]) :
                  Plan[u][i] = Current(t) => u = t /\ i = at[t]
<1>1. Len(Plan[t]) \in Nat
  BY PlanAssumption
<1>2. at[t] \in 1..Len(Plan[t])
  BY <1>1 DEF LoopTypes
<1> QED BY <1>2, PlanFacts DEF Current

\* The route and the number of decisions of an action.
LEMMA RouteOfType ==
    ASSUME NEW a \in Actions, LoopTypes
    PROVE  RouteOf(a) \in Route /\ EntriesOf(a) \in 1..2
BY DEF LoopTypes, Proposal, RouteOf, EntriesOf, Route

\* A step of t's worker that touches only the action in hand keeps the
\* invariant if it keeps it for that action.
LEMMA Frame ==
    ASSUME NEW t \in Tasks, LoopInv, LoopTypes, LoopTypes', at[t] <= Len(Plan[t]),
           halted' = halted,
           \A u \in Tasks \ {t} : at'[u] = at[u] /\ phase'[u] = phase[u],
           \A b \in Actions \ {Current(t)} :
               /\ route'[b] = route[b] /\ ticket'[b] = ticket[b]
               /\ execution'[b] = execution[b]
               /\ reviewer'[b] = reviewer[b] /\ status'[b] = status[b],
           \/ /\ at'[t] = at[t] + 1 /\ phase'[t] = "next"
              /\ reviewer'[Current(t)] \notin {"waiting", "woken"}
           \/ at'[t] = at[t] /\ phase'[t] \in {"review", "ticketed"},
           phase'[t] \in {"review", "ticketed"} =>
               ~halted[t] /\ execution'[Current(t)] = None,
           phase'[t] = "review" =>
               route'[Current(t)] = "GREEN" /\ ticket'[Current(t)] = None,
           phase'[t] = "ticketed" =>
               /\ ticket'[Current(t)] # None
               /\ reviewer'[Current(t)] \notin {"waiting", "woken"},
           ticket'[Current(t)] = "policy" => route'[Current(t)] = "BLUE",
           ticket'[Current(t)] = "human" =>
               route'[Current(t)] = "GREEN" /\ status'[Current(t)] = "approved",
           execution'[Current(t)] # None => ticket'[Current(t)] # None,
           halted[t] => ticket'[Current(t)] = None /\ reviewer'[Current(t)] = "idle"
    PROVE  AheadUntouched' /\ InHandConsistent' /\ OnGateInHand' /\ TicketsJustified'
<1> DEFINE a == Current(t)
<1>1. /\ at[t] \in 1..Len(Plan[t]) /\ a \in Actions /\ Owner[a] = t
      /\ \A u \in Tasks : \A i \in 1..Len(Plan[u]) : Plan[u][i] = a => u = t /\ i = at[t]
  BY InHandFacts
<1>2. a = Plan[t][at[t]]
  BY DEF Current
<1>3. \A u \in Tasks : \A i \in 1..Len(Plan[u]) : Plan[u][i] \in Actions /\ Owner[Plan[u][i]] = u
  BY PlanFacts
<1>4. \A u \in Tasks : Len(Plan[u]) \in Nat /\ at[u] \in Nat \ {0} /\ at'[u] \in Nat \ {0}
  BY PlanAssumption DEF LoopTypes
<1> HIDE DEF a
<1>5. AheadUntouched'
  <2> SUFFICES ASSUME NEW u \in Tasks, NEW i \in 1..Len(Plan[u]),
                      i > at'[u] \/ (i = at'[u] /\ phase'[u] = "next")
               PROVE  /\ route'[Plan[u][i]] = None /\ ticket'[Plan[u][i]] = None
                      /\ execution'[Plan[u][i]] = None /\ reviewer'[Plan[u][i]] = "idle"
    BY DEF AheadUntouched
  <2>1. i > at[u] \/ (i = at[u] /\ phase[u] = "next" /\ u # t)
    BY <1>4
  <2>2. Plan[u][i] \in Actions \ {a}
    BY <1>1, <1>3, <1>4, <2>1
  <2> QED BY <2>1, <2>2 DEF LoopInv, AheadUntouched, a
<1>6. InHandConsistent'
  <2> SUFFICES ASSUME NEW u \in Tasks
               PROVE  /\ phase'[u] \in {"review", "ticketed"} =>
                             /\ at'[u] <= Len(Plan[u]) /\ ~halted[u]
                             /\ execution'[Plan[u][at'[u]]] = None
                      /\ phase'[u] = "review" =>
                             /\ route'[Plan[u][at'[u]]] = "GREEN"
                             /\ ticket'[Plan[u][at'[u]]] = None
                      /\ phase'[u] = "ticketed" =>
                             /\ ticket'[Plan[u][at'[u]]] # None
                             /\ reviewer'[Plan[u][at'[u]]] \notin {"waiting", "woken"}
    BY DEF InHandConsistent, Current
  <2>1. CASE u = t
    BY <1>1, <1>2, <2>1 DEF a
  <2>2. CASE u # t
    <3>1. at'[u] = at[u] /\ phase'[u] = phase[u]
      BY <2>2
    <3>2. phase[u] \in {"review", "ticketed"} =>
              at[u] \in 1..Len(Plan[u]) /\ Plan[u][at[u]] \in Actions \ {a}
      BY <1>1, <1>3, <1>4, <2>2 DEF LoopInv, InHandConsistent
    <3> QED BY <3>1, <3>2 DEF LoopInv, InHandConsistent, Current, a
  <2> QED BY <2>1, <2>2
<1>7. OnGateInHand'
  <2> SUFFICES ASSUME NEW b \in Actions, reviewer'[b] \in {"waiting", "woken"}
               PROVE  phase'[Owner[b]] = "review" /\ Plan[Owner[b]][at'[Owner[b]]] = b
    BY DEF OnGateInHand, Current
  <2>1. CASE b = a
    BY <1>1, <1>2, <2>1 DEF a
  <2>2. CASE b # a
    <3>1. phase[Owner[b]] = "review" /\ Plan[Owner[b]][at[Owner[b]]] = b
      BY <2>2 DEF LoopInv, OnGateInHand, Current, a
    <3>2. Owner[b] # t
      BY <1>2, <2>2, <3>1
    <3>3. Owner[b] \in Tasks
      BY OwnerType
    <3> QED BY <3>1, <3>2, <3>3
  <2> QED BY <2>1, <2>2
<1>8. TicketsJustified'
  <2> SUFFICES ASSUME NEW b \in Actions
               PROVE  /\ ticket'[b] = "policy" => route'[b] = "BLUE"
                      /\ ticket'[b] = "human" => route'[b] = "GREEN" /\ status'[b] = "approved"
                      /\ execution'[b] # None => ticket'[b] # None
                      /\ halted[Owner[b]] => ticket'[b] = None /\ reviewer'[b] = "idle"
    BY DEF TicketsJustified
  <2>1. CASE b = a
    BY <1>1, <2>1 DEF a
  <2>2. CASE b # a
    BY <2>2 DEF LoopInv, TicketsJustified, a
  <2> QED BY <2>1, <2>2
<1> QED BY <1>5, <1>6, <1>7, <1>8

-------------------------------------------------------------------------------
\* One lemma per action of the worker.
LEMMA BlockKeepsInv ==
    ASSUME NEW t \in Tasks, LoopInv, Block(t)
    PROVE  LoopInv'
<1> DEFINE a == Current(t)
<1>1. LoopTypes /\ G!TypeOK
  BY TypesSplit DEF LoopInv
<1>2. phase[t] = "next" /\ at[t] <= Len(Plan[t])
  BY DEF Block, InHand
<1>3. at[t] \in 1..Len(Plan[t]) /\ a \in Actions /\ Owner[a] = t
  BY <1>1, <1>2, InHandFacts
<1>4. RouteOf(a) \in Route /\ EntriesOf(a) \in 1..2
  BY <1>1, <1>3, RouteOfType
<1>5. GP!GateInv'
  BY GateStays DEF LoopInv, Block
<1>6. LoopTypes'
  BY <1>1, <1>2, <1>3, <1>4 DEF LoopTypes, Block, Decided, Advance, gateVars
<1>7. ticket[a] = None /\ execution[a] = None /\ reviewer[a] = "idle"
  BY <1>2, <1>3 DEF LoopInv, AheadUntouched, Current
<1>8. /\ halted' = halted /\ at'[t] = at[t] + 1 /\ phase'[t] = "next"
      /\ \A u \in Tasks \ {t} : at'[u] = at[u] /\ phase'[u] = phase[u]
      /\ \A b \in Actions \ {a} : route'[b] = route[b]
      /\ ticket' = ticket /\ execution' = execution /\ reviewer' = reviewer /\ status' = status
  BY <1>1, <1>3 DEF LoopTypes, Block, Decided, Advance, gateVars
<1>9. AheadUntouched' /\ InHandConsistent' /\ OnGateInHand' /\ TicketsJustified'
  <2> HIDE DEF a
  <2>1. a = Current(t)
    BY DEF a
  <2> QED BY <1>1, <1>2, <1>6, <1>7, <1>8, <2>1, Frame DEF None
<1> QED BY <1>5, <1>6, <1>9, GateTypes, TypesSplit, PTL DEF LoopInv

\* An action permitted without a human has its route and its artifact.
LEMMA PermitKeepsInv ==
    ASSUME NEW t \in Tasks, LoopInv, Permit(t)
    PROVE  LoopInv'
<1> DEFINE a == Current(t)
<1>1. LoopTypes /\ G!TypeOK
  BY TypesSplit DEF LoopInv
<1>2. phase[t] = "next" /\ at[t] <= Len(Plan[t])
  BY DEF Permit, InHand
<1>3. at[t] \in 1..Len(Plan[t]) /\ a \in Actions /\ Owner[a] = t
  BY <1>1, <1>2, InHandFacts
<1>4. RouteOf(a) \in Route /\ EntriesOf(a) \in 1..2
  BY <1>1, <1>3, RouteOfType
<1>5. GP!GateInv'
  BY GateStays DEF LoopInv, Permit
<1>6. LoopTypes'
  BY <1>1, <1>2, <1>3, <1>4 DEF LoopTypes, Permit, Decided, gateVars
<1>7. ticket[a] = None /\ execution[a] = None /\ reviewer[a] = "idle"
  BY <1>2, <1>3 DEF LoopInv, AheadUntouched, Current
<1>8. /\ halted' = halted /\ ~halted[t] /\ at'[t] = at[t] /\ phase'[t] = "ticketed"
      /\ \A u \in Tasks \ {t} : at'[u] = at[u] /\ phase'[u] = phase[u]
      /\ \A b \in Actions \ {a} : route'[b] = route[b] /\ ticket'[b] = ticket[b]
      /\ route'[a] = "BLUE" /\ ticket'[a] = "policy"
      /\ execution' = execution /\ reviewer' = reviewer /\ status' = status
  BY <1>1, <1>3 DEF LoopTypes, Permit, Decided, gateVars
<1>9. AheadUntouched' /\ InHandConsistent' /\ OnGateInHand' /\ TicketsJustified'
  <2> HIDE DEF a
  <2>1. a = Current(t)
    BY DEF a
  <2> QED BY <1>1, <1>2, <1>6, <1>7, <1>8, <2>1, Frame DEF None
<1> QED BY <1>5, <1>6, <1>9, GateTypes, TypesSplit, PTL DEF LoopInv

\* An action waiting for a human is the one in hand, and nothing halts its task.
LEMMA AskHumanKeepsInv ==
    ASSUME NEW t \in Tasks, LoopInv, AskHuman(t)
    PROVE  LoopInv'
<1> DEFINE a == Current(t)
<1>1. LoopTypes /\ G!TypeOK
  BY TypesSplit DEF LoopInv
<1>2. phase[t] = "next" /\ at[t] <= Len(Plan[t])
  BY DEF AskHuman, InHand
<1>3. at[t] \in 1..Len(Plan[t]) /\ a \in Actions /\ Owner[a] = t
  BY <1>1, <1>2, InHandFacts
<1>4. RouteOf(a) \in Route /\ EntriesOf(a) \in 1..2
  BY <1>1, <1>3, RouteOfType
<1>5. GP!GateInv'
  <2>1. G!Review(a)
    BY DEF AskHuman, G!Review
  <2> QED BY <1>3, <2>1, GateReview DEF LoopInv
<1>6. LoopTypes'
  BY <1>1, <1>2, <1>3, <1>4 DEF LoopTypes, AskHuman, Decided
<1>7. ticket[a] = None /\ execution[a] = None /\ reviewer[a] = "idle"
  BY <1>2, <1>3 DEF LoopInv, AheadUntouched, Current
<1>8. /\ halted' = halted /\ ~halted[t] /\ at'[t] = at[t] /\ phase'[t] = "review"
      /\ \A u \in Tasks \ {t} : at'[u] = at[u] /\ phase'[u] = phase[u]
      /\ \A b \in Actions \ {a} : route'[b] = route[b] /\ reviewer'[b] = reviewer[b]
      /\ route'[a] = "GREEN"
      /\ ticket' = ticket /\ execution' = execution /\ status' = status
  BY <1>1, <1>3 DEF LoopTypes, G!TypeOK, AskHuman, Decided, G!Register
<1>9. AheadUntouched' /\ InHandConsistent' /\ OnGateInHand' /\ TicketsJustified'
  <2> HIDE DEF a
  <2>1. a = Current(t)
    BY DEF a
  <2> QED BY <1>1, <1>2, <1>6, <1>7, <1>8, <2>1, Frame DEF None
<1> QED BY <1>5, <1>6, <1>9, GateTypes, TypesSplit, PTL DEF LoopInv

\* Waking up says nothing yet about the action.
LEMMA WakeKeepsInv ==
    ASSUME NEW t \in Tasks, LoopInv, Wake(t)
    PROVE  LoopInv'
<1> DEFINE a == Current(t)
<1>1. LoopTypes /\ G!TypeOK
  BY TypesSplit DEF LoopInv
<1>2. phase[t] = "review" /\ at[t] <= Len(Plan[t])
  BY DEF Wake, LoopInv, InHandConsistent
<1>3. at[t] \in 1..Len(Plan[t]) /\ a \in Actions /\ Owner[a] = t
  BY <1>1, <1>2, InHandFacts
<1>5. GP!GateInv'
  <2>1. G!Review(a)
    BY DEF Wake, G!Review
  <2> QED BY <1>3, <2>1, GateReview DEF LoopInv
<1>6. LoopTypes'
  BY <1>1 DEF LoopTypes, Wake, loopVars
<1>7. /\ ticket[a] = None /\ execution[a] = None /\ ~halted[t] /\ route[a] = "GREEN"
  BY <1>2 DEF LoopInv, InHandConsistent
<1>8. /\ halted' = halted /\ at' = at /\ phase' = phase
      /\ \A b \in Actions \ {a} : reviewer'[b] = reviewer[b]
      /\ route' = route /\ ticket' = ticket /\ execution' = execution /\ status' = status
  BY <1>1, <1>3 DEF LoopTypes, G!TypeOK, Wake, loopVars, G!WakeSignaled, G!WakeTimedOut
<1>9. AheadUntouched' /\ InHandConsistent' /\ OnGateInHand' /\ TicketsJustified'
  <2> HIDE DEF a
  <2>1. a = Current(t)
    BY DEF a
  <2> QED BY <1>1, <1>2, <1>6, <1>7, <1>8, <2>1, Frame DEF None
<1> QED BY <1>5, <1>6, <1>9, GateTypes, TypesSplit, PTL DEF LoopInv

\* Only an approval lets the action in hand run; a rejection skips it.
LEMMA CollectKeepsInv ==
    ASSUME NEW t \in Tasks, LoopInv, Collect(t)
    PROVE  LoopInv'
<1> DEFINE a == Current(t)
<1>1. LoopTypes /\ G!TypeOK
  BY TypesSplit DEF LoopInv
<1>2. phase[t] = "review" /\ at[t] <= Len(Plan[t])
  BY DEF Collect, LoopInv, InHandConsistent
<1>3. at[t] \in 1..Len(Plan[t]) /\ a \in Actions /\ Owner[a] = t
  BY <1>1, <1>2, InHandFacts
<1>5. GP!GateInv'
  <2>1. G!Review(a)
    BY DEF Collect, G!Review
  <2> QED BY <1>3, <2>1, GateReview DEF LoopInv
<1>7. /\ ticket[a] = None /\ execution[a] = None /\ ~halted[t] /\ route[a] = "GREEN"
  BY <1>2 DEF LoopInv, InHandConsistent
<1>8. /\ halted' = halted /\ route' = route /\ execution' = execution
      /\ \A b \in Actions \ {a} : reviewer'[b] = reviewer[b] /\ status'[b] = status[b]
      /\ reviewer'[a] = "done"
  BY <1>1, <1>3 DEF G!TypeOK, Collect, G!Collect
<1>10. CASE status'[a] = "approved"
  <2>1. /\ at' = at /\ phase' = [phase EXCEPT ![t] = "ticketed"]
        /\ ticket' = [ticket EXCEPT ![a] = "human"]
    BY <1>10 DEF Collect
  <2>2. LoopTypes'
    BY <1>1, <1>3, <1>8, <2>1 DEF LoopTypes, Collect
  <2>3. AheadUntouched' /\ InHandConsistent' /\ OnGateInHand' /\ TicketsJustified'
    <3>1. /\ at'[t] = at[t] /\ phase'[t] = "ticketed" /\ ticket'[a] = "human"
          /\ \A u \in Tasks \ {t} : at'[u] = at[u] /\ phase'[u] = phase[u]
          /\ \A b \in Actions \ {a} : ticket'[b] = ticket[b]
      BY <1>1, <1>3, <2>1 DEF LoopTypes
    <3> HIDE DEF a
    <3>2. a = Current(t)
      BY DEF a
    <3> QED BY <1>1, <1>2, <1>7, <1>8, <1>10, <2>2, <3>1, <3>2, Frame DEF None
  <2> QED BY <1>5, <2>2, <2>3, GateTypes, TypesSplit, PTL DEF LoopInv
<1>11. CASE status'[a] # "approved"
  <2>1. /\ at' = [at EXCEPT ![t] = @ + 1] /\ phase' = [phase EXCEPT ![t] = "next"]
        /\ ticket' = ticket
    BY <1>11 DEF Collect, Advance
  <2>2. LoopTypes'
    BY <1>1, <1>2, <1>3, <1>8, <2>1 DEF LoopTypes, Collect
  <2>3. AheadUntouched' /\ InHandConsistent' /\ OnGateInHand' /\ TicketsJustified'
    <3>1. /\ at'[t] = at[t] + 1 /\ phase'[t] = "next"
          /\ \A u \in Tasks \ {t} : at'[u] = at[u] /\ phase'[u] = phase[u]
      BY <1>1, <2>1 DEF LoopTypes
    <3> HIDE DEF a
    <3>2. a = Current(t)
      BY DEF a
    <3> QED BY <1>1, <1>2, <1>7, <1>8, <2>1, <2>2, <3>1, <3>2, Frame DEF None
  <2> QED BY <1>5, <2>2, <2>3, GateTypes, TypesSplit, PTL DEF LoopInv
<1> QED BY <1>10, <1>11

\* What runs was authorised, and its artifact exists.
LEMMA ExecuteKeepsInv ==
    ASSUME NEW t \in Tasks, LoopInv, Execute(t)
    PROVE  LoopInv'
<1> DEFINE a == Current(t)
<1>1. LoopTypes /\ G!TypeOK
  BY TypesSplit DEF LoopInv
<1>2. phase[t] = "ticketed" /\ at[t] <= Len(Plan[t])
  BY DEF Execute, LoopInv, InHandConsistent
<1>3. at[t] \in 1..Len(Plan[t]) /\ a \in Actions /\ Owner[a] = t
  BY <1>1, <1>2, InHandFacts
<1>5. GP!GateInv'
  BY GateStays DEF LoopInv, Execute
<1>6. LoopTypes'
  BY <1>1, <1>2, <1>3 DEF LoopTypes, Execute, Advance, gateVars
<1>7. /\ ticket[a] # None /\ ~halted[t] /\ reviewer[a] \notin {"waiting", "woken"}
      /\ ticket[a] = "policy" => route[a] = "BLUE"
      /\ ticket[a] = "human" => route[a] = "GREEN" /\ status[a] = "approved"
  BY <1>2, <1>3 DEF LoopInv, InHandConsistent, TicketsJustified
<1>8. /\ halted' = halted /\ at'[t] = at[t] + 1 /\ phase'[t] = "next"
      /\ \A u \in Tasks \ {t} : at'[u] = at[u] /\ phase'[u] = phase[u]
      /\ \A b \in Actions \ {a} : execution'[b] = execution[b]
      /\ route' = route /\ ticket' = ticket /\ reviewer' = reviewer /\ status' = status
  BY <1>1, <1>3 DEF LoopTypes, Execute, Advance, gateVars
<1>9. AheadUntouched' /\ InHandConsistent' /\ OnGateInHand' /\ TicketsJustified'
  <2> HIDE DEF a
  <2>1. a = Current(t)
    BY DEF a
  <2> QED BY <1>1, <1>2, <1>6, <1>7, <1>8, <2>1, Frame DEF None
<1> QED BY <1>5, <1>6, <1>9, GateTypes, TypesSplit, PTL DEF LoopInv

\* The end of a plan changes no action.
LEMMA FinishKeepsInv ==
    ASSUME NEW t \in Tasks, LoopInv, Finish(t)
    PROVE  LoopInv'
<1>1. LoopTypes /\ G!TypeOK
  BY TypesSplit DEF LoopInv
<1>2. GP!GateInv'
  BY GateStays DEF LoopInv, Finish
<1>3. LoopTypes'
  BY <1>1 DEF LoopTypes, Finish
<1>4. /\ \A u \in Tasks \ {t} : phase'[u] = phase[u]
      /\ phase[t] = "next" /\ phase'[t] = "finished"
      /\ UNCHANGED <<gateVars, proposal, halted, at, route, entries, ticket, execution>>
  BY <1>1 DEF LoopTypes, Finish
<1>5. AheadUntouched'
  BY <1>1, <1>4 DEF LoopInv, AheadUntouched, gateVars
<1>6. InHandConsistent'
  BY <1>1, <1>4 DEF LoopInv, InHandConsistent, Current, gateVars
<1>7. OnGateInHand'
  BY <1>1, <1>4, OwnerType DEF LoopInv, OnGateInHand, Current, gateVars
<1>8. TicketsJustified'
  BY <1>1, <1>4 DEF LoopInv, TicketsJustified, gateVars
<1> QED BY <1>2, <1>3, <1>5, <1>6, <1>7, <1>8, GateTypes, TypesSplit, PTL DEF LoopInv

\* A browser moves no review: it only stores and signals decisions.
LEMMA BrowserKeepsInv ==
    ASSUME NEW c \in Calls, LoopInv, Browser(c)
    PROVE  LoopInv'
<1>1. LoopTypes /\ G!TypeOK
  BY TypesSplit DEF LoopInv
<1>2. GP!GateInv'
  BY GateCall DEF LoopInv, Browser
<1>3. reviewer' = reviewer /\ status' = status /\ UNCHANGED loopVars
  BY DEF Browser, G!Call, G!Snapshot, G!DecideGone, G!DecideOk
<1>4. LoopTypes'
  BY <1>1, <1>3 DEF LoopTypes, loopVars
<1>5. AheadUntouched' /\ InHandConsistent' /\ OnGateInHand' /\ TicketsJustified'
  BY <1>3 DEF LoopInv, AheadUntouched, InHandConsistent, OnGateInHand, TicketsJustified,
              Current, loopVars
<1> QED BY <1>2, <1>4, <1>5, GateTypes, TypesSplit, PTL DEF LoopInv

\* A stuttering step keeps the invariant.
LEMMA LoopStutter == LoopInv /\ UNCHANGED vars => LoopInv'
<1> SUFFICES ASSUME LoopInv, UNCHANGED vars PROVE LoopInv'
  OBVIOUS
<1>1. LoopTypes /\ G!TypeOK
  BY TypesSplit DEF LoopInv
<1>2. UNCHANGED gateVars /\ UNCHANGED loopVars
  BY DEF vars, gateVars, loopVars
<1>3. GP!GateInv'
  BY <1>2, GateStays DEF LoopInv
<1>4. LoopTypes'
  BY <1>1, <1>2 DEF LoopTypes, loopVars
<1>5. AheadUntouched' /\ InHandConsistent' /\ OnGateInHand' /\ TicketsJustified'
  BY <1>2 DEF LoopInv, AheadUntouched, InHandConsistent, OnGateInHand, TicketsJustified,
              Current, loopVars, gateVars
<1> QED BY <1>3, <1>4, <1>5, GateTypes, TypesSplit, PTL DEF LoopInv

\* Before the first action nothing is decided.
LEMMA LoopInit == Init => LoopInv
<1> SUFFICES ASSUME Init PROVE LoopInv
  OBVIOUS
<1>1. GP!GateInv
  <2>1. GP!Init
    BY DEF Init, G!Init, GP!Init, G!None, GP!None, G!NoRequest, GP!NoRequest
  <2>2. GP!TaskOfAssumption
    BY OwnerType DEF GP!TaskOfAssumption
  <2> QED BY <2>1, <2>2, GP!GateInit
<1>2. LoopTypes
  <2>1. \A t \in Tasks : Len(Plan[t]) \in Nat
    BY PlanAssumption
  <2> QED BY <2>1, ProposalsAssumption DEF Init, LoopTypes, Route
<1>3. AheadUntouched /\ InHandConsistent
  BY PlanFacts DEF Init, G!Init, AheadUntouched, InHandConsistent
<1>4. OnGateInHand /\ TicketsJustified
  BY DEF Init, G!Init, OnGateInHand, TicketsJustified, None
<1> QED BY <1>1, <1>2, <1>3, <1>4, GateTypes, TypesSplit DEF LoopInv

-------------------------------------------------------------------------------
\* The inductive invariant holds in every behaviour of the loop.
THEOREM LoopInvariant == Spec => []LoopInv
<1>1. LoopInv /\ [Next]_vars => LoopInv'
  BY BlockKeepsInv, PermitKeepsInv, AskHumanKeepsInv, WakeKeepsInv, CollectKeepsInv,
     ExecuteKeepsInv, FinishKeepsInv, BrowserKeepsInv, LoopStutter DEF Next, Worker
<1> QED BY LoopInit, <1>1, PTL DEF Spec

\* Every variable of the loop and of the gate under it keeps its type.
THEOREM LoopTypeCorrect == Spec => []TypeOK
<1>1. LoopInv => TypeOK
  BY DEF LoopInv
<1> QED BY LoopInvariant, <1>1, PTL

\* No tool handler runs without authority: the route was BLUE, or it was GREEN
\* and an operator's "approved" was accepted for this very action.
THEOREM NothingRunsUnauthorised == Spec => []ExecutedOnlyIfAuthorised
<1>1. LoopInv => ExecutedOnlyIfAuthorised
  <2> SUFFICES ASSUME LoopInv, NEW a \in Actions, Ran(a)
               PROVE  \/ route[a] = "BLUE"
                      \/ route[a] = "GREEN" /\ status[a] = "approved" /\ "approved" \in acked[a]
    BY DEF ExecutedOnlyIfAuthorised
  <2>1. ticket[a] \in {"policy", "human"}
    BY TypesSplit DEF Ran, LoopInv, LoopTypes, TicketsJustified, None
  <2>2. status[a] = "approved" => "approved" \in acked[a]
    BY DEF LoopInv, GP!GateInv, GP!VerdictsJustified, GP!MapsAgree, GP!TypeOK, GP!Answers
  <2> QED BY <2>1, <2>2 DEF LoopInv, TicketsJustified
<1> QED BY LoopInvariant, <1>1, PTL

\* A halted runtime runs nothing and asks nobody.
THEOREM HaltIsRespected == Spec => []HaltedRunsNothing
<1>1. LoopInv => HaltedRunsNothing
  <2> SUFFICES ASSUME LoopInv, NEW t \in Tasks, halted[t], NEW i \in 1..Len(Plan[t])
               PROVE  execution[Plan[t][i]] = None /\ reviewer[Plan[t][i]] = "idle"
    BY DEF HaltedRunsNothing
  <2> QED BY PlanFacts DEF LoopInv, TicketsJustified
<1> QED BY LoopInvariant, <1>1, PTL

\* A question on the gate is the one its worker waits for.
THEOREM QuestionsAreInHand == Spec => []PendingIsInHand
<1>1. LoopInv => PendingIsInHand
  BY DEF LoopInv, OnGateInHand, PendingIsInHand, GP!GateInv, GP!MapsAgree, GP!TypeOK
<1> QED BY LoopInvariant, <1>1, PTL

-------------------------------------------------------------------------------
\* A release that was routed to run has its artifact.
LinkKept ==
    \A a \in Actions : route[a] \in {"BLUE", "GREEN"} /\ proposal[a].link # None =>
        execution[proposal[a].link] = "success" /\ ~proposal[proposal[a].link].held

\* What a step may do to routes and executions.
LEMMA StepEffects ==
    ASSUME LoopInv, [Next]_vars
    PROVE  /\ proposal' = proposal
           /\ \A a \in Actions : route'[a] = route[a] \/ route'[a] = RouteOf(a)
           /\ \A a \in Actions : execution[a] = "success" => execution'[a] = "success"
<1>1. LoopTypes
  BY TypesSplit DEF LoopInv
<1>2. ASSUME NEW t \in Tasks, Worker(t)
      PROVE  /\ proposal' = proposal
             /\ \A a \in Actions : route'[a] = route[a] \/ route'[a] = RouteOf(a)
             /\ \A a \in Actions : execution[a] = "success" => execution'[a] = "success"
  <2>1. CASE Block(t) \/ Permit(t) \/ AskHuman(t)
    BY <1>1, <2>1 DEF Block, Permit, AskHuman, Decided, LoopTypes
  <2>2. CASE Wake(t) \/ Collect(t) \/ Finish(t)
    BY <2>2 DEF Wake, Collect, Finish, loopVars
  <2>3. CASE Execute(t)
    <3>1. execution[Current(t)] = None
      BY <2>3 DEF Execute, LoopInv, InHandConsistent
    <3> QED BY <1>1, <2>3, <3>1 DEF Execute, LoopTypes, None
  <2> QED BY <1>2, <2>1, <2>2, <2>3 DEF Worker
<1>3. CASE \E c \in Calls : Browser(c)
  BY <1>3 DEF Browser, loopVars
<1>4. CASE UNCHANGED vars
  BY <1>4 DEF vars
<1> QED BY <1>2, <1>3, <1>4 DEF Next

\* An action with a route other than RED has the artifact it releases.
LEMMA RoutedMeansLinked ==
    ASSUME NEW a \in Actions, RouteOf(a) \in {"BLUE", "GREEN"}, proposal[a].link # None
    PROVE  execution[proposal[a].link] = "success" /\ ~proposal[proposal[a].link].held
BY DEF RouteOf, LinkedSuccess

\* A release goes out only after the artifact it is linked to was written, and a
\* held artifact never counts.
THEOREM ReleasesFollowTheirArtifact == Spec => []ReleaseOnlyAfterArtifact
<1>1. Init => LinkKept
  BY DEF Init, LinkKept, None
<1>2. LoopInv /\ LinkKept /\ [Next]_vars => LinkKept'
  <2> SUFFICES ASSUME LoopInv, LinkKept, [Next]_vars, NEW a \in Actions,
                      route'[a] \in {"BLUE", "GREEN"}, proposal'[a].link # None
               PROVE  /\ execution'[proposal'[a].link] = "success"
                      /\ ~proposal'[proposal'[a].link].held
    BY DEF LinkKept
  <2>1. proposal' = proposal /\ (route'[a] = route[a] \/ route'[a] = RouteOf(a))
    BY StepEffects
  <2>2. execution[proposal[a].link] = "success" /\ ~proposal[proposal[a].link].held
    BY <2>1, RoutedMeansLinked DEF LinkKept
  <2>3. proposal[a].link \in Actions
    BY <2>1, TypesSplit DEF LoopInv, LoopTypes, Proposal
  <2> QED BY <2>1, <2>2, <2>3, StepEffects
<1>3. LoopInv /\ LinkKept => ReleaseOnlyAfterArtifact
  <2> SUFFICES ASSUME LoopInv, LinkKept, NEW a \in Actions, Ran(a), proposal[a].link # None
               PROVE  /\ execution[proposal[a].link] = "success"
                      /\ ~proposal[proposal[a].link].held
    BY DEF ReleaseOnlyAfterArtifact
  <2>1. route[a] \in {"BLUE", "GREEN"}
    BY TypesSplit DEF Ran, LoopInv, LoopTypes, TicketsJustified, None
  <2> QED BY <2>1 DEF LinkKept
<1> QED BY LoopInvariant, <1>1, <1>2, <1>3, PTL DEF Spec

-------------------------------------------------------------------------------
\* Under the mapping, an action's mode moves only when it is decided.
LEMMA ModeFixed ==
    ASSUME route' = route, halted' = halted
    PROVE  [a \in Actions |-> ModeOf(a)]' = [a \in Actions |-> ModeOf(a)]
BY DEF ModeOf

\* The abstract mode of an action by its route, review and execution.
LEMMA ModeCases ==
    ASSUME NEW a \in Actions
    PROVE  /\ route[a] = None => ModeOf(a) = "undecided"
           /\ route[a] = "BLUE" /\ ~halted[Owner[a]] => ModeOf(a) = "silent"
           /\ route[a] = "GREEN" /\ ~halted[Owner[a]] => ModeOf(a) = "asks"
           /\ route[a] # None => ModeOf(a) \in Governed!Modes
<1>1. CASE route[a] = "BLUE" /\ ~halted[Owner[a]]
  BY <1>1 DEF ModeOf, Governed!Modes, None
<1>2. CASE route[a] = "GREEN" /\ ~halted[Owner[a]]
  BY <1>2 DEF ModeOf, Governed!Modes, None
<1>3. CASE route[a] = None
  BY <1>3 DEF ModeOf, Governed!Modes, None
<1>4. CASE route[a] # None /\ ~(route[a] \in {"BLUE", "GREEN"} /\ ~halted[Owner[a]])
  BY <1>4 DEF ModeOf, Governed!Modes, None
<1> QED BY <1>1, <1>2, <1>3, <1>4

ModesInRange ==
    \A a \in Actions : route[a] # None => ModeOf(a) \in {"silent", "asks", "refused"}

\* Every action has one of the abstract modes.
LEMMA ModeRange == ModesInRange
BY ModeCases DEF ModesInRange, Governed!Modes

\* Without an execution the set of actions that ran is the same.
LEMMA RanFixed ==
    ASSUME execution' = execution
    PROVE  {a \in Actions : Ran(a)}' = {a \in Actions : Ran(a)}
BY DEF Ran

\* Deciding a proposal classifies it, in the abstract, by its route.
LEMMA DecidingClassifies ==
    ASSUME NEW t \in Tasks, LoopInv, Block(t) \/ Permit(t) \/ AskHuman(t),
           NEW a \in Actions, a = Current(t)
    PROVE  Governed!Classify(a)
<1>1. LoopTypes
  BY TypesSplit DEF LoopInv
<1>2. phase[t] = "next" /\ at[t] <= Len(Plan[t])
  BY DEF Block, Permit, AskHuman, InHand
<1>3. at[t] \in 1..Len(Plan[t])
  BY <1>1, <1>2, InHandFacts
<1>4. route[a] = None
  BY <1>2, <1>3 DEF LoopInv, AheadUntouched, Current
<1>5. /\ halted' = halted /\ execution' = execution /\ acked' = acked
      /\ route' = [route EXCEPT ![a] = RouteOf(a)]
  BY DEF Block, Permit, AskHuman, Decided, gateVars, G!Register, G!callVars
<1>6. RouteOf(a) \in Route
  BY <1>1, RouteOfType
<1>7. ModeOf(a) = "undecided"
  BY <1>4, ModeCases
<1>8. ModeOf(a)' \in Governed!Modes
  <2>1. route'[a] # None
    BY <1>1, <1>5, <1>6 DEF LoopTypes, Route, None
  <2>2. ModesInRange'
    BY ModeRange, PTL
  <2> QED BY <2>1, <2>2 DEF ModesInRange, Governed!Modes
<1>9. \A b \in Actions \ {a} : ModeOf(b)' = ModeOf(b)
  BY <1>1, <1>5 DEF ModeOf, LoopTypes
<1>10. [b \in Actions |-> ModeOf(b)]' = [[b \in Actions |-> ModeOf(b)] EXCEPT ![a] = ModeOf(a)']
  BY <1>9
<1>11. {b \in Actions : Ran(b)}' = {b \in Actions : Ran(b)}
  BY <1>5, RanFixed
<1> QED BY <1>5, <1>7, <1>8, <1>10, <1>11 DEF Governed!Classify

\* Executing an action runs it in the abstract, or is invisible there.
LEMMA ExecutingRuns ==
    ASSUME NEW t \in Tasks, LoopInv, Execute(t), NEW a \in Actions, a = Current(t)
    PROVE  Governed!Run(a) \/ UNCHANGED Governed!vars
<1>1. LoopTypes
  BY TypesSplit DEF LoopInv
<1>2. phase[t] = "ticketed" /\ at[t] <= Len(Plan[t])
  BY DEF Execute, LoopInv, InHandConsistent
<1>3. Owner[a] = t
  BY <1>1, <1>2, InHandFacts
<1>4. /\ ticket[a] \in {"policy", "human"} /\ ~halted[t] /\ execution[a] = None
  BY <1>1, <1>2, <1>3 DEF LoopInv, LoopTypes, InHandConsistent, None
<1>5. /\ route' = route /\ halted' = halted /\ acked' = acked
      /\ \A b \in Actions \ {a} : execution'[b] = execution[b]
  BY <1>1 DEF Execute, gateVars, LoopTypes
<1>6. [b \in Actions |-> ModeOf(b)]' = [b \in Actions |-> ModeOf(b)]
  BY <1>5, ModeFixed
<1>7. ModeOf(a) = "silent" \/ (ModeOf(a) = "asks" /\ "approved" \in acked[a])
  <2>1. status[a] = "approved" => "approved" \in acked[a]
    BY DEF LoopInv, GP!GateInv, GP!VerdictsJustified, GP!MapsAgree, GP!TypeOK, GP!Answers
  <2>2. route[a] = "BLUE" \/ (route[a] = "GREEN" /\ status[a] = "approved")
    BY <1>4 DEF LoopInv, TicketsJustified
  <2> QED BY <1>3, <1>4, <2>1, <2>2, ModeCases
<1>8. execution[a] \notin {"success", "failed"}
  BY <1>4 DEF None
<1>9. CASE execution'[a] \in {"success", "failed"}
  <2>1. {b \in Actions : Ran(b)}' = {b \in Actions : Ran(b)} \union {a}
    BY <1>5, <1>9 DEF Ran
  <2> QED BY <1>5, <1>6, <1>7, <1>8, <2>1 DEF Governed!Run, Ran
<1>10. CASE execution'[a] \notin {"success", "failed"}
  <2>1. {b \in Actions : Ran(b)}' = {b \in Actions : Ran(b)}
    BY <1>5, <1>8, <1>10 DEF Ran
  <2> QED BY <1>5, <1>6, <2>1 DEF Governed!vars
<1> QED BY <1>9, <1>10

\* A human's approval is the abstract consent; every other call is a stutter.
LEMMA AnsweringConsents ==
    ASSUME NEW c \in Calls, LoopInv, Browser(c)
    PROVE  [Governed!Next]_(Governed!vars)
<1>1. UNCHANGED loopVars
  BY DEF Browser
<1>2. /\ [b \in Actions |-> ModeOf(b)]' = [b \in Actions |-> ModeOf(b)]
      /\ {b \in Actions : Ran(b)}' = {b \in Actions : Ran(b)}
  BY <1>1, ModeFixed, RanFixed DEF loopVars
<1>3. CASE G!Snapshot(c) \/ G!DecideGone(c)
  <2>1. acked' = acked
    BY <1>3 DEF G!Snapshot, G!DecideGone
  <2> QED BY <1>2, <2>1 DEF Governed!vars
<1>4. CASE G!DecideOk(c)
  <2>0. request[c].approval \in Actions
    BY <1>4, TypesSplit DEF LoopInv, G!DecideOk, G!TypeOK, G!Request
  <2> PICK a \in Actions : a = request[c].approval
    BY <2>0
  <2>1. a \in G!Registered
    BY <1>4 DEF G!DecideOk
  <2>2. reviewer[a] \in {"waiting", "woken"}
    BY <2>1 DEF LoopInv, GP!GateInv, GP!MapsAgree, GP!Registered, G!Registered
  <2>3. phase[Owner[a]] = "review" /\ Current(Owner[a]) = a /\ Owner[a] \in Tasks
    BY <2>1, <2>2, OwnerType DEF LoopInv, OnGateInHand
  <2>4. ModeOf(a) = "asks"
    <3>1. route[a] = "GREEN" /\ ~halted[Owner[a]]
      BY <2>3 DEF LoopInv, InHandConsistent
    <3> QED BY <2>1, <3>1, ModeCases
  <2>5. /\ \A b \in Actions \ {a} : acked'[b] = acked[b]
        /\ acked[a] \subseteq acked'[a]
    BY <1>4, <2>1, TypesSplit DEF LoopInv, G!DecideOk, G!TypeOK
  <2>6. CASE "approved" \in acked'[a]
    <3>1. {b \in Actions : "approved" \in acked[b]}'
              = {b \in Actions : "approved" \in acked[b]} \union {a}
      BY <2>1, <2>5, <2>6
    <3>2. Governed!Consent(a)
      BY <1>2, <2>1, <2>4, <3>1 DEF Governed!Consent
    <3> QED BY <2>1, <3>2 DEF Governed!Next
  <2>7. CASE "approved" \notin acked'[a]
    <3>1. {b \in Actions : "approved" \in acked[b]}'
              = {b \in Actions : "approved" \in acked[b]}
      BY <2>1, <2>5, <2>7
    <3> QED BY <1>2, <3>1 DEF Governed!vars
  <2> QED BY <2>6, <2>7
<1> QED BY <1>3, <1>4 DEF Browser, G!Call

\* The loop implements the governed execution: whatever planners propose, an
\* action is classified once, runs at most once, and only silently by policy or
\* after an operator's consent to it.
THEOREM LoopImplementsGovernedExecution == Spec => ImplementsGovernedExecution
<1>1. Init => Governed!Init
  <2> SUFFICES ASSUME Init PROVE Governed!Init
    OBVIOUS
  <2>1. [a \in Actions |-> ModeOf(a)] = [a \in Actions |-> "undecided"]
    BY DEF Init, ModeOf, None
  <2>2. {a \in Actions : "approved" \in acked[a]} = {}
    BY DEF Init, G!Init
  <2>3. {a \in Actions : Ran(a)} = {}
    BY DEF Init, Ran, None
  <2> QED BY <2>1, <2>2, <2>3 DEF Governed!Init
<1>2. LoopInv /\ [Next]_vars => [Governed!Next]_(Governed!vars)
  <2>1. ASSUME LoopInv, NEW t \in Tasks, Worker(t)
        PROVE  [Governed!Next]_(Governed!vars)
    <3>1. CASE Block(t) \/ Permit(t) \/ AskHuman(t)
      <4>1. Current(t) \in Actions
        <5>1. LoopTypes /\ at[t] <= Len(Plan[t])
          BY <2>1, <3>1, TypesSplit DEF LoopInv, Block, Permit, AskHuman, InHand
        <5> QED BY <5>1, InHandFacts
      <4>2. PICK a \in Actions : a = Current(t)
        BY <4>1
      <4> QED BY <2>1, <3>1, <4>2, DecidingClassifies DEF Governed!Next
    <3>2. CASE Wake(t) \/ Collect(t) \/ Finish(t)
      <4>1. route' = route /\ halted' = halted /\ execution' = execution /\ acked' = acked
        BY <3>2 DEF Wake, Collect, Finish, loopVars, gateVars, G!WakeSignaled,
                    G!WakeTimedOut, G!Collect, G!callVars
      <4> QED BY <4>1, ModeFixed, RanFixed DEF Governed!vars
    <3>3. CASE Execute(t)
      <4>1. Current(t) \in Actions
        <5>1. LoopTypes /\ at[t] <= Len(Plan[t])
          BY <2>1, <3>3, TypesSplit DEF LoopInv, InHandConsistent, Execute
        <5> QED BY <5>1, InHandFacts
      <4>2. PICK a \in Actions : a = Current(t)
        BY <4>1
      <4> QED BY <2>1, <3>3, <4>2, ExecutingRuns DEF Governed!Next
    <3> QED BY <2>1, <3>1, <3>2, <3>3 DEF Worker
  <2>2. ASSUME UNCHANGED vars
        PROVE  UNCHANGED Governed!vars
    <3>1. route' = route /\ halted' = halted /\ execution' = execution /\ acked' = acked
      BY <2>2 DEF vars
    <3> QED BY <3>1, ModeFixed, RanFixed DEF Governed!vars
  <2> QED BY <2>1, <2>2, AnsweringConsents DEF Next
<1> QED BY LoopInvariant, <1>1, <1>2, PTL DEF Spec, ImplementsGovernedExecution, Governed!Spec
===============================================================================
