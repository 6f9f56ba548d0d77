-------------------------- MODULE WebHumanGate_proofs --------------------------
(***************************************************************************)
(* Proofs about the web human gate for any number of approvals, tasks and   *)
(* concurrent calls.  The invariants of the model are not inductive: that a *)
(* stored decision was acknowledged, that a woken review has one, and that  *)
(* the three maps register the same requests has to be carried along.       *)
(***************************************************************************)
EXTENDS WebHumanGate, TLAPS

\* The three maps agree with where the reviews stand.
MapsAgree ==
    /\ pending = Registered
    /\ \A a \in Approvals : a \in Registered <=> reviewer[a] \in {"waiting", "woken"}
    /\ \A a \in Approvals : status[a] = "pending" <=> reviewer[a] # "done"
    /\ \A a \in Approvals : reviewer[a] = "idle" => acked[a] = {}

\* A stored decision belongs to a registered request and was acknowledged.
DecisionsAcked ==
    \A a \in Approvals : decisions[a] # None => a \in Registered /\ decisions[a] \in acked[a]

\* The Event is set exactly with a decision; a review it woke finds one.
SignalMeansDecision ==
    /\ \A a \in Registered : signal[a] <=> decisions[a] # None
    /\ \A a \in Approvals : reviewer[a] = "woken" /\ a \notin timedOut => signal[a]

\* What a finished review carries came from an acknowledged call or its default.
VerdictsJustified ==
    \A a \in Approvals : reviewer[a] = "done" =>
        /\ status[a] \in acked[a] \union {"rejected"}
        /\ a \notin timedOut => status[a] \in acked[a]

GateInv == TypeOK /\ MapsAgree /\ DecisionsAcked /\ SignalMeansDecision /\ VerdictsJustified

-------------------------------------------------------------------------------
\* An empty gate satisfies the invariant.
LEMMA GateInit == Init => GateInv
BY DEF Init, GateInv, TypeOK, MapsAgree, DecisionsAcked, SignalMeansDecision,
       VerdictsJustified, Registered, Answers, None, NoRequest

\* A stuttering step keeps the invariant.
LEMMA GateStutter == GateInv /\ UNCHANGED vars => GateInv'
BY DEF GateInv, vars, TypeOK, MapsAgree, DecisionsAcked, SignalMeansDecision,
       VerdictsJustified, Registered

\* The steps of a review keep the invariant.
LEMMA ReviewKeepsInv ==
    ASSUME NEW a \in Approvals, GateInv, Review(a)
    PROVE  GateInv'
<1> USE DEF GateInv, TypeOK, Registered, gateVars, callVars, Answers, None
<1>1. CASE Register(a)
  <2>1. TypeOK'
    BY <1>1 DEF Register
  <2>2. MapsAgree'
    BY <1>1 DEF Register, MapsAgree
  <2>3. DecisionsAcked'
    BY <1>1 DEF Register, DecisionsAcked
  <2>4. SignalMeansDecision'
    <3>1. decisions[a] = None /\ decisions' = decisions /\ timedOut' = timedOut
      BY <1>1 DEF Register, MapsAgree, DecisionsAcked
    <3>2. DOMAIN signal' = DOMAIN signal \union {a}
      BY <1>1 DEF Register
    <3>3. \A b \in Approvals : reviewer'[b] = "woken" => reviewer[b] = "woken" /\ b # a
      BY <1>1 DEF Register
    <3>4. ~signal'[a] /\ \A b \in DOMAIN signal : b # a => signal'[b] = signal[b]
      BY <1>1 DEF Register
    <3>5. \A b \in DOMAIN signal' : signal'[b] <=> decisions'[b] # None
      BY <3>1, <3>2, <3>4 DEF SignalMeansDecision
    <3>6. \A b \in Approvals : reviewer'[b] = "woken" /\ b \notin timedOut' => signal'[b]
      BY <3>1, <3>3, <3>4 DEF SignalMeansDecision, MapsAgree
    <3> QED BY <3>5, <3>6 DEF SignalMeansDecision
  <2>5. VerdictsJustified'
    BY <1>1 DEF Register, VerdictsJustified
  <2> QED BY <2>1, <2>2, <2>3, <2>4, <2>5
<1>2. CASE WakeSignaled(a)
  <2>1. TypeOK'
    BY <1>2 DEF WakeSignaled
  <2>2. MapsAgree' /\ DecisionsAcked'
    BY <1>2 DEF WakeSignaled, MapsAgree, DecisionsAcked
  <2>3. SignalMeansDecision' /\ VerdictsJustified'
    BY <1>2 DEF WakeSignaled, SignalMeansDecision, VerdictsJustified
  <2> QED BY <2>1, <2>2, <2>3
<1>3. CASE WakeTimedOut(a)
  <2>1. TypeOK'
    BY <1>3 DEF WakeTimedOut
  <2>2. MapsAgree' /\ DecisionsAcked'
    BY <1>3 DEF WakeTimedOut, MapsAgree, DecisionsAcked
  <2>3. SignalMeansDecision' /\ VerdictsJustified'
    BY <1>3 DEF WakeTimedOut, SignalMeansDecision, VerdictsJustified
  <2> QED BY <2>1, <2>2, <2>3
<1>4. CASE Collect(a)
  <2>1. Verdict(a) \in Answers
    BY <1>4 DEF Verdict
  <2>2. /\ Verdict(a) \in acked[a] \union {"rejected"}
        /\ a \notin timedOut => Verdict(a) \in acked[a]
    BY <1>4 DEF Verdict, Collect, DecisionsAcked, SignalMeansDecision, MapsAgree
  <2>3. TypeOK'
    BY <1>4, <2>1 DEF Collect
  <2>4. MapsAgree' /\ DecisionsAcked'
    BY <1>4, <2>1 DEF Collect, MapsAgree, DecisionsAcked
  <2>5. SignalMeansDecision'
    <3>1. DOMAIN signal' = Registered \ {a}
      BY <1>4 DEF Collect
    <3>2. \A b \in Registered \ {a} : signal'[b] = signal[b] /\ decisions'[b] = decisions[b]
      BY <1>4 DEF Collect
    <3>3. \A b \in Approvals \ {a} : reviewer'[b] = reviewer[b] /\ timedOut' = timedOut
      BY <1>4 DEF Collect
    <3>4. \A b \in Approvals : reviewer[b] = "woken" => b \in Registered
      BY DEF MapsAgree
    <3>5. reviewer'[a] = "done"
      BY <1>4 DEF Collect
    <3> QED BY <3>1, <3>2, <3>3, <3>4, <3>5 DEF SignalMeansDecision
  <2>6. VerdictsJustified'
    BY <1>4, <2>2 DEF Collect, VerdictsJustified
  <2> QED BY <2>3, <2>4, <2>5, <2>6
<1> QED BY <1>1, <1>2, <1>3, <1>4 DEF Review

\* So do the steps of a call.
LEMMA CallKeepsInv ==
    ASSUME NEW c \in Calls, GateInv, Call(c)
    PROVE  GateInv'
<1> USE DEF GateInv, TypeOK, Registered, gateVars, callVars, Answers, None
<1>1. CASE Snapshot(c)
  BY <1>1 DEF Snapshot, MapsAgree, DecisionsAcked, SignalMeansDecision, VerdictsJustified
<1>2. CASE DecideGone(c)
  BY <1>2 DEF DecideGone, MapsAgree, DecisionsAcked, SignalMeansDecision, VerdictsJustified
<1>3. CASE DecideOk(c)
  <2> DEFINE a == request[c].approval
             s == request[c].status
  <2>1. a \in Approvals /\ a \in Registered /\ s \in Answers
    BY <1>3 DEF DecideOk, Request
  <2>2. TypeOK'
    BY <1>3, <2>1 DEF DecideOk
  <2>3. MapsAgree'
    BY <1>3, <2>1 DEF DecideOk, MapsAgree
  <2>4. DecisionsAcked'
    BY <1>3, <2>1 DEF DecideOk, DecisionsAcked
  <2>5. SignalMeansDecision'
    BY <1>3, <2>1 DEF DecideOk, SignalMeansDecision
  <2>6. VerdictsJustified'
    BY <1>3, <2>1 DEF DecideOk, VerdictsJustified
  <2> QED BY <2>2, <2>3, <2>4, <2>5, <2>6
<1> QED BY <1>1, <1>2, <1>3 DEF Call

\* The inductive invariant holds in every behaviour of the gate.
THEOREM GateInvariant == Spec => []GateInv
<1>1. GateInv /\ [Next]_vars => GateInv'
  BY ReviewKeepsInv, CallKeepsInv, GateStutter DEF Next
<1> QED BY GateInit, <1>1, PTL DEF Spec

\* Every variable keeps its type, whatever the interleaving.
THEOREM TypeCorrect == Spec => []TypeOK
<1>1. GateInv => TypeOK
  BY DEF GateInv
<1> QED BY GateInvariant, <1>1, PTL

\* No timeout, stale call or call for another task ever makes an approval
\* "approved": an operator's accepted call did.
THEOREM NeverApprovedWithoutAHuman == Spec => []ApprovedOnlyByAHuman
<1>1. GateInv => ApprovedOnlyByAHuman
  BY DEF GateInv, VerdictsJustified, MapsAgree, TypeOK, Answers, ApprovedOnlyByAHuman
<1> QED BY GateInvariant, <1>1, PTL

\* Nothing an operator said is left behind in _decisions.
THEOREM DecisionsNeverStray == Spec => []NoStrayDecision
<1>1. GateInv => NoStrayDecision
  BY DEF GateInv, MapsAgree, DecisionsAcked, NoStrayDecision
<1> QED BY GateInvariant, <1>1, PTL

\* A review woken by its Event ends with one of the accepted answers.
THEOREM NoWakeUpIsEmpty == Spec => []SignaledReviewHasAnAnswer
<1>1. GateInv => SignaledReviewHasAnAnswer
  BY DEF GateInv, VerdictsJustified, SignaledReviewHasAnAnswer
<1> QED BY GateInvariant, <1>1, PTL

-------------------------------------------------------------------------------
\* Each step of a review is a step of the abstract gate, or none.
LEMMA ReviewRefines ==
    ASSUME NEW a \in Approvals, GateInv, Review(a)
    PROVE  [Gate!Next]_(Gate!vars)
<1> USE DEF Gate!vars, gateVars, callVars, GateInv, TypeOK, Registered
<1>1. CASE Register(a)
  <2>1. Gate!Ask(a)
    <3>1. status[a] = "pending" /\ acked[a] = {} /\ a \notin pending
      BY <1>1 DEF Register, MapsAgree
    <3> QED BY <1>1, <3>1 DEF Register, Gate!Ask
  <2> QED BY <2>1 DEF Gate!Next
<1>2. CASE WakeSignaled(a)
  BY <1>2 DEF WakeSignaled
<1>3. CASE WakeTimedOut(a)
  BY <1>3 DEF WakeTimedOut
<1>4. CASE Collect(a)
  <2>1. Verdict(a) \in acked[a] \union {"rejected"} /\ a \in pending
    BY <1>4 DEF Verdict, Collect, DecisionsAcked, MapsAgree
  <2>2. Gate!Close(a)
    BY <1>4, <2>1 DEF Collect, Gate!Close
  <2> QED BY <2>2 DEF Gate!Next
<1> QED BY <1>1, <1>2, <1>3, <1>4 DEF Review

\* An accepted call is an answer; every other call is invisible.
LEMMA CallRefines ==
    ASSUME NEW c \in Calls, GateInv, Call(c)
    PROVE  [Gate!Next]_(Gate!vars)
<1> USE DEF Gate!vars, gateVars, callVars, GateInv, TypeOK, Registered
<1>1. CASE Snapshot(c)
  BY <1>1 DEF Snapshot
<1>2. CASE DecideGone(c)
  BY <1>2 DEF DecideGone
<1>3. CASE DecideOk(c)
  <2> DEFINE a == request[c].approval
  <2>1. a \in Approvals /\ a \in pending /\ request[c].status \in Answers
    BY <1>3 DEF DecideOk, Request, MapsAgree
  <2>2. Gate!Answer(a)
    BY <1>3, <2>1 DEF DecideOk, Gate!Answer
  <2> QED BY <2>1, <2>2 DEF Gate!Next
<1> QED BY <1>1, <1>2, <1>3 DEF Call

\* The web gate implements the abstract human gate: each request ends once, with
\* an answer accepted while it was open, or rejected.
THEOREM WebGateImplementsHumanApproval == Spec => ImplementsHumanApproval
<1>1. Init => Gate!Init
  BY DEF Init, Gate!Init
<1>2. GateInv /\ [Next]_vars => [Gate!Next]_(Gate!vars)
  <2>1. UNCHANGED vars => UNCHANGED Gate!vars
    BY DEF vars, Gate!vars
  <2> QED BY <2>1, ReviewRefines, CallRefines DEF Next
<1> QED BY GateInvariant, <1>1, <1>2, PTL DEF Spec, ImplementsHumanApproval, Gate!Spec
===============================================================================
