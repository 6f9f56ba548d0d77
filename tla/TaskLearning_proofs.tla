------------------------- MODULE TaskLearning_proofs -------------------------
(***************************************************************************)
(* Proofs about what runs spend and teach, for any number of threads, plan  *)
(* shapes and tasks, and any thresholds.  The cache is trusted because      *)
(* every count in it, and in every copy a runtime holds of it, is backed by *)
(* successes in the ledger: the successes a record counts and those still   *)
(* on their way to it were all recorded there first.  A stale copy can only *)
(* count too few.                                                           *)
(***************************************************************************)
EXTENDS TaskLearning, FiniteSetTheorems, TLAPS

\* The threads whose planner call is under way.
Planning == {w \in Workers : pc[w] = "planning"}

\* The threads that recorded a success of shape s the cache has not yet heard of.
Pending(s) == {w \in Workers : /\ pc[w] \in {"load", "append"}
                               /\ outcome[w] = "success" /\ shape[w] = s}

Backed == \A s \in Shapes : store[s].successes + Cardinality(Pending(s)) <= ledger["success"]

CopiesBacked ==
    \A w \in Workers, s \in Shapes : loaded[w] =>
        view[w][s].successes + Cardinality(Pending(s)) <= ledger["success"]

ActiveIsEnough ==
    /\ \A s \in Shapes : store[s].status = "active" => store[s].successes >= MinSuccesses
    /\ \A w \in Workers, s \in Shapes :
           view[w][s].status = "active" => loaded[w] /\ view[w][s].successes >= MinSuccesses

WritersLoaded == \A w \in Workers : pc[w] = "append" => loaded[w]

ServedEnough == \A w \in Workers : served[w] # None => ledger["success"] >= MinSuccesses

LearningInv == TypeOK /\ Backed /\ CopiesBacked /\ ActiveIsEnough /\ WritersLoaded /\ ServedEnough

-------------------------------------------------------------------------------
\* The constants' assumptions, and a string that no shape is.
LEMMA Constants ==
    /\ IsFiniteSet(Workers) /\ Workers # {} /\ None \notin Shapes
    /\ MinSuccesses \in Nat \ {0} /\ MaxIterations \in Nat
    /\ Limit \in Nat \ {0} /\ MaxRuns \in Nat
BY WorkersAssumption, ShapesAssumption, BoundsAssumption

\* Sets of threads are finite.
LEMMA ThreadSets ==
    ASSUME NEW S \in SUBSET Workers
    PROVE  /\ IsFiniteSet(S) /\ Cardinality(S) \in Nat
           /\ Cardinality(S) <= Cardinality(Workers) /\ Cardinality(Workers) \in Nat
           /\ \A T \in SUBSET S : Cardinality(T) <= Cardinality(S)
BY Constants, FS_Subset, FS_CardinalityType

\* The empty files and idle threads of a fresh installation.
LEMMA InitTypes == Init => TypeOK
BY Constants DEF Init, TypeOK, Entry, Absent, NoEntries, Outcomes, Labels, None

\* An entry stays an entry.
LEMMA EntrySteps ==
    ASSUME NEW e \in Entry
    PROVE  /\ Succeeded(e) \in Entry /\ FailedEntry(e) \in Entry
           /\ Succeeded(e).successes = e.successes + 1
           /\ FailedEntry(e).successes = e.successes /\ FailedEntry(e).status # "active"
           /\ Succeeded(e).status = "active" =>
                  e.successes + 1 >= MinSuccesses \/ e.status = "active"
BY Constants DEF Succeeded, FailedEntry, Entry

\* Every outcome is one of the four.
LEMMA OutcomeTypes == \A res \in Results : OutcomeOf(res) \in Outcomes
BY DEF OutcomeOf, Outcomes

\* Every step keeps the variables' types; one step per action.
LEMMA TypesKept == TypeOK /\ [Next]_vars => TypeOK'
<1> SUFFICES ASSUME TypeOK, [Next]_vars PROVE TypeOK'
  OBVIOUS
<1> USE Constants DEF TypeOK, files, run, caches, plan, verdict
<1>1. ASSUME NEW w \in Workers, Start(w) PROVE TypeOK'
  BY <1>1 DEF Start, Goto, Labels
<1>2. ASSUME NEW w \in Workers, HardBlocked(w) PROVE TypeOK'
  <2> PICK o \in {"failure", "infeasible"} : Counted(o) /\ outcome' = [outcome EXCEPT ![w] = o]
    BY <1>2 DEF HardBlocked
  <2>1. ledger' \in [Outcomes -> Nat] /\ outcome' \in [Workers -> Outcomes \union {None}]
    BY DEF Counted, Outcomes
  <2> QED BY <1>2, <2>1 DEF HardBlocked, Goto, Labels
<1>3. ASSUME NEW w \in Workers, DirectPlan(w) PROVE TypeOK'
  BY <1>3 DEF DirectPlan, Goto, Labels
<1>4. ASSUME NEW w \in Workers, CheckConfidence(w) PROVE TypeOK'
  <2>1. CASE school[w]
    BY <1>4, <2>1 DEF CheckConfidence, Goto, Labels
  <2>2. CASE ~school[w]
    <3>1. PICK now \in {"yes", "no"} : /\ sure' = [sure EXCEPT ![w] = now]
                                       /\ Goto(w, IF now = "yes" THEN "lookup" ELSE "budget")
      BY <1>4, <2>2 DEF CheckConfidence
    <3> QED BY <1>4, <3>1 DEF CheckConfidence, Goto, Labels
  <2> QED BY <2>1, <2>2
<1>5. ASSUME NEW w \in Workers, Lookup(w) PROVE TypeOK'
  <2>1. /\ loaded' \in [Workers -> BOOLEAN] /\ view' \in [Workers -> [Shapes -> Entry]]
        /\ UNCHANGED <<ledger, store, spent, started, school, attempt, sure, refused, judged, outcome>>
    BY <1>5 DEF Lookup, Loaded
  <2>2. CASE Goto(w, "budget") /\ UNCHANGED <<served, shape>>
    BY <2>1, <2>2 DEF Goto, Labels
  <2>3. ASSUME NEW s \in Shapes, served' = [served EXCEPT ![w] = s],
               shape' = [shape EXCEPT ![w] = s], Goto(w, "executing")
        PROVE  TypeOK'
    BY <2>1, <2>3 DEF Goto, Labels
  <2> QED BY <1>5, <2>2, <2>3 DEF Lookup
<1>6. ASSUME NEW w \in Workers, NEW b \in BOOLEAN, Recovered(w, b),
             UNCHANGED <<ledger, store, started, run, caches, served, verdict>>, spent' \in Nat
      PROVE  TypeOK'
  <2>1. PICK s \in Shapes : shape' = [shape EXCEPT ![w] = s]
    BY <1>6 DEF Recovered
  <2> QED BY <1>6, <2>1 DEF Recovered, Goto, Labels
<1>7. ASSUME NEW w \in Workers, CheckBudget(w) \/ PlannerReturns(w) PROVE TypeOK'
  <2>1. /\ UNCHANGED <<ledger, store, started, run, caches, served, verdict>> /\ spent' \in Nat
        /\ \/ Recovered(w, TRUE) \/ Recovered(w, FALSE)
           \/ Goto(w, "planning") /\ UNCHANGED <<shape, refused>>
           \/ Goto(w, "end") /\ UNCHANGED <<shape, refused>>
    <3>1. CASE CheckBudget(w)
      BY <3>1 DEF CheckBudget
    <3>2. CASE PlannerReturns(w)
      <4>1. spent' \in Nat /\ UNCHANGED <<ledger, store, started, run, caches, served, verdict>>
        BY <3>2 DEF PlannerReturns
      <4>2. \/ Recovered(w, TRUE) \/ Recovered(w, FALSE)
            \/ Goto(w, "end") /\ UNCHANGED <<shape, refused>>
        BY <3>2, Zenon DEF PlannerReturns
      <4> QED BY <4>1, <4>2
    <3> QED BY <1>7, <3>1, <3>2
  <2>2. CASE Recovered(w, TRUE) \/ Recovered(w, FALSE)
    BY <1>6, <2>1, <2>2
  <2>3. CASE Goto(w, "planning") /\ UNCHANGED <<shape, refused>>
    BY <2>1, <2>3 DEF Goto, Labels
  <2>4. CASE Goto(w, "end") /\ UNCHANGED <<shape, refused>>
    BY <2>1, <2>4 DEF Goto, Labels
  <2> QED BY <2>1, <2>2, <2>3, <2>4
<1>8. ASSUME NEW w \in Workers, FollowUp(w) PROVE TypeOK'
  BY <1>8 DEF FollowUp, Goto, Labels
<1>9. ASSUME NEW w \in Workers, RecordOutcome(w) PROVE TypeOK'
  <2>1. PICK res \in Results, cacheable \in BOOLEAN : Settled(w, res, cacheable)
    BY <1>9, Zenon DEF RecordOutcome
  <2>2. judged' \in [Workers -> BOOLEAN]
    <3>1. res.judged \in BOOLEAN
      BY ResultsAssumption DEF Result
    <3> QED BY <2>1, <3>1 DEF Settled
  <2>3. /\ ledger' \in [Outcomes -> Nat] /\ outcome' \in [Workers -> Outcomes \union {None}]
        /\ sure' \in [Workers -> {"unread", "yes", "no"}]
    <3>1. CASE UNCHANGED <<ledger, outcome, sure>>
      BY <3>1
    <3>2. CASE /\ Counted(OutcomeOf(res))
               /\ outcome' = [outcome EXCEPT ![w] = OutcomeOf(res)]
               /\ sure' = [sure EXCEPT ![w] = "unread"]
      <4>1. OutcomeOf(res) \in Outcomes
        BY OutcomeTypes
      <4> QED BY <3>2, <4>1 DEF Counted
    <3> QED BY <2>1, <3>1, <3>2 DEF Settled
  <2>4. pc[w] \in {"executing", "following"} /\ pc' \in [Workers -> Labels]
        /\ \A u \in Workers : u # w => pc'[u] = pc[u]
    BY <1>9, ZenonT(40), <2>1 DEF RecordOutcome, Settled, Goto, Labels
  <2>5. UNCHANGED <<store, spent, started, school, attempt, loaded, view, served, shape, refused>>
    BY <1>9 DEF RecordOutcome
  <2> QED BY <2>2, <2>3, <2>4, <2>5
<1>10. ASSUME NEW w \in Workers, LoadPlans(w) PROVE TypeOK'
  BY <1>10 DEF LoadPlans, Loaded, Goto, Labels
<1>11. ASSUME NEW w \in Workers, AppendPlan(w) PROVE TypeOK'
  <2>1. shape[w] \in Shapes /\ view[w][shape[w]] \in Entry
    BY <1>11 DEF AppendPlan
  <2>2. store' \in [Shapes -> Entry]
    BY <1>11, <2>1, EntrySteps DEF AppendPlan
  <2>3. NoEntries \in [Shapes -> Entry]
    BY DEF NoEntries, Absent, Entry
  <2> QED BY <1>11, <2>2, <2>3 DEF AppendPlan, Goto, Labels
<1>12. ASSUME NEW w \in Workers, Retry(w) PROVE TypeOK'
  BY <1>12 DEF Retry, Retrying, Cleared, Goto, Labels
<1>13. ASSUME NEW w \in Workers, Finish(w) PROVE TypeOK'
  <2>1. NoEntries \in [Shapes -> Entry]
    BY DEF NoEntries, Absent, Entry
  <2> QED BY <1>13, <2>1 DEF Finish, Cleared, Goto, Labels
<1>14. CASE Restart
  <2>1. NoEntries \in [Shapes -> Entry]
    BY DEF NoEntries, Absent, Entry
  <2> QED BY <1>14, <2>1 DEF Restart, Labels
<1>15. CASE UNCHANGED vars
  BY <1>15 DEF vars
<1> QED
  BY <1>1, <1>2, <1>3, <1>4, <1>5, <1>6, <1>7, <1>8, <1>9, <1>10, <1>11, <1>12, <1>13, <1>14, <1>15
     DEF Next, Proceed

\* The variables keep their types.
THEOREM LearningTypeCorrect == Spec => []TypeOK
<1>1. Init => TypeOK
  BY InitTypes
<1>2. TypeOK /\ [Next]_vars => TypeOK'
  BY TypesKept
<1> QED BY <1>1, <1>2, PTL DEF Spec

-------------------------------------------------------------------------------
\* The first call passes the check only below the limit, and at most the other
\* threads are between their check and their count at that time.
LEMMA OvershootKept ==
    ASSUME TypeOK, TypeOK', OvershootIsBounded, [Next]_vars
    PROVE  OvershootIsBounded'
<1> USE Constants DEF files, run, caches, plan, verdict
<1>1. /\ Planning \in SUBSET Workers /\ Planning' \in SUBSET Workers
      /\ OvershootIsBounded <=> spent + Cardinality(Planning) <= Limit + Cardinality(Workers) - 1
      /\ OvershootIsBounded' <=> spent' + Cardinality(Planning') <= Limit + Cardinality(Workers) - 1
      /\ spent \in Nat /\ spent' \in Nat
  BY DEF Planning, OvershootIsBounded, TypeOK
<1>2. /\ Cardinality(Planning) \in Nat /\ Cardinality(Planning') \in Nat
      /\ Cardinality(Planning') <= Cardinality(Workers) /\ Cardinality(Workers) \in Nat
  BY <1>1, ThreadSets
<1>3. CASE spent' = spent /\ Planning' \subseteq Planning
  <2>1. Cardinality(Planning') <= Cardinality(Planning)
    BY <1>1, <1>3, ThreadSets
  <2> QED BY <1>1, <1>2, <1>3, <2>1
<1>4. CASE spent' = spent /\ spent < Limit
  BY <1>1, <1>2, <1>4
<1>5. ASSUME NEW w \in Workers, spent' = spent + 1, w \in Planning, Planning' \subseteq Planning \ {w}
      PROVE  OvershootIsBounded'
  <2>1. Cardinality(Planning \ {w}) = Cardinality(Planning) - 1
    BY <1>1, <1>5, ThreadSets, FS_RemoveElement
  <2>2. Cardinality(Planning') <= Cardinality(Planning \ {w})
    BY <1>1, <1>5, ThreadSets
  <2> QED BY <1>1, <1>2, <1>5, <2>1, <2>2
<1>6. ASSUME NEW w \in Workers, CheckBudget(w) PROVE OvershootIsBounded'
  <2>1. CASE BudgetAllows
    BY <1>6, <2>1, <1>4 DEF CheckBudget, BudgetAllows
  <2>2. CASE ~BudgetAllows
    <3>1. spent' = spent /\ Goto(w, "executing")
      BY <1>6, <2>2 DEF CheckBudget, Recovered
    <3>2. Planning' \subseteq Planning
      BY <3>1 DEF Planning, Goto, TypeOK
    <3> QED BY <3>1, <3>2, <1>3
  <2> QED BY <2>1, <2>2
<1>7. ASSUME NEW w \in Workers, PlannerReturns(w) PROVE OvershootIsBounded'
  <2>1. /\ pc[w] = "planning" /\ spent' = spent + 1
        /\ Goto(w, "executing") \/ Goto(w, "end")
    BY <1>7 DEF PlannerReturns, Recovered
  <2>2. w \in Planning /\ Planning' \subseteq Planning \ {w}
    BY <2>1 DEF Planning, Goto, TypeOK
  <2> QED BY <2>1, <2>2, <1>5
<1>8. ASSUME NEW w \in Workers, spent' = spent, NEW label \in Labels \ {"planning"}, Goto(w, label)
      PROVE  OvershootIsBounded'
  <2>1. Planning' \subseteq Planning
    BY <1>8 DEF Planning, Goto, TypeOK
  <2> QED BY <1>8, <2>1, <1>3
<1>9. ASSUME NEW w \in Workers, Start(w) \/ Proceed(w), ~CheckBudget(w), ~PlannerReturns(w)
      PROVE  spent' = spent /\ \E label \in Labels \ {"planning"} : Goto(w, label)
  <2>1. CASE Start(w) \/ HardBlocked(w) \/ DirectPlan(w)
    BY <2>1 DEF Start, HardBlocked, DirectPlan, Labels
  <2>2. CASE CheckConfidence(w)
    <3>1. spent' = spent /\ (Goto(w, "budget") \/ Goto(w, "lookup"))
      BY <2>2 DEF CheckConfidence
    <3> QED BY <3>1 DEF Labels
  <2>3. CASE Lookup(w)
    <3>1. spent' = spent /\ (Goto(w, "budget") \/ Goto(w, "executing"))
      BY <2>3 DEF Lookup
    <3> QED BY <3>1 DEF Labels
  <2>4. CASE FollowUp(w) \/ LoadPlans(w) \/ AppendPlan(w) \/ Retry(w) \/ Finish(w)
    BY <2>4 DEF FollowUp, LoadPlans, AppendPlan, Retry, Finish, Labels
  <2>5. CASE RecordOutcome(w)
    <3>1. PICK res \in Results, cacheable \in BOOLEAN : Settled(w, res, cacheable)
      BY <2>5, Zenon DEF RecordOutcome
    <3>2. spent' = spent /\ (Goto(w, "load") \/ Goto(w, "end"))
      BY <2>5, <3>1 DEF RecordOutcome, Settled
    <3> QED BY <3>2 DEF Labels
  <2> QED BY <1>9, <2>1, <2>2, <2>3, <2>4, <2>5 DEF Proceed
<1>10. CASE Restart
  <2>1. spent' = spent /\ Planning' \subseteq Planning
    BY <1>10 DEF Restart, Planning
  <2> QED BY <2>1, <1>3
<1>11. CASE UNCHANGED vars
  <2>1. spent' = spent /\ Planning' \subseteq Planning
    BY <1>11 DEF vars, Planning
  <2> QED BY <2>1, <1>3
<1> QED BY <1>6, <1>7, <1>8, <1>9, <1>10, <1>11 DEF Next

\* The planner budget is exceeded, by first calls, by at most the other threads.
THEOREM TheOvershootIsBounded == Spec => []OvershootIsBounded
<1>1. Init => OvershootIsBounded
  <2> SUFFICES ASSUME Init PROVE OvershootIsBounded
    OBVIOUS
  <2>1. {w \in Workers : pc[w] = "planning"} = {} /\ spent = 0
    BY DEF Init
  <2>2. Cardinality(Workers) \in Nat \ {0}
    BY Constants, FS_CardinalityType, FS_EmptySet
  <2>3. Cardinality({w \in Workers : pc[w] = "planning"}) = 0
    BY <2>1, FS_EmptySet, Zenon
  <2> QED BY <2>1, <2>2, <2>3, Constants DEF OvershootIsBounded
<1>2. TypeOK /\ TypeOK' /\ OvershootIsBounded /\ [Next]_vars => OvershootIsBounded'
  BY OvershootKept
<1> QED BY <1>1, <1>2, LearningTypeCorrect, PTL DEF Spec

-------------------------------------------------------------------------------
\* What a thread may do to the entries it holds.
Held(w) == \/ loaded'[w] = loaded[w] /\ view'[w] = view[w]
           \/ loaded'[w] /\ view'[w] = store
           \/ ~loaded'[w] /\ view'[w] = NoEntries

\* A step that writes no entry, and records as many successes as it leaves pending.
LEMMA CountsKept ==
    ASSUME LearningInv, TypeOK', store' = store, NEW d \in Nat,
           ledger'["success"] = ledger["success"] + d,
           \A s \in Shapes : Cardinality(Pending(s)') <= Cardinality(Pending(s)) + d,
           \A u \in Workers : Held(u)
    PROVE  Backed' /\ CopiesBacked' /\ ActiveIsEnough'
<1>1. /\ \A s \in Shapes : /\ Cardinality(Pending(s)) \in Nat /\ Cardinality(Pending(s)') \in Nat
                           /\ store[s].successes \in Nat
      /\ \A u \in Workers, s \in Shapes : view[u][s].successes \in Nat
      /\ ledger["success"] \in Nat
  BY ThreadSets DEF Pending, LearningInv, TypeOK, Entry, Outcomes
<1>2. Backed'
  BY <1>1 DEF Backed, LearningInv
<1>3. CopiesBacked'
  <2> SUFFICES ASSUME NEW u \in Workers, NEW s \in Shapes, loaded'[u]
               PROVE  view'[u][s].successes + Cardinality(Pending(s)') <= ledger'["success"]
    BY DEF CopiesBacked
  <2>1. \/ loaded[u] /\ view'[u][s] = view[u][s]
        \/ view'[u][s] = store[s]
    BY DEF Held
  <2> QED BY <1>1, <2>1 DEF LearningInv, Backed, CopiesBacked
<1>4. ActiveIsEnough'
  <2>1. ASSUME NEW u \in Workers, NEW s \in Shapes, view'[u][s].status = "active"
        PROVE  loaded'[u] /\ view'[u][s].successes >= MinSuccesses
    <3>1. CASE loaded'[u] = loaded[u] /\ view'[u] = view[u]
      BY <2>1, <3>1 DEF LearningInv, ActiveIsEnough
    <3>2. CASE loaded'[u] /\ view'[u] = store
      BY <2>1, <3>2 DEF LearningInv, ActiveIsEnough
    <3>3. CASE view'[u] = NoEntries
      BY <2>1, <3>3 DEF NoEntries, Absent
    <3> QED BY <3>1, <3>2, <3>3 DEF Held
  <2> QED BY <2>1 DEF LearningInv, ActiveIsEnough
<1> QED BY <1>2, <1>3, <1>4

\* The sets of pending successes do not grow when no thread enters them.
LEMMA PendingShrinks ==
    ASSUME LearningInv, NEW s \in Shapes, Pending(s)' \subseteq Pending(s)
    PROVE  Cardinality(Pending(s)') <= Cardinality(Pending(s))
BY ThreadSets DEF Pending

\* A step outside the outcome of a run: nothing is recorded as a success.
LEMMA QuietStep ==
    ASSUME LearningInv, TypeOK', store' = store, ledger'["success"] = ledger["success"],
           NEW w \in Workers,
           pc'[w] \in {"load", "append"} =>
               pc[w] \in {"load", "append"} /\ outcome'[w] = outcome[w] /\ shape'[w] = shape[w],
           \A u \in Workers \ {w} : pc'[u] = pc[u] /\ outcome'[u] = outcome[u] /\ shape'[u] = shape[u],
           \A u \in Workers : Held(u)
    PROVE  Backed' /\ CopiesBacked' /\ ActiveIsEnough'
<1>1. \A s \in Shapes : Pending(s)' \subseteq Pending(s)
  BY DEF Pending
<1>2. \A s \in Shapes : Cardinality(Pending(s)) \in Nat /\ Cardinality(Pending(s)') \in Nat
  BY ThreadSets DEF Pending
<1>3. \A s \in Shapes : Cardinality(Pending(s)') <= Cardinality(Pending(s)) + 0
  BY <1>1, <1>2, PendingShrinks
<1>4. ledger'["success"] = ledger["success"] + 0
  BY DEF LearningInv, TypeOK, Outcomes
<1> QED BY <1>3, <1>4, CountsKept

\* Every action but the two that write a success: no entry is written, and no
\* thread takes up a success.
LEMMA OtherSteps ==
    ASSUME LearningInv, TypeOK', NEW w \in Workers, Start(w) \/ Proceed(w),
           ~RecordOutcome(w), ~AppendPlan(w)
    PROVE  Backed' /\ CopiesBacked' /\ ActiveIsEnough'
<1> USE DEF files, run, caches, plan, verdict
<1>1. /\ store' = store /\ ledger'["success"] = ledger["success"]
      /\ pc'[w] \in {"load", "append"} =>
             pc[w] \in {"load", "append"} /\ outcome'[w] = outcome[w] /\ shape'[w] = shape[w]
      /\ \A u \in Workers \ {w} : pc'[u] = pc[u] /\ outcome'[u] = outcome[u] /\ shape'[u] = shape[u]
      /\ \A u \in Workers : Held(u)
  <2> USE DEF Held, Goto, LearningInv, TypeOK
  <2>1. CASE Start(w)
    BY <2>1 DEF Start
  <2>2. CASE HardBlocked(w)
    <3>1. PICK o \in {"failure", "infeasible"} : Counted(o) /\ outcome' = [outcome EXCEPT ![w] = o]
      BY <2>2 DEF HardBlocked
    <3> QED BY <2>2, <3>1 DEF HardBlocked, Counted, Outcomes
  <2>3. CASE DirectPlan(w)
    BY <2>3 DEF DirectPlan
  <2>4. CASE CheckConfidence(w)
    <3>1. /\ Goto(w, "budget") \/ Goto(w, "lookup")
          /\ UNCHANGED <<ledger, store, loaded, view, outcome, shape>>
      BY <2>4 DEF CheckConfidence
    <3> QED BY <3>1
  <2>5. CASE Lookup(w)
    <3>1. /\ UNCHANGED <<ledger, store, outcome>>
          /\ loaded' = [loaded EXCEPT ![w] = TRUE]
          /\ view' = [view EXCEPT ![w] = IF loaded[w] THEN @ ELSE store]
      BY <2>5 DEF Lookup, Loaded
    <3>2. \A u \in Workers : Held(u)
      BY <3>1, ZenonT(40)
    <3>3. /\ Goto(w, "budget") \/ Goto(w, "executing")
          /\ shape' = shape \/ \E s \in Shapes : shape' = [shape EXCEPT ![w] = s]
      BY <2>5 DEF Lookup
    <3>4. /\ pc'[w] \notin {"load", "append"}
          /\ \A u \in Workers \ {w} : pc'[u] = pc[u] /\ shape'[u] = shape[u]
      BY <3>3
    <3> QED BY <3>1, <3>2, <3>4
  <2>6. CASE CheckBudget(w) \/ PlannerReturns(w)
    <3>1. UNCHANGED <<ledger, store, loaded, view, outcome>>
      BY <2>6 DEF CheckBudget, PlannerReturns
    <3>2. /\ Goto(w, "planning") \/ Goto(w, "executing") \/ Goto(w, "end")
          /\ shape' = shape \/ \E s \in Shapes : shape' = [shape EXCEPT ![w] = s]
      BY <2>6 DEF CheckBudget, PlannerReturns, Recovered
    <3>3. /\ pc'[w] \notin {"load", "append"}
          /\ \A u \in Workers \ {w} : pc'[u] = pc[u] /\ shape'[u] = shape[u]
      BY <3>2
    <3> QED BY <3>1, <3>3
  <2>7. CASE FollowUp(w)
    BY <2>7 DEF FollowUp
  <2>8. CASE LoadPlans(w)
    <3>1. /\ UNCHANGED <<ledger, store, outcome, shape>> /\ pc[w] = "load" /\ Goto(w, "append")
          /\ loaded' = [loaded EXCEPT ![w] = TRUE]
          /\ view' = [view EXCEPT ![w] = IF loaded[w] THEN @ ELSE store]
      BY <2>8 DEF LoadPlans, Loaded
    <3>2. \A u \in Workers : Held(u)
      BY <3>1, ZenonT(40)
    <3> QED BY <3>1, <3>2
  <2>9. CASE Retry(w)
    BY <2>9 DEF Retry, Cleared
  <2>10. CASE Finish(w)
    BY <2>10 DEF Finish, Cleared
  <2> QED BY <2>1, <2>2, <2>3, <2>4, <2>5, <2>6, <2>7, <2>8, <2>9, <2>10 DEF Proceed
<1> QED BY <1>1, QuietStep

\* A success is counted in the ledger in the step that makes it pending.
LEMMA RecordedStep ==
    ASSUME LearningInv, TypeOK', NEW w \in Workers, RecordOutcome(w)
    PROVE  Backed' /\ CopiesBacked' /\ ActiveIsEnough'
<1>1. PICK res \in Results, cacheable \in BOOLEAN : Settled(w, res, cacheable)
  BY Zenon DEF RecordOutcome
<1>2. store' = store /\ shape' = shape /\ \A u \in Workers : Held(u)
  BY DEF RecordOutcome, files, plan, Held
<1>3. /\ \A u \in Workers \ {w} : pc'[u] = pc[u]
      /\ pc[w] \notin {"load", "append"}
  BY <1>1 DEF Settled, Goto, RecordOutcome, LearningInv, TypeOK
<1>4. CASE res.red
  <2>1. UNCHANGED <<ledger, outcome>> /\ pc'[w] = "end"
    BY <1>1, <1>4 DEF Settled, Goto, LearningInv, TypeOK
  <2> QED BY <1>2, <1>3, <2>1, QuietStep
<1>5. CASE ~res.red /\ OutcomeOf(res) # "success"
  <2>1. /\ Counted(OutcomeOf(res)) /\ outcome' = [outcome EXCEPT ![w] = OutcomeOf(res)]
    BY <1>1, <1>5 DEF Settled
  <2>2. /\ ledger'["success"] = ledger["success"] /\ outcome'[w] # "success"
        /\ \A u \in Workers \ {w} : outcome'[u] = outcome[u]
    BY <1>5, <2>1, OutcomeTypes DEF Counted, Outcomes, LearningInv, TypeOK
  <2>3. \A s \in Shapes : Pending(s)' \subseteq Pending(s)
    BY <1>2, <1>3, <2>2 DEF Pending
  <2>4. \A s \in Shapes : /\ Cardinality(Pending(s)') <= Cardinality(Pending(s)) + 0
    <3>1. \A s \in Shapes : Cardinality(Pending(s)) \in Nat /\ Cardinality(Pending(s)') \in Nat
      BY ThreadSets DEF Pending
    <3> QED BY <2>3, <3>1, PendingShrinks
  <2>5. ledger'["success"] = ledger["success"] + 0
    BY <2>2 DEF LearningInv, TypeOK, Outcomes
  <2> QED BY <1>2, <2>4, <2>5, CountsKept
<1>6. CASE ~res.red /\ OutcomeOf(res) = "success"
  <2>1. Counted("success") /\ outcome' = [outcome EXCEPT ![w] = "success"]
    BY <1>1, <1>6 DEF Settled
  <2>2. /\ ledger'["success"] = ledger["success"] + 1
        /\ \A u \in Workers \ {w} : outcome'[u] = outcome[u]
    BY <2>1 DEF Counted, Outcomes, LearningInv, TypeOK
  <2>3. ASSUME NEW s \in Shapes PROVE Cardinality(Pending(s)') <= Cardinality(Pending(s)) + 1
    <3>1. Pending(s)' \subseteq Pending(s) \union {w} /\ w \notin Pending(s)
      BY <1>2, <1>3, <2>2 DEF Pending
    <3>2. /\ Pending(s) \in SUBSET Workers /\ Pending(s) \union {w} \in SUBSET Workers
          /\ Pending(s)' \in SUBSET Workers
      BY DEF Pending
    <3>3. Cardinality(Pending(s) \union {w}) = Cardinality(Pending(s)) + 1
      BY <3>1, <3>2, ThreadSets, FS_AddElement
    <3>4. Cardinality(Pending(s)') <= Cardinality(Pending(s) \union {w})
      BY <3>1, <3>2, ThreadSets
    <3> QED BY <3>3, <3>4
  <2> QED BY <1>2, <2>2, <2>3, CountsKept
<1> QED BY <1>4, <1>5, <1>6

\* The record appended counts one more success than the copy it was computed from,
\* and that success is no longer pending.
LEMMA AppendedStep ==
    ASSUME LearningInv, TypeOK', NEW w \in Workers, AppendPlan(w)
    PROVE  Backed' /\ CopiesBacked' /\ ActiveIsEnough'
<1> DEFINE r == shape[w]
           e == view[w][r]
<1>1. /\ r \in Shapes /\ e \in Entry /\ loaded[w] /\ pc[w] = "append"
      /\ UNCHANGED <<ledger, outcome, shape>>
      /\ pc'[w] = "end" /\ \A u \in Workers \ {w} : pc'[u] = pc[u]
  BY DEF AppendPlan, LearningInv, TypeOK, WritersLoaded, plan, verdict, Goto
<1>2. /\ store' = [store EXCEPT ![r] = IF outcome[w] = "success" THEN Succeeded(e)
                                       ELSE IF e.status = "absent" THEN @ ELSE FailedEntry(e)]
      /\ loaded' = [loaded EXCEPT ![w] = FALSE]
      /\ view' = [view EXCEPT ![w] = NoEntries]
  BY DEF AppendPlan
<1>3. ASSUME NEW s \in Shapes
      PROVE  /\ Cardinality(Pending(s)) \in Nat /\ Cardinality(Pending(s)') \in Nat
             /\ Cardinality(Pending(s)') <= Cardinality(Pending(s))
             /\ outcome[w] = "success" /\ s = r =>
                    Cardinality(Pending(s)') + 1 <= Cardinality(Pending(s))
  <2>1. /\ Pending(s) \in SUBSET Workers /\ Pending(s)' \in SUBSET Workers
        /\ Pending(s) \ {w} \in SUBSET Workers
        /\ Pending(s)' \subseteq Pending(s) \ {w}
        /\ outcome[w] = "success" /\ s = r => w \in Pending(s)
    BY <1>1 DEF Pending
  <2>2. /\ Cardinality(Pending(s)') <= Cardinality(Pending(s) \ {w})
        /\ Cardinality(Pending(s) \ {w}) <= Cardinality(Pending(s))
    BY <2>1, ThreadSets
  <2>3. w \in Pending(s) => Cardinality(Pending(s) \ {w}) = Cardinality(Pending(s)) - 1
    BY <2>1, ThreadSets, FS_RemoveElement
  <2>4. /\ Cardinality(Pending(s)) \in Nat /\ Cardinality(Pending(s)') \in Nat
        /\ Cardinality(Pending(s) \ {w}) \in Nat
    BY <2>1, ThreadSets
  <2> QED BY <2>1, <2>2, <2>3, <2>4
<1>4. /\ \A s \in Shapes : store[s].successes \in Nat /\ store'[s].successes \in Nat
      /\ \A u \in Workers, s \in Shapes : view[u][s].successes \in Nat
      /\ ledger["success"] \in Nat
  BY DEF LearningInv, TypeOK, Entry, Outcomes
<1>5. Backed'
  <2> SUFFICES ASSUME NEW s \in Shapes
               PROVE  store'[s].successes + Cardinality(Pending(s)') <= ledger'["success"]
    BY DEF Backed
  <2>1. store[s].successes + Cardinality(Pending(s)) <= ledger["success"]
    BY DEF LearningInv, Backed
  <2>2. view[w][s].successes + Cardinality(Pending(s)) <= ledger["success"]
    BY <1>1 DEF LearningInv, CopiesBacked
  <2>3. CASE store'[s] = store[s]
    BY <1>1, <1>3, <1>4, <2>1, <2>3
  <2>4. CASE s = r /\ outcome[w] = "success" /\ store'[s] = Succeeded(e)
    <3>1. store'[s].successes = view[w][s].successes + 1
      BY <1>1, <2>4, EntrySteps
    <3>2. Cardinality(Pending(s)') + 1 <= Cardinality(Pending(s))
      BY <1>3, <2>4
    <3> QED BY <1>1, <1>3, <1>4, <2>2, <3>1, <3>2
  <2>5. CASE s = r /\ store'[s] = FailedEntry(e)
    <3>1. store'[s].successes = view[w][s].successes
      BY <1>1, <2>5, EntrySteps
    <3> QED BY <1>1, <1>3, <1>4, <2>2, <3>1
  <2> QED BY <1>1, <1>2, <2>3, <2>4, <2>5 DEF LearningInv, TypeOK
<1>6. CopiesBacked'
  <2> SUFFICES ASSUME NEW u \in Workers, NEW s \in Shapes, loaded'[u]
               PROVE  view'[u][s].successes + Cardinality(Pending(s)') <= ledger'["success"]
    BY DEF CopiesBacked
  <2>1. u # w /\ loaded[u] /\ view'[u] = view[u]
    BY <1>2 DEF LearningInv, TypeOK
  <2>2. view[u][s].successes + Cardinality(Pending(s)) <= ledger["success"]
    BY <2>1 DEF LearningInv, CopiesBacked
  <2> QED BY <1>1, <1>3, <1>4, <2>1, <2>2
<1>7. ActiveIsEnough'
  <2>1. ASSUME NEW s \in Shapes, store'[s].status = "active"
        PROVE  store'[s].successes >= MinSuccesses
    <3>1. CASE store'[s] = store[s]
      BY <2>1, <3>1 DEF LearningInv, ActiveIsEnough
    <3>2. CASE store'[s] = Succeeded(e)
      <4>1. e.status = "active" => e.successes >= MinSuccesses
        BY <1>1 DEF LearningInv, ActiveIsEnough
      <4>2. e.successes \in Nat
        BY <1>1, <1>4
      <4> QED BY <1>1, <2>1, <3>2, <4>1, <4>2, EntrySteps, Constants
    <3>3. CASE store'[s] = FailedEntry(e)
      BY <1>1, <2>1, <3>3, EntrySteps
    <3> QED BY <1>1, <1>2, <3>1, <3>2, <3>3 DEF LearningInv, TypeOK
  <2>2. ASSUME NEW u \in Workers, NEW s \in Shapes, view'[u][s].status = "active"
        PROVE  loaded'[u] /\ view'[u][s].successes >= MinSuccesses
    <3>1. u # w
      BY <1>2, <2>2 DEF LearningInv, TypeOK, NoEntries, Absent
    <3> QED BY <1>2, <2>2, <3>1 DEF LearningInv, TypeOK, ActiveIsEnough
  <2> QED BY <2>1, <2>2 DEF ActiveIsEnough
<1> QED BY <1>5, <1>6, <1>7

\* A restart, and a stutter.
LEMMA RestartStep ==
    ASSUME LearningInv, TypeOK', Restart \/ UNCHANGED vars
    PROVE  Backed' /\ CopiesBacked' /\ ActiveIsEnough'
<1>1. store' = store /\ ledger' = ledger /\ \A u \in Workers : Held(u)
  BY DEF Restart, vars, files, Held
<1>2. \A s \in Shapes : Pending(s)' \subseteq Pending(s)
  BY DEF Restart, vars, Pending
<1>3. \A s \in Shapes : Cardinality(Pending(s)) \in Nat /\ Cardinality(Pending(s)') \in Nat
  BY ThreadSets DEF Pending
<1>4. \A s \in Shapes : Cardinality(Pending(s)') <= Cardinality(Pending(s)) + 0
  BY <1>2, <1>3, PendingShrinks
<1>5. ledger'["success"] = ledger["success"] + 0
  BY <1>1 DEF LearningInv, TypeOK, Outcomes
<1> QED BY <1>1, <1>4, <1>5, CountsKept

\* A thread about to append holds the entries it computes the record from.
LEMMA WritersLoadedKept ==
    ASSUME LearningInv, [Next]_vars
    PROVE  WritersLoaded'
<1> USE DEF WritersLoaded, LearningInv, TypeOK, caches, Goto
<1>1. ASSUME NEW w \in Workers, Start(w) \/ Proceed(w),
             ~LoadPlans(w), ~Lookup(w), ~AppendPlan(w), ~RecordOutcome(w),
             ~CheckBudget(w), ~PlannerReturns(w), ~CheckConfidence(w)
      PROVE  WritersLoaded'
  BY <1>1 DEF Proceed, Start, HardBlocked, DirectPlan, FollowUp, Retry, Finish
<1>2. ASSUME NEW w \in Workers, LoadPlans(w) \/ Lookup(w) PROVE WritersLoaded'
  <2>1. /\ loaded' = [loaded EXCEPT ![w] = TRUE]
        /\ Goto(w, "append") \/ Goto(w, "budget") \/ Goto(w, "executing")
    BY <1>2 DEF LoadPlans, Lookup, Loaded
  <2> QED BY <2>1
<1>3. ASSUME NEW w \in Workers, AppendPlan(w) PROVE WritersLoaded'
  BY <1>3 DEF AppendPlan
<1>4. ASSUME NEW w \in Workers, RecordOutcome(w) PROVE WritersLoaded'
  <2>1. PICK res \in Results, cacheable \in BOOLEAN : Settled(w, res, cacheable)
    BY <1>4, Zenon DEF RecordOutcome
  <2>2. loaded' = loaded /\ (Goto(w, "load") \/ Goto(w, "end"))
    BY <1>4, <2>1 DEF RecordOutcome, Settled
  <2> QED BY <2>2
<1>5. ASSUME NEW w \in Workers, CheckBudget(w) \/ PlannerReturns(w) \/ CheckConfidence(w)
      PROVE  WritersLoaded'
  <2>1. /\ loaded' = loaded
        /\ \/ Goto(w, "planning") \/ Goto(w, "executing") \/ Goto(w, "end")
           \/ Goto(w, "budget") \/ Goto(w, "lookup")
    BY <1>5 DEF CheckBudget, PlannerReturns, CheckConfidence, Recovered
  <2> QED BY <2>1
<1>6. CASE Restart \/ UNCHANGED vars
  BY <1>6 DEF Restart, vars
<1> QED BY <1>1, <1>2, <1>3, <1>4, <1>5, <1>6 DEF Next

\* An entry is served from a copy, and a copy's active entries are backed.
LEMMA ServedEnoughKept ==
    ASSUME LearningInv, CopiesBacked', ActiveIsEnough', TypeOK', [Next]_vars
    PROVE  ServedEnough'
<1>1. ledger["success"] \in Nat /\ ledger'["success"] \in Nat /\ MinSuccesses \in Nat
  BY Constants DEF LearningInv, TypeOK, Outcomes
<1>2. ASSUME ledger'["success"] >= ledger["success"],
             \A w \in Workers : served'[w] = served[w] \/ served'[w] = None
      PROVE  ServedEnough'
  BY <1>1, <1>2 DEF ServedEnough, LearningInv
<1>3. ASSUME NEW w \in Workers, Lookup(w) PROVE ServedEnough'
  <2>1. ledger' = ledger
    BY <1>3 DEF Lookup, files
  <2>2. CASE served' = served
    BY <1>2, <1>1, <2>1, <2>2
  <2>3. ASSUME NEW s \in Shapes, view'[w][s].status = "active", served' = [served EXCEPT ![w] = s]
        PROVE  ServedEnough'
    <3>1. loaded'[w] /\ view'[w][s].successes >= MinSuccesses
      BY <2>3 DEF ActiveIsEnough
    <3>2. view'[w][s].successes + Cardinality(Pending(s)') <= ledger'["success"]
      BY <3>1 DEF CopiesBacked
    <3>3. Cardinality(Pending(s)') \in Nat /\ view'[w][s].successes \in Nat
      BY ThreadSets DEF Pending, TypeOK, Entry
    <3>4. ledger'["success"] >= MinSuccesses
      BY <1>1, <3>1, <3>2, <3>3
    <3> QED BY <3>4 DEF ServedEnough
  <2> QED BY <1>3, <2>2, <2>3 DEF Lookup
<1>4. ASSUME NEW w \in Workers, Start(w) \/ Proceed(w), ~Lookup(w)
      PROVE  /\ ledger'["success"] >= ledger["success"]
             /\ \A u \in Workers : served'[u] = served[u] \/ served'[u] = None
  <2> USE DEF files, plan, LearningInv, TypeOK
  <2>1. CASE RecordOutcome(w)
    <3>1. PICK res \in Results, cacheable \in BOOLEAN : Settled(w, res, cacheable)
      BY <2>1, Zenon DEF RecordOutcome
    <3>2. ledger' = ledger \/ Counted(OutcomeOf(res))
      BY <3>1 DEF Settled
    <3>3. ledger'["success"] >= ledger["success"]
      BY <1>1, <3>2, OutcomeTypes DEF Counted, Outcomes
    <3> QED BY <2>1, <3>3 DEF RecordOutcome
  <2>2. CASE HardBlocked(w)
    <3>1. PICK o \in {"failure", "infeasible"} : Counted(o)
      BY <2>2 DEF HardBlocked
    <3>2. ledger'["success"] >= ledger["success"]
      BY <1>1, <3>1 DEF Counted, Outcomes
    <3> QED BY <2>2, <3>2 DEF HardBlocked
  <2>3. CASE Start(w) \/ DirectPlan(w) \/ CheckConfidence(w) \/ CheckBudget(w) \/ PlannerReturns(w)
    <3>1. ledger' = ledger /\ served' = served
      <4>1. CASE Start(w) \/ DirectPlan(w)
        BY <4>1 DEF Start, DirectPlan
      <4>2. CASE CheckConfidence(w)
        BY <4>2 DEF CheckConfidence
      <4>3. CASE CheckBudget(w) \/ PlannerReturns(w)
        BY <4>3 DEF CheckBudget, PlannerReturns
      <4> QED BY <2>3, <4>1, <4>2, <4>3
    <3> QED BY <1>1, <3>1
  <2>4. CASE FollowUp(w) \/ LoadPlans(w) \/ AppendPlan(w) \/ Retry(w) \/ Finish(w)
    BY <1>1, <2>4 DEF FollowUp, LoadPlans, AppendPlan, Retry, Finish, Cleared
  <2> QED BY <1>4, <2>1, <2>2, <2>3, <2>4 DEF Proceed
<1>5. CASE Restart \/ UNCHANGED vars
  <2>1. ledger' = ledger /\ \A u \in Workers : served'[u] = served[u] \/ served'[u] = None
    BY <1>5 DEF Restart, vars, files
  <2> QED BY <1>1, <1>2, <2>1
<1> QED BY <1>2, <1>3, <1>4, <1>5 DEF Next

\* What every reachable state satisfies.
THEOREM LearningInvariant == Spec => []LearningInv
<1>1. Init => LearningInv
  <2> SUFFICES ASSUME Init PROVE LearningInv
    OBVIOUS
  <2>1. TypeOK
    BY InitTypes
  <2>2. \A s \in Shapes : Pending(s) = {} /\ Cardinality(Pending(s)) = 0
    <3>1. \A s \in Shapes : Pending(s) = {}
      BY DEF Init, Pending
    <3> QED BY <3>1, FS_EmptySet
  <2>3. Backed /\ CopiesBacked
    BY <2>2 DEF Backed, CopiesBacked, Init, NoEntries, Absent, Outcomes
  <2>4. ActiveIsEnough /\ WritersLoaded /\ ServedEnough
    BY DEF ActiveIsEnough, WritersLoaded, ServedEnough, Init, NoEntries, Absent
  <2> QED BY <2>1, <2>3, <2>4 DEF LearningInv
<1>2. LearningInv /\ [Next]_vars => LearningInv'
  <2> SUFFICES ASSUME LearningInv, [Next]_vars PROVE LearningInv'
    OBVIOUS
  <2>1. TypeOK'
    BY TypesKept DEF LearningInv
  <2>2. Backed' /\ CopiesBacked' /\ ActiveIsEnough'
    BY <2>1, OtherSteps, RecordedStep, AppendedStep, RestartStep DEF Next
  <2>3. WritersLoaded' /\ ServedEnough'
    BY <2>1, <2>2, WritersLoadedKept, ServedEnoughKept
  <2> QED BY <2>1, <2>2, <2>3 DEF LearningInv
<1> QED BY <1>1, <1>2, PTL DEF Spec

\* A plan is served without the planner, or is ready to be, only after that many
\* recorded successes.
THEOREM ServedPlansAreEarned == Spec => []ServedIsEarned
<1>1. LearningInv => ServedIsEarned
  <2> SUFFICES ASSUME LearningInv, NEW s \in Shapes,
                      store[s].status = "active" \/ \E w \in Workers : served[w] = s
               PROVE  ledger["success"] >= MinSuccesses
    BY DEF ServedIsEarned
  <2>1. CASE store[s].status = "active"
    <3>1. store[s].successes >= MinSuccesses
      BY <2>1 DEF LearningInv, ActiveIsEnough
    <3>2. store[s].successes + Cardinality(Pending(s)) <= ledger["success"]
      BY DEF LearningInv, Backed
    <3>3. /\ Cardinality(Pending(s)) \in Nat /\ store[s].successes \in Nat
          /\ ledger["success"] \in Nat /\ MinSuccesses \in Nat
      BY ThreadSets, Constants DEF Pending, LearningInv, TypeOK, Entry, Outcomes
    <3> QED BY <3>1, <3>2, <3>3
  <2>2. CASE \E w \in Workers : served[w] = s
    BY <2>2, Constants DEF LearningInv, ServedEnough
  <2> QED BY <2>1, <2>2
<1> QED BY <1>1, LearningInvariant, PTL

===============================================================================
