---------------------------- MODULE Runtime_proofs ----------------------------
(***************************************************************************)
(* Proofs about the runtime: the task tree, for any set of leaves and any   *)
(* dependencies, and the run pipeline, for any plans, any pack and any      *)
(* number of attempts.                                                      *)
(***************************************************************************)
EXTENDS TaskTree, RunPipeline, FunctionTheorems, FiniteSetTheorems, SequenceTheorems,
        WellFoundedInduction, TLAPS

(***************************************************************************)
(* Part 1, the task tree.  The sort is correct because of what its map      *)
(* counts: the in-degree of a leaf is the number of its dependencies that   *)
(* the relaxations have not yet taken off, and no leaf with a count above 0 *)
(* is in the queue or the order.  The tree driver then follows an order it  *)
(* can rely on.                                                             *)
(***************************************************************************)
Distinct(s) == \A i, j \in 1..Len(s) : s[i] = s[j] => i = j

\* The leaves already taken off the in-degree of the i-th leaf.
Cleared(i) == IF cursor > i THEN Elems(order) ELSE Elems(order) \ {taken}

SortTypes ==
    /\ phase \in {"decompose", "sort", "run", "done", "single_shot"}
    /\ depends \in [Leaves -> SUBSET Leaves]
    /\ inDegree \in [Leaves -> Nat]
    /\ ready \in Seq(Leaves) /\ order \in Seq(Leaves)
    /\ taken \in Leaves \union {None}
    /\ cursor \in 1..Len(Emitted) + 1

\* Before the decomposition nothing is queued; while seeding nothing is taken
\* and the queue holds visited leaves only.
Starting ==
    /\ phase = "decompose" => ready = <<>> /\ order = <<>> /\ taken = None /\ cursor = 1
    /\ taken = None => /\ order = <<>>
                       /\ Elems(ready) \subseteq {Emitted[i] : i \in 1..cursor - 1}
    /\ taken # None => taken \in Elems(order)

\* No leaf is queued twice, taken twice, or queued once taken.
NoneTwice ==
    /\ Distinct(order) /\ Distinct(ready)
    /\ Elems(order) \intersect Elems(ready) = {}

\* The in-degree counts the dependencies not yet taken off.
DegreesCount ==
    phase = "sort" => \A i \in 1..Len(Emitted) :
        inDegree[Emitted[i]] = Cardinality(depends[Emitted[i]] \ Cleared(i))

QueuedAreFree ==
    phase = "sort" => \A l \in Elems(ready) \union Elems(order) : inDegree[l] = 0

SortInv == SortTypes /\ Starting /\ NoneTwice /\ DegreesCount /\ QueuedAreFree
           /\ OrderRespectsDependencies

-------------------------------------------------------------------------------
\* Appending a new leaf to a queue without repetitions.
LEMMA AppendElems ==
    ASSUME NEW s \in Seq(Leaves), NEW l \in Leaves
    PROVE  /\ Elems(Append(s, l)) = Elems(s) \union {l}
           /\ Distinct(s) /\ l \notin Elems(s) => Distinct(Append(s, l))
<1>1. /\ Len(Append(s, l)) = Len(s) + 1 /\ Len(s) \in Nat
      /\ \A i \in 1..Len(s) : Append(s, l)[i] = s[i]
      /\ Append(s, l)[Len(s) + 1] = l
  BY AppendProperties
<1>2. Elems(Append(s, l)) = Elems(s) \union {l}
  BY <1>1 DEF Elems
<1>3. ASSUME Distinct(s), l \notin Elems(s) PROVE Distinct(Append(s, l))
  BY <1>1, <1>3 DEF Elems, Distinct
<1> QED BY <1>2, <1>3

\* Taking the head of a queue without repetitions.
LEMMA TailElems ==
    ASSUME NEW s \in Seq(Leaves), s # <<>>, Distinct(s)
    PROVE  /\ Head(s) \in Leaves /\ Tail(s) \in Seq(Leaves) /\ Head(s) \in Elems(s)
           /\ Elems(Tail(s)) = Elems(s) \ {Head(s)}
           /\ Distinct(Tail(s))
<1>1. /\ Head(s) \in Leaves /\ Tail(s) \in Seq(Leaves)
      /\ Len(Tail(s)) = Len(s) - 1 /\ Len(s) \in Nat /\ Len(s) # 0
      /\ \A i \in 1..Len(Tail(s)) : Tail(s)[i] = s[i + 1]
  BY HeadTailProperties, EmptySeq
<1>2. Head(s) = s[1]
  BY <1>1
<1>3. Distinct(Tail(s))
  BY <1>1 DEF Distinct
<1>4. Elems(Tail(s)) \subseteq Elems(s) \ {Head(s)}
  BY <1>1, <1>2 DEF Elems, Distinct
<1>5. ASSUME NEW l \in Elems(s) \ {Head(s)} PROVE l \in Elems(Tail(s))
  <2>1. PICK i \in 1..Len(s) : s[i] = l /\ i # 1
    BY <1>2, <1>5 DEF Elems
  <2>2. i - 1 \in 1..Len(Tail(s)) /\ Tail(s)[i - 1] = l
    BY <2>1, <1>1
  <2> QED BY <2>2 DEF Elems
<1>6. Head(s) \in Elems(s)
  BY <1>1, <1>2 DEF Elems
<1> QED BY <1>1, <1>3, <1>4, <1>5, <1>6

\* Every leaf is visited at exactly one position.
LEMMA EmittedFacts ==
    /\ Len(Emitted) \in Nat
    /\ \A i \in 1..Len(Emitted) : Emitted[i] \in Leaves
    /\ \A i, j \in 1..Len(Emitted) : Emitted[i] = Emitted[j] => i = j
    /\ \A l \in Leaves : \E i \in 1..Len(Emitted) : Emitted[i] = l
    /\ None \notin Leaves
BY EmittedAssumption, LenProperties, ElementOfSeq

\* Sets of leaves have a size, which is 0 for the empty set only.
LEMMA LeafSets ==
    ASSUME NEW S \in SUBSET Leaves
    PROVE  /\ IsFiniteSet(S) /\ Cardinality(S) \in Nat
           /\ Cardinality(S) = 0 <=> S = {}
BY EmittedAssumption, FS_Subset, FS_CardinalityType, FS_EmptySet

\* Nothing is sorted before the decomposition.
LEMMA SortInit == Init => SortInv
BY EmittedFacts DEF Init, SortInv, SortTypes, Starting, NoneTwice, DegreesCount, QueuedAreFree,
   OrderRespectsDependencies, Elems, Distinct, None

\* A step that leaves the sort alone keeps its invariant.
LEMMA SortStays ==
    ASSUME SortInv, UNCHANGED <<depends, sortVars>>,
           phase' \in {"run", "done", "single_shot"} \/ UNCHANGED phase
    PROVE  SortInv'
<1> USE DEF SortInv, sortVars
<1>1. SortTypes' /\ Starting'
  BY DEF SortTypes, Starting, Elems
<1>2. NoneTwice'
  BY DEF NoneTwice, Elems, Distinct
<1>3. DegreesCount' /\ QueuedAreFree'
  BY DEF DegreesCount, QueuedAreFree, Cleared, Elems
<1>4. OrderRespectsDependencies'
  BY DEF OrderRespectsDependencies
<1> QED BY <1>1, <1>2, <1>3, <1>4

\* The decomposition starts the count with all dependencies.
LEMMA DecomposeKeepsSort ==
    ASSUME SortInv, Decompose
    PROVE  SortInv'
<1> USE DEF SortInv
<1>1. /\ ready' = <<>> /\ order' = <<>> /\ taken' = None /\ cursor' = 1 /\ phase' = "sort"
      /\ ready = <<>> /\ order = <<>>
  BY DEF Decompose, Starting
<1>2. depends' \in [Leaves -> SUBSET Leaves]
  BY DEF Decompose
<1>3. inDegree' = [l \in Leaves |-> Cardinality(depends'[l])]
  BY DEF Decompose
<1>4. inDegree' \in [Leaves -> Nat]
  BY <1>2, <1>3, LeafSets
<1>5. SortTypes'
  BY <1>1, <1>2, <1>4, EmittedFacts DEF SortTypes
<1>6. Elems(order') = {} /\ Elems(ready') = {}
  BY <1>1 DEF Elems
<1>7. DegreesCount'
  <2> SUFFICES ASSUME NEW i \in 1..Len(Emitted)
               PROVE  inDegree'[Emitted[i]] = Cardinality(depends'[Emitted[i]] \ Cleared(i)')
    BY DEF DegreesCount
  <2>1. Cleared(i)' = {}
    BY <1>6 DEF Cleared
  <2> QED BY <2>1, <1>3, EmittedFacts
<1>8. Starting' /\ NoneTwice' /\ QueuedAreFree' /\ OrderRespectsDependencies'
  BY <1>1, <1>6 DEF Starting, NoneTwice, QueuedAreFree, OrderRespectsDependencies, Distinct, Elems
<1> QED BY <1>5, <1>7, <1>8

\* Seeding queues the visited leaf only when nothing holds it.
LEMMA SeedKeepsSort ==
    ASSUME SortInv, Seed
    PROVE  SortInv'
<1> USE DEF SortInv
<1>1. PICK l \in Leaves : l = Emitted[cursor]
  BY EmittedFacts DEF Seed, Visiting, SortTypes
<1>2. /\ phase = "sort" /\ phase' = "sort" /\ cursor \in 1..Len(Emitted) /\ cursor' = cursor + 1
      /\ taken = None /\ taken' = None /\ order = <<>> /\ order' = order
      /\ depends' = depends /\ inDegree' = inDegree
      /\ ready' = IF inDegree[l] = 0 THEN Append(ready, l) ELSE ready
  BY <1>1, EmittedFacts DEF Seed, Visiting, Starting, SortTypes
<1>3. l \notin Elems(ready)
  BY <1>1, <1>2, EmittedFacts DEF Starting
<1>4. /\ ready' \in Seq(Leaves) /\ Distinct(ready')
      /\ Elems(ready') \subseteq Elems(ready) \union {l}
      /\ l \in Elems(ready') => inDegree[l] = 0
  BY <1>2, <1>3, AppendElems, AppendProperties DEF SortTypes, NoneTwice
<1>5. Elems(order) = {} /\ Elems(order') = {}
  BY <1>2 DEF Elems
<1>6. SortTypes'
  BY <1>2, <1>4, EmittedFacts DEF SortTypes
<1>7. Starting'
  BY <1>1, <1>2, <1>4 DEF Starting
<1>8. NoneTwice'
  BY <1>2, <1>4, <1>5 DEF NoneTwice, Distinct
<1>9. DegreesCount'
  <2>1. \A i : Cleared(i) = {} /\ Cleared(i)' = {}
    BY <1>5 DEF Cleared
  <2> QED BY <2>1, <1>2 DEF DegreesCount
<1>10. QueuedAreFree' /\ OrderRespectsDependencies'
  BY <1>2, <1>4, <1>5 DEF QueuedAreFree, OrderRespectsDependencies
<1> QED BY <1>6, <1>7, <1>8, <1>9, <1>10

\* The order of the leaves is a matter of two variables.
LEMMA OrderStays ==
    ASSUME OrderRespectsDependencies, order' = order, depends' = depends
    PROVE  OrderRespectsDependencies'
<1>1. ASSUME NEW i \in 1..Len(order')
      PROVE  /\ \A d \in depends'[order'[i]] : \E k \in 1..i - 1 : order'[k] = d
             /\ \A k \in 1..i - 1 : order'[k] # order'[i]
  <2>1. /\ \A d \in depends[order[i]] : \E k \in 1..i - 1 : order[k] = d
        /\ \A k \in 1..i - 1 : order[k] # order[i]
    BY DEF OrderRespectsDependencies
  <2> QED BY <2>1
<1> QED BY <1>1 DEF OrderRespectsDependencies

\* Relaxing takes the leaf just taken off the count of the visited leaf.
LEMMA RelaxKeepsSort ==
    ASSUME SortInv, Relax
    PROVE  SortInv'
<1> USE DEF SortInv
<1>1. PICK l \in Leaves : l = Emitted[cursor]
  BY EmittedFacts DEF Relax, Visiting, SortTypes
<1>2. /\ phase = "sort" /\ phase' = "sort" /\ cursor \in 1..Len(Emitted) /\ cursor' = cursor + 1
      /\ taken \in Leaves /\ taken' = taken /\ order' = order /\ taken \in Elems(order)
      /\ depends' = depends
  BY <1>1, EmittedFacts DEF Relax, Visiting, Starting, SortTypes
<1>3. /\ taken \in depends[l] =>
             /\ inDegree' = [inDegree EXCEPT ![l] = @ - 1]
             /\ ready' = IF inDegree[l] = 1 THEN Append(ready, l) ELSE ready
      /\ taken \notin depends[l] => inDegree' = inDegree /\ ready' = ready
  BY <1>1 DEF Relax
<1> DEFINE before == depends[l] \ (Elems(order) \ {taken})
           after  == depends[l] \ Elems(order)
<1>4. inDegree[l] = Cardinality(before) /\ before \in SUBSET Leaves /\ after \in SUBSET Leaves
  <2>1. Cleared(cursor) = Elems(order) \ {taken}
    BY <1>2 DEF Cleared, SortTypes
  <2>2. inDegree[l] = Cardinality(depends[l] \ Cleared(cursor))
    BY <1>1, <1>2 DEF DegreesCount
  <2>3. depends[l] \in SUBSET Leaves
    BY DEF SortTypes
  <2> QED BY <2>1, <2>2, <2>3
<1>5. CASE taken \notin depends[l]
  <2>1. before = after
    BY <1>5
  <2>2. inDegree' = inDegree /\ ready' = ready
    BY <1>3, <1>5
  <2>3. DegreesCount'
    <3> SUFFICES ASSUME NEW i \in 1..Len(Emitted)
                 PROVE  inDegree[Emitted[i]] = Cardinality(depends[Emitted[i]] \ Cleared(i)')
      BY <1>2, <2>2 DEF DegreesCount
    <3>1. CASE i = cursor
      <4>1. Cleared(i)' = Elems(order)
        BY <1>2, <3>1 DEF Cleared
      <4> QED BY <4>1, <3>1, <1>1, <1>4, <2>1
    <3>2. CASE i # cursor
      <4>1. Cleared(i)' = Cleared(i)
        BY <1>2, <3>2 DEF Cleared, SortTypes
      <4> QED BY <4>1, <1>2 DEF DegreesCount
    <3> QED BY <3>1, <3>2
  <2>4. SortTypes' /\ Starting'
    BY <1>2, <2>2, EmittedFacts DEF SortTypes, Starting
  <2>5. NoneTwice' /\ QueuedAreFree'
    BY <1>2, <2>2 DEF NoneTwice, QueuedAreFree
  <2>6. OrderRespectsDependencies'
    BY <1>2, OrderStays
  <2> QED BY <2>3, <2>4, <2>5, <2>6
<1>6. CASE taken \in depends[l]
  <2>1. after = before \ {taken} /\ taken \in before
    BY <1>2, <1>6
  <2>2. IsFiniteSet(before) /\ Cardinality(after) = Cardinality(before) - 1
    <3>1. IsFiniteSet(before) /\ Cardinality(before) \in Nat
      BY <1>4, LeafSets
    <3>2. Cardinality(before \ {taken}) = Cardinality(before) - 1
      <4> HIDE DEF before
      <4> QED BY <2>1, <3>1, FS_RemoveElement
    <3>3. Cardinality(after) = Cardinality(before \ {taken})
      BY <2>1
    <3> QED BY <3>1, <3>2, <3>3
  <2>3. Cardinality(after) \in Nat /\ inDegree[l] \in Nat /\ inDegree[l] # 0
        /\ inDegree[l] - 1 = Cardinality(after)
    BY <2>2, <1>4, LeafSets
  <2>4. l \notin Elems(ready) \union Elems(order)
    BY <2>3, <1>2 DEF QueuedAreFree
  <2>5. inDegree' \in [Leaves -> Nat] /\ inDegree'[l] = Cardinality(after)
        /\ \A k \in Leaves : k # l => inDegree'[k] = inDegree[k]
    BY <1>3, <1>6, <2>3 DEF SortTypes
  <2>6. /\ ready' \in Seq(Leaves) /\ Distinct(ready')
        /\ Elems(ready') \subseteq Elems(ready) \union {l}
        /\ l \in Elems(ready') => inDegree'[l] = 0
    <3>1. CASE inDegree[l] = 1
      <4>1. ready' = Append(ready, l) /\ inDegree'[l] = 0
        BY <3>1, <1>3, <1>6, <2>3, <2>5
      <4> QED BY <4>1, <2>4, AppendElems, AppendProperties DEF SortTypes, NoneTwice
    <3>2. CASE inDegree[l] # 1
      <4>1. ready' = ready
        BY <3>2, <1>3, <1>6
      <4> QED BY <4>1, <2>4 DEF SortTypes, NoneTwice
    <3> QED BY <3>1, <3>2
  <2>7. DegreesCount'
    <3> SUFFICES ASSUME NEW i \in 1..Len(Emitted)
                 PROVE  inDegree'[Emitted[i]] = Cardinality(depends[Emitted[i]] \ Cleared(i)')
      BY <1>2 DEF DegreesCount
    <3>1. CASE i = cursor
      <4>1. Cleared(i)' = Elems(order)
        BY <1>2, <3>1 DEF Cleared
      <4> QED BY <4>1, <3>1, <1>1, <2>5
    <3>2. CASE i # cursor
      <4>1. Cleared(i)' = Cleared(i)
        BY <1>2, <3>2 DEF Cleared, SortTypes
      <4>2. Emitted[i] \in Leaves /\ Emitted[i] # l
        BY <3>2, <1>1, <1>2, EmittedFacts
      <4> QED BY <4>1, <4>2, <1>2, <2>5 DEF DegreesCount
    <3> QED BY <3>1, <3>2
  <2>8. SortTypes' /\ Starting'
    BY <1>2, <2>5, <2>6, EmittedFacts DEF SortTypes, Starting
  <2>9. NoneTwice'
    BY <1>2, <2>4, <2>6 DEF NoneTwice, Distinct
  <2>10. QueuedAreFree'
    <3>1. Elems(order) \subseteq Leaves /\ Elems(ready) \subseteq Leaves
      BY ElementOfSeq DEF SortTypes, Elems
    <3> QED BY <3>1, <1>2, <2>4, <2>5, <2>6 DEF QueuedAreFree
  <2>11. OrderRespectsDependencies'
    BY <1>2, OrderStays
  <2> QED BY <2>7, <2>8, <2>9, <2>10, <2>11
<1> QED BY <1>5, <1>6

\* A leaf is taken only when the order holds all it depends on.
LEMMA PopKeepsSort ==
    ASSUME SortInv, Pop
    PROVE  SortInv'
<1> USE DEF SortInv
<1>1. PICK h \in Leaves : h = Head(ready)
  BY HeadTailProperties DEF Pop, SortTypes
<1>2. /\ phase = "sort" /\ phase' = "sort" /\ cursor > Len(Emitted) /\ cursor' = 1
      /\ taken' = h /\ ready' = Tail(ready) /\ order' = Append(order, h)
      /\ depends' = depends /\ inDegree' = inDegree
  BY <1>1 DEF Pop
<1>3. /\ ready' \in Seq(Leaves) /\ h \in Elems(ready)
      /\ Elems(ready') = Elems(ready) \ {h} /\ Distinct(ready')
  BY <1>1, <1>2, TailElems DEF Pop, SortTypes, NoneTwice
<1>4. h \notin Elems(order)
  BY <1>3 DEF NoneTwice
<1>5. /\ order' \in Seq(Leaves) /\ Elems(order') = Elems(order) \union {h}
      /\ Distinct(order') /\ Len(order') = Len(order) + 1 /\ Len(order) \in Nat
      /\ \A i \in 1..Len(order) : order'[i] = order[i]
      /\ order'[Len(order) + 1] = h
  BY <1>2, <1>4, AppendElems, AppendProperties DEF SortTypes, NoneTwice
<1>6. \A i \in 1..Len(Emitted) : Cleared(i) = Elems(order) /\ Cleared(i)' = Elems(order)
  BY <1>2, <1>4, <1>5, EmittedFacts DEF Cleared, SortTypes
<1>7. depends[h] \subseteq Elems(order)
  <2>1. PICK i \in 1..Len(Emitted) : Emitted[i] = h
    BY EmittedFacts
  <2>2. inDegree[h] = Cardinality(depends[h] \ Elems(order)) /\ inDegree[h] = 0
    BY <2>1, <1>2, <1>3, <1>6 DEF DegreesCount, QueuedAreFree
  <2>3. depends[h] \ Elems(order) \in SUBSET Leaves
    BY DEF SortTypes
  <2> QED BY <2>2, <2>3, LeafSets
<1>8. OrderRespectsDependencies'
  <2> SUFFICES ASSUME NEW i \in 1..Len(order')
               PROVE  /\ \A d \in depends[order'[i]] : \E k \in 1..i - 1 : order'[k] = d
                      /\ \A k \in 1..i - 1 : order'[k] # order'[i]
    BY <1>2 DEF OrderRespectsDependencies
  <2>1. CASE i \in 1..Len(order)
    <3>1. order'[i] = order[i] /\ \A k \in 1..i - 1 : order'[k] = order[k]
      BY <2>1, <1>5
    <3>2. /\ \A d \in depends[order[i]] : \E k \in 1..i - 1 : order[k] = d
          /\ \A k \in 1..i - 1 : order[k] # order[i]
      BY <2>1 DEF OrderRespectsDependencies
    <3> QED BY <3>1, <3>2
  <2>2. CASE i = Len(order) + 1
    <3>1. \A d \in Elems(order) : \E k \in 1..i - 1 : order'[k] = d
      BY <2>2, <1>5 DEF Elems
    <3>2. order'[i] = h
      BY <2>2, <1>5
    <3>3. \A k \in 1..i - 1 : order'[k] \in Elems(order)
      BY <2>2, <1>5 DEF Elems
    <3> QED BY <3>1, <3>2, <3>3, <1>4, <1>7
  <2> QED BY <2>1, <2>2, <1>5
<1>9. SortTypes'
  <2>1. cursor' \in 1..Len(Emitted) + 1 /\ taken' \in Leaves \union {None}
    BY <1>2, EmittedFacts
  <2>2. /\ phase' \in {"decompose", "sort", "run", "done", "single_shot"}
        /\ depends' \in [Leaves -> SUBSET Leaves] /\ inDegree' \in [Leaves -> Nat]
    BY <1>2 DEF SortTypes
  <2> QED BY <1>3, <1>5, <2>1, <2>2 DEF SortTypes
<1>9a. Starting'
  <2>1. taken' # None /\ phase' # "decompose"
    BY <1>2, EmittedFacts
  <2>2. taken' \in Elems(order')
    BY <1>2, <1>5
  <2> QED BY <2>1, <2>2 DEF Starting
<1>10. NoneTwice'
  BY <1>3, <1>5 DEF NoneTwice
<1>11. DegreesCount'
  BY <1>2, <1>6 DEF DegreesCount
<1>12. QueuedAreFree'
  BY <1>2, <1>3, <1>5 DEF QueuedAreFree
<1> QED BY <1>8, <1>9, <1>10, <1>11, <1>12, <1>9a

\* Every step of the module keeps the invariant of the sort.
LEMMA SortNext == SortInv /\ [Next]_vars => SortInv'
<1> SUFFICES ASSUME SortInv, [Next]_vars PROVE SortInv'
  OBVIOUS
<1>1. CASE Decompose BY <1>1, DecomposeKeepsSort
<1>2. CASE Seed BY <1>2, SeedKeepsSort
<1>3. CASE Relax BY <1>3, RelaxKeepsSort
<1>4. CASE Pop BY <1>4, PopKeepsSort
<1>5. CASE DecomposeRefused \/ Sorted
  BY <1>5, SortStays DEF DecomposeRefused, Sorted
<1>6. CASE SkipLeaf \/ StartLeaf \/ LeafReturns \/ LeafRaises \/ EndTree
  BY <1>6, SortStays DEF SkipLeaf, StartLeaf, LeafReturns, LeafRaises, EndTree
<1>7. CASE UNCHANGED vars
  BY <1>7, SortStays DEF vars, sortVars
<1> QED BY <1>1, <1>2, <1>3, <1>4, <1>5, <1>6, <1>7 DEF Next

\* The sort's order honours every dependency, whatever the model proposed.
THEOREM TheOrderIsTopological == Spec => []OrderRespectsDependencies
<1>1. Spec => []SortInv
  BY SortInit, SortNext, PTL DEF Spec
<1> QED BY <1>1, PTL DEF SortInv

-------------------------------------------------------------------------------
\* The converse of QueuedAreFree: a visited leaf that nothing holds is not forgotten.
FreeAreQueued ==
    phase = "sort" => \A i \in 1..Len(Emitted) :
        (taken # None \/ i < cursor) /\ inDegree[Emitted[i]] = 0
            => Emitted[i] \in Elems(ready) \union Elems(order)

\* The visits and the takings keep every free leaf in the queue or the order.
LEMMA FreeStayQueued == SortInv /\ FreeAreQueued /\ [Next]_vars => FreeAreQueued'
<1> SUFFICES ASSUME SortInv, FreeAreQueued, [Next]_vars, phase' = "sort",
                    NEW i \in 1..Len(Emitted), taken' # None \/ i < cursor',
                    inDegree'[Emitted[i]] = 0
             PROVE  Emitted[i] \in Elems(ready') \union Elems(order')
  BY DEF FreeAreQueued
<1> USE DEF SortInv, SortTypes
<1>1. CASE Decompose
  BY <1>1 DEF Decompose, Starting
<1>2. CASE Seed
  <2>1. PICK l \in Leaves : l = Emitted[cursor]
    BY <1>2, EmittedFacts DEF Seed, Visiting
  <2>2. /\ phase = "sort" /\ cursor' = cursor + 1 /\ inDegree' = inDegree /\ taken' = taken
        /\ taken = None /\ order' = order
        /\ ready' = IF inDegree[l] = 0 THEN Append(ready, l) ELSE ready
    BY <1>2, <2>1 DEF Seed, Visiting
  <2>3. Elems(ready) \subseteq Elems(ready') /\ (inDegree[l] = 0 => l \in Elems(ready'))
    BY <2>2, AppendElems
  <2>4. CASE i = cursor
    BY <2>1, <2>2, <2>3, <2>4
  <2>5. CASE i # cursor
    <3>1. i < cursor
      BY <2>2, <2>5
    <3> QED BY <3>1, <2>2, <2>3 DEF FreeAreQueued
  <2> QED BY <2>4, <2>5
<1>3. CASE Relax
  <2>1. PICK l \in Leaves : l = Emitted[cursor]
    BY <1>3, EmittedFacts DEF Relax, Visiting
  <2>2. /\ phase = "sort" /\ taken # None /\ order' = order
        /\ taken \in depends[l] =>
             /\ inDegree' = [inDegree EXCEPT ![l] = @ - 1]
             /\ ready' = IF inDegree[l] = 1 THEN Append(ready, l) ELSE ready
        /\ taken \notin depends[l] => inDegree' = inDegree /\ ready' = ready
    BY <1>3, <2>1 DEF Relax, Visiting
  <2>3. Elems(ready) \subseteq Elems(ready')
    BY <2>2, AppendElems
  <2>4. Emitted[i] \in Leaves
    BY EmittedFacts
  <2>5. CASE inDegree[Emitted[i]] = 0
    BY <2>2, <2>3, <2>5 DEF FreeAreQueued
  <2>6. CASE inDegree[Emitted[i]] # 0
    <3>1. taken \in depends[l] /\ inDegree' = [inDegree EXCEPT ![l] = @ - 1]
      BY <2>2, <2>6
    <3>2. Emitted[i] = l
      BY <3>1, <2>4, <2>6
    <3>3. inDegree[l] = 1
      <4>1. inDegree'[l] = inDegree[l] - 1 /\ inDegree[l] \in Nat
        BY <3>1
      <4> QED BY <4>1, <3>2
    <3>4. ready' = Append(ready, l)
      BY <2>2, <3>1, <3>3
    <3> QED BY <3>2, <3>4, AppendElems
  <2> QED BY <2>5, <2>6
<1>4. CASE Pop
  <2>1. /\ phase = "sort" /\ cursor > Len(Emitted) /\ ready # <<>> /\ inDegree' = inDegree
        /\ ready' = Tail(ready) /\ order' = Append(order, Head(ready))
    BY <1>4 DEF Pop
  <2>2. /\ Head(ready) \in Leaves /\ Elems(Tail(ready)) = Elems(ready) \ {Head(ready)}
    BY <2>1, TailElems DEF NoneTwice
  <2>3. Elems(order') = Elems(order) \union {Head(ready)}
    BY <2>1, <2>2, AppendElems
  <2>4. Emitted[i] \in Elems(ready) \union Elems(order)
    BY <2>1, EmittedFacts DEF FreeAreQueued
  <2> QED BY <2>1, <2>2, <2>3, <2>4
<1>5. CASE DecomposeRefused \/ Sorted
  BY <1>5 DEF DecomposeRefused, Sorted
<1>6. CASE SkipLeaf \/ StartLeaf \/ LeafReturns \/ LeafRaises \/ EndTree
  BY <1>6 DEF SkipLeaf, StartLeaf, LeafReturns, LeafRaises, EndTree, Running
<1>7. CASE UNCHANGED vars
  <2>1. UNCHANGED <<phase, inDegree, ready, order, taken, cursor>>
    BY <1>7 DEF vars
  <2>2. Emitted[i] \in Elems(ready) \union Elems(order)
    BY <2>1 DEF FreeAreQueued
  <2> QED BY <2>1, <2>2
<1> QED BY <1>1, <1>2, <1>3, <1>4, <1>5, <1>6, <1>7 DEF Next

\* A list of the leaves without repetitions has as many places as leaves.
LEMMA LeafLists ==
    ASSUME NEW s \in Seq(Leaves), Distinct(s)
    PROVE  Elems(s) \subseteq Leaves /\ Cardinality(Elems(s)) = Len(s)
<1>1. Len(s) \in Nat /\ \A i \in 1..Len(s) : s[i] \in Leaves
  BY LenProperties, ElementOfSeq
<1> DEFINE f == [i \in 1..Len(s) |-> s[i]]
<1>2. f \in Bijection(1..Len(s), Elems(s))
  <2>1. f \in [1..Len(s) -> Elems(s)]
    BY DEF Elems
  <2>2. \A i, j \in 1..Len(s) : f[i] = f[j] => i = j
    BY DEF Distinct
  <2>3. \A l \in Elems(s) : \E i \in 1..Len(s) : f[i] = l
    BY DEF Elems
  <2> HIDE DEF f
  <2> QED BY <2>1, <2>2, <2>3, Fun_IsBij
<1>3. IsFiniteSet(1..Len(s)) /\ Cardinality(1..Len(s)) = Len(s)
  BY <1>1, FS_Interval
<1>4. ExistsBijection(1..Len(s), Elems(s))
  BY <1>2 DEF ExistsBijection
<1> QED BY <1>1, <1>3, <1>4, FS_Bijection DEF Elems

\* The sort took every leaf exactly if no leaf is on a cycle or behind one: the
\* leaves left over depend on each other, and of the leaves taken the first one of
\* any set depends on none of that set.
THEOREM OnlyCyclesFallBack == Spec => []CycleMeansSingleShot
<1>1. Init => FreeAreQueued
  BY DEF Init, FreeAreQueued
<1>2. SortInv /\ FreeAreQueued => CycleMeansSingleShot
  <2> SUFFICES ASSUME SortInv, FreeAreQueued, SortEnded
               PROVE  Len(order) = Len(Emitted) <=> Acyclic
    BY DEF CycleMeansSingleShot
  <2> USE DEF SortInv
  <2> DEFINE Left == Leaves \ Elems(order)
  <2>1. Len(Emitted) = Cardinality(Leaves) /\ IsFiniteSet(Leaves)
    <3>1. Emitted \in Seq(Leaves) /\ Distinct(Emitted) /\ Elems(Emitted) = Leaves
      BY EmittedFacts, EmittedAssumption DEF Distinct, Elems
    <3> QED BY <3>1, LeafLists, EmittedAssumption
  <2>2. Len(order) = Cardinality(Elems(order)) /\ Elems(order) \subseteq Leaves
    BY LeafLists DEF SortTypes, NoneTwice
  <2>3. Len(order) = Len(Emitted) <=> Left = {}
    BY <2>1, <2>2, FS_Subset
  <2>4. ASSUME Left # {} PROVE ~Acyclic
    <3>1. ASSUME NEW l \in Left PROVE depends[l] \intersect Left # {}
      <4>1. PICK i \in 1..Len(Emitted) : Emitted[i] = l
        BY EmittedFacts
      <4>2. i < cursor /\ Elems(ready) = {} /\ phase = "sort"
        BY EmittedFacts DEF SortEnded, Elems, SortTypes
      <4>3. inDegree[l] # 0
        BY <3>1, <4>1, <4>2 DEF FreeAreQueued
      <4>4. inDegree[l] = Cardinality(depends[l] \ Elems(order))
        BY <4>1, <4>2 DEF DegreesCount, Cleared, SortTypes
      <4>5. depends[l] \in SUBSET Leaves
        BY DEF SortTypes
      <4> QED BY <4>3, <4>4, <4>5, LeafSets
    <3> QED BY <3>1, <2>4 DEF Acyclic
  <2>5. ASSUME Left = {} PROVE Acyclic
    <3> SUFFICES ASSUME NEW S \in SUBSET Leaves, S # {}
                 PROVE  \E l \in S : depends[l] \intersect S = {}
      BY DEF Acyclic
    <3> DEFINE Places == {i \in 1..Len(order) : order[i] \in S}
    <3>1. Places \subseteq Nat /\ Places # {}
      BY <2>5 DEF Elems
    <3>2. PICK i \in Places : \A k \in Places : ~(<<k, i>> \in OpToRel(<, Nat))
      <4> HIDE DEF Places
      <4> QED BY <3>1, WFMin, NatLessThanWellFounded
    <3>3. \A k \in 1..i - 1 : order[k] \notin S
      <4> SUFFICES ASSUME NEW k \in 1..i - 1, order[k] \in S PROVE FALSE
        OBVIOUS
      <4>1. k \in Places /\ k \in Nat /\ i \in Nat /\ k < i
        BY <2>2
      <4> QED BY <4>1, <3>2 DEF OpToRel
    <3>4. i \in 1..Len(order) /\ order[i] \in S
      OBVIOUS
    <3>5. \A d \in depends[order[i]] : \E k \in 1..i - 1 : order[k] = d
      BY <3>4 DEF OrderRespectsDependencies
    <3>6. depends[order[i]] \intersect S = {}
      BY <3>3, <3>5
    <3> QED BY <3>4, <3>6
  <2> QED BY <2>3, <2>4, <2>5
<1>3. Spec => [](SortInv /\ FreeAreQueued)
  BY <1>1, FreeStayQueued, SortInit, SortNext, PTL DEF Spec
<1> QED BY <1>2, <1>3, PTL

-------------------------------------------------------------------------------
(***************************************************************************)
(* The tree driver.  A leaf's place in the order tells how far its run is:  *)
(* settled before `next`, untouched after it.                               *)
(***************************************************************************)
RunTypes ==
    /\ next \in 1..Len(order) + 1
    /\ status \in [Leaves -> {"pending", "running", "done", "failed", "skipped_due_to_failure"}]
    /\ outcome \in [Leaves -> LeafRuns \union {NoRun}]
    /\ merged \in SUBSET Leaves
    /\ priors \in [Leaves -> SUBSET Leaves]
    /\ finalRoute \in Routes

InOrder ==
    /\ phase \in {"decompose", "sort"} => next = 1 /\ \A l \in Leaves : status[l] = "pending"
    /\ \A i \in 1..Len(order) :
           /\ i < next => status[order[i]] \in {"done", "failed", "skipped_due_to_failure"}
           /\ i = next => status[order[i]] \in {"pending", "running"}
           /\ i > next => status[order[i]] = "pending"
    /\ \A l \in Leaves : status[l] # "pending" => l \in Elems(order)

\* What returned is merged, and the final route covers what is merged.
MergedRuns ==
    /\ \A l \in Leaves : l \in merged => outcome[l] \in LeafRuns
    /\ \A l \in Leaves : l \in merged \/ outcome[l] = NoRun \/ outcome[l].raises
    /\ phase = "done" => \A l \in merged : Rank(outcome[l].route) <= Rank(finalRoute)

TreeInv == SortInv /\ RunTypes /\ InOrder /\ NoLeafAfterAFailedDependency /\ MergedRuns

\* No leaf has run before the decomposition.
LEMMA TreeInit == Init => TreeInv
<1> SUFFICES ASSUME Init PROVE TreeInv
  OBVIOUS
<1>1. SortInv
  BY SortInit
<1>2. RunTypes /\ InOrder /\ NoLeafAfterAFailedDependency /\ MergedRuns
  BY DEF Init, RunTypes, InOrder, NoLeafAfterAFailedDependency, MergedRuns, NoRun, Routes
<1> QED BY <1>1, <1>2 DEF TreeInv

\* The steps of the decomposition and the sort start no leaf.
LEMMA SortingStartsNothing ==
    ASSUME TreeInv, SortInv', runVars' = runVars, finalRoute' = finalRoute,
           \/ Decompose \/ DecomposeRefused \/ Seed \/ Relax \/ Pop \/ Sorted
    PROVE  TreeInv'
<1> USE DEF TreeInv, runVars
<1>1. /\ phase \in {"decompose", "sort"} /\ next = 1 /\ \A l \in Leaves : status[l] = "pending"
      /\ phase' # "done" /\ order' \in Seq(Leaves)
  BY DEF Decompose, DecomposeRefused, Seed, Relax, Pop, Sorted, Visiting, SortEnded, InOrder,
         SortInv, SortTypes
<1>2. RunTypes'
  BY <1>1, LenProperties DEF RunTypes
<1>3. InOrder'
  <2>1. \A i \in 1..Len(order') : order'[i] \in Leaves
    BY <1>1, ElementOfSeq
  <2> QED BY <1>1, <2>1 DEF InOrder
<1>4. NoLeafAfterAFailedDependency' /\ MergedRuns'
  BY <1>1 DEF NoLeafAfterAFailedDependency, MergedRuns
<1> QED BY <1>2, <1>3, <1>4

\* The leaf in hand, and what its place in the order says of its dependencies.
LEMMA LeafInHand ==
    ASSUME TreeInv, Running
    PROVE  /\ order[next] \in Leaves /\ next \in 1..Len(order) /\ Len(order) \in Nat
           /\ \A i \in 1..Len(order) : order[i] = order[next] <=> i = next
           /\ \A d \in depends[order[next]] :
                  d \in Leaves /\ status[d] \in {"done", "failed", "skipped_due_to_failure"}
<1> USE DEF TreeInv, SortInv
<1>1. next \in 1..Len(order) /\ Len(order) \in Nat /\ order[next] \in Leaves
  BY ElementOfSeq, LenProperties DEF Running, RunTypes, SortTypes
<1>2. \A i \in 1..Len(order) : order[i] = order[next] <=> i = next
  BY <1>1 DEF NoneTwice, Distinct
<1>3. ASSUME NEW d \in depends[order[next]]
      PROVE  d \in Leaves /\ status[d] \in {"done", "failed", "skipped_due_to_failure"}
  <2>1. PICK k \in 1..next - 1 : order[k] = d
    BY <1>1, <1>3 DEF OrderRespectsDependencies
  <2>2. k \in 1..Len(order) /\ k < next
    BY <1>1, <2>1
  <2> QED BY <1>1, <2>1, <2>2, <1>3 DEF InOrder, SortTypes
<1> QED BY <1>1, <1>2, <1>3

\* A leaf that is started has no failed dependency, and none left to run.
LEMMA StartKeepsTree ==
    ASSUME TreeInv, SortInv', StartLeaf
    PROVE  TreeInv'
<1> USE DEF TreeInv
<1>1. PICK l \in Leaves : l = order[next]
  BY LeafInHand DEF StartLeaf
<1>2. /\ status[l] = "pending" /\ status' = [status EXCEPT ![l] = "running"]
      /\ priors' = [priors EXCEPT ![l] = depends[l] \intersect merged]
      /\ phase' = phase /\ phase = "run" /\ order' = order /\ depends' = depends /\ next' = next
      /\ outcome' = outcome /\ merged' = merged /\ finalRoute' = finalRoute
      /\ \A d \in depends[l] : status[d] # "failed"
  BY <1>1 DEF StartLeaf, Running, sortVars, DependencyFailed
<1>3. \A d \in depends[l] : status[d] \in {"done", "skipped_due_to_failure"} /\ d # l
  BY <1>1, <1>2, LeafInHand DEF StartLeaf
<1>4. RunTypes'
  BY <1>2 DEF RunTypes
<1>5. InOrder'
  <2>1. l \in Elems(order)
    BY <1>1, LeafInHand DEF Elems, StartLeaf
  <2>2. \A i \in 1..Len(order) : order[i] \in Leaves /\ (order[i] = l <=> i = next)
    BY <1>1, LeafInHand, ElementOfSeq DEF StartLeaf, SortInv, SortTypes
  <2> QED BY <1>2, <2>1, <2>2 DEF InOrder, RunTypes, Elems
<1>6. NoLeafAfterAFailedDependency'
  BY <1>2, <1>3 DEF NoLeafAfterAFailedDependency, RunTypes, SortInv, SortTypes
<1>7. MergedRuns'
  BY <1>2 DEF MergedRuns
<1> QED BY <1>4, <1>5, <1>6, <1>7

\* A leaf is settled: skipped, returned or crashed.
LEMMA SettleKeepsOrder ==
    ASSUME TreeInv, Running, NEW fate \in {"done", "failed", "skipped_due_to_failure"},
           status' = [status EXCEPT ![order[next]] = fate],
           status[order[next]] = "running" \/ fate # "done",
           next' = next + 1, UNCHANGED <<phase, depends, sortVars>>
    PROVE  InOrder' /\ NoLeafAfterAFailedDependency'
           /\ next' \in 1..Len(order') + 1
<1> USE DEF TreeInv, sortVars
<1>1. PICK l \in Leaves : l = order[next]
  BY LeafInHand
<1>2. l \in Elems(order) /\ next \in 1..Len(order) /\ Len(order) \in Nat
  BY <1>1, LeafInHand DEF Elems
<1>3. \A i \in 1..Len(order) : order[i] \in Leaves /\ (order[i] = l <=> i = next)
  BY <1>1, LeafInHand, ElementOfSeq DEF SortInv, SortTypes
<1>4. status[l] \in {"pending", "running"}
  BY <1>1, <1>2 DEF InOrder
<1>5. /\ status'[l] = fate /\ \A k \in Leaves : k # l => status'[k] = status[k]
      /\ phase' = phase /\ phase = "run" /\ order' = order /\ depends' = depends
  BY <1>1 DEF RunTypes, Running
<1>6. InOrder'
  BY <1>2, <1>3, <1>5 DEF InOrder, Elems
<1>7. NoLeafAfterAFailedDependency'
  <2> SUFFICES ASSUME NEW k \in Leaves, status'[k] \in {"running", "done"}, NEW d \in depends[k]
               PROVE  status'[d] \in {"done", "skipped_due_to_failure"}
    BY <1>5 DEF NoLeafAfterAFailedDependency
  <2>1. d \in Leaves /\ status[k] \in {"running", "done"}
    BY <1>1, <1>5 DEF SortInv, SortTypes
  <2>2. status[d] \in {"done", "skipped_due_to_failure"}
    BY <2>1 DEF NoLeafAfterAFailedDependency
  <2> QED BY <2>1, <2>2, <1>4, <1>5
<1>8. next' \in 1..Len(order') + 1
  BY <1>2, <1>5
<1> QED BY <1>6, <1>7, <1>8

\* Settling the leaf in hand keeps the invariant of the driver.
LEMMA SettlingKeepsTree ==
    ASSUME TreeInv, SortInv', SkipLeaf \/ LeafReturns \/ LeafRaises
    PROVE  TreeInv'
<1> USE DEF TreeInv
<1>1. PICK l \in Leaves : l = order[next] /\ Running
  BY LeafInHand DEF SkipLeaf, LeafReturns, LeafRaises
<1>2. CASE SkipLeaf
  <2>1. InOrder' /\ NoLeafAfterAFailedDependency' /\ next' \in 1..Len(order') + 1
    BY <1>2, SettleKeepsOrder DEF SkipLeaf
  <2>2. /\ status' = [status EXCEPT ![l] = "skipped_due_to_failure"]
        /\ UNCHANGED <<outcome, merged, priors, finalRoute, phase>>
    BY <1>1, <1>2 DEF SkipLeaf
  <2>3. RunTypes' /\ MergedRuns'
    BY <2>1, <2>2 DEF RunTypes, MergedRuns
  <2> QED BY <2>1, <2>3
<1>3. CASE LeafReturns
  <2>1. PICK run \in LeafRuns :
            /\ ~run.raises /\ outcome' = [outcome EXCEPT ![l] = run]
            /\ status' = [status EXCEPT ![l] = IF Succeeded(run) THEN "done" ELSE "failed"]
    BY <1>1, <1>3 DEF LeafReturns
  <2>2. /\ status[l] = "running" /\ merged' = merged \union {l} /\ next' = next + 1
        /\ UNCHANGED <<phase, depends, sortVars, priors, finalRoute>> /\ phase = "run"
    BY <1>1, <1>3 DEF LeafReturns, Running
  <2>3. InOrder' /\ NoLeafAfterAFailedDependency' /\ next' \in 1..Len(order') + 1
    <3>1. (IF Succeeded(run) THEN "done" ELSE "failed")
              \in {"done", "failed", "skipped_due_to_failure"}
      OBVIOUS
    <3> QED BY <1>1, <2>1, <2>2, <3>1, SettleKeepsOrder
  <2>4. RunTypes'
    BY <2>1, <2>2, <2>3 DEF RunTypes
  <2>5. MergedRuns'
    BY <2>1, <2>2 DEF MergedRuns, RunTypes
  <2> QED BY <2>3, <2>4, <2>5
<1>4. CASE LeafRaises
  <2>1. PICK run \in LeafRuns : run.raises /\ outcome' = [outcome EXCEPT ![l] = run]
    BY <1>1, <1>4 DEF LeafRaises
  <2>2. /\ status' = [status EXCEPT ![l] = "failed"] /\ next' = next + 1 /\ status[l] = "running"
        /\ UNCHANGED <<phase, depends, sortVars, merged, priors, finalRoute>> /\ phase = "run"
    BY <1>1, <1>4 DEF LeafRaises, Running
  <2>3. InOrder' /\ NoLeafAfterAFailedDependency' /\ next' \in 1..Len(order') + 1
    BY <1>1, <2>2, SettleKeepsOrder
  <2>4. RunTypes'
    BY <2>1, <2>2, <2>3 DEF RunTypes
  <2>5. MergedRuns'
    BY <2>1, <2>2 DEF MergedRuns, RunTypes
  <2> QED BY <2>3, <2>4, <2>5
<1> QED BY <1>2, <1>3, <1>4

\* Among any routes there is one at least as severe as all of them.
LEMMA WorstExists ==
    ASSUME NEW R \in SUBSET Routes, "NONE" \in R
    PROVE  \E r \in R : \A s \in R : Rank(s) <= Rank(r)
<1>1. \A s \in R : s \in {"NONE", "BLUE", "GREEN", "INFEASIBLE", "RED"}
  BY DEF Routes
<1>2. /\ Rank("NONE") = 0 /\ Rank("BLUE") = 1 /\ Rank("GREEN") = 2
      /\ Rank("INFEASIBLE") = 3 /\ Rank("RED") = 4
  BY DEF Rank
<1>3. CASE "RED" \in R
  BY <1>1, <1>2, <1>3
<1>4. CASE "RED" \notin R /\ "INFEASIBLE" \in R
  BY <1>1, <1>2, <1>4
<1>5. CASE "RED" \notin R /\ "INFEASIBLE" \notin R /\ "GREEN" \in R
  BY <1>1, <1>2, <1>5
<1>6. CASE "RED" \notin R /\ "INFEASIBLE" \notin R /\ "GREEN" \notin R
  BY <1>1, <1>2, <1>6
<1> QED BY <1>3, <1>4, <1>5, <1>6

\* The parent takes the worst of the routes merged.
LEMMA EndKeepsTree ==
    ASSUME TreeInv, SortInv', EndTree
    PROVE  TreeInv'
<1> USE DEF TreeInv
<1> DEFINE routes == {"NONE"} \union {outcome[l].route : l \in merged}
<1>1. routes \in SUBSET Routes
  BY LeafRunsAssumption DEF MergedRuns, RunTypes, LeafRun, Routes
<1>2. /\ finalRoute' = CHOOSE r \in routes : \A s \in routes : Rank(s) <= Rank(r)
      /\ phase = "run" /\ phase' = "done" /\ UNCHANGED <<depends, sortVars, runVars>>
  BY DEF EndTree
<1>3. finalRoute' \in routes /\ \A s \in routes : Rank(s) <= Rank(finalRoute')
  <2>1. \E r \in routes : \A s \in routes : Rank(s) <= Rank(r)
    <3>1. "NONE" \in routes
      OBVIOUS
    <3> HIDE DEF routes
    <3> QED BY <1>1, <3>1, WorstExists
  <2> HIDE DEF routes
  <2> QED BY <1>2, <2>1
<1>4. RunTypes'
  BY <1>1, <1>2, <1>3 DEF RunTypes, runVars, sortVars
<1>5. MergedRuns'
  <2>1. \A l \in merged : Rank(outcome[l].route) <= Rank(finalRoute')
    BY <1>3
  <2> QED BY <1>2, <2>1 DEF MergedRuns, runVars
<1>6. InOrder' /\ NoLeafAfterAFailedDependency'
  BY <1>2 DEF InOrder, NoLeafAfterAFailedDependency, runVars, sortVars, Elems
<1> QED BY <1>4, <1>5, <1>6

\* A stuttering step keeps the invariant.
LEMMA TreeStutter ==
    ASSUME TreeInv, SortInv', UNCHANGED vars
    PROVE  TreeInv'
<1>1. RunTypes' /\ MergedRuns' /\ NoLeafAfterAFailedDependency'
  BY DEF TreeInv, vars, RunTypes, MergedRuns, NoLeafAfterAFailedDependency
<1>2. InOrder'
  BY DEF TreeInv, vars, InOrder, Elems
<1> QED BY <1>1, <1>2 DEF TreeInv

\* Every step of the tree keeps the invariant.
THEOREM TreeInvariant == Spec => []TreeInv
<1>1. TreeInv /\ [Next]_vars => TreeInv'
  <2> SUFFICES ASSUME TreeInv, [Next]_vars PROVE TreeInv'
    OBVIOUS
  <2>1. SortInv'
    BY SortNext DEF TreeInv
  <2>2. CASE Decompose \/ DecomposeRefused \/ Seed \/ Relax \/ Pop \/ Sorted
    <3>1. runVars' = runVars /\ finalRoute' = finalRoute
      BY <2>2 DEF Decompose, DecomposeRefused, Seed, Relax, Pop, Sorted
    <3> QED BY <2>1, <2>2, <3>1, SortingStartsNothing
  <2>3. CASE StartLeaf BY <2>1, <2>3, StartKeepsTree
  <2>4. CASE SkipLeaf \/ LeafReturns \/ LeafRaises BY <2>1, <2>4, SettlingKeepsTree
  <2>5. CASE EndTree BY <2>1, <2>5, EndKeepsTree
  <2>6. CASE UNCHANGED vars BY <2>1, <2>6, TreeStutter
  <2> QED BY <2>2, <2>3, <2>4, <2>5, <2>6 DEF Next
<1> QED BY <1>1, TreeInit, PTL DEF Spec

\* The variables keep their types.
THEOREM TreeTypeCorrect == Spec => []TypeOK
<1>1. TreeInv => TypeOK
  BY DEF TreeInv, SortInv, SortTypes, RunTypes, TypeOK
<1> QED BY <1>1, TreeInvariant, PTL

\* No leaf runs, or has run, behind a failed or an unsettled dependency.
THEOREM LeavesWaitForTheirDependencies == Spec => []NoLeafAfterAFailedDependency
<1>1. TreeInv => NoLeafAfterAFailedDependency
  BY DEF TreeInv
<1> QED BY <1>1, TreeInvariant, PTL

\* The parent's final route is at least as severe as every returned leaf's.
THEOREM TheWorstLeafIsCarried == Spec => []ParentCarriesTheWorstLeaf
<1>1. TreeInv => ParentCarriesTheWorstLeaf
  <2> SUFFICES ASSUME TreeInv, phase = "done", NEW l \in Leaves, ~outcome[l].raises
               PROVE  Rank(finalRoute) >= Rank(outcome[l].route)
    BY DEF ParentCarriesTheWorstLeaf
  <2>1. /\ l \in merged => Rank(outcome[l].route) <= Rank(finalRoute)
        /\ l \in merged \/ outcome[l] = NoRun
    BY DEF TreeInv, MergedRuns
  <2>2. \A r : Rank(r) \in 0..4
    BY DEF Rank
  <2>3. Rank(NoRun.route) = 0
    BY DEF Rank, NoRun, None
  <2> QED BY <2>1, <2>2, <2>3
<1> QED BY <1>1, TreeInvariant, PTL

(***************************************************************************)
(* Part 2, the pipeline.  What is executed is the plan the contracts made   *)
(* of what a planner supplied: each deliverable of the pack has one action  *)
(* of its shape, every search of a school goal is clean, and the results    *)
(* are ones the plan allows.  A pass of the verifier and the count of what  *)
(* was made are then facts about the plan in hand.                          *)
(***************************************************************************)
Deliverables == Files \cup Gates
Kinds == {"artifact", "gate", "companion", "info", "search", "other"}
Actions == [kind : Kinds, deliv : {0} \cup Deliverables, clean : BOOLEAN, held : BOOLEAN,
            by : Writers \cup {Nothing}, school : BOOLEAN]
Stages == {"intake", "source", "plan", "act", "acted", "verify", "record", "returned", "done"}
Bears(p, i, d) == p[i].deliv = d /\ Fits(p[i], d)
\* Each deliverable of the pack is borne by one action of the plan, and by one only.
BearsEachOnce(p, pack) ==
    \A d \in pack : /\ \E i \in DOMAIN p : Bears(p, i, d)
                    /\ \A i, j \in DOMAIN p : Bears(p, i, d) /\ Bears(p, j, d) => i = j

PipeTypes ==
    /\ root \in Requests /\ req \in Request /\ leaf \in Nat /\ stage \in Stages
    /\ pass \in {1, 2} /\ made \in [Deliverables -> Nat]
    /\ \A i \in DOMAIN plan : plan[i] \in Actions /\ (plan[i].by = "failed" => plan[i].held)
LeavesInherit ==
    /\ leaf = 0 => req = root
    /\ leaf # 0 => ~root.checked
    /\ req.checked = root.checked /\ req.domain = root.domain
    /\ req.situation = root.situation /\ req.pack = root.pack
PackIsBorne ==
    /\ stage \in {"intake", "source", "plan"} => pass = 1
    /\ pass = 2 => req.pack = {}
    /\ stage \in {"act", "acted", "verify", "record"} => BearsEachOnce(plan, req.pack)
ResultsFit == stage \in {"acted", "verify", "record"} => did \in Results(plan)
VerdictIsEarned ==
    stage = "record" /\ Verified => Unauthorised(plan, did) = {} /\ Covered(plan, did, req)
\* A governed case is in its first attempt, so what it made is what the plan in hand made.
NothingMadeYet ==
    root.situation =>
        /\ attempt = 1
        /\ \A d \in Deliverables :
               /\ made[d] <= 1
               /\ pass = 1 /\ stage \in {"intake", "source", "plan", "act"} => made[d] = 0
PipeInv == /\ PipeTypes /\ LeavesInherit /\ PackIsBorne /\ ResultsFit /\ VerdictIsEarned
           /\ NothingMadeYet /\ SuccessMadeThePack /\ SchoolGoalStaysLocal /\ FloorReachesNoPlanner

\* The deliverables are no numbers, and what was proposed is an action.
LEMMA DeliverableFacts ==
    /\ \A d \in Deliverables : d \notin Nat /\ d # 0
    /\ Proposed \subseteq Actions
    /\ \A a \in Proposed : a.by = Nothing /\ a.kind # "companion"
    /\ \A d \in Deliverables : Shell(d) \in Proposed /\ Shell(d).deliv = d /\ Fits(Shell(d), d)
<1>1. \A d \in Deliverables : d \notin Nat /\ d # 0
  BY RequestsAssumption DEF Deliverables
<1>2. ASSUME NEW kind \in {"artifact", "gate", "info", "search", "other"}, NEW d \in {0} \cup Deliverables
      PROVE  /\ Act(kind, d) \in Actions /\ Act(kind, d).by = Nothing
             /\ Act(kind, d).kind = kind /\ Act(kind, d).deliv = d
  BY DEF Act, Actions, Kinds
<1>3. \A a \in Proposed : a \in Actions /\ a.by = Nothing /\ a.kind # "companion"
  BY <1>2 DEF Proposed, Deliverables
<1>4. ASSUME NEW d \in Deliverables
      PROVE  Shell(d) \in Proposed /\ Shell(d).deliv = d /\ Fits(Shell(d), d)
  BY <1>2, <1>4 DEF Shell, Fits, Proposed, Deliverables
<1> QED BY <1>1, <1>3, <1>4

\* A plan before 102B: no action has a writer or is the cover, and place 0 is free.
Places == (Nat \ {0}) \cup Deliverables
Drafted(p) == DOMAIN p \subseteq Places /\ \A i \in DOMAIN p : p[i] \in Actions /\ p[i].by = Nothing
                                                               /\ p[i].kind # "companion"
Raw(p) == DOMAIN p \subseteq Nat \ {0} /\ \A i \in DOMAIN p : p[i] \in Proposed

\* What a supplier hands over is such a plan.
LEMMA SuppliedFacts == \A p \in Plans \cup {Answer, RecoveryPlan} : Raw(p) /\ Drafted(p)
<1>1. \A p \in Plans : Raw(p)
  BY PlansAssumption DEF Raw
<1>2. Act("other", 0) \in Proposed /\ Act("info", 0) \in Proposed
  BY DEF Proposed
<1>3. Raw(Answer) /\ Raw(RecoveryPlan)
  <2>1. DOMAIN Answer = 1..1 /\ Answer[1] = Act("other", 0)
    BY DEF Answer
  <2>2. DOMAIN RecoveryPlan = 1..2 /\ RecoveryPlan[1] = Act("info", 0) /\ RecoveryPlan[2] = Act("other", 0)
    BY DEF RecoveryPlan
  <2>3. Raw(Answer)
    BY <1>2, <2>1 DEF Raw
  <2>4. Raw(RecoveryPlan)
    BY <1>2, <2>2 DEF Raw
  <2> QED BY <2>3, <2>4
<1>4. ASSUME NEW p, Raw(p) PROVE Drafted(p)
  BY <1>4, DeliverableFacts DEF Raw, Drafted, Places
<1> QED BY <1>1, <1>3, <1>4

\* After the reconciliation every selected deliverable is borne once: by the first
\* fitting action, since a second one is superseded, or by the shell made for it.
LEMMA ReconciledFacts ==
    ASSUME NEW p, Raw(p), req.pack \subseteq Deliverables
    PROVE  Drafted(Reconciled(p)) /\ BearsEachOnce(Reconciled(p), req.pack)
<1>1. CASE req.pack = {}
  <2>1. Drafted(p)
    BY DeliverableFacts DEF Raw, Drafted, Places
  <2> QED BY <1>1, <2>1 DEF Reconciled, BearsEachOnce
<1>2. CASE req.pack # {}
  <2> DEFINE fit(i) == p[i].deliv \in req.pack /\ Fits(p[i], p[i].deliv)
             bears(i) == fit(i) /\ \A j \in DOMAIN p : j < i /\ fit(j) => p[j].deliv # p[i].deliv
             kept == {i \in DOMAIN p : p[i].kind \in {"artifact", "gate"} => bears(i)}
             missing == {d \in req.pack : \A i \in DOMAIN p : bears(i) => p[i].deliv # d}
             r == [i \in kept \cup missing |-> IF i \in missing THEN Shell(i) ELSE p[i]]
  <2>1. Reconciled(p) = r
    BY <1>2 DEF Reconciled
  <2>2. \A i \in DOMAIN p : i \in Nat /\ i # 0 /\ p[i] \in Proposed
    BY DEF Raw
  <2>3. DOMAIN r = kept \cup missing
    OBVIOUS
  <2>4. \A d \in missing : d \in Deliverables /\ r[d] = Shell(d)
    OBVIOUS
  <2>5. \A i \in kept : i \in DOMAIN p /\ i \notin missing /\ r[i] = p[i]
    BY <2>2, DeliverableFacts
  <2>6. Drafted(r)
    <3>1. \A i \in DOMAIN r : i \in Places /\ r[i] \in Proposed
      BY <2>2, <2>3, <2>4, <2>5, DeliverableFacts DEF Places
    <3> QED BY <3>1, DeliverableFacts DEF Drafted
  <2>7. ASSUME NEW d \in req.pack PROVE \E i \in DOMAIN r : Bears(r, i, d)
    <3>1. CASE d \in missing
      BY <2>3, <2>4, <3>1, DeliverableFacts DEF Bears
    <3>2. CASE d \notin missing
      <4>1. PICK i \in DOMAIN p : bears(i) /\ p[i].deliv = d
        BY <3>2
      <4>2. i \in kept
        BY <4>1
      <4>3. r[i] = p[i]
        BY <2>5, <4>2
      <4> QED BY <2>3, <4>1, <4>2, <4>3 DEF Bears
    <3> QED BY <3>1, <3>2
  <2>8. ASSUME NEW d \in req.pack, NEW i \in DOMAIN r, NEW j \in DOMAIN r, Bears(r, i, d), Bears(r, j, d)
        PROVE  i = j
    <3>1. ASSUME NEW k \in kept, Bears(r, k, d) PROVE bears(k) /\ p[k].deliv = d /\ d \notin missing
      <4>1. p[k].deliv = d /\ Fits(p[k], d)
        BY <2>5, <3>1 DEF Bears
      <4>2. bears(k)
        BY <4>1, <2>5 DEF Fits
      <4> QED BY <4>1, <4>2, <2>5
    <3>2. ASSUME NEW k \in missing, Bears(r, k, d) PROVE k = d
      BY <2>4, <3>2, DeliverableFacts DEF Bears
    <3>3. CASE i \in kept /\ j \in kept
      <4>1. bears(i) /\ bears(j) /\ p[i].deliv = d /\ p[j].deliv = d /\ i \in DOMAIN p /\ j \in DOMAIN p
        BY <2>5, <2>8, <3>1, <3>3
      <4>2. ~(i < j) /\ ~(j < i) /\ i \in Nat /\ j \in Nat
        BY <2>2, <4>1
      <4> QED BY <4>2
    <3>4. CASE i \in missing /\ j \in missing
      BY <2>8, <3>2, <3>4
    <3>5. CASE (i \in kept /\ j \in missing) \/ (i \in missing /\ j \in kept)
      BY <2>8, <3>1, <3>2, <3>5
    <3> QED BY <2>3, <3>3, <3>4, <3>5
  <2> HIDE DEF r
  <2>9. BearsEachOnce(r, req.pack)
    BY <2>7, <2>8 DEF BearsEachOnce
  <2> QED BY <2>1, <2>6, <2>9
<1> QED BY <1>1, <1>2

\* What a later stage may do to a plan without disturbing the pack: it keeps every
\* artifact and every gate at its place with its deliverable, and adds no other.
KeepsTheWork(p, q) ==
    /\ \A i \in DOMAIN p : p[i].kind \in {"artifact", "gate"} =>
           i \in DOMAIN q /\ q[i].kind = p[i].kind /\ q[i].deliv = p[i].deliv
    /\ \A i \in DOMAIN q : q[i].kind \in {"artifact", "gate"} =>
           i \in DOMAIN p /\ q[i].kind = p[i].kind /\ q[i].deliv = p[i].deliv

\* The contracts that only touch an action's text leave what it bears alone.
LEMMA BearingStands ==
    ASSUME NEW p, NEW q, NEW pack, KeepsTheWork(p, q), BearsEachOnce(p, pack)
    PROVE  BearsEachOnce(q, pack)
<1>1. ASSUME NEW d, NEW i \in DOMAIN p, Bears(p, i, d) PROVE i \in DOMAIN q /\ Bears(q, i, d)
  BY <1>1 DEF KeepsTheWork, Bears, Fits
<1>2. ASSUME NEW d, NEW i \in DOMAIN q, Bears(q, i, d) PROVE i \in DOMAIN p /\ Bears(p, i, d)
  BY <1>2 DEF KeepsTheWork, Bears, Fits
<1> QED BY <1>1, <1>2 DEF BearsEachOnce

\* The queries of a school task are rewritten, nothing else.
LEMMA SanitizedFacts ==
    ASSUME NEW p, Drafted(p)
    PROVE  /\ Drafted(Sanitized(p)) /\ KeepsTheWork(p, Sanitized(p))
           /\ School(req) => \A i \in DOMAIN Sanitized(p) : Sanitized(p)[i].clean
<1> DEFINE q == Sanitized(p)
<1>1. DOMAIN q = DOMAIN p
  BY DEF Sanitized
<1>2. ASSUME NEW i \in DOMAIN p
      PROVE  /\ q[i] \in Actions /\ q[i].by = p[i].by /\ q[i].kind = p[i].kind
             /\ q[i].deliv = p[i].deliv /\ (School(req) => q[i].clean = TRUE)
  <2>1. p[i] \in Actions
    BY DEF Drafted
  <2>2. q[i] = IF School(req) THEN [p[i] EXCEPT !.clean = TRUE] ELSE p[i]
    BY DEF Sanitized
  <2> QED BY <2>1, <2>2 DEF Actions
<1> HIDE DEF q
<1>3. Drafted(q) /\ KeepsTheWork(p, q) /\ (School(req) => \A i \in DOMAIN q : q[i].clean)
  BY <1>1, <1>2 DEF Drafted, KeepsTheWork
<1> QED BY <1>3 DEF q

\* The companion replaces the chat and touches no artifact and no gate.
LEMMA NormalizedFacts ==
    ASSUME NEW p, Drafted(p)
    PROVE  /\ \A i \in DOMAIN Normalized(p) : Normalized(p)[i] \in Actions /\ Normalized(p)[i].by = Nothing
           /\ KeepsTheWork(p, Normalized(p))
           /\ (\A i \in DOMAIN p : p[i].clean) => \A i \in DOMAIN Normalized(p) : Normalized(p)[i].clean
<1> DEFINE q == Normalized(p)
<1>1. CASE School(req) /\ \E i \in DOMAIN p : p[i].kind = "artifact"
  <2>1. /\ DOMAIN q = {0} \cup {k \in DOMAIN p : p[k].kind # "other"}
        /\ \A i \in DOMAIN q : q[i] = IF i = 0 THEN [Act("companion", 0) EXCEPT !.school = TRUE]
                                      ELSE [p[i] EXCEPT !.school = @ \/ p[i].kind \in {"artifact", "gate"}]
    BY <1>1 DEF Normalized
  <2>2. 0 \notin DOMAIN p
    BY DeliverableFacts DEF Drafted, Places
  <2>3. /\ q[0] \in Actions /\ q[0].by = Nothing /\ q[0].kind = "companion" /\ q[0].clean = TRUE
    BY <2>1 DEF Act, Actions, Kinds
  <2>4. ASSUME NEW i \in DOMAIN q, i # 0
        PROVE  /\ i \in DOMAIN p /\ q[i] \in Actions /\ q[i].by = Nothing /\ q[i].kind = p[i].kind
               /\ q[i].deliv = p[i].deliv /\ q[i].clean = p[i].clean
    <3>1. i \in DOMAIN p /\ p[i] \in Actions /\ p[i].by = Nothing
      BY <2>1, <2>4 DEF Drafted
    <3>2. q[i] = [p[i] EXCEPT !.school = p[i].school \/ p[i].kind \in {"artifact", "gate"}]
      BY <2>1, <2>4
    <3> QED BY <3>1, <3>2 DEF Actions
  <2>5. \A i \in DOMAIN p : p[i].kind # "other" => i \in DOMAIN q /\ i # 0
    BY <2>1, <2>2
  <2> HIDE DEF q
  <2>6. KeepsTheWork(p, q)
    BY <2>3, <2>4, <2>5 DEF KeepsTheWork
  <2>7. \A i \in DOMAIN q : q[i] \in Actions /\ q[i].by = Nothing
    BY <2>3, <2>4
  <2>8. (\A i \in DOMAIN p : p[i].clean) => \A i \in DOMAIN q : q[i].clean
    BY <2>3, <2>4
  <2> QED BY <2>6, <2>7, <2>8 DEF q
<1>2. CASE ~(School(req) /\ \E i \in DOMAIN p : p[i].kind = "artifact")
  <2>1. q = p
    BY <1>2 DEF Normalized
  <2> QED BY <2>1 DEF Drafted, KeepsTheWork
<1> QED BY <1>1, <1>2

\* 102B marks who wrote each governed artifact, and holds the one it failed on.
LEMMA WrittenFacts ==
    ASSUME NEW p, NEW q \in Written(p), \A i \in DOMAIN p : p[i] \in Actions /\ p[i].by = Nothing
    PROVE  /\ \A i \in DOMAIN q : q[i] \in Actions /\ (q[i].by = "failed" => q[i].held)
           /\ KeepsTheWork(p, q)
           /\ (\A i \in DOMAIN p : p[i].clean) => \A i \in DOMAIN q : q[i].clean
<1> DEFINE A == GovernedArtifacts(p)
<1>1. PICK f \in [A -> Writers] :
          q = [i \in DOMAIN p |-> IF i \in A THEN [p[i] EXCEPT !.by = f[i], !.held = f[i] = "failed"] ELSE p[i]]
  BY DEF Written
<1>2. DOMAIN q = DOMAIN p
  BY <1>1
<1>3. ASSUME NEW i \in DOMAIN p
      PROVE  /\ q[i] \in Actions /\ q[i].kind = p[i].kind /\ q[i].deliv = p[i].deliv
             /\ q[i].clean = p[i].clean /\ (q[i].by = "failed" => q[i].held)
  <2>1. p[i] \in Actions /\ p[i].by = Nothing
    OBVIOUS
  <2>2. CASE i \in A
    <3>1. q[i] = [p[i] EXCEPT !.by = f[i], !.held = f[i] = "failed"] /\ f[i] \in Writers
      BY <1>1, <2>2
    <3> QED BY <2>1, <3>1 DEF Actions
  <2>3. CASE i \notin A
    BY <1>1, <2>1, <2>3 DEF Nothing
  <2> QED BY <2>2, <2>3
<1> QED BY <1>2, <1>3 DEF KeepsTheWork

\* The plan in hand is typed; a school goal's searches nothing of the case; and the
\* first plan of a pack bears each of its deliverables once.
LEMMA PlannedFacts ==
    ASSUME req \in Request, NEW P, \A p \in P : Raw(p), Planned(P)
    PROVE  /\ \A i \in DOMAIN plan' : plan'[i] \in Actions /\ (plan'[i].by = "failed" => plan'[i].held)
           /\ School(req) => \A i \in DOMAIN plan' : plan'[i].clean
           /\ pass' = 1 => BearsEachOnce(plan', req.pack)
<1>1. PICK p \in P : plan' \in Written(Contracted(p))
  BY DEF Planned
<1> DEFINE r == IF pass' = 1 THEN Reconciled(p) ELSE p
           s == Sanitized(r)
           n == Normalized(s)
<1>2. Contracted(p) = n
  BY DEF Contracted
<1>3. Raw(p) /\ Drafted(p) /\ req.pack \subseteq Deliverables
  BY DeliverableFacts DEF Raw, Drafted, Places, Request, Deliverables
<1>4. Drafted(r) /\ (pass' = 1 => BearsEachOnce(r, req.pack))
  BY <1>3, ReconciledFacts
<1> HIDE DEF r
<1>5. Drafted(s) /\ KeepsTheWork(r, s) /\ (School(req) => \A i \in DOMAIN s : s[i].clean)
  BY <1>4, SanitizedFacts
<1> HIDE DEF s
<1>6. /\ \A i \in DOMAIN n : n[i] \in Actions /\ n[i].by = Nothing
      /\ KeepsTheWork(s, n)
      /\ (\A i \in DOMAIN s : s[i].clean) => \A i \in DOMAIN n : n[i].clean
  BY <1>5, NormalizedFacts
<1> HIDE DEF n
<1>7. plan' \in Written(n)
  BY <1>1, <1>2
<1> DEFINE q == plan'
<1>8. q \in Written(n)
  BY <1>7
<1> HIDE DEF q
<1>9. /\ \A i \in DOMAIN q : q[i] \in Actions /\ (q[i].by = "failed" => q[i].held)
      /\ KeepsTheWork(n, q)
      /\ (\A i \in DOMAIN n : n[i].clean) => \A i \in DOMAIN q : q[i].clean
  BY <1>6, <1>8, WrittenFacts
<1>10. pass' = 1 => BearsEachOnce(q, req.pack)
  <2> SUFFICES ASSUME pass' = 1 PROVE BearsEachOnce(q, req.pack)
    OBVIOUS
  <2>1. BearsEachOnce(s, req.pack)
    BY <1>4, <1>5, BearingStands
  <2>2. BearsEachOnce(n, req.pack)
    BY <1>6, <2>1, BearingStands
  <2> QED BY <1>9, <2>2, BearingStands
<1>11. School(req) => \A i \in DOMAIN q : q[i].clean
  BY <1>5, <1>6, <1>9
<1> QED BY <1>9, <1>10, <1>11 DEF q

\* What a report of the verifier looks like.
Statuses == {"failed", "verified_safe_stop", "awaiting_approval", "skipped", "verified_partial", "verified"}
Grades == {"failed", "safe_stop", "partial", "safe_format_only", "goal_complete"}
Verdicts == [status : Statuses, grade : Grades, pass : BOOLEAN, skipped : BOOLEAN]
\* A verdict that passes is about a plan that did nothing unauthorised and covers
\* the pack, whatever the judge said.
LEMMA VerdictFacts ==
    ASSUME NEW p, NEW f, NEW r, NEW final, NEW sound, NEW fast, NEW j,
           Judged(Verify(p, f, r, final, sound), p, fast, j).pass,
           j \in {"pass", "fail", "unavailable"}
    PROVE  Unauthorised(p, f) = {} /\ Covered(p, f, r)
<1> DEFINE v == Verify(p, f, r, final, sound)
<1>1. ~Says("failed", "failed").pass
  BY DEF Says
<1>2. v \in Verdicts
  <2>1. v \in {Says("failed", "failed"), Says("verified_safe_stop", "safe_stop"),
               Says("awaiting_approval", "partial"), Says("skipped", "safe_format_only"),
               Says("verified_partial", "partial"), Says("verified", "safe_format_only")}
    BY DEF Verify
  <2>2. ASSUME NEW st \in Statuses, NEW grade \in Grades PROVE Says(st, grade) \in Verdicts
    BY DEF Says, Verdicts
  <2> QED BY <2>1, <2>2 DEF Statuses, Grades
<1>3. v.pass => Unauthorised(p, f) = {} /\ Covered(p, f, r)
  <2> SUFFICES ASSUME ~(Unauthorised(p, f) = {} /\ Covered(p, f, r)) PROVE ~v.pass
    OBVIOUS
  <2>1. v = Says("failed", "failed")
    BY DEF Verify
  <2> QED BY <1>1, <2>1
<1> HIDE DEF v
<1>4. Judged(v, p, fast, j).pass => v.pass
  BY <1>1, <1>2 DEF Judged, Verdicts
<1> QED BY <1>3, <1>4 DEF v

\* A draft that is covered was written by an action that was not held back.
LEMMA CoveredFacts ==
    ASSUME NEW p, NEW f \in Results(p), NEW r, NEW d \in r.pack \cap Files,
           Covered(p, f, r), BearsEachOnce(p, r.pack),
           \A i \in DOMAIN p : p[i] \in Actions /\ (p[i].by = "failed" => p[i].held)
    PROVE  \E i \in Carrying(p, d) : Done(f, i) /\ ~p[i].held /\ p[i].by # "failed"
<1>1. PICK i \in DOMAIN p : Bears(p, i, d)
  BY DEF BearsEachOnce
<1>2. i \in Carrying(p, d) /\ p[i].kind = "artifact" /\ p[i].held \in BOOLEAN
  BY <1>1 DEF Bears, Fits, Carrying, Actions
<1>3. Settled(p, f, d)
  BY DEF Covered
<1>4. Disposition(p, f, d) \in {"CREATED", "COMPLETED"}
  BY <1>2, <1>3 DEF Settled
<1>5. Carrying(p, d) = {i}
  <2>1. ~\A j \in Carrying(p, d) : Carrying(p, d) # {j}
    <3> SUFFICES ASSUME \A j \in Carrying(p, d) : Carrying(p, d) # {j} PROVE FALSE
      OBVIOUS
    <3>1. Disposition(p, f, d) = "MISSING"
      BY DEF Disposition
    <3> QED BY <1>4, <3>1
  <2> QED BY <1>2, <2>1
<1>6. Done(f, i)
  <2>1. (CHOOSE j \in Carrying(p, d) : TRUE) = i
    BY <1>5
  <2>2. ~\A j \in Carrying(p, d) : Carrying(p, d) # {j}
    BY <1>2, <1>5
  <2>3. Disposition(p, f, d) =
            IF Done(f, i) THEN "CREATED"
            ELSE IF f[i].exec = "failed" \/ f[i].tech THEN "FAILED"
            ELSE IF f[i].route \in {"RED", "INFEASIBLE"} THEN "BLOCKED"
            ELSE IF f[i].route = "GREEN" /\ ~Approved(f, i) THEN "AWAITING_APPROVAL"
            ELSE "MISSING"
    BY <1>2, <2>1, <2>2 DEF Disposition
  <2> QED BY <1>4, <2>3
<1>7. ~p[i].held
  <2> SUFFICES ASSUME p[i].held PROVE FALSE
    BY <1>2
  <2>1. f[i] \in Fates(p[i])
    BY <1>2 DEF Results
  <2>2. f[i] = Technical
    BY <2>1 DEF Fates
  <2> QED BY <1>6, <2>2 DEF Technical, Done, Nothing
<1> QED BY <1>2, <1>6, <1>7

\* A school goal is the task's own, so no leaf is; a floored goal is stopped by 101A.
LEMMA RequestFacts ==
    ASSUME PipeInv
    PROVE  /\ req \in Request /\ req.pack \subseteq Deliverables /\ root.situation => School(root)
           /\ School(root) => leaf = 0 /\ req = root /\ req.checked
           /\ req.floor => PreAssessment.stop # Nothing
<1>1. req \in Request /\ root \in Requests
  BY DEF PipeInv, PipeTypes
<1>2. req.pack \subseteq Deliverables
  BY <1>1 DEF Request, Deliverables
<1>3. root.situation => School(root)
  BY <1>1, RequestsAssumption
<1>4. School(root) => leaf = 0 /\ req = root /\ req.checked
  BY DEF PipeInv, LeavesInherit, School
<1>5. req.floor => PreAssessment.stop # Nothing
  <2> SUFFICES ASSUME req.floor PROVE PreAssessment.stop # Nothing
    OBVIOUS
  <2>1. \A override, defer : Assess(req, override, defer).stop = "RED"
    BY DEF Assess
  <2> QED BY <2>1 DEF PreAssessment, Nothing
<1> QED BY <1>1, <1>2, <1>3, <1>4, <1>5

\* A step within one run: who asked stays, and the plan in hand stays.
LEMMA SamePlanStep ==
    ASSUME PipeInv, UNCHANGED <<ident, work, pass, made>>, stage' \in Stages,
           stage' \in {"intake", "source", "plan"} => stage \in {"intake", "source", "plan"},
           stage' \in {"act", "acted", "verify", "record"} =>
               /\ stage \in {"acted", "verify", "record"} /\ stage' # "act",
           VerdictIsEarned', SuccessMadeThePack',
           School(root) => ~web' /\ source' # "cache",
           req.floor => stage' \in {"intake", "returned", "done"}
    PROVE  PipeInv'
<1>1. UNCHANGED <<root, req, leaf, attempt, plan, did, pass, made>>
  BY DEF ident, work
<1>2. PipeTypes' /\ LeavesInherit'
  BY <1>1 DEF PipeInv, PipeTypes, LeavesInherit
<1>3. PackIsBorne'
  BY <1>1 DEF PipeInv, PackIsBorne, BearsEachOnce, Bears, Fits
<1>4. ResultsFit'
  BY <1>1 DEF PipeInv, ResultsFit
<1>5. NothingMadeYet'
  BY <1>1 DEF PipeInv, NothingMadeYet
<1>6. SchoolGoalStaysLocal'
  BY <1>1 DEF PipeInv, SchoolGoalStaysLocal, School
<1>7. FloorReachesNoPlanner'
  BY <1>1 DEF PipeInv, FloorReachesNoPlanner
<1> QED BY <1>2, <1>3, <1>4, <1>5, <1>6, <1>7 DEF PipeInv

\* Intake and the choice of a supplier.
LEMMA BlockStep == ASSUME PipeInv, Block PROVE PipeInv'
<1>1. /\ stage = "intake" /\ stage' = "returned"
      /\ UNCHANGED <<ident, work, pass, made, web, source, report>>
      /\ \/ UNCHANGED learned
         \/ \E o \in {"failure", "infeasible"} : Note(o, FALSE, FALSE)
  BY DEF Block
<1>2. SuccessMadeThePack'
  BY <1>1 DEF PipeInv, SuccessMadeThePack, Note
<1>3. VerdictIsEarned'
  BY <1>1 DEF VerdictIsEarned
<1> QED BY <1>1, <1>2, <1>3, SamePlanStep DEF PipeInv, SchoolGoalStaysLocal, Stages

\* An admitted goal has no stop, so it is not on the floor.
LEMMA AdmitStep == ASSUME PipeInv, Admit PROVE PipeInv'
<1>1. /\ stage = "intake" /\ stage' = "source" /\ PreAssessment.stop = Nothing
      /\ UNCHANGED <<ident, work, pass, made, web, source, report, learned>>
  BY DEF Admit
<1>2. SuccessMadeThePack' /\ VerdictIsEarned'
  BY <1>1 DEF PipeInv, SuccessMadeThePack, VerdictIsEarned
<1> QED BY <1>1, <1>2, SamePlanStep, RequestFacts DEF PipeInv, SchoolGoalStaysLocal, Stages

\* A school goal's plan comes from no cache, and its brief from no web search.
LEMMA SupplyStep == ASSUME PipeInv, Supply PROVE PipeInv'
<1>1. /\ stage = "source" /\ stage' = "plan" /\ source' \in Suppliers
      /\ web' \in {FALSE} \cup {source' # "workflow" /\ ~req.checked}
      /\ UNCHANGED <<ident, work, pass, made, report, learned>>
  BY DEF Supply
<1>2. SuccessMadeThePack' /\ VerdictIsEarned'
  BY <1>1 DEF PipeInv, SuccessMadeThePack, VerdictIsEarned
<1>3. ~req.floor
  BY <1>1 DEF PipeInv, FloorReachesNoPlanner
<1>4. School(root) => ~web' /\ source' # "cache"
  BY <1>1, RequestFacts DEF Suppliers
<1> QED BY <1>1, <1>2, <1>3, <1>4, SamePlanStep DEF Stages

\* A run that starts afresh has no plan and no verdict, and has made nothing more.
LEMMA FreshStep ==
    ASSUME PipeInv, FreshRun, req' \in Request, leaf' \in Nat, LeavesInherit',
           root.situation => /\ attempt' = attempt /\ pass = 1
                             /\ stage \in {"intake", "source", "plan", "act"},
           School(root) => leaf' = 0
    PROVE  PipeInv'
<1>1. /\ stage' = "intake" /\ pass' = 1 /\ plan' = <<>> /\ source' = Nothing /\ web' = FALSE
      /\ UNCHANGED <<root, learned, made>>
  BY DEF FreshRun
<1>2. DOMAIN plan' = {}
  BY <1>1
<1>3. PipeTypes'
  BY <1>1, <1>2 DEF PipeInv, PipeTypes, Stages
<1>4. PackIsBorne' /\ ResultsFit' /\ VerdictIsEarned'
  BY <1>1 DEF PackIsBorne, ResultsFit, VerdictIsEarned
<1>5. NothingMadeYet' /\ SuccessMadeThePack'
  BY <1>1 DEF PipeInv, NothingMadeYet, SuccessMadeThePack
<1>6. SchoolGoalStaysLocal' /\ FloorReachesNoPlanner'
  BY <1>1, <1>2 DEF SchoolGoalStaysLocal, FloorReachesNoPlanner, School, Nothing
<1> QED BY <1>3, <1>4, <1>5, <1>6 DEF PipeInv

\* A leaf takes the school metadata of the task, and only a task without any has one.
LEMMA LeafFacts ==
    ASSUME PipeInv, NEW r \in LeafRequests, RunLeaf(r), FreshRun, ~root.checked
    PROVE  PipeInv'
<1>1. /\ root \in Requests /\ root \in Request /\ leaf \in Nat /\ r \in Request
      /\ req' = LeafOf(r) /\ leaf' = leaf + 1 /\ root' = root
  BY RequestsAssumption DEF PipeInv, PipeTypes, RunLeaf, FreshRun
<1>2. /\ req' \in Request /\ req'.checked = root.checked /\ req'.domain = root.domain
      /\ req'.situation = root.situation /\ req'.pack = root.pack
  BY <1>1 DEF LeafOf, Request
<1>3. leaf' \in Nat /\ leaf' # 0
  BY <1>1
<1>4. LeavesInherit'
  BY <1>1, <1>2, <1>3 DEF LeavesInherit
<1>5. ~School(root) /\ ~root.situation
  <2>1. ~School(root)
    BY <1>1 DEF School, FreshRun
  <2>2. root.situation => School(root)
    BY <1>1, RequestsAssumption
  <2> QED BY <2>1, <2>2
<1> QED BY <1>2, <1>3, <1>4, <1>5, FreshStep

\* Only a goal without school metadata is split up.
LEMMA SplitGoalStep == ASSUME PipeInv, SplitGoal PROVE PipeInv'
<1>1. PICK r \in LeafRequests : RunLeaf(r)
  BY DEF SplitGoal
<1>2. FreshRun /\ ~root.checked
  BY DEF SplitGoal, MayDecompose, PipeInv, LeavesInherit
<1> QED BY <1>1, <1>2, LeafFacts

\* The next leaf of a tree inherits what the first did.
LEMMA NextLeafStep == ASSUME PipeInv, NextLeaf PROVE PipeInv'
<1>1. PICK r \in LeafRequests : RunLeaf(r)
  BY DEF NextLeaf
<1>2. FreshRun /\ ~root.checked
  <2>1. leaf # 0
    BY DEF NextLeaf, Subgoal, PipeInv, PipeTypes
  <2> QED BY <2>1 DEF NextLeaf, PipeInv, LeavesInherit
<1> QED BY <1>1, <1>2, LeafFacts

\* A governed case is not fixed again.
LEMMA SelfFixStep == ASSUME PipeInv, SelfFix PROVE PipeInv'
<1>1. /\ FreshRun /\ UNCHANGED <<root, req, leaf>> /\ leaf \in Nat /\ req \in Request
      /\ attempt = 1 => ~req.situation
  BY DEF SelfFix, FreshRun, MayRetry, PipeInv, PipeTypes
<1>2. LeavesInherit' /\ ~root.situation
  BY <1>1 DEF PipeInv, LeavesInherit, NothingMadeYet
<1>3. School(root) => leaf' = 0
  BY <1>1, RequestFacts
<1> QED BY <1>1, <1>2, <1>3, FreshStep

\* The plan in hand comes from a supplier, and passes the school contract.
LEMMA NewPlan ==
    ASSUME PipeInv, NEW P, P \subseteq Plans \cup {Answer, RecoveryPlan}, Planned(P),
           UNCHANGED <<ident, source, web, report, learned, made>>, stage' = "act",
           ~req.floor, pass' \in {1, 2}, pass' = 2 => req.pack = {},
           root.situation /\ pass' = 1 => \A d \in Deliverables : made[d] = 0
    PROVE  PipeInv'
<1>1. /\ UNCHANGED <<root, req, leaf, attempt, source, web, learned, made>> /\ req \in Request
      /\ \A p \in P : Raw(p)
  BY SuppliedFacts DEF ident, PipeInv, PipeTypes
<1>2. /\ \A i \in DOMAIN plan' : plan'[i] \in Actions /\ (plan'[i].by = "failed" => plan'[i].held)
      /\ School(req) => \A i \in DOMAIN plan' : plan'[i].clean
      /\ pass' = 1 => BearsEachOnce(plan', req.pack)
  BY <1>1, PlannedFacts
<1>3. BearsEachOnce(plan', req.pack)
  BY <1>2 DEF BearsEachOnce
<1>4. PipeTypes' /\ LeavesInherit'
  BY <1>1, <1>2 DEF PipeInv, PipeTypes, LeavesInherit, Stages
<1>5. PackIsBorne'
  BY <1>1, <1>3 DEF PackIsBorne, BearsEachOnce, Bears, Fits
<1>6. ResultsFit' /\ VerdictIsEarned'
  BY DEF ResultsFit, VerdictIsEarned
<1>7. NothingMadeYet' /\ SuccessMadeThePack' /\ FloorReachesNoPlanner'
  BY <1>1 DEF PipeInv, NothingMadeYet, SuccessMadeThePack, FloorReachesNoPlanner
<1>8. SchoolGoalStaysLocal'
  <2>1. School(root) => req = root
    BY RequestFacts
  <2>2. School(root) => \A i \in DOMAIN plan' : plan'[i].clean
    BY <1>2, <2>1
  <2> QED BY <1>1, <2>2 DEF PipeInv, SchoolGoalStaysLocal, School
<1> QED BY <1>4, <1>5, <1>6, <1>7, <1>8 DEF PipeInv

\* Whoever supplies it, the plan of the first pass is a new plan.
LEMMA MakePlanStep == ASSUME PipeInv, MakePlan PROVE PipeInv'
<1>1. /\ stage = "plan" /\ stage' = "act" /\ pass' = pass
      /\ UNCHANGED <<ident, source, web, report, learned, made>>
  BY DEF MakePlan
<1>2. Planned({Answer}) \/ Planned(Plans) \/ Planned({RecoveryPlan})
  BY DEF MakePlan
<1>3. pass' = 1 /\ ~req.floor /\ (root.situation => \A d \in Deliverables : made[d] = 0)
  BY <1>1 DEF PipeInv, PackIsBorne, FloorReachesNoPlanner, NothingMadeYet
<1>4. CASE Planned({Answer})
  BY <1>1, <1>3, <1>4, NewPlan
<1>5. CASE Planned(Plans)
  BY <1>1, <1>3, <1>5, NewPlan
<1>6. CASE Planned({RecoveryPlan})
  BY <1>1, <1>3, <1>6, NewPlan
<1> QED BY <1>2, <1>4, <1>5, <1>6

\* A plan that bears a deliverable is not a plan of information only.
LEMMA FollowupStep == ASSUME PipeInv, Followup PROVE PipeInv'
<1>1. /\ stage = "acted" /\ stage' = "act" /\ pass' = 2 /\ Planned(Plans)
      /\ UNCHANGED <<ident, source, web, report, learned, made>>
      /\ \A i \in DOMAIN plan : plan[i].kind \in {"info", "search"}
  BY DEF Followup, NeedsFollowup
<1>2. req.pack = {}
  <2> SUFFICES ASSUME NEW d \in req.pack PROVE FALSE
    OBVIOUS
  <2>1. PICK i \in DOMAIN plan : Bears(plan, i, d)
    BY <1>1 DEF PipeInv, PackIsBorne, BearsEachOnce
  <2>2. plan[i].kind \in {"artifact", "gate"}
    BY <2>1 DEF Bears, Fits
  <2> QED BY <1>1, <2>2
<1>3. ~req.floor
  BY <1>1 DEF PipeInv, FloorReachesNoPlanner
<1> QED BY <1>1, <1>2, <1>3, NewPlan

\* What was executed counts each deliverable once.
LEMMA ExecuteStep == ASSUME PipeInv, Execute PROVE PipeInv'
<1>1. /\ stage = "act" /\ stage' = "acted" /\ did' \in Results(plan)
      /\ UNCHANGED <<root, req, leaf, attempt, source, web, pass, plan, verdict, learned>>
  BY DEF Execute, ident, report
<1> DEFINE ran(d) == {i \in Carrying(plan, d) : Fits(plan[i], d) /\ Done(did', i)}
<1>2. /\ DOMAIN made' = Deliverables
      /\ \A d \in Deliverables : made'[d] = IF d \in req.pack THEN made[d] + Cardinality(ran(d)) ELSE made[d]
  <2>1. DOMAIN made = Deliverables
    BY DEF PipeInv, PipeTypes
  <2>2. made' = [d \in DOMAIN made |-> IF d \in req.pack THEN made[d] + Cardinality(ran(d)) ELSE made[d]]
    BY DEF Execute
  <2> QED BY <2>1, <2>2
<1>3. BearsEachOnce(plan, req.pack)
  BY <1>1 DEF PipeInv, PackIsBorne
<1>4. ASSUME NEW d \in req.pack PROVE Cardinality(ran(d)) \in {0, 1}
  <2>1. \A i, j \in ran(d) : i = j
    BY <1>3 DEF BearsEachOnce, Bears, Carrying
  <2>2. CASE ran(d) = {}
    BY <2>2, FS_EmptySet
  <2>3. CASE ran(d) # {}
    <3>1. PICK i : ran(d) = {i}
      BY <2>1, <2>3
    <3> QED BY <3>1, FS_Singleton
  <2> QED BY <2>2, <2>3
<1> HIDE DEF ran
<1>5. \A d \in Deliverables : made[d] \in Nat /\ made'[d] \in Nat
  BY <1>2, <1>4 DEF PipeInv, PipeTypes
<1>6. made' \in [Deliverables -> Nat]
  <2>1. made' = [d \in DOMAIN made |-> made'[d]]
    BY DEF Execute
  <2> QED BY <1>2, <1>5, <2>1
<1>7. PipeTypes' /\ LeavesInherit'
  BY <1>1, <1>6 DEF PipeInv, PipeTypes, LeavesInherit, Stages
<1>8. PackIsBorne' /\ ResultsFit' /\ VerdictIsEarned'
  BY <1>1, <1>3 DEF PipeInv, PackIsBorne, ResultsFit, VerdictIsEarned, BearsEachOnce, Bears, Fits
<1>9. NothingMadeYet'
  <2> SUFFICES ASSUME root.situation, NEW d \in Deliverables PROVE made'[d] <= 1 /\ attempt' = 1
    BY <1>1 DEF NothingMadeYet, PipeInv
  <2>1. made[d] <= 1 /\ attempt = 1 /\ (pass = 1 => made[d] = 0) /\ (pass = 2 => req.pack = {}) /\ pass \in {1, 2}
    BY <1>1 DEF PipeInv, NothingMadeYet, PackIsBorne, PipeTypes
  <2> QED BY <1>1, <1>2, <1>4, <2>1
<1>10. SuccessMadeThePack' /\ SchoolGoalStaysLocal' /\ FloorReachesNoPlanner'
  BY <1>1 DEF PipeInv, SuccessMadeThePack, SchoolGoalStaysLocal, FloorReachesNoPlanner, School
<1> QED BY <1>7, <1>8, <1>9, <1>10 DEF PipeInv

\* The end of a run.
LEMMA SettleStep == ASSUME PipeInv, Settle PROVE PipeInv'
<1>1. /\ stage = "acted" /\ stage' = "verify"
      /\ UNCHANGED <<ident, work, pass, made, web, source, report, learned>>
  BY DEF Settle
<1>2. SuccessMadeThePack' /\ VerdictIsEarned' /\ ~req.floor
  BY <1>1 DEF PipeInv, SuccessMadeThePack, VerdictIsEarned, FloorReachesNoPlanner
<1> QED BY <1>1, <1>2, SamePlanStep DEF PipeInv, SchoolGoalStaysLocal, Stages

\* A pass is a statement about the plan in hand, its results and the pack.
LEMMA VerifyRunStep == ASSUME PipeInv, VerifyRun PROVE PipeInv'
<1>1. /\ stage = "verify" /\ stage' = "record"
      /\ UNCHANGED <<ident, work, pass, made, web, source, learned>>
  BY DEF VerifyRun
<1>2. Verified' => Unauthorised(plan, did) = {} /\ Covered(plan, did, req)
  <2> SUFFICES ASSUME verdict' # NoVerdict, verdict'.pass
               PROVE  Unauthorised(plan, did) = {} /\ Covered(plan, did, req)
    BY DEF Verified
  <2>1. PICK sound \in BOOLEAN, fast \in BOOLEAN, j \in {"pass", "fail", "unavailable"} :
            verdict' = Judged(Verify(plan, did, req, FinalRoute, sound), plan, fast, j)
    BY DEF VerifyRun
  <2> QED BY <2>1, VerdictFacts
<1>3. plan' = plan /\ did' = did /\ req' = req
  BY <1>1 DEF work, ident
<1>4. VerdictIsEarned'
  <2>1. Unauthorised(plan, did)' = Unauthorised(plan, did) /\ Covered(plan, did, req)' = Covered(plan, did, req)
    BY <1>3 DEF Unauthorised, Covered, Pending, Approved, Done, Settled, Disposition, Carrying
  <2> QED BY <1>2, <2>1 DEF VerdictIsEarned
<1>5. SuccessMadeThePack' /\ ~req.floor
  BY <1>1 DEF PipeInv, SuccessMadeThePack, FloorReachesNoPlanner
<1> QED BY <1>1, <1>4, <1>5, SamePlanStep DEF PipeInv, SchoolGoalStaysLocal, Stages

\* Without a blocked, a rejected and a failed action, and with each deliverable borne
\* by an action, the one that bears it was executed: the verifier has no part in it.
LEMMA SuccessFacts ==
    ASSUME PipeInv, stage = "record", ~Routed("RED"), RunOutcome = "success"
    PROVE  PackMade
<1> SUFFICES ASSUME NEW d \in req.pack
             PROVE  \E i \in Carrying(plan, d) : Fits(plan[i], d) /\ Done(did, i)
  BY DEF PackMade
<1>1. did \in Results(plan) /\ BearsEachOnce(plan, req.pack)
  BY DEF PipeInv, ResultsFit, PackIsBorne
<1>2. PICK i \in DOMAIN plan : Bears(plan, i, d)
  BY <1>1 DEF BearsEachOnce
<1>3. i \in Carrying(plan, d) /\ Fits(plan[i], d) /\ plan[i].kind \in {"artifact", "gate"} /\ Substantive(plan[i])
  BY <1>2 DEF Bears, Fits, Carrying, Substantive
<1>4. <<plan[i], did[i]>> \in All
  BY DEF All
<1>5. did[i].route \notin {"RED", "INFEASIBLE"} /\ did[i].approval # "rejected" /\ did[i].exec # "failed"
  <2>1. ~Routed("INFEASIBLE") /\ ~Refused /\ ~Fails
    BY DEF RunOutcome
  <2> QED BY <1>3, <1>4, <2>1 DEF Routed, Refused, Fails
<1>6. did[i] = Technical \/ did[i] \in Fates(plan[i])
  BY <1>1 DEF Results, Technical, Outcome
<1>7. did[i] # Technical
  BY <1>5 DEF Technical
<1>8. Done(did, i)
  <2>1. did[i] \in {Outcome("RED", Nothing, Nothing), Outcome("INFEASIBLE", Nothing, Nothing)}
                   \cup {Outcome("BLUE", Nothing, e) : e \in Ran}
                   \cup {Outcome("GREEN", "approved", e) : e \in Ran} \cup {Outcome("GREEN", "rejected", Nothing)}
    BY <1>3, <1>6, <1>7 DEF Fates
  <2> QED BY <1>5, <2>1 DEF Outcome, Ran, Done
<1> QED BY <1>3, <1>8

\* What is recorded as a success made its pack.
LEMMA RecordStep == ASSUME PipeInv, Record PROVE PipeInv'
<1>1. /\ stage = "record" /\ stage' = "returned" /\ plan' = <<>>
      /\ UNCHANGED <<ident, source, web, pass, made>>
      /\ UNCHANGED learned \/ (~Routed("RED") /\ Note(RunOutcome, PackMade, Verified))
  BY DEF Record
<1>2. UNCHANGED <<root, req, leaf, attempt>> /\ DOMAIN plan' = {}
  BY <1>1 DEF ident
<1>3. SuccessMadeThePack'
  <2>1. CASE UNCHANGED learned
    BY <2>1 DEF PipeInv, SuccessMadeThePack
  <2>2. CASE ~Routed("RED") /\ Note(RunOutcome, PackMade, Verified)
    <3> DEFINE new == [outcome |-> RunOutcome, whole |-> PackMade, verified |-> Verified]
    <3>1. learned' = learned \cup {new}
      BY <2>2 DEF Note
    <3>2. new.outcome = RunOutcome /\ new.whole = PackMade
      OBVIOUS
    <3>3. RunOutcome = "success" => PackMade
      BY <1>1, <2>2, SuccessFacts
    <3> HIDE DEF new
    <3>4. new.outcome = "success" => new.whole
      BY <3>2, <3>3
    <3> QED BY <3>1, <3>4 DEF PipeInv, SuccessMadeThePack
  <2> QED BY <1>1, <2>1, <2>2
<1>4. PipeTypes' /\ LeavesInherit'
  BY <1>1, <1>2 DEF PipeInv, PipeTypes, LeavesInherit, Stages
<1>5. PackIsBorne' /\ ResultsFit' /\ VerdictIsEarned' /\ NothingMadeYet'
  BY <1>1, <1>2 DEF PipeInv, PackIsBorne, ResultsFit, VerdictIsEarned, NothingMadeYet
<1>6. SchoolGoalStaysLocal' /\ FloorReachesNoPlanner'
  BY <1>1, <1>2 DEF PipeInv, SchoolGoalStaysLocal, FloorReachesNoPlanner, School
<1> QED BY <1>3, <1>4, <1>5, <1>6 DEF PipeInv

\* An escalation, a return and a step of nothing leave the plan as it is.
LEMMA EndStep == ASSUME PipeInv, Escalate \/ Return \/ UNCHANGED pipeVars PROVE PipeInv'
<1>1. CASE Escalate \/ Return
  <2>1. /\ stage \in {"plan", "returned"} /\ stage' \in {"returned", "done"}
        /\ UNCHANGED <<ident, work, pass, made, web, source, report, learned>>
    BY <1>1 DEF Escalate, Return
  <2>2. SuccessMadeThePack' /\ VerdictIsEarned'
    BY <2>1 DEF PipeInv, SuccessMadeThePack, VerdictIsEarned
  <2> QED BY <2>1, <2>2, SamePlanStep DEF PipeInv, SchoolGoalStaysLocal, Stages
<1>2. CASE UNCHANGED pipeVars
  <2>1. UNCHANGED <<root, req, leaf, attempt, stage, pass, plan, did, source, web, verdict, learned, made>>
    BY <1>2 DEF pipeVars
  <2>2. PipeTypes' /\ LeavesInherit' /\ PackIsBorne'
    BY <2>1 DEF PipeInv, PipeTypes, LeavesInherit, PackIsBorne, BearsEachOnce, Bears, Fits
  <2>3. ResultsFit' /\ VerdictIsEarned'
    <3>1. Results(plan)' = Results(plan)
      BY <2>1 DEF Results
    <3>2. Unauthorised(plan, did)' = Unauthorised(plan, did) /\ Covered(plan, did, req)' = Covered(plan, did, req)
      BY <2>1 DEF Unauthorised, Covered, Pending, Approved, Done, Settled, Disposition, Carrying
    <3>3. Verified' = Verified
      BY <2>1 DEF Verified
    <3> QED BY <2>1, <3>1, <3>2, <3>3 DEF PipeInv, ResultsFit, VerdictIsEarned
  <2>4. NothingMadeYet' /\ SuccessMadeThePack'
    BY <2>1 DEF PipeInv, NothingMadeYet, SuccessMadeThePack
  <2>5. SchoolGoalStaysLocal' /\ FloorReachesNoPlanner'
    BY <2>1 DEF PipeInv, SchoolGoalStaysLocal, FloorReachesNoPlanner, School
  <2> QED BY <2>2, <2>3, <2>4, <2>5 DEF PipeInv
<1> QED BY <1>1, <1>2

\* A task starts at intake, with nothing in hand.
LEMMA PipeInitInv == PipeInit => PipeInv
<1> SUFFICES ASSUME PipeInit PROVE PipeInv
  OBVIOUS
<1>1. /\ root \in Requests /\ req = root /\ stage = "intake" /\ source = Nothing /\ web = FALSE
      /\ pass = 1 /\ plan = <<>> /\ leaf = 0 /\ attempt = 1 /\ learned = {}
      /\ made = [d \in Files \cup Gates |-> 0]
  BY DEF PipeInit, Fresh
<1>2. req \in Request /\ DOMAIN plan = {}
  BY <1>1, RequestsAssumption
<1>3. PipeTypes /\ LeavesInherit
  BY <1>1, <1>2 DEF PipeTypes, LeavesInherit, Stages, Deliverables
<1>4. PackIsBorne /\ ResultsFit /\ VerdictIsEarned /\ NothingMadeYet
  BY <1>1 DEF PackIsBorne, ResultsFit, VerdictIsEarned, NothingMadeYet, Deliverables
<1>5. SuccessMadeThePack /\ SchoolGoalStaysLocal /\ FloorReachesNoPlanner
  BY <1>1, <1>2 DEF SuccessMadeThePack, SchoolGoalStaysLocal, FloorReachesNoPlanner, Nothing
<1> QED BY <1>3, <1>4, <1>5 DEF PipeInv

\* A run of a task keeps the invariant, for any requests, packs, plans and bounds.
THEOREM PipelineKeepsInv == PipeSpec => []PipeInv
<1>1. PipeInv /\ [PipeNext]_pipeVars => PipeInv'
  BY BlockStep, AdmitStep, SupplyStep, SplitGoalStep, MakePlanStep, ExecuteStep, FollowupStep, SettleStep,
     VerifyRunStep, RecordStep, NextLeafStep, SelfFixStep, EndStep DEF PipeNext
<1> QED BY <1>1, PipeInitInv, PTL DEF PipeSpec

\* The stores are taught a success only by a run that wrote every draft and executed
\* every release of its pack, whether or not the verifier gave a verdict.
THEOREM SuccessesMadeThePack == PipeSpec => []SuccessMadeThePack
<1>1. PipeInv => SuccessMadeThePack
  BY DEF PipeInv
<1> QED BY <1>1, PipelineKeepsInv, PTL

\* Whatever the planner proposed, duplicates and misshapen claims included, and
\* whatever the judge said: a pass means that every draft of the pack was written.
THEOREM PassesHaveTheirPack == PipeSpec => []PassMeansPackMade
<1>1. PipeInv => PassMeansPackMade
  <2> SUFFICES ASSUME PipeInv, stage = "record", Verified
               PROVE  /\ ~req.gap
                      /\ \A d \in req.pack \cap Files :
                             \E i \in Carrying(plan, d) : Done(did, i) /\ ~plan[i].held /\ plan[i].by # "failed"
    BY DEF PassMeansPackMade
  <2>1. /\ did \in Results(plan) /\ BearsEachOnce(plan, req.pack) /\ Covered(plan, did, req)
        /\ \A i \in DOMAIN plan : plan[i] \in Actions /\ (plan[i].by = "failed" => plan[i].held)
    BY DEF PipeInv, ResultsFit, PackIsBorne, VerdictIsEarned, PipeTypes
  <2>2. ~req.gap
    BY <2>1 DEF Covered
  <2> QED BY <2>1, <2>2, CoveredFacts
<1> QED BY <1>1, PipelineKeepsInv, PTL

\* No school goal is planned from the web, from the cache or in leaves, and every
\* search its plans hold, in either pass, is the official one.
THEOREM SchoolStaysLocal == PipeSpec => []SchoolGoalStaysLocal
<1>1. PipeInv => SchoolGoalStaysLocal
  BY DEF PipeInv
<1> QED BY <1>1, PipelineKeepsInv, PTL

\* No retry, no follow-up and no duplicate in a plan makes a governed case write a
\* draft or release it twice.
THEOREM CasesActOnce == PipeSpec => []GovernedCaseActsOnce
<1>1. PipeInv => GovernedCaseActsOnce
  BY DEF PipeInv, NothingMadeYet, GovernedCaseActsOnce, PipeTypes
<1> QED BY <1>1, PipelineKeepsInv, PTL

\* A goal on the deterministic floor reaches no planner, whatever category the
\* school contract, the release floor or the classifier would give it.
THEOREM FlooredGoalsAreNotPlanned == PipeSpec => []FloorReachesNoPlanner
<1>1. PipeInv => FloorReachesNoPlanner
  BY DEF PipeInv
<1> QED BY <1>1, PipelineKeepsInv, PTL
===============================================================================
