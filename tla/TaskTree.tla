------------------------------- MODULE TaskTree -------------------------------
(***************************************************************************)
(* The task tree: TaskTreeModule.decompose and topo_sort (module 102T) and  *)
(* Runtime._run_tree, which runs one sub-task per leaf in topological order *)
(* and merges what the leaves did into the parent's result.                 *)
(*                                                                          *)
(* The sort is Kahn's algorithm with its queue: seed it with the leaves of  *)
(* in-degree 0, take its head, relax the taken leaf's dependents.  A leaf's *)
(* own run is Runtime.run, reduced here to what _run_tree looks at.         *)
(***************************************************************************)
EXTENDS Naturals, Sequences, FiniteSets

CONSTANTS Leaves,       \* sub_goal_ids of the validated leaves
          Emitted,      \* the leaves in the order the decomposer emitted them
          Proposals,    \* depends_on as the decomposer may emit it, by leaf
          LeafRuns      \* what the run of a leaf may come to: see LeafRun

None == "none"
Routes == {"NONE", "BLUE", "GREEN", "INFEASIBLE", "RED"}
LeafRun == [executed : SUBSET {"success", "failed"},   \* statuses of its executions
            verified : BOOLEAN,                        \* verification["pass"]
            route : Routes,                            \* final_route
            raises : BOOLEAN]                          \* run() raised after all that

ASSUME EmittedAssumption ==
    /\ IsFiniteSet(Leaves) /\ None \notin Leaves
    /\ Emitted \in Seq(Leaves)
    /\ \A i, j \in 1..Len(Emitted) : Emitted[i] = Emitted[j] => i = j
    /\ \A l \in Leaves : \E i \in 1..Len(Emitted) : Emitted[i] = l
ASSUME ProposalsAssumption == \A p \in Proposals : DOMAIN p = Leaves
ASSUME LeafRunsAssumption == LeafRuns \subseteq LeafRun

VARIABLES
    proposal,   \* depends_on as the decomposer emitted it
    phase,      \* "decompose", "sort", "run", "done" or "single_shot"
    depends,    \* depends[l]: depends_on after unknown ids are dropped
    inDegree, ready, order,     \* the sort's map, queue and result
    taken,      \* the leaf last taken from the queue, None while seeding
    cursor,     \* the next leaf (position in Emitted) the sort's loop visits
    next,       \* the position in order of the next leaf to run
    status,     \* SubGoal.status
    outcome,    \* the run of a leaf that was started and ended, else NoRun
    merged,     \* done_results: the leaves whose results the parent extends
    priors,     \* priors[l]: the leaves whose summaries l's envelope carries
    finalRoute  \* the parent's final_route
sortVars == <<inDegree, ready, order, taken, cursor>>
runVars == <<next, status, outcome, merged, priors>>
vars == <<proposal, phase, depends, inDegree, ready, order, taken, cursor,
          next, status, outcome, merged, priors, finalRoute>>

NoRun == [executed |-> {}, verified |-> FALSE, route |-> None, raises |-> FALSE]
Elems(s) == {s[i] : i \in 1..Len(s)}

Init ==
    /\ proposal \in Proposals
    /\ phase = "decompose"
    /\ depends = [l \in Leaves |-> {}]
    /\ inDegree = [l \in Leaves |-> 0]
    /\ ready = <<>> /\ order = <<>> /\ taken = None /\ cursor = 1
    /\ next = 1
    /\ status = [l \in Leaves |-> "pending"]
    /\ outcome = [l \in Leaves |-> NoRun]
    /\ merged = {}
    /\ priors = [l \in Leaves |-> {}]
    /\ finalRoute = "NONE"

(***************************************************************************)
(* 102T.                                                                    *)
(***************************************************************************)
\* Mutant: the in-degrees count the unknown ids too.
DecomposeKeepsUnknown ==
    /\ phase = "decompose"
    /\ depends' = [l \in Leaves |-> proposal[l] \intersect Leaves]
    /\ inDegree' = [l \in Leaves |-> Cardinality(proposal[l])]
    /\ phase' = "sort"
    /\ UNCHANGED <<proposal, ready, order, taken, cursor, runVars, finalRoute>>
\* Dependencies on unknown ids are dropped before the sort.
Decompose ==
    /\ phase = "decompose"
    /\ depends' = [l \in Leaves |-> proposal[l] \intersect Leaves]
    /\ inDegree' = [l \in Leaves |-> Cardinality(depends'[l])]
    /\ phase' = "sort"
    /\ UNCHANGED <<proposal, ready, order, taken, cursor, runVars, finalRoute>>

\* The model failed, refused, or left fewer leaves than the minimum.
DecomposeRefused ==
    /\ phase = "decompose"
    /\ phase' = "single_shot"
    /\ UNCHANGED <<proposal, depends, sortVars, runVars, finalRoute>>

Visiting == phase = "sort" /\ cursor <= Len(Emitted)

\* Seeding: the leaves without dependencies, in emitted order.
Seed ==
    /\ Visiting /\ taken = None
    /\ ready' = IF inDegree[Emitted[cursor]] = 0
                THEN Append(ready, Emitted[cursor]) ELSE ready
    /\ cursor' = cursor + 1
    /\ UNCHANGED <<proposal, phase, depends, inDegree, order, taken, runVars, finalRoute>>

\* Mutant: any one satisfied dependency is enough.
RelaxEager ==
    LET l == Emitted[cursor]
    IN  /\ Visiting /\ taken # None
        /\ IF taken \in depends[l] /\ l \notin Elems(ready) \union Elems(order)
           THEN ready' = Append(ready, l) ELSE UNCHANGED ready
        /\ cursor' = cursor + 1
        /\ UNCHANGED <<proposal, phase, depends, inDegree, order, taken, runVars, finalRoute>>
\* Mutant: every leaf visited is taken for a dependent.
RelaxAnyone ==
    LET l == Emitted[cursor]
    IN  /\ Visiting /\ taken # None
        /\ inDegree' = [inDegree EXCEPT ![l] = @ - 1]
        /\ ready' = IF inDegree[l] = 1 THEN Append(ready, l) ELSE ready
        /\ cursor' = cursor + 1
        /\ UNCHANGED <<proposal, phase, depends, order, taken, runVars, finalRoute>>
\* Relaxing: a dependent of the leaf taken is ready once nothing else holds it.
Relax ==
    LET l == Emitted[cursor]
    IN  /\ Visiting /\ taken # None
        /\ IF taken \in depends[l]
           THEN /\ inDegree' = [inDegree EXCEPT ![l] = @ - 1]
                /\ ready' = IF inDegree[l] = 1 THEN Append(ready, l) ELSE ready
           ELSE UNCHANGED <<inDegree, ready>>
        /\ cursor' = cursor + 1
        /\ UNCHANGED <<proposal, phase, depends, order, taken, runVars, finalRoute>>

Pop ==
    /\ phase = "sort" /\ cursor > Len(Emitted) /\ ready # <<>>
    /\ taken' = Head(ready) /\ ready' = Tail(ready)
    /\ order' = Append(order, Head(ready))
    /\ cursor' = 1
    /\ UNCHANGED <<proposal, phase, depends, inDegree, runVars, finalRoute>>

SortEnded == phase = "sort" /\ cursor > Len(Emitted) /\ ready = <<>>

\* A leaf left over is on a cycle or behind one: the decomposition is refused.
Sorted ==
    /\ SortEnded
    /\ phase' = IF Len(order) = Len(Emitted) THEN "run" ELSE "single_shot"
    /\ UNCHANGED <<proposal, depends, sortVars, runVars, finalRoute>>

(***************************************************************************)
(* _run_tree.                                                               *)
(***************************************************************************)
Running == phase = "run" /\ next <= Len(order)
DependencyFailed(l) == \E d \in depends[l] : status[d] = "failed"

\* Mutant: the loop stops at a leaf whose dependency failed.
SkipLeafStops ==
    LET l == order[next]
    IN  /\ Running /\ status[l] = "pending" /\ DependencyFailed(l)
        /\ status' = [status EXCEPT ![l] = "skipped_due_to_failure"]
        /\ UNCHANGED <<proposal, phase, depends, sortVars, next, outcome, merged, priors, finalRoute>>
SkipLeaf ==
    LET l == order[next]
    IN  /\ Running /\ status[l] = "pending" /\ DependencyFailed(l)
        /\ status' = [status EXCEPT ![l] = "skipped_due_to_failure"]
        /\ next' = next + 1
        /\ UNCHANGED <<proposal, phase, depends, sortVars, outcome, merged, priors, finalRoute>>

\* Mutant: the failure of a dependency is not looked at.
StartAnyLeaf ==
    LET l == order[next]
    IN  /\ Running /\ status[l] = "pending"
        /\ status' = [status EXCEPT ![l] = "running"]
        /\ priors' = [priors EXCEPT ![l] = depends[l] \intersect merged]
        /\ UNCHANGED <<proposal, phase, depends, sortVars, next, outcome, merged, finalRoute>>
StartLeaf ==
    LET l == order[next]
    IN  /\ Running /\ status[l] = "pending" /\ ~DependencyFailed(l)
        /\ status' = [status EXCEPT ![l] = "running"]
        /\ priors' = [priors EXCEPT ![l] = depends[l] \intersect merged]
        /\ UNCHANGED <<proposal, phase, depends, sortVars, next, outcome, merged, finalRoute>>

\* The verifier's synthetic failure is not substantive: it is not looked at.
Succeeded(run) == "success" \in run.executed /\ "failed" \notin run.executed

\* Mutant: only the results of leaves that succeeded are merged.
LeafReturnsMergingSuccess ==
    LET l == order[next]
    IN  /\ Running /\ status[l] = "running"
        /\ \E run \in LeafRuns :
               /\ ~run.raises
               /\ outcome' = [outcome EXCEPT ![l] = run]
               /\ status' = [status EXCEPT ![l] = IF Succeeded(run) THEN "done" ELSE "failed"]
               /\ merged' = IF Succeeded(run) THEN merged \union {l} ELSE merged
        /\ next' = next + 1
        /\ UNCHANGED <<proposal, phase, depends, sortVars, priors, finalRoute>>
LeafReturns ==
    LET l == order[next]
    IN  /\ Running /\ status[l] = "running"
        /\ \E run \in LeafRuns :
               /\ ~run.raises
               /\ outcome' = [outcome EXCEPT ![l] = run]
               /\ status' = [status EXCEPT ![l] = IF Succeeded(run) THEN "done" ELSE "failed"]
        /\ merged' = merged \union {l}
        /\ next' = next + 1
        /\ UNCHANGED <<proposal, phase, depends, sortVars, priors, finalRoute>>

\* An exception out of the leaf's run: whatever it did is not merged.
LeafRaises ==
    LET l == order[next]
    IN  /\ Running /\ status[l] = "running"
        /\ \E run \in LeafRuns : run.raises /\ outcome' = [outcome EXCEPT ![l] = run]
        /\ status' = [status EXCEPT ![l] = "failed"]
        /\ next' = next + 1
        /\ UNCHANGED <<proposal, phase, depends, sortVars, merged, priors, finalRoute>>

Rank(r) == CASE r = "BLUE" -> 1 [] r = "GREEN" -> 2 [] r = "INFEASIBLE" -> 3
             [] r = "RED" -> 4 [] OTHER -> 0

\* _after_run takes the worst route of the decisions merged from the leaves.
EndTree ==
    /\ phase = "run" /\ next > Len(order)
    /\ finalRoute' = LET routes == {"NONE"} \union {outcome[l].route : l \in merged}
                     IN  CHOOSE r \in routes : \A s \in routes : Rank(s) <= Rank(r)
    /\ phase' = "done"
    /\ UNCHANGED <<proposal, depends, sortVars, runVars>>

Next == \/ Decompose \/ DecomposeRefused \/ Seed \/ Relax \/ Pop \/ Sorted
        \/ SkipLeaf \/ StartLeaf \/ LeafReturns \/ LeafRaises \/ EndTree

\* The worker thread keeps running; a leaf's run returns or raises.
Spec == Init /\ [][Next]_vars /\ WF_vars(Next)

-------------------------------------------------------------------------------
TypeOK ==
    /\ phase \in {"decompose", "sort", "run", "done", "single_shot"}
    /\ depends \in [Leaves -> SUBSET Leaves]
    /\ inDegree \in [Leaves -> Nat]
    /\ ready \in Seq(Leaves) /\ order \in Seq(Leaves)
    /\ taken \in Leaves \union {None}
    /\ cursor \in 1..Len(Emitted) + 1
    /\ next \in 1..Len(order) + 1
    /\ status \in [Leaves -> {"pending", "running", "done", "failed", "skipped_due_to_failure"}]
    /\ outcome \in [Leaves -> LeafRuns \union {NoRun}]
    /\ merged \in SUBSET Leaves
    /\ priors \in [Leaves -> SUBSET Leaves]
    /\ finalRoute \in Routes

\* What the sort promises ("execution order honoring depends_on"): every leaf in
\* the order comes after all the leaves it depends on, and only once.
OrderRespectsDependencies ==
    \A i \in 1..Len(order) :
        /\ \A d \in depends[order[i]] : \E k \in 1..i - 1 : order[k] = d
        /\ \A k \in 1..i - 1 : order[k] # order[i]

\* Every nonempty set of leaves has one that depends on none of the set.
Acyclic == \A S \in (SUBSET Leaves) \ {{}} : \E l \in S : depends[l] \intersect S = {}

\* The sort completes exactly on the decompositions without a cycle; the others
\* fall back to a single-shot plan.
CycleMeansSingleShot ==
    SortEnded => (Len(order) = Len(Emitted) <=> Acyclic)

\* A leaf is started only after every dependency settled, none of them failed,
\* whatever order the model emitted the leaves in.
NoLeafAfterAFailedDependency ==
    \A l \in Leaves : status[l] \in {"running", "done"} =>
        \A d \in depends[l] : status[d] \in {"done", "skipped_due_to_failure"}

\* The parent's route is at least as severe as the route of every leaf whose run
\* returned: the top-level result represents the whole tree's behaviour.
ParentCarriesTheWorstLeaf ==
    phase = "done" =>
        \A l \in Leaves : ~outcome[l].raises => Rank(finalRoute) >= Rank(outcome[l].route)

\* A decomposed goal ends, or falls back to one plan.
EveryTreeEnds == <>(phase \in {"done", "single_shot"})

\* The comment in _run_tree: if any dependency failed the leaf is skipped, so as
\* not to waste calls "on a chain whose prerequisite is broken".
NoLeafOnABrokenChain ==
    \A l \in Leaves : status[l] \in {"running", "done"} =>
        \A d \in depends[l] : status[d] = "done"
===============================================================================
