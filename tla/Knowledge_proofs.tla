---------------------------- MODULE Knowledge_proofs ----------------------------
(***************************************************************************)
(* Proofs about what the agent keeps and later acts on: the two queues of   *)
(* proposals (ProposalDecisions), for any proposals, keys, operators, runs, *)
(* restarts and torn lines, and the skill index and the notebook            *)
(* (LearnedStores), for any runs, skills, notes and updates.                *)
(*                                                                          *)
(* In the queues, what makes DecisionsSurvive hold is an accounting: the    *)
(* proposals whose record is not what memory says, and that no request in   *)
(* flight will still append, are never more than the torn lines so far less *)
(* those that have not swallowed their append yet.  In the index it is that *)
(* every copy in flight claims, with its change, only what has happened by  *)
(* then, and that what has happened is not forgotten.                       *)
(***************************************************************************)
EXTENDS ProposalDecisions, LearnedStores, FiniteSetTheorems, TLAPS

(***************************************************************************)
(* The queues of proposals.                                                 *)
(***************************************************************************)
Pc == {"idle", "patch", "gate", "decide", "apply", "mark", "append"}
Proposals == [status : {"absent", "rejected", "approved", "applied"} \cup Open,
              text : Texts, shape : Nat]
StoreTypes ==
    /\ mem \in [Items -> Proposals] /\ disk \in [Items -> Proposals]
    /\ sop \in [Keys -> Nat] /\ shape \in [Keys -> Nat]
    /\ draft \in [Threads -> [item : Items \cup {None}, text : Texts, shape : Nat]]
    /\ op \in [Operators -> [pc : Pc, item : Items \cup {None},
                             answer : {None, "approved", "rejected"},
                             result : {None, "approved", "applied"}]]
    /\ learned \in [Operators -> SUBSET Items]
    /\ restarts \in Nat /\ tears \in Nat
Types == TypeOK /\ StoreTypes

\* A request past its 409 check holds a proposal that exists, with an answer; an
\* approval is on the record, and only an approval is applied or marked.
InHand(o) == op[o].pc # "idle"
RequestsHoldProposals ==
    \A o \in Operators : InHand(o) =>
        /\ op[o].item \in Items /\ mem[op[o].item].status # "absent"
        /\ op[o].pc = "patch" => Kind[op[o].item] = "patch"
        /\ op[o].answer = "approved" => op[o].item \in approved
        /\ op[o].pc \in {"apply", "mark"} => op[o].answer = "approved"
        /\ op[o].pc = "mark" => op[o].result # None

\* Two runs hold different drafts, and a draft is in nobody's queue.
DraftsAreNew ==
    \A t \in Threads : draft[t] # NoDraft =>
        /\ draft[t].item \in Items /\ mem[draft[t].item] = Absent
        /\ \A u \in Threads \ {t} : draft[u] # NoDraft => draft[u].item # draft[t].item

\* What an approval writes, and what the runtime built for one read, was approved
\* and touches no hard safety; the text of a skill on its way is scanned.
Clear(S) == S \subseteq approved /\ \A i \in S : Key[i] \notin HardKeys
EffectsAreClear ==
    /\ Clear(policy) /\ \A o \in Operators : Clear(learned[o])
    /\ \A w \in written : /\ w[1] \in approved
                          /\ Kind[w[1]] \in {"skill", "sop"} => w[2] = "clean"
    /\ \A o \in Operators :
           op[o].pc \in {"decide", "apply"} /\ op[o].answer = "approved"
           /\ Kind[op[o].item] \in {"skill", "sop"} => mem[op[o].item].text = "clean"

\* The proposals no request will append any more, whose record is not what memory says.
Stale == {i \in Items : disk[i] # mem[i] /\ \A o \in Operators : InHand(o) => op[o].item # i}
TearsCoverLosses ==
    /\ IsFiniteSet(Stale)
    /\ Cardinality(Stale) + Cardinality(torn) <= tears

DecisionInv == /\ Types /\ RequestsHoldProposals /\ DraftsAreNew /\ EffectsAreClear
               /\ OnePendingSopWhileUp /\ TearsCoverLosses

-------------------------------------------------------------------------------
\* The queues' two files.
Files == {"proposals", "curator"}

\* A set of files is finite.
LEMMA FilesFinite == ASSUME NEW fs \in SUBSET Files PROVE IsFiniteSet(fs)
<1>1. IsFiniteSet({"proposals"})
  BY FS_Singleton
<1>2. IsFiniteSet({"proposals"} \cup {"curator"})
  BY <1>1, FS_AddElement
<1>3. fs \subseteq {"proposals"} \cup {"curator"}
  BY DEF Files
<1> QED BY <1>2, <1>3, FS_Subset

\* An append either brings the file up to date on its proposal, or is lost with a
\* torn line, which then has its end: the loss was paid for when the line was torn.
LEMMA AppendIsCovered ==
    ASSUME TearsCoverLosses, Types, tears' = tears, NEW i \in Items,
           torn' = torn \ {File(i)},
           Stale' \subseteq Stale \cup {i},
           File(i) \notin torn => Stale' \subseteq Stale
    PROVE  TearsCoverLosses'
<1>1. /\ IsFiniteSet(Stale) /\ Cardinality(Stale) + Cardinality(torn) <= tears
      /\ tears \in Nat
  BY DEF TearsCoverLosses, Types, StoreTypes
<1>2. IsFiniteSet(torn)
  BY FilesFinite DEF Types, TypeOK, Files
<1>3. Cardinality(Stale) \in Nat /\ Cardinality(torn) \in Nat
  BY <1>1, <1>2, FS_CardinalityType
<1>4. CASE File(i) \in torn
  <2>1. /\ IsFiniteSet(Stale \cup {i})
        /\ Cardinality(Stale \cup {i}) \in {Cardinality(Stale), Cardinality(Stale) + 1}
    BY <1>1, FS_AddElement
  <2>2. IsFiniteSet(Stale') /\ Cardinality(Stale') <= Cardinality(Stale \cup {i})
    BY <2>1, FS_Subset
  <2>3. Cardinality(torn') = Cardinality(torn) - 1
    BY <1>2, <1>4, FS_RemoveElement
  <2>4. Cardinality(Stale') \in Nat /\ Cardinality(Stale \cup {i}) \in Nat
    BY <2>1, <2>2, FS_CardinalityType
  <2> QED BY <1>1, <1>3, <2>1, <2>2, <2>3, <2>4 DEF TearsCoverLosses
<1>5. CASE File(i) \notin torn
  <2>1. IsFiniteSet(Stale') /\ Cardinality(Stale') <= Cardinality(Stale)
    BY <1>1, <1>5, FS_Subset
  <2>2. Cardinality(torn') = Cardinality(torn)
    BY <1>5, torn' = torn
  <2>3. Cardinality(Stale') \in Nat
    BY <2>1, FS_CardinalityType
  <2> QED BY <1>1, <1>3, <2>1, <2>2, <2>3 DEF TearsCoverLosses
<1> QED BY <1>4, <1>5

\* A step that makes no record stale and tears no line keeps the account.
LEMMA NothingLost ==
    ASSUME TearsCoverLosses, Types, tears' = tears, torn' = torn, Stale' \subseteq Stale
    PROVE  TearsCoverLosses'
<1>1. IsFiniteSet(Stale') /\ Cardinality(Stale') <= Cardinality(Stale)
  BY FS_Subset DEF TearsCoverLosses
<1>2. IsFiniteSet(torn)
  BY FilesFinite DEF Types, TypeOK, Files
<1>3. /\ Cardinality(Stale) \in Nat /\ Cardinality(Stale') \in Nat
      /\ Cardinality(torn) \in Nat /\ tears \in Nat
  BY <1>1, <1>2, FS_CardinalityType DEF TearsCoverLosses, Types, StoreTypes
<1> QED BY <1>1, <1>3 DEF TearsCoverLosses

-------------------------------------------------------------------------------
\* A run drafts a proposal that is in no queue and in no other run's hands.
LEMMA DraftStep ==
    ASSUME DecisionInv, NEW t \in Threads, NEW i \in Items, NEW text \in Texts,
           Drafts(t, i, text)
    PROVE  DecisionInv'
<1> USE DEF DecisionInv
<1>1. /\ draft[t] = NoDraft /\ Fresh(i)
      /\ draft' = [draft EXCEPT ![t] = [item |-> i, text |-> text, shape |-> shape[Key[i]]]]
      /\ UNCHANGED <<mem, disk, torn, policy, written, sop, shape, op, learned, approved,
                     requested, restarts, tears, edits>>
  BY DEF Drafts, queue, effects, requests, bounds
<1>2. shape[Key[i]] \in Nat
  BY DEF Types, StoreTypes, Keys
<1>3. Types'
  BY <1>1, <1>2 DEF Types, TypeOK, StoreTypes
<1>4. DraftsAreNew'
  BY <1>1 DEF DraftsAreNew, Fresh, Types, StoreTypes, NoDraft
<1>5. RequestsHoldProposals' /\ EffectsAreClear' /\ OnePendingSopWhileUp'
  BY <1>1 DEF RequestsHoldProposals, InHand, EffectsAreClear, Clear, OnePendingSopWhileUp
<1>6. TearsCoverLosses'
  BY <1>1 DEF TearsCoverLosses, Stale, InHand
<1> QED BY <1>3, <1>4, <1>5, <1>6

\* The end of a run registers its draft, unless an SOP of the workflow is known: the
\* draft is in no request's hand, and it is the only undecided SOP of its workflow.
LEMMA RegisterStep ==
    ASSUME DecisionInv, NEW t \in Threads, Register(t)
    PROVE  DecisionInv'
<1> USE DEF DecisionInv
<1> DEFINE i == draft[t].item
           rec == [status |-> Opened(i), text |-> draft[t].text, shape |-> draft[t].shape]
<1>1. /\ draft[t] # NoDraft /\ i \in Items /\ mem[i] = Absent
      /\ \A u \in Threads \ {t} : draft[u] # NoDraft => draft[u].item # i
      /\ \A o \in Operators : InHand(o) => op[o].item # i
      /\ rec \in Proposals
  BY DEF Register, DraftsAreNew, RequestsHoldProposals, Absent, Types, StoreTypes, Proposals,
         Opened, Open
<1>2. /\ draft' = [draft EXCEPT ![t] = NoDraft]
      /\ UNCHANGED <<policy, written, sop, shape, op, learned, approved, requested, restarts,
                     tears, edits>>
      /\ \/ UNCHANGED <<mem, disk, torn>>
         \/ ~Duplicate(i) /\ mem' = [mem EXCEPT ![i] = rec] /\ Append(i, rec)
  BY DEF Register, queue, effects, requests, bounds
<1> HIDE DEF i, rec
<1>3. NoDraft \in [item : Items \cup {None}, text : Texts, shape : Nat]
  BY DEF NoDraft, Texts
<1>4. CASE UNCHANGED <<mem, disk, torn>>
  <2>1. Types'
    BY <1>2, <1>3, <1>4 DEF Types, TypeOK, StoreTypes
  <2>2. DraftsAreNew'
    BY <1>2, <1>4 DEF DraftsAreNew, Types, StoreTypes
  <2>3. RequestsHoldProposals' /\ EffectsAreClear' /\ OnePendingSopWhileUp'
    BY <1>2, <1>4 DEF RequestsHoldProposals, InHand, EffectsAreClear, Clear, OnePendingSopWhileUp
  <2>4. TearsCoverLosses'
    BY <1>2, <1>4 DEF TearsCoverLosses, Stale, InHand
  <2> QED BY <2>1, <2>2, <2>3, <2>4
<1>5. CASE ~Duplicate(i) /\ mem' = [mem EXCEPT ![i] = rec] /\ Append(i, rec)
  <2>1. /\ mem'[i] = rec /\ \A j \in Items \ {i} : mem'[j] = mem[j]
        /\ torn' = torn \ {File(i)}
        /\ disk' = IF File(i) \in torn THEN disk ELSE [disk EXCEPT ![i] = rec]
    BY <1>1, <1>5 DEF Append, Types, StoreTypes
  <2>2. Types'
    BY <1>1, <1>2, <1>3, <1>5, <2>1 DEF Types, TypeOK, StoreTypes, Proposals
  <2>3. DraftsAreNew'
    BY <1>1, <1>2, <2>1 DEF DraftsAreNew, Types, StoreTypes
  <2>4. RequestsHoldProposals' /\ EffectsAreClear'
    BY <1>1, <1>2, <2>1 DEF RequestsHoldProposals, InHand, EffectsAreClear, Clear
  <2>5. OnePendingSopWhileUp'
    BY <1>1, <1>2, <1>5, <2>1 DEF OnePendingSopWhileUp, Duplicate, SopKnown
  <2>6. /\ Stale' \subseteq Stale \cup {i}
        /\ File(i) \notin torn => Stale' \subseteq Stale
    BY <1>1, <1>2, <2>1 DEF Stale, InHand, Types, StoreTypes
  <2>7. TearsCoverLosses'
    BY <1>1, <1>2, <2>1, <2>6, AppendIsCovered
  <2> QED BY <2>2, <2>3, <2>4, <2>5, <2>7
<1> QED BY <1>2, <1>4, <1>5

\* An undecided proposal is taken up; an approval is on the record from then on.
LEMMA TakeUpStep ==
    ASSUME DecisionInv, NEW o \in Operators, NEW i \in Items,
           NEW answer \in {"approved", "rejected"}, TakeUp(o, i, answer)
    PROVE  DecisionInv'
<1> USE DEF DecisionInv
<1> DEFINE r == [pc |-> IF Kind[i] = "patch" THEN "patch" ELSE "gate", item |-> i,
                 answer |-> answer, result |-> None]
<1>1. /\ op' = [op EXCEPT ![o] = r] /\ mem[i].status \in Open /\ op[o].pc = "idle"
      /\ approved' = IF answer = "approved" THEN approved \cup {i} ELSE approved
      /\ UNCHANGED <<mem, disk, torn, policy, written, sop, shape, draft, learned, restarts,
                     tears, edits>>
  BY DEF TakeUp, queue, effects, At
<1>2. /\ r \in [pc : Pc, item : Items \cup {None}, answer : {None, "approved", "rejected"},
                result : {None, "approved", "applied"}]
      /\ r.pc \in {"patch", "gate"} /\ (r.pc = "patch" => Kind[i] = "patch") /\ r.item = i /\ r.answer = answer
  BY DEF Pc
<1> HIDE DEF r
<1>3. op'[o] = r /\ \A q \in Operators \ {o} : op'[q] = op[q]
  BY <1>1 DEF Types, StoreTypes
<1>4. Types'
  BY <1>1, <1>2 DEF Types, TypeOK, StoreTypes
<1>5. RequestsHoldProposals'
  BY <1>1, <1>2, <1>3 DEF RequestsHoldProposals, InHand, Open
<1>6. EffectsAreClear'
  BY <1>1, <1>2, <1>3 DEF EffectsAreClear, Clear
<1>7. DraftsAreNew' /\ OnePendingSopWhileUp'
  BY <1>1 DEF DraftsAreNew, OnePendingSopWhileUp
<1>8. Stale' \subseteq Stale
  BY <1>1, <1>2, <1>3 DEF Stale, InHand
<1>9. TearsCoverLosses'
  BY <1>1, <1>8, NothingLost
<1> QED BY <1>4, <1>5, <1>6, <1>7, <1>9

\* A step of a request on the proposal it holds keeps the invariant when it makes no
\* proposal undecided or unclean, when what it lets take effect is clear, and when it
\* appends the record of memory before it lets the proposal go.
LEMMA RequestStep ==
    ASSUME DecisionInv, Types', NEW o \in Operators, InHand(o),
           UNCHANGED <<draft, approved, restarts, tears>>,
           NEW i, i = op[o].item,
           \A q \in Operators \ {o} : op'[q] = op[q] /\ learned'[q] = learned[q],
           InHand(o)' => op'[o].item = i /\ op'[o].answer = op[o].answer,
           op'[o].pc # "patch",
           op'[o].pc \in {"apply", "mark"} => op[o].answer = "approved",
           op'[o].pc = "mark" => op'[o].result # None,
           \A j \in Items \ {i} : mem'[j] = mem[j],
           mem'[i].status # "absent",
           mem'[i].status = "pending" => mem[i].status = "pending",
           mem[i].text = "clean" => mem'[i].text = "clean",
           op'[o].pc \in {"decide", "apply"} /\ op[o].answer = "approved"
               /\ Kind[i] \in {"skill", "sop"} => mem'[i].text = "clean",
           Clear(policy'), Clear(learned'[o]),
           \A w \in written' : /\ w[1] \in approved
                               /\ Kind[w[1]] \in {"skill", "sop"} => w[2] = "clean",
           \/ InHand(o)' /\ UNCHANGED <<disk, torn>>
           \/ Append(i, mem'[i])
    PROVE  DecisionInv'
<1> USE DEF DecisionInv
<1>1. i \in Items
  BY DEF RequestsHoldProposals
<1>2. RequestsHoldProposals'
  BY <1>1 DEF RequestsHoldProposals, InHand
<1>3. DraftsAreNew'
  <2>1. mem[i] # Absent
    BY DEF RequestsHoldProposals, Absent
  <2> QED BY <2>1 DEF DraftsAreNew
<1>4. EffectsAreClear'
  <2>1. Clear(policy)' /\ \A q \in Operators : Clear(learned[q])'
    BY DEF EffectsAreClear, Clear
  <2>2. ASSUME NEW q \in Operators, op'[q].pc \in {"decide", "apply"},
               op'[q].answer = "approved", Kind[op'[q].item] \in {"skill", "sop"}
        PROVE  mem'[op'[q].item].text = "clean"
    <3>1. CASE q = o
      BY <1>1, <2>2, <3>1 DEF InHand
    <3>2. CASE q # o
      BY <1>1, <2>2, <3>2 DEF EffectsAreClear, RequestsHoldProposals, InHand
    <3> QED BY <3>1, <3>2
  <2> QED BY <2>1, <2>2 DEF EffectsAreClear
<1>5. OnePendingSopWhileUp'
  BY <1>1 DEF OnePendingSopWhileUp
<1>6. TearsCoverLosses'
  <2>1. CASE InHand(o)' /\ UNCHANGED <<disk, torn>>
    <3>1. Stale' \subseteq Stale
      BY <1>1, <2>1 DEF Stale, InHand
    <3> QED BY <2>1, <3>1, NothingLost
  <2>2. CASE Append(i, mem'[i])
    <3>1. /\ \A j \in Items \ {i} : disk'[j] = disk[j] /\ mem'[j] = mem[j]
          /\ File(i) \notin torn => disk'[i] = mem'[i]
      BY <1>1, <2>2 DEF Append, Types, StoreTypes
    <3>2. /\ Stale' \subseteq Stale \cup {i}
          /\ File(i) \notin torn => Stale' \subseteq Stale
      BY <1>1, <3>1 DEF Stale, InHand
    <3> QED BY <1>1, <2>2, <3>2, AppendIsCovered DEF Append
  <2> QED BY <2>1, <2>2
<1> QED BY <1>2, <1>3, <1>4, <1>5, <1>6

-------------------------------------------------------------------------------
\* What a request between two of its steps has in hand.
LEMMA InHandFacts ==
    ASSUME DecisionInv, NEW o \in Operators, InHand(o)
    PROVE  /\ op[o].item \in Items /\ mem[op[o].item].status # "absent"
           /\ mem[op[o].item] \in Proposals
           /\ op[o] \in [pc : Pc, item : Items \cup {None},
                         answer : {None, "approved", "rejected"},
                         result : {None, "approved", "applied"}]
           /\ op[o].pc = "patch" => Kind[op[o].item] = "patch"
           /\ op[o].answer = "approved" => op[o].item \in approved
           /\ op[o].pc \in {"apply", "mark"} => op[o].answer = "approved"
           /\ op[o].pc = "mark" => op[o].result # None
           /\ Clear(policy) /\ \A q \in Operators : Clear(learned[q])
           /\ \A w \in written : /\ w[1] \in approved
                                 /\ Kind[w[1]] \in {"skill", "sop"} => w[2] = "clean"
           /\ op[o].pc \in {"decide", "apply"} /\ op[o].answer = "approved"
              /\ Kind[op[o].item] \in {"skill", "sop"} => mem[op[o].item].text = "clean"
BY DEF DecisionInv, RequestsHoldProposals, EffectsAreClear, Types, StoreTypes

\* Moving a request, alone or with its result, leaves the others where they are.
LEMMA GotoFacts ==
    ASSUME DecisionInv, NEW o \in Operators, NEW to \in Pc,
           NEW result \in {None, "approved", "applied"},
           \/ Goto(o, to) \/ op' = [op EXCEPT ![o].pc = to, ![o].result = result]
    PROVE  /\ op' \in [Operators -> [pc : Pc, item : Items \cup {None},
                                     answer : {None, "approved", "rejected"},
                                     result : {None, "approved", "applied"}]]
           /\ op'[o].pc = to /\ op'[o].item = op[o].item /\ op'[o].answer = op[o].answer
           /\ \A q \in Operators \ {o} : op'[q] = op[q]
BY DEF DecisionInv, Types, StoreTypes, Goto

\* Setting the status of a proposal leaves its text and the others alone.
LEMMA SetsFacts ==
    ASSUME DecisionInv, NEW i \in Items, NEW s \in {"rejected", "approved", "applied"},
           Sets(i, s)
    PROVE  /\ mem' \in [Items -> Proposals]
           /\ mem'[i].status = s /\ mem'[i].text = mem[i].text
           /\ \A j \in Items \ {i} : mem'[j] = mem[j]
<1>1. mem \in [Items -> Proposals]
  BY DEF DecisionInv, Types, StoreTypes
<1>2. mem' = [mem EXCEPT ![i] = [mem[i] EXCEPT !.status = s]]
  BY DEF Sets
<1>3. /\ mem[i] \in Proposals /\ [mem[i] EXCEPT !.status = s] \in Proposals
      /\ [mem[i] EXCEPT !.status = s].status = s
      /\ [mem[i] EXCEPT !.status = s].text = mem[i].text
  BY <1>1 DEF Proposals
<1> QED BY <1>1, <1>2, <1>3

\* The steps of decide_patch.
LEMMA PatchSteps ==
    ASSUME DecisionInv, NEW o \in Operators,
           RejectPatch(o) \/ BuildRuntime(o) \/ ApplyPatch(o)
    PROVE  DecisionInv'
<1> DEFINE i == op[o].item
<1>0. Types /\ InHand(o)
  BY DEF DecisionInv, RejectPatch, BuildRuntime, ApplyPatch, At, InHand
<1>1. /\ i \in Items /\ mem[i].status # "absent"
      /\ op[o].pc = "patch" => Kind[i] = "patch"
      /\ op[o].answer = "approved" => i \in approved
      /\ op[o].pc \in {"apply", "mark"} => op[o].answer = "approved"
      /\ Clear(policy) /\ \A q \in Operators : Clear(learned[q])
      /\ \A w \in written : /\ w[1] \in approved
                            /\ Kind[w[1]] \in {"skill", "sop"} => w[2] = "clean"
  BY <1>0, InHandFacts
<1>2. CASE RejectPatch(o)
  <2>1. /\ op[o].pc = "patch" /\ Sets(i, "rejected") /\ Goto(o, "append")
        /\ UNCHANGED <<disk, torn, policy, written, sop, shape, draft, learned, approved,
                       requested, restarts, tears, edits>>
    BY <1>2 DEF RejectPatch, At, effects, bounds
  <2>2. /\ mem' \in [Items -> Proposals] /\ mem'[i].status = "rejected"
        /\ mem'[i].text = mem[i].text /\ \A j \in Items \ {i} : mem'[j] = mem[j]
    BY <1>1, <2>1, SetsFacts
  <2>3. /\ op'[o].pc = "append" /\ op'[o].item = i /\ op'[o].answer = op[o].answer
        /\ \A q \in Operators \ {o} : op'[q] = op[q]
    BY <2>1, GotoFacts DEF Pc
  <2>4. Types'
    BY <1>0, <2>1, <2>2, GotoFacts DEF Types, TypeOK, StoreTypes, Pc, Proposals
  <2>5. InHand(o)' /\ UNCHANGED <<disk, torn>>
    BY <2>1, <2>3 DEF InHand
  <2> HIDE DEF i
  <2> QED BY <1>0, <1>1, <2>1, <2>2, <2>3, <2>4, <2>5, RequestStep DEF i
<1>3. CASE BuildRuntime(o)
  <2>1. /\ op[o].pc = "patch" /\ op[o].answer = "approved" /\ Goto(o, "apply")
        /\ learned' = [learned EXCEPT ![o] = policy]
        /\ UNCHANGED <<mem, disk, torn, policy, written, sop, shape, draft, approved,
                       requested, restarts, tears, edits>>
    BY <1>3 DEF BuildRuntime, At, queue, effects, bounds
  <2>2. /\ learned'[o] = policy
        /\ \A q \in Operators \ {o} : learned'[q] = learned[q]
    BY <1>0, <2>1 DEF Types, StoreTypes
  <2>3. /\ op'[o].pc = "apply" /\ op'[o].item = i /\ op'[o].answer = op[o].answer
        /\ \A q \in Operators \ {o} : op'[q] = op[q]
    BY <2>1, GotoFacts DEF Pc
  <2>4. Types'
    BY <1>0, <2>1, GotoFacts DEF Types, TypeOK, StoreTypes, Pc
  <2>5. InHand(o)' /\ UNCHANGED <<disk, torn>>
    BY <2>1, <2>3 DEF InHand
  <2> QED BY <1>0, <1>1, <2>1, <2>2, <2>3, <2>4, <2>5, RequestStep
<1>4. CASE ApplyPatch(o)
  <2>1. /\ op[o].pc = "apply" /\ Kind[i] = "patch"
        /\ UNCHANGED <<mem, disk, torn, written, sop, shape, draft, learned, approved,
                       requested, restarts, tears, edits>>
        /\ \/ UNCHANGED policy /\ op' = [op EXCEPT ![o].pc = "mark", ![o].result = "approved"]
           \/ /\ Key[i] \notin HardKeys /\ policy' = learned[o] \cup {i}
              /\ op' = [op EXCEPT ![o].pc = "mark", ![o].result = "applied"]
    BY <1>4 DEF ApplyPatch, WeakensHardSafety, At, queue, bounds
  <2>2. Clear(policy') /\ policy' \subseteq Items
    BY <1>0, <1>1, <2>1 DEF Clear, Types, TypeOK
  <2>3. /\ op'[o].pc = "mark" /\ op'[o].item = i /\ op'[o].answer = op[o].answer
        /\ op'[o].result # None
        /\ \A q \in Operators \ {o} : op'[q] = op[q]
    BY <1>0, <2>1 DEF Types, StoreTypes, None
  <2>4. Types'
    BY <1>0, <2>1, <2>2, GotoFacts DEF Types, TypeOK, StoreTypes, Pc
  <2>5. InHand(o)' /\ UNCHANGED <<disk, torn>>
    BY <2>1, <2>3 DEF InHand
  <2> QED BY <1>0, <1>1, <2>1, <2>2, <2>3, <2>4, <2>5, RequestStep
<1> QED BY <1>2, <1>3, <1>4

\* The steps of curator_decide: the second scan, the decision and its effect.
LEMMA CuratorSteps ==
    ASSUME DecisionInv, NEW o \in Operators,
           Layer2Gate(o) \/ DecideProposal(o) \/ ApplyProposal(o)
    PROVE  DecisionInv'
<1> DEFINE i == op[o].item
<1>0. Types /\ InHand(o)
  BY DEF DecisionInv, Layer2Gate, DecideProposal, ApplyProposal, At, InHand
<1>1. /\ i \in Items /\ mem[i].status # "absent" /\ mem[i] \in Proposals
      /\ op[o].answer \in {None, "approved", "rejected"}
      /\ op[o].answer = "approved" => i \in approved
      /\ op[o].pc \in {"apply", "mark"} => op[o].answer = "approved"
      /\ Clear(policy) /\ \A q \in Operators : Clear(learned[q])
      /\ \A w \in written : /\ w[1] \in approved
                            /\ Kind[w[1]] \in {"skill", "sop"} => w[2] = "clean"
      /\ op[o].pc \in {"decide", "apply"} /\ op[o].answer = "approved"
         /\ Kind[i] \in {"skill", "sop"} => mem[i].text = "clean"
  BY <1>0, InHandFacts
<1>2. CASE Layer2Gate(o)
  <2> DEFINE scanned == op[o].answer = "approved" /\ Kind[i] \in {"skill", "sop"}
             text == ScanText(mem[i].text)
             rec == [mem[i] EXCEPT !.status = "rejected"]
  <2>1. /\ op[o].pc = "gate"
        /\ UNCHANGED <<policy, written, sop, shape, draft, learned, approved, requested,
                       restarts, tears, edits>>
        /\ \/ /\ scanned /\ text = None /\ mem' = [mem EXCEPT ![i] = rec]
              /\ Append(i, rec) /\ op' = [op EXCEPT ![o] = Idle]
           \/ /\ ~(scanned /\ text = None)
              /\ mem' = IF scanned THEN [mem EXCEPT ![i].text = text] ELSE mem
              /\ UNCHANGED <<disk, torn>> /\ Goto(o, "decide")
    BY <1>2 DEF Layer2Gate, At, effects, bounds
  <2>2. /\ text \in {None, "clean"}
        /\ mem[i].text = "clean" => text = "clean"
        /\ mem[i].text \in Texts
    BY <1>1 DEF ScanText, None, Proposals
  <2>3. CASE scanned /\ text = None
    <3>1. /\ rec \in Proposals /\ rec.status = "rejected" /\ rec.text = mem[i].text
      BY <1>1 DEF Proposals
    <3>2. /\ mem' = [mem EXCEPT ![i] = rec] /\ Append(i, rec)
          /\ op' = [op EXCEPT ![o] = Idle]
      BY <2>1, <2>3
    <3> HIDE DEF rec, i
    <3>3. /\ mem'[i] = rec /\ \A j \in Items \ {i} : mem'[j] = mem[j]
          /\ op'[o] = Idle /\ \A q \in Operators \ {o} : op'[q] = op[q]
          /\ Idle.pc = "idle"
      BY <1>0, <1>1, <3>2 DEF Types, StoreTypes, Idle
    <3>4. Types'
      BY <1>0, <1>1, <2>1, <3>1, <3>2 DEF Types, TypeOK, StoreTypes, Pc, Proposals, Append, Idle
    <3>5. ~InHand(o)' /\ Append(i, mem'[i])
      BY <3>2, <3>3 DEF InHand
    <3> QED BY <1>0, <1>1, <2>1, <3>1, <3>3, <3>4, <3>5, RequestStep DEF i
  <2>4. CASE ~(scanned /\ text = None)
    <3>1. /\ mem' = IF scanned THEN [mem EXCEPT ![i].text = text] ELSE mem
          /\ UNCHANGED <<disk, torn>> /\ Goto(o, "decide")
      BY <2>1, <2>4
    <3>2. scanned => text = "clean"
      BY <2>2, <2>4
    <3>3. /\ mem' \in [Items -> Proposals] /\ mem'[i].status = mem[i].status
          /\ \A j \in Items \ {i} : mem'[j] = mem[j]
          /\ mem[i].text = "clean" => mem'[i].text = "clean"
          /\ scanned => mem'[i].text = "clean"
      <4> HIDE DEF scanned, text, i
      <4>1. CASE scanned
        <5>1. mem' = [mem EXCEPT ![i].text = "clean"] /\ "clean" \in Texts
          BY <3>1, <3>2, <4>1 DEF Texts
        <5> QED BY <1>0, <1>1, <5>1 DEF Types, StoreTypes, Proposals
      <4>2. CASE ~scanned
        BY <1>0, <3>1, <4>2 DEF Types, StoreTypes
      <4> QED BY <4>1, <4>2
    <3>4. /\ op'[o].pc = "decide" /\ op'[o].item = i /\ op'[o].answer = op[o].answer
          /\ \A q \in Operators \ {o} : op'[q] = op[q]
      BY <3>1, GotoFacts DEF Pc
    <3>5. Types'
      BY <1>0, <2>1, <3>1, <3>3, GotoFacts DEF Types, TypeOK, StoreTypes, Pc, Proposals
    <3>6. InHand(o)'
      BY <3>4 DEF InHand
    <3> QED BY <1>0, <1>1, <2>1, <3>1, <3>3, <3>4, <3>5, <3>6, RequestStep
  <2> QED BY <2>3, <2>4
<1>3. CASE DecideProposal(o)
  <2>1. /\ op[o].pc = "decide"
        /\ UNCHANGED <<disk, torn, policy, written, sop, shape, draft, learned, approved,
                       requested, restarts, tears, edits>>
        /\ \/ UNCHANGED mem /\ Goto(o, "append")
           \/ Sets(i, "rejected") /\ Goto(o, "append")
           \/ op[o].answer = "approved" /\ UNCHANGED mem /\ Goto(o, "apply")
    BY <1>3 DEF DecideProposal, At, effects, bounds
  <2>2. /\ mem' \in [Items -> Proposals] /\ \A j \in Items \ {i} : mem'[j] = mem[j]
        /\ mem'[i].text = mem[i].text
        /\ mem'[i].status \in {mem[i].status, "rejected"}
    <3>1. CASE UNCHANGED mem
      BY <1>0, <3>1 DEF Types, StoreTypes
    <3>2. CASE Sets(i, "rejected")
      BY <1>1, <3>2, SetsFacts
    <3> QED BY <2>1, <3>1, <3>2
  <2>3. /\ op'[o].pc \in {"append", "apply"}
        /\ op'[o].pc = "apply" => op[o].answer = "approved"
        /\ op'[o].item = i /\ op'[o].answer = op[o].answer
        /\ \A q \in Operators \ {o} : op'[q] = op[q]
    BY <2>1, GotoFacts DEF Pc
  <2>4. Types'
    BY <1>0, <2>1, <2>2, GotoFacts DEF Types, TypeOK, StoreTypes, Pc, Proposals
  <2>5. InHand(o)'
    BY <2>3 DEF InHand
  <2> QED BY <1>0, <1>1, <2>1, <2>2, <2>3, <2>4, <2>5, RequestStep
<1>4. CASE ApplyProposal(o)
  <2>1. /\ op[o].pc = "apply"
        /\ UNCHANGED <<mem, disk, torn, policy, shape, draft, learned, approved, requested,
                       restarts, tears, edits>>
        /\ \/ /\ written' = written \cup {<<i, mem[i].text>>}
              /\ sop' = IF Kind[i] = "sop" THEN [sop EXCEPT ![Key[i]] = mem[i].shape] ELSE sop
              /\ op' = [op EXCEPT ![o].pc = "mark", ![o].result = "applied"]
           \/ /\ UNCHANGED <<written, sop>>
              /\ op' = [op EXCEPT ![o].pc = "mark", ![o].result = "approved"]
    BY <1>4 DEF ApplyProposal, At, queue, bounds
  <2>2. /\ <<i, mem[i].text>> \in Items \X Texts
        /\ <<i, mem[i].text>>[1] = i /\ <<i, mem[i].text>>[2] = mem[i].text
        /\ mem[i].shape \in Nat /\ Key[i] \in Keys
    BY <1>1 DEF Proposals, Keys
  <2>3. /\ written' \subseteq Items \X Texts /\ sop' \in [Keys -> Nat]
        /\ \A w \in written' : w \in written \/ w = <<i, mem[i].text>>
    BY <1>0, <2>1, <2>2 DEF Types, TypeOK, StoreTypes
  <2>4. \A w \in written' : /\ w[1] \in approved
                            /\ Kind[w[1]] \in {"skill", "sop"} => w[2] = "clean"
    BY <1>1, <2>1, <2>2, <2>3
  <2>5. /\ op'[o].pc = "mark" /\ op'[o].item = i /\ op'[o].answer = op[o].answer
        /\ op'[o].result # None
        /\ \A q \in Operators \ {o} : op'[q] = op[q]
    BY <1>0, <2>1 DEF Types, StoreTypes, None
  <2>6. Types'
    BY <1>0, <2>1, <2>3, GotoFacts DEF Types, TypeOK, StoreTypes, Pc
  <2>7. InHand(o)'
    BY <2>5 DEF InHand
  <2> QED BY <1>0, <1>1, <2>1, <2>4, <2>5, <2>6, <2>7, RequestStep
<1> QED BY <1>2, <1>3, <1>4

\* The end of both endpoints: the status is set and the record appended.
LEMMA ClosingSteps ==
    ASSUME DecisionInv, NEW o \in Operators, Mark(o) \/ Persist(o)
    PROVE  DecisionInv'
<1> DEFINE i == op[o].item
<1>0. Types /\ InHand(o)
  BY DEF DecisionInv, Mark, Persist, At, InHand
<1>1. /\ i \in Items /\ mem[i].status # "absent" /\ mem[i] \in Proposals
      /\ op[o].result \in {None, "approved", "applied"}
      /\ op[o].pc = "mark" => op[o].result # None
      /\ Clear(policy) /\ \A q \in Operators : Clear(learned[q])
      /\ \A w \in written : /\ w[1] \in approved
                            /\ Kind[w[1]] \in {"skill", "sop"} => w[2] = "clean"
  BY <1>0, InHandFacts
<1>2. CASE Mark(o)
  <2>1. /\ op[o].pc = "mark" /\ Sets(i, op[o].result) /\ Goto(o, "append")
        /\ learned' = [learned EXCEPT ![o] = {}]
        /\ UNCHANGED <<disk, torn, policy, written, sop, shape, draft, approved, requested,
                       restarts, tears, edits>>
    BY <1>2 DEF Mark, At, effects, bounds
  <2>2. /\ mem' \in [Items -> Proposals] /\ mem'[i].status \in {"approved", "applied"}
        /\ mem'[i].text = mem[i].text /\ \A j \in Items \ {i} : mem'[j] = mem[j]
    BY <1>1, <2>1, SetsFacts
  <2>3. /\ op'[o].pc = "append" /\ op'[o].item = i /\ op'[o].answer = op[o].answer
        /\ \A q \in Operators \ {o} : op'[q] = op[q]
    BY <2>1, GotoFacts DEF Pc
  <2>4. /\ learned' \in [Operators -> SUBSET Items] /\ Clear(learned'[o])
        /\ \A q \in Operators \ {o} : learned'[q] = learned[q]
    BY <1>0, <2>1 DEF Types, StoreTypes, Clear
  <2>5. Types'
    BY <1>0, <2>1, <2>2, <2>4, GotoFacts DEF Types, TypeOK, StoreTypes, Pc, Proposals
  <2>6. InHand(o)'
    BY <2>3 DEF InHand
  <2> QED BY <1>0, <1>1, <2>1, <2>2, <2>3, <2>4, <2>5, <2>6, RequestStep
<1>3. CASE Persist(o)
  <2>1. /\ op[o].pc = "append" /\ Append(i, mem[i]) /\ op' = [op EXCEPT ![o] = Idle]
        /\ UNCHANGED <<mem, policy, written, sop, shape, draft, learned, approved, requested,
                       restarts, tears, edits>>
    BY <1>3 DEF Persist, At, effects, bounds
  <2>2. /\ op'[o].pc = "idle" /\ \A q \in Operators \ {o} : op'[q] = op[q]
    BY <1>0, <2>1 DEF Types, StoreTypes, Idle
  <2>3. Types'
    BY <1>0, <1>1, <2>1 DEF Types, TypeOK, StoreTypes, Pc, Proposals, Append, Idle
  <2>4. ~InHand(o)' /\ Append(i, mem'[i])
    BY <2>1, <2>2 DEF InHand
  <2> QED BY <1>0, <1>1, <2>1, <2>2, <2>3, <2>4, RequestStep
<1> QED BY <1>2, <1>3

-------------------------------------------------------------------------------
\* A restart makes the files the memory, and pays for every line it tears.
LEMMA RestartStep == DecisionInv /\ Restart => DecisionInv'
<1> SUFFICES ASSUME DecisionInv, Restart PROVE DecisionInv'
  OBVIOUS
<1> USE DEF DecisionInv
<1>1. PICK fs \in SUBSET {File(op[o].item) : o \in {q \in Operators : At(q, "append")}} :
          torn' = torn \cup fs /\ tears' = tears + Cardinality(fs)
  BY DEF Restart
<1>2. /\ restarts' = restarts + 1 /\ mem' = disk
      /\ op' = [o \in Operators |-> Idle] /\ draft' = [t \in Threads |-> NoDraft]
      /\ learned' = [o \in Operators |-> {}]
      /\ UNCHANGED <<disk, policy, written, sop, shape, approved, requested, edits>>
  BY DEF Restart, effects
<1>3. fs \in SUBSET Files
  BY DEF File, Files
<1>4. torn \in SUBSET Files /\ restarts \in Nat /\ tears \in Nat
  BY DEF Types, TypeOK, StoreTypes, Files
<1>5. /\ IsFiniteSet(fs) /\ IsFiniteSet(torn)
      /\ Cardinality(fs) \in Nat /\ Cardinality(torn) \in Nat
  BY <1>3, <1>4, FilesFinite, FS_CardinalityType
<1>6. \A o \in Operators : op'[o].pc = "idle"
  BY <1>2 DEF Idle
<1>7. Types'
  <2>1. /\ Idle \in [pc : Pc, item : Items \cup {None}, answer : {None, "approved", "rejected"},
                     result : {None, "approved", "applied"}]
        /\ NoDraft \in [item : Items \cup {None}, text : Texts, shape : Nat]
    BY DEF Idle, NoDraft, Pc, Texts
  <2> QED BY <1>1, <1>2, <1>3, <1>4, <1>5, <2>1 DEF Types, TypeOK, StoreTypes, Proposals, Files
<1>8. RequestsHoldProposals' /\ DraftsAreNew'
  BY <1>2, <1>6 DEF RequestsHoldProposals, InHand, DraftsAreNew
<1>9. EffectsAreClear'
  BY <1>2, <1>6 DEF EffectsAreClear, Clear
<1>10. OnePendingSopWhileUp'
  BY <1>2, <1>4 DEF OnePendingSopWhileUp
<1>11. TearsCoverLosses'
  <2>1. Stale' = {}
    BY <1>2 DEF Stale
  <2>2. /\ IsFiniteSet(Stale') /\ Cardinality(Stale') = 0
        /\ IsFiniteSet(Stale) /\ Cardinality(Stale) \in Nat
    BY <2>1, FS_EmptySet, FS_CardinalityType DEF TearsCoverLosses
  <2>3. /\ Cardinality(torn \cup fs)
             = Cardinality(torn) + Cardinality(fs) - Cardinality(torn \cap fs)
        /\ Cardinality(torn \cap fs) \in Nat
    BY <1>5, FS_Union, FS_Intersection, FS_CardinalityType
  <2>4. Cardinality(torn) <= tears
    BY <1>4, <1>5, <2>2 DEF TearsCoverLosses
  <2>5. Cardinality(torn') <= tears' /\ Cardinality(torn') \in Nat
    BY <1>1, <1>4, <1>5, <2>3, <2>4, FS_Union, FS_CardinalityType
  <2> QED BY <2>2, <2>5 DEF TearsCoverLosses
<1> QED BY <1>7, <1>8, <1>9, <1>10, <1>11

\* An edited card moves a shape, and nothing else.
LEMMA EditStep ==
    ASSUME DecisionInv, NEW k \in Keys, EditWorkflow(k)
    PROVE  DecisionInv'
<1> USE DEF DecisionInv
<1>1. /\ shape' = [shape EXCEPT ![k] = @ + 1]
      /\ UNCHANGED <<mem, disk, torn, policy, written, sop, draft, op, learned, approved,
                     requested, restarts, tears>>
  BY DEF EditWorkflow, queue, effects, requests
<1>2. Types'
  BY <1>1 DEF Types, TypeOK, StoreTypes
<1>3. RequestsHoldProposals' /\ DraftsAreNew' /\ EffectsAreClear' /\ OnePendingSopWhileUp'
  BY <1>1 DEF RequestsHoldProposals, InHand, DraftsAreNew, EffectsAreClear, Clear,
     OnePendingSopWhileUp
<1>4. TearsCoverLosses'
  BY <1>1 DEF TearsCoverLosses, Stale, InHand
<1> QED BY <1>2, <1>3, <1>4

\* The initial states satisfy the invariant.
LEMMA InitKeepsInv == Init => DecisionInv
<1> SUFFICES ASSUME Init PROVE DecisionInv
  OBVIOUS
<1>1. Absent \in Proposals /\ NoDraft \in [item : Items \cup {None}, text : Texts, shape : Nat]
  BY DEF Absent, Proposals, NoDraft, Texts
<1>2. Idle \in [pc : Pc, item : Items \cup {None}, answer : {None, "approved", "rejected"},
                result : {None, "approved", "applied"}] /\ Idle.pc = "idle"
  BY DEF Idle, Pc
<1>3. mem \in [Items -> Proposals]
  BY <1>1 DEF Init, Proposals, Open
<1>4. Types
  BY <1>1, <1>2, <1>3 DEF Init, Types, TypeOK, StoreTypes, Proposals
<1>5. RequestsHoldProposals /\ DraftsAreNew /\ EffectsAreClear
  BY <1>2 DEF Init, RequestsHoldProposals, InHand, DraftsAreNew, EffectsAreClear, Clear
<1>6. OnePendingSopWhileUp
  BY DEF Init, OnePendingSopWhileUp, Absent
<1>7. TearsCoverLosses
  <2>1. Stale = {} /\ torn = {} /\ tears = 0
    BY DEF Init, Stale
  <2> QED BY <2>1, FS_EmptySet DEF TearsCoverLosses
<1> QED BY <1>4, <1>5, <1>6, <1>7 DEF DecisionInv

\* Every step keeps it.
LEMMA StepKeepsInv == DecisionInv /\ [Next]_vars => DecisionInv'
<1> SUFFICES ASSUME DecisionInv, [Next]_vars PROVE DecisionInv'
  OBVIOUS
<1>1. ASSUME NEW t \in Threads, NEW i \in Items,
             \/ Evaluate(t, i) \/ RunSkillDistiller(t, i)
             \/ RunCuration(t, i) \/ ProposeWorkflowSop(t, i)
      PROVE  DecisionInv'
  <2>1. PICK text \in Texts : Drafts(t, i, text)
    BY <1>1 DEF Evaluate, RunSkillDistiller, RunCuration, ProposeWorkflowSop, MaybePropose,
       ScanText, Texts, None
  <2> QED BY <2>1, DraftStep
<1>2. ASSUME NEW t \in Threads, Register(t) PROVE DecisionInv'
  BY <1>2, RegisterStep
<1>3. ASSUME NEW o \in Operators, NEW i \in Items, NEW answer \in {"approved", "rejected"},
             TakeUp(o, i, answer)
      PROVE  DecisionInv'
  BY <1>3, TakeUpStep
<1>4. ASSUME NEW o \in Operators,
             \/ RejectPatch(o) \/ BuildRuntime(o) \/ ApplyPatch(o)
             \/ Layer2Gate(o) \/ DecideProposal(o) \/ ApplyProposal(o)
             \/ Mark(o) \/ Persist(o)
      PROVE  DecisionInv'
  BY <1>4, PatchSteps, CuratorSteps, ClosingSteps
<1>5. CASE Restart
  BY <1>5, RestartStep
<1>6. ASSUME NEW i \in Items, EditWorkflow(Key[i]) PROVE DecisionInv'
  BY <1>6, EditStep DEF Keys
<1>7. CASE UNCHANGED vars
  BY <1>7 DEF vars, queue, effects, requests, bounds, DecisionInv, Types, TypeOK, StoreTypes,
     RequestsHoldProposals, InHand, DraftsAreNew, EffectsAreClear, Clear,
     OnePendingSopWhileUp, TearsCoverLosses, Stale
<1> QED BY <1>1, <1>2, <1>3, <1>4, <1>5, <1>6, <1>7 DEF Next

\* The invariant holds throughout.
THEOREM SpecKeepsInv == Spec => []DecisionInv
<1>1. Init => DecisionInv
  BY InitKeepsInv
<1>2. DecisionInv /\ [Next]_vars => DecisionInv'
  BY StepKeepsInv
<1> QED BY <1>1, <1>2, PTL DEF Spec

\* Every variable keeps its type.
THEOREM TypeCorrect == Spec => []TypeOK
<1>1. DecisionInv => TypeOK
  BY DEF DecisionInv, Types
<1> QED BY <1>1, SpecKeepsInv, PTL

\* Nothing takes effect that no operator approved, and no patch in force touches the
\* hard safety: the copy of the policy a request works on may be stale, but it held
\* approved patches only.
THEOREM NothingUnasked == Spec => []EffectsWereApproved
<1>1. DecisionInv => EffectsWereApproved
  BY DEF DecisionInv, EffectsAreClear, Clear, EffectsWereApproved
<1> QED BY <1>1, SpecKeepsInv, PTL

\* The second scan stands between every old draft and the skill it becomes, although
\* another request may have the proposal in hand at the same time.
THEOREM SkillsAreScanned == Spec => []SkillTextIsScanned
<1>1. DecisionInv => SkillTextIsScanned
  BY DEF DecisionInv, EffectsAreClear, SkillTextIsScanned
<1> QED BY <1>1, SpecKeepsInv, PTL

\* Runs that end one after the other leave one undecided SOP per workflow.
THEOREM OnePendingSop == Spec => []OnePendingSopWhileUp
<1>1. DecisionInv => OnePendingSopWhileUp
  BY DEF DecisionInv
<1> QED BY <1>1, SpecKeepsInv, PTL

\* Once every request has returned, a proposal's record is what memory says, but for
\* one record for each line that a crash left without an end.
THEOREM DecisionsSurvive == Spec => []ReturnedDecisionsSurvive
<1>1. DecisionInv => ReturnedDecisionsSurvive
  <2> SUFFICES ASSUME DecisionInv, \A o \in Operators : At(o, "idle")
               PROVE  Cardinality({i \in Items : disk[i] # mem[i]}) <= tears
    BY DEF ReturnedDecisionsSurvive
  <2>1. Stale = {i \in Items : disk[i] # mem[i]}
    BY DEF Stale, InHand, At
  <2>2. /\ IsFiniteSet(Stale) /\ Cardinality(Stale) + Cardinality(torn) <= tears
        /\ tears \in Nat /\ torn \in SUBSET Files
    BY DEF DecisionInv, TearsCoverLosses, Types, TypeOK, StoreTypes, Files
  <2>3. Cardinality(Stale) \in Nat /\ Cardinality(torn) \in Nat
    BY <2>2, FilesFinite, FS_CardinalityType
  <2> QED BY <2>1, <2>2, <2>3
<1> QED BY <1>1, SpecKeepsInv, PTL

-------------------------------------------------------------------------------
(***************************************************************************)
(* The skill index and the notebook.                                        *)
(***************************************************************************)
Phases == {"idle", "append", "running", "done", "reflect", "apply", "write"}
Records == [status : {"absent", "active", "stale", "superseded", "archived"},
            used : Nat, won : Nat, recent : BOOLEAN, by : Skills \cup {0}]
Copies == [skill : Skills \cup {0}, rec : Records,
           change : {"none", "use", "win", "stale", "superseded", "archived"}]
IndexTypes ==
    /\ index \in [Skills -> Records]
    /\ proposals \in SUBSET [kind : {"superseded", "archived"}, skill : Skills, by : Skills \cup {0}]
    /\ copy \in [Workers -> Copies]
    /\ used \in [Workers -> SUBSET Skills]
    /\ uses \in [Skills -> Nat] /\ wins \in [Skills -> Nat] /\ asked \in SUBSET Skills
BookTypes ==
    /\ pc \in [Workers -> Phases]
    /\ notes \in SUBSET Notes /\ page \in [Workers -> SUBSET Notes]
    /\ updates \in [Workers -> SUBSET Updates] /\ edit \in [Workers -> Updates \cup {<<>>}]
    /\ delta \in [Workers -> Nat] /\ runs \in Nat

\* What record r says of skill s is earned, given what was really used (u), really
\* helped (v), asked for (A) and what exists (E): it counts nothing that did not
\* happen, it is out of retrieval only because somebody asked, and superseded only
\* by a newer skill of its shape.
Earned(s, r, u, v, A, E) ==
    /\ r.status # "absent"
    /\ r.used <= u[s] /\ r.won <= v[s]
    /\ r.status \in {"superseded", "archived"} => s \in A
    /\ r.status = "superseded" => r.by > s /\ r.by \in E /\ Shape[r.by] = Shape[s]
EarnedNow(s, r) == Earned(s, r, uses, wins, asked, Existing)
IndexIsEarned == \A s \in Existing : EarnedNow(s, index[s])
CopiesAreEarned ==
    \A w \in Workers : pc[w] = "append" =>
        /\ copy[w].change # "none" /\ copy[w].skill \in Existing
        /\ EarnedNow(copy[w].skill, Changed(copy[w]))
BriefsExist == \A w \in Workers : used[w] \subseteq Existing
ProposalsAreNewer ==
    \A p \in proposals :
        /\ p.skill \in Existing
        /\ p.kind = "superseded" => /\ p.by > p.skill /\ p.by \in Existing
                                    /\ Shape[p.by] = Shape[p.skill]
IndexInv == IndexTypes /\ IndexIsEarned /\ CopiesAreEarned /\ BriefsExist /\ ProposalsAreNewer

\* Neither the notebook, nor a page read from it, nor an update on its way has
\* anything from beyond the boundary.
Beyond == Forbidden \cup CaseFacts
UpdatesKeepTheBoundary ==
    \A w \in Workers : /\ page[w] \cap Beyond = {}
                       /\ \A u \in updates[w] : u[2] \notin Beyond
                       /\ pc[w] = "write" => edit[w] \in Updates /\ edit[w][2] \notin Beyond
BookInv == BookTypes /\ NotesKeepTheBoundary /\ UpdatesKeepTheBoundary
StoresInv == IndexInv /\ BookInv

\* A skill that exists keeps its number.
LEMMA SkillFacts == Skills \subseteq Nat /\ 0 \notin Skills /\ NoRecord \in Records
BY SizesAssumption DEF Skills, NoRecord, Records

\* A record changed is a record, and one that stands out from no record.
LEMMA ChangedFacts ==
    ASSUME NEW c \in Copies, c.change # "none"
    PROVE  /\ Changed(c) \in Records /\ Changed(c).recent = TRUE /\ Changed(c).by = c.rec.by
           /\ Changed(c).used = IF c.change = "use" THEN c.rec.used + 1 ELSE c.rec.used
           /\ Changed(c).won = IF c.change = "win" THEN c.rec.won + 1 ELSE c.rec.won
           /\ Changed(c).status = IF c.change \in {"use", "win"} THEN c.rec.status ELSE c.change
<1>1. CASE c.change = "use"
  <2>1. Changed(c) = [c.rec EXCEPT !.used = @ + 1, !.recent = TRUE]
    BY <1>1 DEF Changed
  <2>2. c.rec \in Records
    BY DEF Copies
  <2>3. c.rec.used + 1 \in Nat
    BY <2>2 DEF Records
  <2>4. Changed(c) \in Records
    BY <2>1, <2>2, <2>3 DEF Records
  <2>5. Changed(c).used = c.rec.used + 1 /\ Changed(c).recent = TRUE /\ Changed(c).by = c.rec.by
    BY <2>1, <2>2 DEF Records
  <2>6. Changed(c).won = c.rec.won /\ Changed(c).status = c.rec.status
    BY <2>1, <2>2 DEF Records
  <2> QED BY <1>1, <2>4, <2>5, <2>6
<1>2. CASE c.change = "win"
  <2>1. Changed(c) = [c.rec EXCEPT !.won = @ + 1, !.recent = TRUE]
    BY <1>2 DEF Changed
  <2>2. c.rec \in Records
    BY DEF Copies
  <2>3. c.rec.won + 1 \in Nat
    BY <2>2 DEF Records
  <2>4. Changed(c) \in Records
    BY <2>1, <2>2, <2>3 DEF Records
  <2>5. Changed(c).won = c.rec.won + 1 /\ Changed(c).recent = TRUE /\ Changed(c).by = c.rec.by
    BY <2>1, <2>2 DEF Records
  <2>6. Changed(c).used = c.rec.used /\ Changed(c).status = c.rec.status
    BY <2>1, <2>2 DEF Records
  <2> QED BY <1>2, <2>4, <2>5, <2>6
<1>3. CASE c.change \notin {"use", "win"}
  <2>1. Changed(c) = [c.rec EXCEPT !.status = c.change, !.recent = TRUE]
    BY <1>3 DEF Changed
  <2> QED BY <1>3, <2>1 DEF Copies, Records
<1> QED BY <1>1, <1>2, <1>3

\* What was earned stays earned: nothing is forgotten that happened.
LEMMA EarnedStands ==
    ASSUME NEW s \in Skills, NEW r \in Records, NEW A, NEW B, NEW E, NEW F,
           NEW u \in [Skills -> Nat], NEW v \in [Skills -> Nat],
           NEW x \in [Skills -> Nat], NEW y \in [Skills -> Nat],
           Earned(s, r, u, v, A, E), A \subseteq B, E \subseteq F,
           u[s] <= x[s], v[s] <= y[s]
    PROVE  Earned(s, r, x, y, B, F)
<1>1. r.used \in Nat /\ r.won \in Nat /\ u[s] \in Nat /\ v[s] \in Nat /\ x[s] \in Nat /\ y[s] \in Nat
  BY DEF Records
<1>2. r.used <= x[s] /\ r.won <= y[s]
  BY <1>1 DEF Earned
<1> QED BY <1>2 DEF Earned

\* The truth only grows.
Grown == /\ asked \subseteq asked'
         /\ \A s \in Skills : uses[s] <= uses'[s] /\ wins[s] <= wins'[s]

\* What the index says is earned after a step that leaves the index alone.
LEMMA IndexStands ==
    ASSUME IndexInv, UNCHANGED index, IndexTypes', Grown
    PROVE  /\ Existing' = Existing /\ Existing \subseteq Skills
           /\ IndexIsEarned'
           /\ \A s \in Existing : Earned(s, index[s], uses', wins', asked', Existing)
<1>1. Existing' = Existing /\ Existing \subseteq Skills
  BY DEF Existing
<1>2. ASSUME NEW s \in Existing PROVE Earned(s, index[s], uses', wins', asked', Existing)
  <2>1. EarnedNow(s, index[s]) /\ index[s] \in Records /\ s \in Skills
    BY <1>1 DEF IndexInv, IndexIsEarned, IndexTypes
  <2>2. /\ uses \in [Skills -> Nat] /\ uses' \in [Skills -> Nat]
        /\ wins \in [Skills -> Nat] /\ wins' \in [Skills -> Nat]
    BY DEF IndexInv, IndexTypes
  <2> QED BY <2>1, <2>2, EarnedStands DEF EarnedNow, Grown
<1> QED BY <1>1, <1>2 DEF IndexIsEarned, EarnedNow

\* A step that leaves the index alone, and gives at most one run a copy, a copy
\* whose change is earned.
LEMMA CopyTaken ==
    ASSUME IndexInv, UNCHANGED index, IndexTypes', Grown, NEW w,
           \A v \in Workers \ {w} : copy'[v] = copy[v] /\ (pc'[v] = "append" => pc[v] = "append"),
           w \in Workers /\ pc'[w] = "append" =>
               \/ pc[w] = "append" /\ copy'[w] = copy[w]
               \/ /\ copy'[w].change # "none" /\ copy'[w].skill \in Existing
                  /\ Earned(copy'[w].skill, Changed(copy'[w]), uses', wins', asked', Existing),
           \A v \in Workers : used'[v] \subseteq Existing,
           \A p \in proposals' : 
               \/ p \in proposals
               \/ /\ p.skill \in Existing
                  /\ p.kind = "superseded" => p.by > p.skill /\ p.by \in Existing /\ Shape[p.by] = Shape[p.skill]
    PROVE  IndexInv'
<1>1. Existing' = Existing /\ Existing \subseteq Skills /\ IndexIsEarned'
  BY IndexStands
<1>2. ASSUME NEW v \in Workers, pc[v] = "append", copy'[v] = copy[v]
      PROVE  /\ copy[v].change # "none" /\ copy[v].skill \in Existing
             /\ Earned(copy[v].skill, Changed(copy[v]), uses', wins', asked', Existing)
  <2>1. /\ copy[v].change # "none" /\ copy[v].skill \in Existing
        /\ EarnedNow(copy[v].skill, Changed(copy[v]))
    BY <1>2 DEF IndexInv, CopiesAreEarned
  <2>2. Changed(copy[v]) \in Records /\ copy[v].skill \in Skills
    BY <1>1, <2>1, ChangedFacts DEF IndexInv, IndexTypes
  <2>3. /\ uses \in [Skills -> Nat] /\ uses' \in [Skills -> Nat]
        /\ wins \in [Skills -> Nat] /\ wins' \in [Skills -> Nat]
    BY DEF IndexInv, IndexTypes
  <2> QED BY <2>1, <2>2, <2>3, EarnedStands DEF EarnedNow, Grown
<1>3. CopiesAreEarned'
  <2> SUFFICES ASSUME NEW v \in Workers, pc'[v] = "append"
               PROVE  /\ copy'[v].change # "none" /\ copy'[v].skill \in Existing
                      /\ Earned(copy'[v].skill, Changed(copy'[v]), uses', wins', asked', Existing)
    BY <1>1 DEF CopiesAreEarned, EarnedNow, Changed
  <2>1. CASE pc[v] = "append" /\ copy'[v] = copy[v]
    BY <1>2, <2>1
  <2>2. CASE ~(pc[v] = "append" /\ copy'[v] = copy[v])
    BY <2>2
  <2> QED BY <2>1, <2>2
<1>4. BriefsExist' /\ ProposalsAreNewer'
  BY <1>1 DEF BriefsExist, ProposalsAreNewer, IndexInv
<1> QED BY <1>1, <1>3, <1>4 DEF IndexInv

\* A step that writes an earned record to the index: what was earned stands.
LEMMA IndexWritten ==
    ASSUME IndexInv, IndexTypes', UNCHANGED <<truth, proposals, used>>,
           NEW s \in Skills, NEW r \in Records, index' = [index EXCEPT ![s] = r],
           Earned(s, r, uses, wins, asked, Existing \cup {s}),
           \A v \in Workers : pc'[v] = "append" => pc[v] = "append" /\ copy'[v] = copy[v]
    PROVE  IndexInv'
<1>1. index \in [Skills -> Records] /\ index'[s] = r /\ \A x \in Skills \ {s} : index'[x] = index[x]
  BY DEF IndexInv, IndexTypes
<1>2. r # NoRecord
  BY DEF Earned, NoRecord
<1>3. Existing' = Existing \cup {s} /\ Existing \subseteq Skills
  BY <1>1, <1>2 DEF Existing
<1>4. uses \in [Skills -> Nat] /\ wins \in [Skills -> Nat] /\ UNCHANGED <<uses, wins, asked>>
  BY DEF IndexInv, IndexTypes, truth
<1>5. ASSUME NEW x \in Skills, NEW q \in Records, EarnedNow(x, q)
      PROVE  Earned(x, q, uses, wins, asked, Existing \cup {s})
  <2>1. uses[x] <= uses[x] /\ wins[x] <= wins[x]
    BY <1>4
  <2> QED BY <1>4, <1>5, <2>1, EarnedStands DEF EarnedNow
<1>6. IndexIsEarned'
  <2> SUFFICES ASSUME NEW x \in Existing'
               PROVE  Earned(x, index'[x], uses, wins, asked, Existing \cup {s})
    BY <1>3, <1>4 DEF IndexIsEarned, EarnedNow
  <2>1. CASE x = s
    BY <1>1, <2>1
  <2>2. CASE x # s
    <3>1. x \in Existing /\ index'[x] = index[x] /\ index[x] \in Records /\ EarnedNow(x, index[x])
      BY <1>1, <1>3, <2>2 DEF IndexInv, IndexIsEarned
    <3> QED BY <1>3, <1>5, <3>1
  <2> QED BY <2>1, <2>2
<1>7. CopiesAreEarned'
  <2> SUFFICES ASSUME NEW v \in Workers, pc[v] = "append", copy'[v] = copy[v]
               PROVE  /\ copy[v].change # "none" /\ copy[v].skill \in Existing
                      /\ Earned(copy[v].skill, Changed(copy[v]), uses, wins, asked, Existing \cup {s})
    BY <1>3, <1>4 DEF CopiesAreEarned, EarnedNow, Changed
  <2>1. /\ copy[v].change # "none" /\ copy[v].skill \in Existing
        /\ EarnedNow(copy[v].skill, Changed(copy[v]))
    BY DEF IndexInv, CopiesAreEarned
  <2>2. Changed(copy[v]) \in Records
    BY <2>1, ChangedFacts DEF IndexInv, IndexTypes
  <2> QED BY <1>3, <1>5, <2>1, <2>2
<1>8. BriefsExist' /\ ProposalsAreNewer'
  BY <1>3 DEF BriefsExist, ProposalsAreNewer, IndexInv
<1> QED BY <1>6, <1>7, <1>8 DEF IndexInv

\* A new skill has done nothing yet.
LEMMA CreateSkillStep == ASSUME StoresInv, CreateSkill PROVE StoresInv'
<1>1. PICK s \in Skills \ Existing :
          index' = [index EXCEPT ![s] = [NoRecord EXCEPT !.status = "active", !.recent = TRUE]]
  BY DEF CreateSkill
<1> DEFINE r == [NoRecord EXCEPT !.status = "active", !.recent = TRUE]
<1>2. r \in Records /\ r.status = "active" /\ r.used = 0 /\ r.won = 0
  BY SkillFacts DEF NoRecord, Records
<1>3. IndexTypes /\ IndexInv /\ BookInv
  BY DEF StoresInv, IndexInv
<1>4. uses[s] \in Nat /\ wins[s] \in Nat
  BY <1>3 DEF IndexTypes
<1>5. Earned(s, r, uses, wins, asked, Existing \cup {s})
  BY <1>2, <1>4 DEF Earned
<1> HIDE DEF r
<1>6. UNCHANGED <<truth, proposals, used, copy, pc, book, runs>>
  BY DEF CreateSkill
<1>7. IndexTypes'
  BY <1>1, <1>2, <1>3, <1>6 DEF IndexTypes, truth, r
<1>8. IndexInv'
  BY <1>1, <1>2, <1>3, <1>5, <1>6, <1>7, IndexWritten DEF r
<1>9. BookInv'
  BY <1>3, <1>6 DEF BookInv, BookTypes, NotesKeepTheBoundary, UpdatesKeepTheBoundary, book
<1> QED BY <1>8, <1>9 DEF StoresInv

\* A step that leaves the notebook alone and starts no write.
LEMMA BookStands ==
    ASSUME BookInv, UNCHANGED book, runs' \in Nat, pc' \in [Workers -> Phases],
           \A w \in Workers : pc'[w] = "write" => pc[w] = "write"
    PROVE  BookInv'
BY DEF BookInv, BookTypes, NotesKeepTheBoundary, UpdatesKeepTheBoundary, book

\* Time passing changes nothing a record claims.
LEMMA LongUnusedStep == ASSUME StoresInv, NEW s \in Skills, LongUnused(s) PROVE StoresInv'
<1> DEFINE r == [index[s] EXCEPT !.recent = FALSE]
<1>1. IndexTypes /\ IndexInv /\ BookInv /\ s \in Existing /\ index[s] \in Records
  BY DEF StoresInv, IndexInv, LongUnused, IndexTypes
<1>2. r \in Records /\ r.status = index[s].status /\ r.used = index[s].used
      /\ r.won = index[s].won /\ r.by = index[s].by
  BY <1>1 DEF Records
<1>3. index' = [index EXCEPT ![s] = r]
  BY <1>1 DEF LongUnused, IndexTypes
<1>4. EarnedNow(s, index[s]) /\ Existing \cup {s} = Existing
  BY <1>1 DEF IndexInv, IndexIsEarned
<1>5. Earned(s, r, uses, wins, asked, Existing \cup {s})
  BY <1>2, <1>4 DEF Earned, EarnedNow
<1>6. UNCHANGED <<truth, proposals, used, copy, pc, book, runs>>
  BY DEF LongUnused
<1> HIDE DEF r
<1>7. IndexTypes'
  BY <1>1, <1>2, <1>3, <1>6 DEF IndexTypes, truth
<1>8. IndexInv'
  BY <1>1, <1>2, <1>3, <1>5, <1>6, <1>7, IndexWritten
<1>9. BookInv'
  BY <1>1, <1>6, BookStands DEF BookInv, BookTypes
<1> QED BY <1>8, <1>9 DEF StoresInv

\* An append writes what its copy claims, and that was earned.
LEMMA AppendIndexStep == ASSUME StoresInv, NEW w \in Workers, AppendIndex(w) PROVE StoresInv'
<1> DEFINE s == copy[w].skill
           r == Changed(copy[w])
<1>1. IndexTypes /\ IndexInv /\ BookInv /\ pc[w] = "append" /\ copy[w] \in Copies
  BY DEF StoresInv, IndexInv, AppendIndex, Stands, IndexTypes
<1>2. copy[w].change # "none" /\ s \in Existing /\ EarnedNow(s, r)
  BY <1>1 DEF IndexInv, CopiesAreEarned
<1>3. r \in Records /\ s \in Skills /\ Existing \cup {s} = Existing
  BY <1>1, <1>2, ChangedFacts DEF Existing
<1>4. index' = [index EXCEPT ![s] = r] /\ UNCHANGED <<proposals, book, used, truth, runs>>
  BY DEF AppendIndex
<1>5. Earned(s, r, uses, wins, asked, Existing \cup {s})
  BY <1>2, <1>3 DEF EarnedNow
<1>6. copy' = [copy EXCEPT ![w] = NoCopy] /\ NoCopy \in Copies
  BY SkillFacts DEF AppendIndex, NoCopy, Copies
<1>7. /\ pc' = [pc EXCEPT ![w] = pc'[w]] /\ pc'[w] \in {"running", "reflect", "idle"}
  <2>1. pc \in [Workers -> Phases]
    BY <1>1 DEF BookInv, BookTypes
  <2> QED BY <2>1 DEF AppendIndex, GoesTo
<1> HIDE DEF s, r
<1>8. IndexTypes'
  BY <1>1, <1>3, <1>4, <1>6 DEF IndexTypes, truth
<1>9. pc' \in [Workers -> Phases]
      /\ \A v \in Workers : /\ pc'[v] = "append" => pc[v] = "append" /\ v # w
                            /\ pc'[v] = "write" => pc[v] = "write"
  BY <1>1, <1>7 DEF BookInv, BookTypes, Phases
<1>10. \A v \in Workers : v # w => copy'[v] = copy[v]
  BY <1>1, <1>6 DEF IndexTypes
<1>11. IndexInv'
  BY <1>1, <1>3, <1>4, <1>5, <1>8, <1>9, <1>10, IndexWritten
<1>12. BookInv'
  BY <1>1, <1>4, <1>9, BookStands DEF BookInv, BookTypes
<1> QED BY <1>11, <1>12 DEF StoresInv

\* A run that takes a copy of a record, with an earned change, keeps the invariant.
LEMMA TakesCopy ==
    ASSUME StoresInv, NEW w \in Workers, NEW c \in Copies,
           copy' = [copy EXCEPT ![w] = c], pc' = [pc EXCEPT ![w] = "append"],
           UNCHANGED <<index, book>>, IndexTypes', Grown, runs' \in Nat,
           c.change # "none", c.skill \in Existing,
           Earned(c.skill, Changed(c), uses', wins', asked', Existing),
           \A v \in Workers : used'[v] \subseteq Existing, proposals' \subseteq proposals
    PROVE  StoresInv'
<1>1. IndexInv /\ BookInv /\ IndexTypes /\ BookTypes
  BY DEF StoresInv, IndexInv, BookInv
<1>2. copy'[w] = c /\ \A v \in Workers \ {w} : copy'[v] = copy[v] /\ pc'[v] = pc[v]
  BY <1>1 DEF IndexTypes, BookTypes
<1>3. IndexInv'
  BY <1>1, <1>2, CopyTaken
<1>4. pc' \in [Workers -> Phases] /\ \A v \in Workers : pc'[v] = "write" => pc[v] = "write"
  BY <1>1 DEF BookTypes, Phases
<1> QED BY <1>1, <1>3, <1>4, BookStands DEF StoresInv

\* The record of a skill that exists is a record, and it is earned.
LEMMA RecordIsEarned ==
    ASSUME StoresInv, NEW s \in Existing
    PROVE  /\ s \in Skills /\ index[s] \in Records /\ EarnedNow(s, index[s])
           /\ index[s].used \in Nat /\ index[s].won \in Nat /\ uses[s] \in Nat /\ wins[s] \in Nat
           /\ index[s].by \in Skills \cup {0}
BY DEF StoresInv, IndexInv, IndexTypes, IndexIsEarned, Existing, Records

\* What is retrieved is in use, and its use is counted before it is recorded.
LEMMA RetrieveStep ==
    ASSUME StoresInv, NEW w \in Workers, NEW s \in Skills, Retrieve(w, s) PROVE StoresInv'
<1> DEFINE c == [skill |-> s, rec |-> index[s], change |-> "use"]
<1>1. IndexTypes /\ BookTypes /\ s \in Existing /\ index[s].status \in Retrievable
  BY DEF StoresInv, IndexInv, BookInv, Retrieve, Pool, Newest
<1>2. /\ copy' = [copy EXCEPT ![w] = c] /\ pc' = [pc EXCEPT ![w] = "append"]
      /\ uses' = [uses EXCEPT ![s] = @ + 1] /\ used' = [used EXCEPT ![w] = {s}]
      /\ runs' = runs + 1 /\ UNCHANGED <<index, proposals, book, wins, asked>>
  BY DEF Retrieve, GoesTo, store
<1>3. index[s] \in Records /\ EarnedNow(s, index[s]) /\ index[s].used \in Nat /\ uses[s] \in Nat
  BY <1>1, RecordIsEarned
<1>4. c \in Copies /\ c.change = "use" /\ c.skill = s /\ c.rec = index[s]
  BY <1>3 DEF Copies
<1> HIDE DEF c
<1>5. Grown /\ uses'[s] = uses[s] + 1 /\ wins' = wins /\ asked' = asked
  BY <1>1, <1>2 DEF Grown, IndexTypes
<1>6. Earned(s, Changed(c), uses', wins', asked', Existing)
  <2>1. /\ Changed(c).used = index[s].used + 1 /\ Changed(c).won = index[s].won
        /\ Changed(c).status = index[s].status
    BY <1>4, ChangedFacts
  <2>2. Changed(c).used <= uses'[s] /\ Changed(c).won <= wins'[s]
    BY <1>3, <1>5, <2>1 DEF EarnedNow, Earned
  <2> QED BY <1>1, <2>1, <2>2 DEF Earned, Retrievable
<1>7. IndexTypes'
  BY <1>1, <1>2, <1>3, <1>4 DEF IndexTypes
<1>8. \A v \in Workers : used'[v] \subseteq Existing
  BY <1>1, <1>2 DEF StoresInv, IndexInv, IndexTypes, BriefsExist
<1>9. runs' \in Nat
  BY <1>1, <1>2 DEF BookTypes
<1> QED BY <1>1, <1>2, <1>4, <1>5, <1>6, <1>7, <1>8, <1>9, TakesCopy

\* A success is counted before it is recorded, on the record as it is now.
LEMMA BumpUsageSuccessStep ==
    ASSUME StoresInv, NEW w \in Workers, BumpUsageSuccess(w) PROVE StoresInv'
<1>1. PICK s \in used[w] :
          /\ copy' = [copy EXCEPT ![w] = [skill |-> s, rec |-> index[s], change |-> "win"]]
          /\ wins' = [wins EXCEPT ![s] = @ + 1]
  BY DEF BumpUsageSuccess
<1> DEFINE c == [skill |-> s, rec |-> index[s], change |-> "win"]
<1>2. IndexTypes /\ BookTypes /\ s \in Existing /\ used[w] \subseteq Existing
  BY DEF StoresInv, IndexInv, BookInv, BriefsExist
<1>3. /\ pc' = [pc EXCEPT ![w] = "append"] /\ used' = [used EXCEPT ![w] = {}]
      /\ UNCHANGED <<index, proposals, book, uses, asked, runs>>
  BY DEF BumpUsageSuccess, GoesTo, store
<1>4. s \in Skills /\ index[s] \in Records /\ EarnedNow(s, index[s])
      /\ index[s].won \in Nat /\ wins[s] \in Nat /\ index[s].by \in Skills \cup {0}
  BY <1>2, RecordIsEarned
<1>5. c \in Copies /\ c.change = "win" /\ c.skill = s /\ c.rec = index[s]
  BY <1>4 DEF Copies
<1>6. copy' = [copy EXCEPT ![w] = c]
  BY <1>1
<1> HIDE DEF c
<1>7. Grown /\ wins'[s] = wins[s] + 1 /\ uses' = uses /\ asked' = asked
  BY <1>1, <1>3, <1>4, <1>2 DEF Grown, IndexTypes
<1>8. Earned(s, Changed(c), uses', wins', asked', Existing)
  <2>1. /\ Changed(c).used = index[s].used /\ Changed(c).won = index[s].won + 1
        /\ Changed(c).status = index[s].status /\ Changed(c).by = index[s].by
    BY <1>5, ChangedFacts
  <2>2. Changed(c).won <= wins'[s] /\ Changed(c).used <= uses'[s]
    BY <1>4, <1>7, <2>1 DEF EarnedNow, Earned
  <2> QED BY <1>4, <1>7, <2>1, <2>2 DEF EarnedNow, Earned
<1>9. IndexTypes'
  BY <1>1, <1>2, <1>3, <1>4, <1>5, <1>6 DEF IndexTypes
<1>10. \A v \in Workers : used'[v] \subseteq Existing
  BY <1>2, <1>3 DEF StoresInv, IndexInv, IndexTypes, BriefsExist
<1> QED BY <1>2, <1>3, <1>5, <1>6, <1>7, <1>8, <1>9, <1>10, TakesCopy DEF BookTypes

\* An owner's archive is asked for before it is recorded.
LEMMA ArchiveSkillStep ==
    ASSUME StoresInv, NEW w \in Workers, NEW s \in Skills, ArchiveSkill(w, s) PROVE StoresInv'
<1> DEFINE c == [skill |-> s, rec |-> index[s], change |-> "archived"]
<1>1. IndexTypes /\ BookTypes /\ s \in Existing
  BY DEF StoresInv, IndexInv, BookInv, ArchiveSkill
<1>2. /\ copy' = [copy EXCEPT ![w] = c] /\ pc' = [pc EXCEPT ![w] = "append"]
      /\ asked' = asked \cup {s} /\ runs' = runs + 1
      /\ UNCHANGED <<index, proposals, book, used, uses, wins>>
  BY DEF ArchiveSkill, GoesTo, store
<1>3. index[s] \in Records /\ EarnedNow(s, index[s])
  BY <1>1, RecordIsEarned
<1>4. c \in Copies /\ c.change = "archived" /\ c.skill = s /\ c.rec = index[s]
  BY <1>3 DEF Copies
<1> HIDE DEF c
<1>5. Grown
  BY <1>1, <1>2 DEF Grown, IndexTypes
<1>6. Earned(s, Changed(c), uses', wins', asked', Existing)
  <2>1. /\ Changed(c).used = index[s].used /\ Changed(c).won = index[s].won
        /\ Changed(c).status = "archived"
    BY <1>4, ChangedFacts
  <2> QED BY <1>2, <1>3, <2>1 DEF EarnedNow, Earned
<1>7. IndexTypes'
  BY <1>1, <1>2, <1>4 DEF IndexTypes
<1>8. \A v \in Workers : used'[v] \subseteq Existing
  BY <1>2 DEF StoresInv, IndexInv, BriefsExist
<1>9. runs' \in Nat
  BY <1>1, <1>2 DEF BookTypes
<1> QED BY <1>1, <1>2, <1>4, <1>5, <1>6, <1>7, <1>8, <1>9, TakesCopy

\* What the sweep does on its own takes nothing out of retrieval.
LEMMA MarkStaleStep ==
    ASSUME StoresInv, NEW w \in Workers, NEW s \in Skills, MarkStale(w, s) PROVE StoresInv'
<1> DEFINE c == [skill |-> s, rec |-> index[s], change |-> "stale"]
<1>1. IndexTypes /\ BookTypes /\ s \in Existing
  BY DEF StoresInv, IndexInv, BookInv, MarkStale, Actives
<1>2. /\ copy' = [copy EXCEPT ![w] = c] /\ pc' = [pc EXCEPT ![w] = "append"]
      /\ runs' = runs + 1 /\ UNCHANGED <<index, proposals, book, used, uses, wins, asked>>
  BY DEF MarkStale, GoesTo, store, truth
<1>3. index[s] \in Records /\ EarnedNow(s, index[s])
  BY <1>1, RecordIsEarned
<1>4. c \in Copies /\ c.change = "stale" /\ c.skill = s /\ c.rec = index[s]
  BY <1>3 DEF Copies
<1> HIDE DEF c
<1>5. Grown
  BY <1>1, <1>2 DEF Grown, IndexTypes
<1>6. Earned(s, Changed(c), uses', wins', asked', Existing)
  <2>1. /\ Changed(c).used = index[s].used /\ Changed(c).won = index[s].won
        /\ Changed(c).status = "stale"
    BY <1>4, ChangedFacts
  <2> QED BY <1>2, <1>3, <2>1 DEF EarnedNow, Earned
<1>7. IndexTypes'
  BY <1>1, <1>2, <1>4 DEF IndexTypes
<1>8. \A v \in Workers : used'[v] \subseteq Existing
  BY <1>2 DEF StoresInv, IndexInv, BriefsExist
<1>9. runs' \in Nat
  BY <1>1, <1>2 DEF BookTypes
<1> QED BY <1>1, <1>2, <1>4, <1>5, <1>6, <1>7, <1>8, <1>9, TakesCopy

\* An approved proposal is asked for, on a record that may leave retrieval, and
\* names a newer skill if it supersedes; one that comes too late changes nothing.
LEMMA ApproveProposalStep ==
    ASSUME StoresInv, NEW w \in Workers, NEW p \in proposals, ApproveProposal(w, p)
    PROVE  StoresInv'
<1>1. /\ IndexTypes /\ BookTypes /\ IndexInv /\ BookInv
      /\ p \in [kind : {"superseded", "archived"}, skill : Skills, by : Skills \cup {0}]
      /\ p.skill \in Existing
      /\ p.kind = "superseded" => p.by > p.skill /\ p.by \in Existing /\ Shape[p.by] = Shape[p.skill]
  BY DEF StoresInv, IndexInv, BookInv, IndexTypes, ProposalsAreNewer
<1>2. /\ asked' = asked \cup {p.skill} /\ runs' = runs + 1 /\ proposals' = proposals \ {p}
      /\ UNCHANGED <<index, book, used, uses, wins>>
  BY DEF ApproveProposal
<1>3. index[p.skill] \in Records /\ EarnedNow(p.skill, index[p.skill])
  BY <1>1, RecordIsEarned
<1>4. Grown /\ runs' \in Nat
  BY <1>1, <1>2 DEF Grown, IndexTypes, BookTypes
<1>5. \A v \in Workers : used'[v] \subseteq Existing
  BY <1>1, <1>2 DEF IndexInv, BriefsExist
<1>6. CASE index[p.skill].status \in LegalFrom(p.kind)
  <2> DEFINE c == [skill |-> p.skill, change |-> p.kind, rec |-> [index[p.skill] EXCEPT !.by = p.by]]
  <2>1. copy' = [copy EXCEPT ![w] = c] /\ pc' = [pc EXCEPT ![w] = "append"]
    BY <1>6 DEF ApproveProposal, GoesTo
  <2>2. [index[p.skill] EXCEPT !.by = p.by] \in Records
    BY <1>1, <1>3 DEF Records
  <2>3. c \in Copies /\ c.change = p.kind /\ c.skill = p.skill /\ c.rec.by = p.by
        /\ c.rec.used = index[p.skill].used /\ c.rec.won = index[p.skill].won
    BY <1>1, <1>3, <2>2 DEF Copies, Records
  <2> HIDE DEF c
  <2>4. Earned(c.skill, Changed(c), uses', wins', asked', Existing)
    <3>1. c.change # "none" /\ c.change \notin {"use", "win"}
      BY <1>1, <2>3
    <3>2. /\ Changed(c).used = index[p.skill].used /\ Changed(c).won = index[p.skill].won
          /\ Changed(c).status = p.kind /\ Changed(c).by = p.by
      BY <2>3, <3>1, ChangedFacts
    <3> QED BY <1>1, <1>2, <1>3, <2>3, <3>2 DEF EarnedNow, Earned
  <2>5. IndexTypes'
    BY <1>1, <1>2, <2>1, <2>3 DEF IndexTypes
  <2>6. c.change # "none" /\ c.skill \in Existing /\ proposals' \subseteq proposals
    BY <1>1, <1>2, <2>3
  <2> QED BY <1>2, <1>4, <1>5, <2>1, <2>3, <2>4, <2>5, <2>6, TakesCopy
<1>7. CASE index[p.skill].status \notin LegalFrom(p.kind)
  <2>1. UNCHANGED <<copy, pc>>
    BY <1>7 DEF ApproveProposal
  <2>2. IndexTypes'
    BY <1>1, <1>2, <2>1 DEF IndexTypes
  <2>3. IndexInv'
    BY <1>1, <1>2, <1>4, <1>5, <2>1, <2>2, CopyTaken
  <2>4. BookInv'
    BY <1>1, <1>2, <1>4, <2>1, BookStands DEF BookTypes
  <2> QED BY <2>3, <2>4 DEF StoresInv
<1> QED BY <1>6, <1>7

\* The sweep proposes a successor that is newer and of the same shape.
LEMMA SweepProposesStep == ASSUME StoresInv, SweepProposes PROVE StoresInv'
<1>1. IndexTypes /\ BookTypes /\ IndexInv /\ BookInv
  BY DEF StoresInv, IndexInv, BookInv
<1>2. /\ proposals' = proposals \cup SupersedeCandidates \cup StaleToArchive
      /\ UNCHANGED <<index, book, pc, copy, used, uses, wins, asked, runs>>
  BY DEF SweepProposes, truth
<1>3. ASSUME NEW p \in SupersedeCandidates
      PROVE  /\ p.kind = "superseded" /\ p.skill \in Existing /\ p.by \in Existing
             /\ p.by > p.skill /\ Shape[p.by] = Shape[p.skill]
             /\ p \in [kind : {"superseded", "archived"}, skill : Skills, by : Skills \cup {0}]
  <2>1. /\ p \in [kind : {"superseded"}, skill : Actives, by : Newest(Actives)]
        /\ p.skill # p.by /\ Shape[p.skill] = Shape[p.by]
    BY DEF SupersedeCandidates
  <2>2. p.kind = "superseded" /\ p.skill \in Actives /\ p.by \in Newest(Actives)
    BY <2>1
  <2>3. p.by \in Actives /\ p.skill <= p.by
    BY <2>1, <2>2 DEF Newest
  <2>4. p.skill \in Existing /\ p.by \in Existing /\ p.skill \in Skills /\ p.by \in Skills
    BY <2>2, <2>3 DEF Actives, Existing
  <2>5. p.by > p.skill
    <3>1. p.by \in Nat /\ p.skill \in Nat
      BY <2>4, SkillFacts
    <3> QED BY <2>1, <2>3, <3>1
  <2> QED BY <2>1, <2>2, <2>4, <2>5
<1>4. ASSUME NEW p \in StaleToArchive
      PROVE  /\ p.kind = "archived" /\ p.skill \in Existing
             /\ p \in [kind : {"superseded", "archived"}, skill : Skills, by : Skills \cup {0}]
  BY DEF StaleToArchive, Existing
<1>5. \A p \in proposals' : 
          \/ p \in proposals
          \/ /\ p.skill \in Existing
             /\ p.kind = "superseded" => p.by > p.skill /\ p.by \in Existing /\ Shape[p.by] = Shape[p.skill]
  BY <1>2, <1>3, <1>4
<1>6. IndexTypes'
  <2>1. proposals' \in SUBSET [kind : {"superseded", "archived"}, skill : Skills, by : Skills \cup {0}]
    BY <1>1, <1>2, <1>3, <1>4 DEF IndexTypes
  <2> QED BY <1>1, <1>2, <2>1 DEF IndexTypes
<1>7. Grown /\ \A v \in Workers : used'[v] \subseteq Existing
  BY <1>1, <1>2 DEF Grown, IndexTypes, IndexInv, BriefsExist
<1>8. IndexInv'
  BY <1>1, <1>2, <1>5, <1>6, <1>7, CopyTaken
<1>9. BookInv'
  BY <1>1, <1>2, BookStands DEF BookTypes
<1> QED BY <1>8, <1>9 DEF StoresInv

\* A step that touches neither the index nor a copy, and starts no append.
LEMMA IndexUntouched ==
    ASSUME StoresInv, UNCHANGED <<store, copy, truth>>, \A v \in Workers : used'[v] \subseteq used[v],
           \A v \in Workers : pc'[v] = "append" => pc[v] = "append",
           used' \in [Workers -> SUBSET Skills]
    PROVE  IndexInv'
<1>1. IndexInv /\ IndexTypes /\ UNCHANGED <<index, proposals, uses, wins, asked, copy>>
  BY DEF StoresInv, IndexInv, store, truth
<1>2. IndexTypes'
  BY <1>1 DEF IndexTypes
<1>3. Grown /\ \A v \in Workers : used'[v] \subseteq Existing
  BY <1>1 DEF Grown, IndexTypes, IndexInv, BriefsExist
<1> QED BY <1>1, <1>2, <1>3, CopyTaken

\* The end of a run, a reflection, and the reading of the notebook write nothing.
LEMMA RunEndsStep == ASSUME StoresInv, NEW w \in Workers, RunEnds(w) PROVE StoresInv'
<1>1. IndexTypes /\ BookTypes /\ BookInv
  BY DEF StoresInv, IndexInv, BookInv
<1>2. PICK to \in {"done", "reflect"} : pc' = [pc EXCEPT ![w] = to]
  BY DEF RunEnds, GoesTo
<1>3. UNCHANGED <<store, book, copy, truth, runs>> /\ used' \in {used, [used EXCEPT ![w] = {}]}
  BY DEF RunEnds
<1>4. used' \in [Workers -> SUBSET Skills] /\ \A v \in Workers : used'[v] \subseteq used[v]
  BY <1>1, <1>3 DEF IndexTypes
<1>5. /\ pc' \in [Workers -> Phases]
      /\ \A v \in Workers : /\ pc'[v] = "append" => pc[v] = "append"
                            /\ pc'[v] = "write" => pc[v] = "write"
  BY <1>1, <1>2 DEF BookTypes, Phases
<1>6. IndexInv'
  BY <1>3, <1>4, <1>5, IndexUntouched
<1>7. BookInv'
  BY <1>1, <1>3, <1>5, BookStands DEF BookTypes
<1> QED BY <1>6, <1>7 DEF StoresInv

\* What is left of a reflection names nothing forbidden, and nothing of a case.
LEMMA ReflectionFacts ==
    ASSUME NEW openCase \in BOOLEAN, NEW us \in SUBSET Updates, NEW confidence,
           openCase \/ \A u \in us : u[2] \notin CaseFacts
    PROVE  /\ Reflection(openCase, us, confidence) \in SUBSET Updates
           /\ \A u \in Reflection(openCase, us, confidence) : u[2] \notin Beyond
BY DEF Reflection, Vetoed, Beyond

\* A reflection keeps of its updates what passed the boundary and the veto.
LEMMA ReflectStep == ASSUME StoresInv, NEW w \in Workers, Reflect(w) PROVE StoresInv'
<1>1. IndexTypes /\ BookTypes /\ BookInv
  BY DEF StoresInv, IndexInv, BookInv
<1>2. PICK openCase \in BOOLEAN, us \in SUBSET Updates, confidence \in {"high", "medium", "low"} :
          /\ openCase \/ \A u \in us : u[2] \notin CaseFacts
          /\ updates' = [updates EXCEPT ![w] = Reflection(openCase, us, confidence)]
  BY DEF Reflect
<1>3. /\ updates' \in [Workers -> SUBSET Updates]
      /\ \A v \in Workers : \A u \in updates'[v] : u[2] \notin Beyond
  BY <1>1, <1>2, ReflectionFacts DEF BookTypes, BookInv, UpdatesKeepTheBoundary
<1>4. /\ delta' = [delta EXCEPT ![w] = 0]
      /\ UNCHANGED <<store, notes, page, edit, copy, used, truth, runs>>
  BY DEF Reflect
<1>5. PICK to \in {"idle", "apply"} : pc' = [pc EXCEPT ![w] = to]
  BY DEF Reflect, GoesTo
<1>6. /\ pc' \in [Workers -> Phases]
      /\ \A v \in Workers : /\ pc'[v] = "append" => pc[v] = "append"
                            /\ pc'[v] = "write" => pc[v] = "write"
  BY <1>1, <1>5 DEF BookTypes, Phases
<1>7. IndexInv'
  BY <1>1, <1>4, <1>6, IndexUntouched DEF IndexTypes
<1>8. BookInv'
  BY <1>1, <1>3, <1>4, <1>6 DEF BookInv, BookTypes, NotesKeepTheBoundary, UpdatesKeepTheBoundary
<1> QED BY <1>7, <1>8 DEF StoresInv

\* The page read is the notebook as it is, the update one that passed.
LEMMA ReadNotebookStep == ASSUME StoresInv, NEW w \in Workers, ReadNotebook(w) PROVE StoresInv'
<1>1. IndexTypes /\ BookTypes /\ BookInv /\ NotesKeepTheBoundary /\ UpdatesKeepTheBoundary
  BY DEF StoresInv, IndexInv, BookInv
<1>2. UNCHANGED <<store, notes, delta, copy, used, truth, runs>>
  BY DEF ReadNotebook
<1>3. PICK u \in updates[w] :
          /\ updates' = [updates EXCEPT ![w] = @ \ {u}]
          /\ \/ /\ page' = [page EXCEPT ![w] = notes] /\ edit' = [edit EXCEPT ![w] = u]
                /\ pc' = [pc EXCEPT ![w] = "write"]
             \/ UNCHANGED <<page, edit>> /\ pc' = [pc EXCEPT ![w] = pc'[w]] /\ pc'[w] \in {"idle", "apply"}
  <2>1. pc \in [Workers -> Phases]
    BY <1>1 DEF BookTypes
  <2> QED BY <2>1 DEF ReadNotebook, GoesTo
<1>4. u \in Updates /\ u[2] \notin Beyond
  BY <1>1, <1>3 DEF BookTypes, UpdatesKeepTheBoundary
<1>5. pc' \in [Workers -> Phases] /\ \A v \in Workers : pc'[v] = "append" => pc[v] = "append"
  BY <1>1, <1>3 DEF BookTypes, Phases
<1>6. IndexInv'
  BY <1>1, <1>2, <1>5, IndexUntouched DEF IndexTypes
<1>7. updates' \in [Workers -> SUBSET Updates] /\ \A v \in Workers : updates'[v] \subseteq updates[v]
  BY <1>1, <1>3 DEF BookTypes
<1>8. CASE /\ page' = [page EXCEPT ![w] = notes] /\ edit' = [edit EXCEPT ![w] = u]
           /\ pc' = [pc EXCEPT ![w] = "write"]
  <2>1. BookTypes'
    BY <1>1, <1>2, <1>4, <1>5, <1>7, <1>8 DEF BookTypes
  <2>2. UpdatesKeepTheBoundary'
    <3> SUFFICES ASSUME NEW v \in Workers
                 PROVE  /\ page'[v] \cap Beyond = {} /\ \A x \in updates'[v] : x[2] \notin Beyond
                        /\ pc'[v] = "write" => edit'[v] \in Updates /\ edit'[v][2] \notin Beyond
      BY DEF UpdatesKeepTheBoundary
    <3>1. \A x \in updates'[v] : x[2] \notin Beyond
      BY <1>1, <1>7 DEF UpdatesKeepTheBoundary
    <3>2. CASE v = w
      BY <1>1, <1>4, <1>8, <3>1, <3>2 DEF BookTypes, NotesKeepTheBoundary, Beyond
    <3>3. CASE v # w
      BY <1>1, <1>8, <3>1, <3>3 DEF BookTypes, UpdatesKeepTheBoundary
    <3> QED BY <3>2, <3>3
  <2> QED BY <1>1, <1>2, <1>6, <2>1, <2>2 DEF StoresInv, BookInv, NotesKeepTheBoundary
<1>9. CASE UNCHANGED <<page, edit>> /\ pc' = [pc EXCEPT ![w] = pc'[w]] /\ pc'[w] \in {"idle", "apply"}
  <2>1. BookTypes'
    BY <1>1, <1>2, <1>5, <1>7, <1>9 DEF BookTypes
  <2>2. UpdatesKeepTheBoundary'
    BY <1>1, <1>7, <1>9 DEF BookTypes, UpdatesKeepTheBoundary
  <2> QED BY <1>1, <1>2, <1>6, <2>1, <2>2 DEF StoresInv, BookInv, NotesKeepTheBoundary
<1> QED BY <1>3, <1>8, <1>9

\* The page written back is the one read, with the update: both keep the boundary.
LEMMA WriteNotebookStep == ASSUME StoresInv, NEW w \in Workers, WriteNotebook(w) PROVE StoresInv'
<1>1. IndexTypes /\ BookTypes /\ BookInv /\ NotesKeepTheBoundary /\ UpdatesKeepTheBoundary /\ pc[w] = "write"
  BY DEF StoresInv, IndexInv, BookInv, WriteNotebook, Stands
<1>2. /\ notes' = Edited(page[w], edit[w]) /\ page' = [page EXCEPT ![w] = {}]
      /\ edit' = [edit EXCEPT ![w] = <<>>] /\ delta' = [delta EXCEPT ![w] = IF Adds(edit[w]) THEN @ + 1 ELSE @]
      /\ UNCHANGED <<store, updates, copy, used, truth, runs>>
  BY DEF WriteNotebook
<1>3. PICK to \in {"idle", "apply"} : pc' = [pc EXCEPT ![w] = to]
  BY DEF WriteNotebook, GoesTo
<1>4. /\ pc' \in [Workers -> Phases]
      /\ \A v \in Workers : /\ pc'[v] = "append" => pc[v] = "append"
                            /\ pc'[v] = "write" => pc[v] = "write" /\ v # w
  BY <1>1, <1>3 DEF BookTypes, Phases
<1>5. IndexInv'
  BY <1>1, <1>2, <1>4, IndexUntouched DEF IndexTypes
<1>6. edit[w] \in Updates /\ edit[w][2] \notin Beyond /\ page[w] \subseteq Notes /\ page[w] \cap Beyond = {}
  BY <1>1 DEF UpdatesKeepTheBoundary, BookTypes
<1>7. edit[w][2] \in Notes \cup {NoEntry}
  BY <1>6, NotesAssumption
<1>8. notes' \subseteq Notes /\ notes' \cap Beyond = {}
  BY <1>2, <1>6, <1>7 DEF Edited
<1>9. delta' \in [Workers -> Nat]
  BY <1>1, <1>2 DEF BookTypes
<1>10. BookTypes'
  BY <1>1, <1>2, <1>4, <1>8, <1>9 DEF BookTypes
<1>11. UpdatesKeepTheBoundary'
  BY <1>1, <1>2, <1>4 DEF UpdatesKeepTheBoundary, BookTypes
<1> QED BY <1>5, <1>8, <1>10, <1>11 DEF StoresInv, BookInv, NotesKeepTheBoundary, Beyond

\* Nothing exists at first.
LEMMA StoresInitInv == StoresInit => StoresInv
<1> SUFFICES ASSUME StoresInit PROVE StoresInv
  OBVIOUS
<1>1. Existing = {}
  BY DEF Existing, StoresInit
<1>2. NoCopy \in Copies
  BY SkillFacts DEF NoCopy, Copies
<1>3. IndexTypes
  BY <1>2, SkillFacts DEF IndexTypes, StoresInit
<1>4. BookTypes
  BY DEF BookTypes, StoresInit, Phases
<1>5. IndexIsEarned /\ CopiesAreEarned /\ BriefsExist /\ ProposalsAreNewer
  BY <1>1 DEF StoresInit, IndexIsEarned, CopiesAreEarned, BriefsExist, ProposalsAreNewer
<1>6. NotesKeepTheBoundary /\ UpdatesKeepTheBoundary
  BY DEF StoresInit, NotesKeepTheBoundary, UpdatesKeepTheBoundary
<1> QED BY <1>3, <1>4, <1>5, <1>6 DEF StoresInv, IndexInv, BookInv

\* Every step of a run, a curator or the clock keeps the invariant.
LEMMA StoresStep == StoresInv /\ [StoresNext]_storesVars => StoresInv'
<1> SUFFICES ASSUME StoresInv, [StoresNext]_storesVars PROVE StoresInv'
  OBVIOUS
<1>1. CASE CreateSkill
  BY <1>1, CreateSkillStep
<1>2. CASE SweepProposes
  BY <1>2, SweepProposesStep
<1>3. CASE \E s \in Skills : LongUnused(s)
  BY <1>3, LongUnusedStep
<1>4. ASSUME NEW w \in Workers, NEW s \in Skills, Retrieve(w, s) \/ ArchiveSkill(w, s) \/ MarkStale(w, s)
      PROVE  StoresInv'
  BY <1>4, RetrieveStep, ArchiveSkillStep, MarkStaleStep
<1>5. ASSUME NEW w \in Workers, NEW p \in proposals, ApproveProposal(w, p) PROVE StoresInv'
  BY <1>5, ApproveProposalStep
<1>6. ASSUME NEW w \in Workers, AppendIndex(w) \/ RunEnds(w) \/ BumpUsageSuccess(w) PROVE StoresInv'
  BY <1>6, AppendIndexStep, RunEndsStep, BumpUsageSuccessStep
<1>7. ASSUME NEW w \in Workers, Reflect(w) \/ ReadNotebook(w) \/ WriteNotebook(w) PROVE StoresInv'
  BY <1>7, ReflectStep, ReadNotebookStep, WriteNotebookStep
<1>8. CASE UNCHANGED storesVars
  <2>1. UNCHANGED <<store, copy, truth, used, pc, book, runs>>
    BY <1>8 DEF storesVars
  <2>2. IndexTypes /\ BookTypes /\ BookInv
    BY DEF StoresInv, IndexInv, BookInv
  <2>3. IndexInv'
    BY <2>1, <2>2, IndexUntouched DEF IndexTypes
  <2>4. BookInv'
    BY <2>1, <2>2, BookStands DEF BookTypes
  <2> QED BY <2>3, <2>4 DEF StoresInv
<1> QED BY <1>1, <1>2, <1>3, <1>4, <1>5, <1>6, <1>7, <1>8 DEF StoresNext

\* The stores keep the invariant for ever, for any skills, runs and notes.
THEOREM StoresKeepInv == StoresSpec => []StoresInv
BY StoresInitInv, StoresStep, PTL DEF StoresSpec

\* Concurrent runs that append stale copies may lose a use or a success of a skill;
\* they never make one up (bump_usage_success on the record an earlier read found).
THEOREM CountersAreEarned == StoresSpec => []CountersNeverOvercount
<1>1. StoresInv => CountersNeverOvercount
  <2> SUFFICES ASSUME StoresInv, NEW s \in Skills
               PROVE  index[s].used <= uses[s] /\ index[s].won <= wins[s]
    BY DEF CountersNeverOvercount
  <2>1. CASE s \in Existing
    BY <2>1, RecordIsEarned DEF EarnedNow, Earned
  <2>2. CASE s \notin Existing
    <3>1. index[s] = NoRecord /\ uses[s] \in Nat /\ wins[s] \in Nat
      BY <2>2 DEF Existing, StoresInv, IndexInv, IndexTypes
    <3> QED BY <3>1 DEF NoRecord
  <2> QED BY <2>1, <2>2
<1> QED BY <1>1, StoresKeepInv, PTL

\* A skill is superseded or archived only after an owner, or a decision on a
\* proposal of the sweep, asked for it: no sweep and no late append does it alone.
THEOREM NothingLeavesUnasked == StoresSpec => []OutOfRetrievalWasAsked
<1>1. StoresInv => OutOfRetrievalWasAsked
  BY RecordIsEarned DEF OutOfRetrievalWasAsked, EarnedNow, Earned
<1> QED BY <1>1, StoresKeepInv, PTL

\* A superseded skill names a newer one of its shape that exists, however much was
\* created, aged or archived between the sweep and the approval.
THEOREM SuccessorsAreNewer == StoresSpec => []SupersededByNewer
<1>1. StoresInv => SupersededByNewer
  BY RecordIsEarned DEF SupersededByNewer, EarnedNow, Earned
<1> QED BY <1>1, StoresKeepInv, PTL

\* No interleaving of whole-page writes brings a forbidden note, or one known only
\* from an open case, into the notebook that later plans read.
THEOREM NotesStayInside == StoresSpec => []NotesKeepTheBoundary
<1>1. StoresInv => NotesKeepTheBoundary
  BY DEF StoresInv, BookInv
<1> QED BY <1>1, StoresKeepInv, PTL
===============================================================================
