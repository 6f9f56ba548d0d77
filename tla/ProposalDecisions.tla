-------------------------- MODULE ProposalDecisions --------------------------
(***************************************************************************)
(* The two queues of proposals a human decides: policy patches (104,        *)
(* decide_patch) and curator proposals (the curator, the skill distiller    *)
(* 109B and the workflow SOPs; curator_decide), from the task or curator    *)
(* pass that drafts one to the effect of its approval, with the JSONL files *)
(* both queues are replayed from.                                           *)
(*                                                                          *)
(* A proposal lives in memory as one shared dict: every endpoint reads its  *)
(* status under the lock and goes on without it, and an append writes the   *)
(* dict as it is then.  The learned policy is one file that a fresh runtime *)
(* reads whole and writes back whole.  What a patch or a skill says is      *)
(* reduced to its key (context signature, workflow) and to what the scans   *)
(* would make of its text.                                                  *)
(***************************************************************************)
EXTENDS Naturals, FiniteSets

CONSTANTS Items,       \* proposal ids
          Kind,          \* Kind[i] in Kinds
          Key,           \* Key[i]: a context signature, or a workflow id
          HardKeys,      \* signatures that touch the universal hard safety
          Operators,     \* requests to a decide endpoint in flight
          Threads,       \* task runs and curator passes in flight
          MaxRequests, MaxRestarts, MaxTears, MaxEdits   \* bounds

Kinds == {"patch", "skill", "sop", "cleanup"}
Texts == {"clean", "redactable", "blocked"}     \* what scan_text makes of it
Keys == {Key[i] : i \in Items}
None == "none"

ASSUME KindAssumption == Kind \in [Items -> Kinds]
ASSUME BoundsAssumption ==
    /\ MaxRequests \in Nat /\ MaxRestarts \in Nat /\ MaxTears \in Nat /\ MaxEdits \in Nat

VARIABLES
    mem,        \* _app_state: the proposals, by id
    disk,       \* proposals.jsonl and curator_proposals.jsonl, latest record by id
    torn,       \* the files whose last line has no end
    policy,     \* the patches in learned_contextual_policy.json
    written,    \* what approvals wrote: <<proposal, text>>
    sop,        \* sop[k]: the step shape of the newest active SOP skill of workflow k, 0 if none
    shape,      \* shape[k]: the step shape of workflow k as configured
    draft,      \* draft[t]: the proposal a run holds on its own runtime
    op,         \* op[o]: where a decide request is, on what, with which answer
    learned,    \* learned[o]: the policy as the request's fresh runtime read it
    approved,   \* proposals an approval was accepted for
    requested, restarts, tears, edits
queue == <<mem, disk, torn>>
effects == <<policy, written, sop>>
requests == <<op, learned, approved>>
bounds == <<requested, restarts, tears, edits>>
vars == <<queue, effects, shape, draft, requests, bounds>>

File(i) == IF Kind[i] = "patch" THEN "proposals" ELSE "curator"
Open == {"proposed", "pending"}
Opened(i) == IF Kind[i] = "patch" THEN "proposed" ELSE "pending"
Absent == [status |-> "absent", text |-> "clean", shape |-> 0]
NoDraft == [item |-> None, text |-> "clean", shape |-> 0]
Idle == [pc |-> "idle", item |-> None, answer |-> None, result |-> None]

\* A restart finds whatever earlier sessions left undecided, scanned by the rules of then.
Init ==
    /\ mem \in [Items -> {Absent}
                  \cup [status : Open, text : Texts, shape : {0}]]
    /\ \A i \in Items : mem[i] # Absent =>
           /\ mem[i].status = Opened(i) /\ Kind[i] # "sop"
           /\ Kind[i] \in {"patch", "cleanup"} => mem[i].text = "clean"
    /\ disk = mem /\ torn = {}
    /\ policy = {} /\ written = {}
    /\ sop = [k \in Keys |-> 0]
    /\ shape = [k \in Keys |-> 1]
    /\ draft = [t \in Threads |-> NoDraft]
    /\ op = [o \in Operators |-> Idle]
    /\ learned = [o \in Operators |-> {}]
    /\ approved = {}
    /\ requested = 0 /\ restarts = 0 /\ tears = 0 /\ edits = 0

(***************************************************************************)
(* Drafting: what a run leaves on its runtime.                              *)
(***************************************************************************)
Fresh(i) == mem[i] = Absent /\ \A t \in Threads : draft[t].item # i
Drafts(t, i, text) ==
    /\ draft[t] = NoDraft /\ Fresh(i)
    /\ draft' = [draft EXCEPT ![t] = [item |-> i, text |-> text, shape |-> shape[Key[i]]]]
    /\ UNCHANGED <<queue, effects, shape, requests, bounds>>

\* 104 looks at the approvals of one run: a signature of the hard safety is never proposed.
Evaluate(t, i) == Kind[i] = "patch" /\ Key[i] \notin HardKeys /\ Drafts(t, i, "clean")

\* The curator nominates stale skills and rewrites of the two notebooks.
RunCuration(t, i) == Kind[i] = "cleanup" /\ Drafts(t, i, "clean")

\* The scan lets clean text pass, cleans what it can, and stops the rest.
ScanText(text) == IF text = "blocked" THEN None ELSE "clean"
\* 109B after enough good outcomes: no skill of this kind yet, and a draft the scan lets pass.
ShouldPropose(i) == \A w \in written : Key[w[1]] # Key[i]
MaybePropose(i) == {ScanText(text) : text \in IF ShouldPropose(i) THEN Texts ELSE {}} \ {None}
RunSkillDistiller(t, i) ==
    Kind[i] = "skill" /\ \E text \in MaybePropose(i) : Drafts(t, i, text)

\* A workflow whose approved SOP has the same step shape is reused, not proposed.
ReusesSop(k) == sop[k] = shape[k]
ProposeWorkflowSop(t, i) == Kind[i] = "sop" /\ ~ReusesSop(Key[i]) /\ Drafts(t, i, "clean")

(***************************************************************************)
(* The end of the run: one critical section registers the drafts.           *)
(***************************************************************************)
\* An append after a torn line is lost with it, and ends it.
Append(i, rec) ==
    /\ disk' = IF File(i) \in torn THEN disk ELSE [disk EXCEPT ![i] = rec]
    /\ torn' = torn \ {File(i)}

SopKnown(k) ==
    \E i \in Items : /\ Kind[i] = "sop" /\ Key[i] = k
                     /\ mem[i].status \in {"pending", "approved", "applied"}
DuplicateById(i) == mem[i] # Absent
Duplicate(i) == Kind[i] = "sop" /\ SopKnown(Key[i])

Register(t) ==
    /\ draft[t] # NoDraft
    /\ LET i == draft[t].item
           rec == [status |-> Opened(i), text |-> draft[t].text, shape |-> draft[t].shape]
       IN IF Duplicate(i)
            THEN UNCHANGED queue
            ELSE mem' = [mem EXCEPT ![i] = rec] /\ Append(i, rec)
    /\ draft' = [draft EXCEPT ![t] = NoDraft]
    /\ UNCHANGED <<effects, shape, requests, bounds>>

(***************************************************************************)
(* Deciding.  At(o, pc) is a request between two of its steps.              *)
(***************************************************************************)
At(o, pc) == op[o].pc = pc
Goto(o, pc) == op' = [op EXCEPT ![o].pc = pc]
Sets(i, status) == mem' = [mem EXCEPT ![i].status = status]

\* Both endpoints: an undecided proposal is taken up, anything else is a 409.
TakeUp(o, i, answer) ==
    /\ requested < MaxRequests /\ requested' = requested + 1
    /\ At(o, "idle") /\ mem[i].status \in Open
    /\ op' = [op EXCEPT ![o] = [pc |-> IF Kind[i] = "patch" THEN "patch" ELSE "gate",
                                item |-> i, answer |-> answer, result |-> None]]
    /\ approved' = IF answer = "approved" THEN approved \cup {i} ELSE approved
    /\ UNCHANGED <<queue, effects, shape, draft, learned, restarts, tears, edits>>

RejectPatch(o) ==
    /\ At(o, "patch") /\ op[o].answer = "rejected"
    /\ Sets(op[o].item, "rejected")
    /\ Goto(o, "append")
    /\ UNCHANGED <<disk, torn, effects, shape, draft, learned, approved, bounds>>

\* An approval is applied by a runtime built for it, on the policy as it was then.
BuildRuntime(o) ==
    /\ At(o, "patch") /\ op[o].answer = "approved"
    /\ learned' = [learned EXCEPT ![o] = policy]
    /\ Goto(o, "apply")
    /\ UNCHANGED <<queue, effects, shape, draft, approved, bounds>>

WeakensNothing(i) == FALSE
WeakensHardSafety(i) == Key[i] \in HardKeys
ApplyPatch(o) ==
    /\ At(o, "apply") /\ Kind[op[o].item] = "patch"
    /\ LET i == op[o].item
       IN IF WeakensHardSafety(i)
            THEN /\ UNCHANGED policy
                 /\ op' = [op EXCEPT ![o].pc = "mark", ![o].result = "approved"]
            ELSE /\ policy' = learned[o] \cup {i}
                 /\ op' = [op EXCEPT ![o].pc = "mark", ![o].result = "applied"]
    /\ UNCHANGED <<queue, written, sop, shape, draft, learned, approved, bounds>>

Layer2GateKeepsOriginal(o) ==
    /\ At(o, "gate")
    /\ LET i == op[o].item
           scanned == op[o].answer = "approved" /\ Kind[i] \in {"skill", "sop"}
       IN IF scanned /\ ScanText(mem[i].text) = None
            THEN LET rec == [mem[i] EXCEPT !.status = "rejected"]
                 IN /\ mem' = [mem EXCEPT ![i] = rec]
                    /\ Append(i, rec)
                    /\ op' = [op EXCEPT ![o] = Idle]
            ELSE UNCHANGED queue /\ Goto(o, "decide")
    /\ UNCHANGED <<effects, shape, draft, learned, approved, bounds>>
\* The second scan of a new skill, when it is approved: what it stops is rejected at
\* once, what it cleans is written back to the proposal and to the runtime's copy.
Layer2Gate(o) ==
    /\ At(o, "gate")
    /\ LET i == op[o].item
           scanned == op[o].answer = "approved" /\ Kind[i] \in {"skill", "sop"}
           text == ScanText(mem[i].text)
       IN IF scanned /\ text = None
            THEN LET rec == [mem[i] EXCEPT !.status = "rejected"]
                 IN /\ mem' = [mem EXCEPT ![i] = rec]
                    /\ Append(i, rec)
                    /\ op' = [op EXCEPT ![o] = Idle]
            ELSE /\ mem' = IF scanned THEN [mem EXCEPT ![i].text = text] ELSE mem
                 /\ UNCHANGED <<disk, torn>>
                 /\ Goto(o, "decide")
    /\ UNCHANGED <<effects, shape, draft, learned, approved, bounds>>

\* The runtime looks at the status once more, and not again before it has applied.
DecideProposal(o) ==
    /\ At(o, "decide")
    /\ LET i == op[o].item
       IN \/ /\ mem[i].status # "pending"
             /\ UNCHANGED mem /\ Goto(o, "append")
          \/ /\ mem[i].status = "pending" /\ op[o].answer = "rejected"
             /\ Sets(i, "rejected") /\ Goto(o, "append")
          \/ /\ mem[i].status = "pending" /\ op[o].answer = "approved"
             /\ UNCHANGED mem /\ Goto(o, "apply")
    /\ UNCHANGED <<disk, torn, effects, shape, draft, learned, approved, bounds>>

\* SkillManager and UserMemory may refuse what was approved.
ApplyProposal(o) ==
    /\ At(o, "apply") /\ Kind[op[o].item] # "patch"
    /\ LET i == op[o].item
       IN \/ /\ written' = written \cup {<<i, mem[i].text>>}
             /\ sop' = IF Kind[i] = "sop" THEN [sop EXCEPT ![Key[i]] = mem[i].shape] ELSE sop
             /\ op' = [op EXCEPT ![o].pc = "mark", ![o].result = "applied"]
          \/ /\ UNCHANGED <<written, sop>>
             /\ op' = [op EXCEPT ![o].pc = "mark", ![o].result = "approved"]
    /\ UNCHANGED <<queue, policy, shape, draft, learned, approved, bounds>>

Mark(o) ==
    /\ At(o, "mark")
    /\ Sets(op[o].item, op[o].result)
    /\ Goto(o, "append")
    /\ learned' = [learned EXCEPT ![o] = {}]
    /\ UNCHANGED <<disk, torn, effects, shape, draft, approved, bounds>>

PersistOwnResult(o) ==
    /\ At(o, "append")
    /\ Append(op[o].item, [mem[op[o].item] EXCEPT !.status =
                              IF op[o].result = None THEN @ ELSE op[o].result])
    /\ op' = [op EXCEPT ![o] = Idle]
    /\ UNCHANGED <<mem, effects, shape, draft, learned, approved, bounds>>
\* The record is the dict as it is now, whoever changed it last.
Persist(o) ==
    /\ At(o, "append")
    /\ Append(op[o].item, mem[op[o].item])
    /\ op' = [op EXCEPT ![o] = Idle]
    /\ UNCHANGED <<mem, effects, shape, draft, learned, approved, bounds>>

(***************************************************************************)
(* The server stops and is started again; a workflow card is edited.        *)
(***************************************************************************)
\* If it stops inside an append, the line it was writing has no end.
Restart ==
    /\ restarts < MaxRestarts
    /\ restarts' = restarts + 1
    /\ \E fs \in SUBSET {File(op[o].item) : o \in {q \in Operators : At(q, "append")}} :
           /\ tears + Cardinality(fs) <= MaxTears
           /\ torn' = torn \cup fs
           /\ tears' = tears + Cardinality(fs)
    /\ mem' = disk
    /\ op' = [o \in Operators |-> Idle]
    /\ draft' = [t \in Threads |-> NoDraft]
    /\ learned' = [o \in Operators |-> {}]
    /\ UNCHANGED <<disk, effects, shape, approved, requested, edits>>

\* A card edited before its first SOP is just another card.
EditWorkflow(k) ==
    /\ edits < MaxEdits /\ sop[k] # 0
    /\ edits' = edits + 1
    /\ shape' = [shape EXCEPT ![k] = @ + 1]
    /\ UNCHANGED <<queue, effects, draft, requests, requested, restarts, tears>>

Next ==
    \/ \E t \in Threads, i \in Items :
           \/ Evaluate(t, i) \/ RunSkillDistiller(t, i)
           \/ RunCuration(t, i) \/ ProposeWorkflowSop(t, i)
    \/ \E t \in Threads : Register(t)
    \/ \E o \in Operators, i \in Items, answer \in {"approved", "rejected"} : TakeUp(o, i, answer)
    \/ \E o \in Operators :
           \/ RejectPatch(o) \/ BuildRuntime(o) \/ ApplyPatch(o)
           \/ Layer2Gate(o) \/ DecideProposal(o) \/ ApplyProposal(o)
           \/ Mark(o) \/ Persist(o)
    \/ Restart
    \/ \E i \in Items : Kind[i] = "sop" /\ EditWorkflow(Key[i])

Spec == Init /\ [][Next]_vars

(***************************************************************************)
(* Properties.                                                              *)
(***************************************************************************)
TypeOK ==
    /\ mem \in [Items -> [status : {"absent", "rejected", "approved", "applied"} \cup Open,
                          text : Texts, shape : Nat]]
    /\ torn \subseteq {"proposals", "curator"}
    /\ policy \subseteq Items /\ approved \subseteq Items
    /\ written \subseteq Items \X Texts

\* Nothing takes effect unasked: every patch in the learned policy, every skill and every
\* clean-up was approved by an operator while it was undecided, no patch in the policy
\* touches the hard safety.  Holds through racing operators, stale policy copies, replayed
\* queues and restarts.
EffectsWereApproved ==
    /\ policy \subseteq approved
    /\ \A i \in policy : Key[i] \notin HardKeys
    /\ \A w \in written : w[1] \in approved
\* No skill holds text that the scan of today would not let pass, whenever it was drafted.
SkillTextIsScanned ==
    \A w \in written : Kind[w[1]] \in {"skill", "sop"} => w[2] = "clean"

\* The section that registers a run's drafts keeps one undecided SOP per workflow, although
\* the runs that drafted them could not see each other's.  Only a restart can bring a
\* second one back, when a rejection had not reached the file.
OnePendingSopWhileUp ==
    restarts = 0 =>
        \A i, j \in Items :
            /\ Kind[i] = "sop" /\ Kind[j] = "sop" /\ Key[i] = Key[j]
            /\ mem[i].status = "pending" /\ mem[j].status = "pending"
            => i = j

\* Once every request has returned, the files say what memory says, in whatever order the
\* racing requests appended - but for one record for each line a crash left without an end.
ReturnedDecisionsSurvive ==
    (\A o \in Operators : At(o, "idle")) =>
        Cardinality({i \in Items : disk[i] # mem[i]}) <= tears

\* What decide_patch's answer and the status it leaves say: a patch is in force if and
\* only if it is applied (app.py:1473), a refused one never (app.py:1457).
RefusedPatchIsNotInForce ==
    \A i \in Items : Kind[i] = "patch" /\ mem[i].status = "rejected" => i \notin policy

\* runtime.py:4437: a changed step shape falls through and proposes an update.  A run
\* that ends with such a draft leaves an undecided SOP of the new shape in the queue.
SopUpdateIsQueued ==
    [][\A t \in Threads :
          Register(t) /\ Kind[draft[t].item] = "sop"
          /\ sop[Key[draft[t].item]] \notin {0, draft[t].shape}
          => \E i \in Items : /\ Key[i] = Key[draft[t].item]
                              /\ mem'[i].status = "pending"]_vars
=============================================================================
