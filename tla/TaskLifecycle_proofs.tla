------------------------- MODULE TaskLifecycle_proofs -------------------------
(***************************************************************************)
(* Proofs about the life of a task, for any tasks, confirm calls and number *)
(* of restarts.  Four copies of a task's record are about at a time: the    *)
(* live one, the stored one, the one its runner read and has yet to append, *)
(* and those that confirm calls read.  The invariant says what each of them *)
(* may hold at each stage of the runner; a restart makes the stored one     *)
(* live, an append makes an old one stored.                                 *)
(***************************************************************************)
EXTENDS TaskLifecycle, TLAPS

\* What TypeOK leaves out: how a task began, and the confirm calls.
Started == {"unborn", "fresh", "candidate", "delta", "clarification"}
CallState == {"idle", "read", "append", "launch", "answered", "lost"}
InFlight == {"read", "append", "launch"}
OriginTypes == origin \in [Tasks -> [kind : Started, from : Tasks \union {None},
                                     case : Tasks \union {None}]]
ConfirmTypes ==
    /\ confirm \in [Confirms -> [at : CallState, on : Tasks \union {None},
                                 write : Record, accepted : BOOLEAN]]
    /\ \A c \in Confirms : confirm[c].at \in InFlight => confirm[c].on \in Tasks
Types == TypeOK /\ OriginTypes /\ ConfirmTypes

\* The runner's stages before the outcome is set under the lock, while a done run is
\* registered and stored inside the try block, and past that block.
Working == {"prepare", "compile", "govern", "review", "finish"}
Closing == {"complete", "save"}
Late == {"read", "append", "ended"}
Outcome == Closing \union Late
InHand == {"save", "append"}
Governed == {"review", "finish"} \union Outcome
Answerable == {"awaiting_clarification", "done", "error"}

\* A live record r and a stored one s against the place p of the runner: nothing
\* before start_task, no outcome and no stored record before the runner sets one,
\* a waiting approval only around a review.
StageFits(p, r, s) ==
    /\ p = "none" => r = Absent
    /\ p \in Working => r.status \in {"running", "awaiting_approval"}
    /\ p \in {"prepare", "compile", "govern", "dead"} => r.status = "running"
    /\ p \in Closing => r.status = "done"
    /\ p \in {"read", "append"} => r.status \in Answerable
    /\ p = "ended" => r.status \in Answerable \union {"absent"}
    /\ p \notin Outcome => s = Absent
StagesFit ==
    \A t \in Tasks :
        /\ runner[t] = "none" <=> origin[t].kind = "unborn"
        /\ StageFits(runner[t], task[t], store[t])
        /\ t \in onGate => runner[t] = "review"

\* A record in a thread's hand was read after the outcome was set, and a question is
\* confirmed only when its runner can raise no more.
RecordsAreSettled ==
    /\ \A t \in Tasks :
        /\ store[t].status \in Answerable \union {"absent"}
        /\ runner[t] \in InHand => write[t].status \in Answerable
    /\ \A c \in Confirms :
        /\ confirm[c].at \in InFlight => /\ task[confirm[c].on].status = "done"
                                        /\ runner[confirm[c].on] \in Late
        /\ confirm[c].at = "append" => confirm[c].write.status = "done"

\* No copy of a stopped case's record offers anything to continue.
Withdrawn(r) == r.status \in {"absent", "running", "error"} \/ (r.status = "done" /\ ~r.ready)
StoppedIsWithdrawn ==
    \A t \in hardStop :
        /\ runner[t] \in {"finish"} \union Outcome
        /\ Withdrawn(task[t]) /\ Withdrawn(store[t])
        /\ runner[t] \in InHand => Withdrawn(write[t])
        /\ \A c \in Confirms : confirm[c].at = "append" /\ confirm[c].on = t =>
               Withdrawn(confirm[c].write)

\* A task is continued only when its run is past pre-governance, so that 101A can
\* no longer stop it afterwards.
ParentsArePastGovernance ==
    \A t \in Tasks : origin[t].from # None =>
        origin[t].from \notin hardStop /\ runner[origin[t].from] \in Governed

\* Every copy of a trusted child's record is in the case it continues.
Trusted(t) == origin[t].kind \in {"clarification", "delta"}
Continues(t, r) ==
    r.status # "absent" => r.case = origin[t].case /\ r.parent = origin[t].from
TrustedRecords ==
    /\ \A t \in Tasks : Trusted(t) =>
        /\ origin[t].from # None
        /\ runner[t] \notin {"none", "prepare", "dead"} => Continues(t, task[t])
        /\ Continues(t, store[t])
        /\ runner[t] \in InHand => Continues(t, write[t])
    /\ \A c \in Confirms : confirm[c].at = "append" /\ Trusted(confirm[c].on) =>
        Continues(confirm[c].on, confirm[c].write)

\* While the server stays up a question somebody confirmed stays settled, so that
\* no second call finds it open.
ConfirmedIsDone ==
    restarts = 0 =>
        /\ \A c \in Confirms : confirm[c].on # None => /\ task[confirm[c].on].status = "done"
                                                      /\ runner[confirm[c].on] \in Late
        /\ \A c, d \in Confirms :
               c # d /\ confirm[c].on = confirm[d].on => confirm[c].on = None

LifecycleInv == /\ Types /\ StagesFit /\ RecordsAreSettled /\ StoppedIsWithdrawn
                /\ ParentsArePastGovernance /\ TrustedRecords /\ ConfirmedIsDone

-------------------------------------------------------------------------------
\* A step of the server on one task, a runner's or a poll's, keeps the invariant
\* when it touches that task's live record, runner and record in hand only and
\* keeps what the invariant says of these.
LEMMA OneTaskStep ==
    ASSUME LifecycleInv, NEW t \in Tasks, TypeOK',
           UNCHANGED <<store, origin, confirm, restarts>>,
           \A u \in Tasks \ {t} :
               task'[u] = task[u] /\ runner'[u] = runner[u] /\ write'[u] = write[u],
           onGate' \subseteq onGate \union {t}, hardStop \subseteq hardStop',
           hardStop' \subseteq hardStop \union {t},
           runner'[t] = "none" <=> runner[t] = "none",
           StageFits(runner'[t], task'[t], store[t]),
           t \in onGate' => runner'[t] = "review",
           runner[t] \in Governed => runner'[t] \in Governed,
           task[t].status = "done" => task'[t].status = "done" \/ runner[t] \in Closing,
           runner[t] \in Late => runner'[t] \in Late,
           runner'[t] \in InHand => write'[t].status \in Answerable,
           t \in hardStop' => /\ runner'[t] \in {"finish"} \union Outcome
                              /\ Withdrawn(task'[t])
                              /\ runner'[t] \in InHand => Withdrawn(write'[t]),
           t \in hardStop' \ hardStop => runner[t] = "govern",
           Trusted(t) =>
               /\ runner'[t] \notin {"none", "prepare", "dead"} => Continues(t, task'[t])
               /\ runner'[t] \in InHand => Continues(t, write'[t])
    PROVE  LifecycleInv'
<1> USE DEF LifecycleInv, Types
<1>1. Types'
  BY DEF OriginTypes, ConfirmTypes
<1>2. StagesFit'
  BY DEF StagesFit
<1>3. RecordsAreSettled'
  BY DEF RecordsAreSettled, ConfirmTypes, Closing, Late
<1>4. StoppedIsWithdrawn'
  <2>1. t \in hardStop' \ hardStop =>
            store[t] = Absent /\ \A c \in Confirms : confirm[c].at = "append" => confirm[c].on # t
    BY DEF StagesFit, StageFits, RecordsAreSettled, Outcome, Closing, Late, InFlight
  <2>2. Withdrawn(Absent)
    BY DEF Withdrawn, Absent
  <2> QED BY <2>1, <2>2 DEF StoppedIsWithdrawn, TypeOK
<1>5. ParentsArePastGovernance'
  BY DEF ParentsArePastGovernance, Governed, Outcome, Closing, Late, OriginTypes
<1>6. TrustedRecords'
  BY DEF TrustedRecords, Trusted, Continues
<1>7. ConfirmedIsDone'
  BY DEF ConfirmedIsDone, ConfirmTypes, Closing, Late
<1> QED BY <1>1, <1>2, <1>3, <1>4, <1>5, <1>6, <1>7

\* Setting the status of a task leaves its other fields and the other tasks alone.
LEMMA SetFacts ==
    ASSUME TypeOK, NEW t \in Tasks, NEW s \in Status, Set(t, s)
    PROVE  /\ task' \in [Tasks -> Record]
           /\ task'[t] = [task[t] EXCEPT !.status = s]
           /\ task'[t].status = s /\ task'[t].ready = task[t].ready
           /\ task'[t].case = task[t].case /\ task'[t].parent = task[t].parent
           /\ \A u \in Tasks \ {t} : task'[u] = task[u]
<1>1. task[t] \in Record
  BY DEF TypeOK
<1>2. [task[t] EXCEPT !.status = s] \in Record
  BY <1>1 DEF Record
<1>3. task' = [task EXCEPT ![t] = [task[t] EXCEPT !.status = s]]
  BY DEF Set
<1>4. task'[t] = [task[t] EXCEPT !.status = s] /\ \A u \in Tasks \ {t} : task'[u] = task[u]
  BY <1>3 DEF TypeOK
<1>5. task' \in [Tasks -> Record]
  BY <1>2, <1>3 DEF TypeOK
<1> QED BY <1>1, <1>4, <1>5 DEF Record

\* Moving a runner leaves the other runners alone.
LEMMA GotoFacts ==
    ASSUME TypeOK, NEW t \in Tasks, NEW p, Goto(t, p)
    PROVE  runner'[t] = p /\ \A u \in Tasks \ {t} : runner'[u] = runner[u]
BY DEF TypeOK, Goto

\* Every step of a runner but those that store a record keeps the invariant.
LEMMA RunnerStep ==
    ASSUME LifecycleInv, NEW t \in Tasks,
           \/ Prepare(t) \/ Compile(t) \/ AskClarification(t) \/ PrepareRaises(t)
           \/ HardStop(t) \/ AskHuman(t) \/ ReviewEnds(t) \/ RunAsksNobody(t)
           \/ FinishRun(t) \/ RunRaises(t) \/ ReadRecord(t) \/ AppendRaises(t)
    PROVE  LifecycleInv'
<1>0. /\ TypeOK /\ OriginTypes /\ task[t] \in Record
      /\ StageFits(runner[t], task[t], store[t])
      /\ t \in onGate => runner[t] = "review"
      /\ t \in hardStop => runner[t] \in {"finish"} \union Outcome /\ Withdrawn(task[t])
      /\ Trusted(t) => /\ origin[t].from # None
                       /\ runner[t] \notin {"none", "prepare", "dead"} => Continues(t, task[t])
  BY DEF LifecycleInv, Types, TypeOK, StagesFit, StoppedIsWithdrawn, TrustedRecords
<1> USE DEF StageFits, Working, Outcome, Closing, Late, InHand, Governed, Answerable
<1>1. CASE Prepare(t)
  <2>1. PICK followUp \in BOOLEAN :
            /\ task' = IF followUp /\ origin[t].from # None
                       THEN [task EXCEPT ![t].parent = origin[t].from, ![t].case = origin[t].case]
                       ELSE task
            /\ Trusted(t) => followUp
    BY <1>1 DEF Prepare, Trusted
  <2>2. /\ origin[t].from \in Tasks \union {None} /\ origin[t].case \in Tasks \union {None}
    BY <1>0 DEF OriginTypes
  <2>3. /\ task' \in [Tasks -> Record] /\ \A u \in Tasks \ {t} : task'[u] = task[u]
        /\ task'[t].status = task[t].status
        /\ Trusted(t) => task'[t].case = origin[t].case /\ task'[t].parent = origin[t].from
    <3>1. CASE followUp /\ origin[t].from # None
      <4>1. task' = [task EXCEPT ![t].parent = origin[t].from, ![t].case = origin[t].case]
        BY <2>1, <3>1
      <4> QED BY <1>0, <2>2, <4>1 DEF TypeOK, Record
    <3>2. CASE ~(followUp /\ origin[t].from # None)
      BY <1>0, <2>1, <3>2 DEF TypeOK
    <3> QED BY <3>1, <3>2
  <2>4. TypeOK' /\ (Trusted(t) => Continues(t, task'[t]))
    BY <1>0, <1>1, <2>3 DEF Prepare, TypeOK, Goto, Continues
  <2>5. /\ runner[t] = "prepare" /\ Goto(t, "compile")
        /\ UNCHANGED <<store, write, onGate, origin, hardStop, confirm, restarts>>
    BY <1>1 DEF Prepare
  <2> QED BY <1>0, <2>3, <2>4, <2>5, GotoFacts, OneTaskStep
<1>2. CASE Compile(t)
  <2>1. PICK ready \in BOOLEAN : task' = [task EXCEPT ![t].ready = ready]
    BY <1>2 DEF Compile
  <2>2. /\ task' \in [Tasks -> Record] /\ \A u \in Tasks \ {t} : task'[u] = task[u]
        /\ task'[t].status = task[t].status /\ task'[t].case = task[t].case
        /\ task'[t].parent = task[t].parent
    BY <1>0, <2>1 DEF TypeOK, Record
  <2>3. TypeOK' /\ (Trusted(t) => Continues(t, task'[t]))
    BY <1>0, <1>2, <2>2 DEF Compile, TypeOK, Goto, Continues
  <2> QED BY <1>0, <1>2, <2>2, <2>3, GotoFacts, OneTaskStep DEF Compile
<1>3. CASE AskClarification(t)
  <2>1. /\ task' \in [Tasks -> Record] /\ \A u \in Tasks \ {t} : task'[u] = task[u]
        /\ task'[t].status = "awaiting_clarification"
    BY <1>0, <1>3 DEF AskClarification, TypeOK, Record, Status
  <2>2. TypeOK' /\ ~Trusted(t)
    BY <1>0, <1>3, <2>1 DEF AskClarification, TypeOK, Goto, Trusted
  <2> QED BY <1>0, <1>3, <2>1, <2>2, GotoFacts, OneTaskStep DEF AskClarification
<1>4. CASE PrepareRaises(t)
  <2>1. TypeOK'
    BY <1>0, <1>4 DEF PrepareRaises, TypeOK, Goto
  <2> QED BY <1>0, <1>4, <2>1, GotoFacts, OneTaskStep DEF PrepareRaises
<1>5. CASE HardStop(t)
  <2>1. TypeOK'
    BY <1>0, <1>5 DEF HardStop, TypeOK, Goto
  <2> QED BY <1>0, <1>5, <2>1, GotoFacts, OneTaskStep DEF HardStop, Withdrawn
<1>6. CASE AskHuman(t)
  <2>1. TypeOK'
    BY <1>0, <1>6 DEF AskHuman, TypeOK, Goto
  <2> QED BY <1>0, <1>6, <2>1, GotoFacts, OneTaskStep DEF AskHuman
<1>7. CASE ReviewEnds(t)
  <2>1. TypeOK'
    BY <1>0, <1>7 DEF ReviewEnds, TypeOK, Goto
  <2> QED BY <1>0, <1>7, <2>1, GotoFacts, OneTaskStep DEF ReviewEnds
<1>8. CASE RunAsksNobody(t)
  <2>1. TypeOK'
    BY <1>0, <1>8 DEF RunAsksNobody, TypeOK, Goto
  <2> QED BY <1>0, <1>8, <2>1, GotoFacts, OneTaskStep DEF RunAsksNobody
<1>9. CASE FinishRun(t)
  <2>1. /\ task' \in [Tasks -> Record] /\ \A u \in Tasks \ {t} : task'[u] = task[u]
        /\ task'[t].status = "done" /\ task'[t].ready = (task[t].ready /\ t \notin hardStop)
        /\ task'[t].case = task[t].case /\ task'[t].parent = task[t].parent
    BY <1>0, <1>9 DEF FinishRun, TypeOK, Record, Status
  <2>2. /\ TypeOK' /\ (Trusted(t) => Continues(t, task'[t]))
        /\ t \in hardStop => Withdrawn(task'[t])
    BY <1>0, <1>9, <2>1 DEF FinishRun, TypeOK, Goto, Continues, Withdrawn
  <2> QED BY <1>0, <1>9, <2>1, <2>2, GotoFacts, OneTaskStep DEF FinishRun
<1>10. CASE RunRaises(t)
  <2>1. /\ task' \in [Tasks -> Record] /\ \A u \in Tasks \ {t} : task'[u] = task[u]
        /\ task'[t].status = "error"
        /\ task'[t].case = task[t].case /\ task'[t].parent = task[t].parent
    BY <1>0, <1>10, SetFacts DEF RunRaises, Status
  <2>2. TypeOK' /\ (Trusted(t) => Continues(t, task'[t])) /\ Withdrawn(task'[t])
    BY <1>0, <1>10, <2>1 DEF RunRaises, TypeOK, Goto, Continues, Withdrawn
  <2> QED BY <1>0, <1>10, <2>1, <2>2, GotoFacts, OneTaskStep DEF RunRaises
<1>11. CASE ReadRecord(t)
  <2>1. TypeOK' /\ write'[t] = task[t] /\ \A u \in Tasks \ {t} : write'[u] = write[u]
    BY <1>0, <1>11 DEF ReadRecord, TypeOK, Goto
  <2> QED BY <1>0, <1>11, <2>1, GotoFacts, OneTaskStep DEF ReadRecord
<1>12. CASE AppendRaises(t)
  <2>1. TypeOK'
    BY <1>0, <1>12 DEF AppendRaises, TypeOK, Goto
  <2> QED BY <1>0, <1>12, <2>1, GotoFacts, OneTaskStep DEF AppendRaises
<1> QED BY <1>1, <1>2, <1>3, <1>4, <1>5, <1>6, <1>7, <1>8, <1>9, <1>10, <1>11, <1>12

\* A poll corrects the status of a task under review, or of one that has left it.
LEMMA PollStep ==
    ASSUME LifecycleInv, NEW t \in Tasks, GetTask(t)
    PROVE  LifecycleInv'
<1>1. /\ TypeOK /\ StageFits(runner[t], task[t], store[t])
      /\ t \in onGate => runner[t] = "review"
      /\ t \in hardStop => runner[t] \in {"finish"} \union Outcome /\ Withdrawn(task[t])
      /\ runner[t] \in InHand => write[t].status \in Answerable
      /\ t \in hardStop => (runner[t] \in InHand => Withdrawn(write[t]))
      /\ Trusted(t) =>
             /\ runner[t] \notin {"none", "prepare", "dead"} => Continues(t, task[t])
             /\ runner[t] \in InHand => Continues(t, write[t])
  BY DEF LifecycleInv, Types, TypeOK, StagesFit, StoppedIsWithdrawn, TrustedRecords,
         RecordsAreSettled
<1>2. task[t] \in Record
  BY <1>1 DEF TypeOK
<1>3. /\ task' \in [Tasks -> Record] /\ \A u \in Tasks \ {t} : task'[u] = task[u]
      /\ task'[t].case = task[t].case /\ task'[t].parent = task[t].parent
      /\ \/ t \in onGate /\ task'[t].status = "awaiting_approval"
         \/ /\ t \notin onGate /\ task[t].status = "awaiting_approval"
            /\ task'[t].status = "running"
  BY <1>1, SetFacts DEF GetTask, Status
<1>4. runner[t] \in {"review", "finish"} /\ task[t].status # "done"
  BY <1>1, <1>3, <1>2 DEF StageFits, Working, Outcome, Closing, Late, Answerable, TypeOK,
                          Absent, GetTask
<1>5. TypeOK' /\ UNCHANGED <<runner, write, onGate, hardStop, store, origin, confirm, restarts>>
  BY <1>1, <1>3 DEF GetTask, TypeOK
<1>6. StageFits(runner'[t], task'[t], store[t])
  BY <1>1, <1>3, <1>4, <1>5 DEF StageFits, Working, Outcome, Closing, Late, Answerable
<1>7. t \in hardStop' => Withdrawn(task'[t])
  BY <1>1, <1>3, <1>4, <1>5 DEF Withdrawn, Outcome, Closing, Late
<1>8. Trusted(t) => Continues(t, task'[t])
  BY <1>1, <1>2, <1>3, <1>4 DEF Continues, StageFits, Working
<1> QED BY <1>1, <1>3, <1>4, <1>5, <1>6, <1>7, <1>8, OneTaskStep

\* The runner stores a record that was read after the outcome was set; when storing a
\* result raises, its line may be in the store and the task turns into an error.
LEMMA AppendStep ==
    ASSUME LifecycleInv, NEW t \in Tasks, AppendRecord(t) \/ SaveRaises(t)
    PROVE  LifecycleInv'
<1> USE DEF LifecycleInv, Types
<1>1. /\ runner[t] \in InHand /\ runner'[t] \in {"ended", "read"}
      /\ store'[t] \in {store[t], write[t]} /\ store' \in [Tasks -> Record]
      /\ \A u \in Tasks \ {t} :
             store'[u] = store[u] /\ runner'[u] = runner[u] /\ task'[u] = task[u]
      /\ UNCHANGED <<write, onGate, origin, hardStop, confirm, restarts>>
      /\ task' \in [Tasks -> Record]
      /\ task'[t].case = task[t].case /\ task'[t].parent = task[t].parent
      /\ \/ task'[t] = task[t] /\ runner'[t] = "ended"
         \/ runner[t] = "save" /\ task'[t].status = "error"
  <2>1. CASE AppendRecord(t)
    BY <2>1 DEF AppendRecord, TypeOK, Goto, InHand
  <2>2. CASE SaveRaises(t)
    <3>1. task' \in [Tasks -> Record] /\ task'[t].status = "error"
          /\ task'[t].case = task[t].case /\ task'[t].parent = task[t].parent
          /\ \A u \in Tasks \ {t} : task'[u] = task[u]
      BY <2>2, SetFacts DEF SaveRaises, Status
    <3>2. runner'[t] = "read" /\ \A u \in Tasks \ {t} : runner'[u] = runner[u]
      BY <2>2, GotoFacts DEF SaveRaises
    <3> QED BY <2>2, <3>1, <3>2 DEF SaveRaises, TypeOK, InHand
  <2> QED BY <2>1, <2>2
<1>2. Types'
  BY <1>1 DEF AppendRecord, SaveRaises, TypeOK, Goto, OriginTypes, ConfirmTypes
<1>3. /\ StageFits(runner[t], task[t], store[t]) /\ runner[t] # "review"
      /\ runner[t] # "none" /\ write[t].status \in Answerable
  BY <1>1 DEF StagesFit, RecordsAreSettled, InHand
<1>4. StagesFit'
  <2>1. StageFits(runner'[t], task'[t], store'[t])
    BY <1>1, <1>3 DEF StageFits, Outcome, Closing, Late, InHand, Working, Answerable
  <2> QED BY <1>1, <1>3, <2>1 DEF StagesFit
<1>5. RecordsAreSettled'
  <2>1. \A c \in Confirms : confirm[c].at \in InFlight /\ confirm[c].on = t =>
            runner[t] \in Late /\ runner'[t] \in Late /\ task'[t] = task[t]
    BY <1>1 DEF RecordsAreSettled, InHand, Late
  <2>2. runner'[t] \notin InHand /\ store'[t].status \in Answerable \union {"absent"}
    BY <1>1, <1>3 DEF RecordsAreSettled, InHand
  <2> QED BY <1>1, <2>1, <2>2 DEF RecordsAreSettled, ConfirmTypes
<1>6. StoppedIsWithdrawn'
  <2>1. t \in hardStop => Withdrawn(task'[t]) /\ Withdrawn(store'[t])
    BY <1>1 DEF StoppedIsWithdrawn, Withdrawn
  <2>2. runner'[t] \in Outcome /\ runner'[t] \notin InHand
    BY <1>1 DEF Outcome, Late, InHand
  <2> QED BY <1>1, <2>1, <2>2 DEF StoppedIsWithdrawn, TypeOK
<1>7. ParentsArePastGovernance'
  BY <1>1 DEF ParentsArePastGovernance, Governed, Outcome, Late, OriginTypes
<1>8. TrustedRecords'
  <2>1. Trusted(t) => Continues(t, task[t]) /\ Continues(t, store[t]) /\ Continues(t, write[t])
    BY <1>1 DEF TrustedRecords, InHand
  <2>2. task[t].status # "absent"
    BY <1>1, <1>3 DEF StageFits, Closing, InHand, Answerable
  <2>3. Trusted(t) => Continues(t, task[t])' /\ Continues(t, store[t])'
    BY <1>1, <2>1, <2>2 DEF Continues
  <2> QED BY <1>1, <2>3 DEF TrustedRecords, Trusted, Continues, InHand
<1>9. ConfirmedIsDone'
  <2>1. restarts = 0 => \A c \in Confirms : confirm[c].on = t =>
            task'[t] = task[t] /\ runner'[t] \in Late
    BY <1>1, TaskLifecycleAssumption DEF ConfirmedIsDone, InHand, Late
  <2> QED BY <1>1, <2>1 DEF ConfirmedIsDone, ConfirmTypes
<1> QED BY <1>2, <1>4, <1>5, <1>6, <1>7, <1>8, <1>9

\* A task that was never started has no record and no thread, and nobody confirms
\* it; a task that may be continued is past pre-governance and was not stopped.
LEMMA LaunchFacts ==
    ASSUME LifecycleInv, NEW t \in Tasks, origin[t].kind = "unborn"
    PROVE  /\ runner[t] = "none" /\ task[t] = Absent /\ store[t] = Absent
           /\ t \notin hardStop /\ t \notin onGate
           /\ \A c \in Confirms : confirm[c].at \in InFlight => confirm[c].on # t
           /\ \A u \in Tasks : origin[u].from = t => t = None
           /\ restarts = 0 => \A c \in Confirms : confirm[c].on = t => t = None
           /\ \A p \in Tasks : ContinuableParent(p) =>
                  p # t /\ p \notin hardStop /\ runner[p] \in Governed
<1> USE DEF LifecycleInv, Types
<1>1. runner[t] = "none" /\ task[t] = Absent /\ store[t] = Absent /\ t \notin onGate
  BY DEF StagesFit, StageFits, Outcome, Closing, Late
<1>2. t \notin hardStop
  BY <1>1 DEF StoppedIsWithdrawn, Outcome, Closing, Late
<1>3. /\ \A c \in Confirms : confirm[c].at \in InFlight => confirm[c].on # t
      /\ restarts = 0 => \A c \in Confirms : confirm[c].on = t => t = None
  BY <1>1 DEF RecordsAreSettled, ConfirmedIsDone, Absent
<1>4. \A u \in Tasks : origin[u].from = t => t = None
  BY <1>1 DEF ParentsArePastGovernance, Governed, Outcome, Closing, Late
<1>5. ASSUME NEW p \in Tasks, ContinuableParent(p)
      PROVE  p # t /\ p \notin hardStop /\ runner[p] \in Governed
  <2>1. p # t
    BY <1>1, <1>5 DEF ContinuableParent, Absent
  <2>2. p \notin hardStop
    BY <1>5 DEF ContinuableParent, StoppedIsWithdrawn, Withdrawn
  <2>3. runner[p] \in Governed
    <3>1. StageFits(runner[p], task[p], store[p])
      BY DEF StagesFit
    <3>2. runner[p] \in {"none", "dead"} \union Working \union Outcome
      BY DEF TypeOK, Working, Outcome, Closing, Late
    <3> QED BY <1>5, <3>1, <3>2 DEF ContinuableParent, StageFits, Governed, Working, Outcome, Closing, Late, Absent
  <2> QED BY <2>1, <2>2, <2>3
<1> QED BY <1>1, <1>2, <1>3, <1>4, <1>5

\* start_task, from whichever handler, keeps the invariant: the candidate parent
\* passed its checks under the lock.  A confirm call that made it is answered.
LEMMA LaunchStep ==
    ASSUME LifecycleInv, NEW t \in Tasks, NEW p \in Tasks \union {None},
           NEW kind \in Started \ {"unborn"}, Launch(t, kind, p),
           p # None => ContinuableParent(p),
           kind \in {"clarification", "delta"} => p # None,
           UNCHANGED <<store, write, onGate, hardStop, restarts>>, ConfirmTypes',
           \A c \in Confirms :
               \/ confirm'[c] = confirm[c]
               \/ confirm'[c].at = "answered" /\ confirm'[c].on = confirm[c].on
    PROVE  LifecycleInv'
<1> USE DEF LifecycleInv, Types
<1> DEFINE r == [Absent EXCEPT !.status = "running", !.case = t]
           o == [kind |-> kind, from |-> p, case |-> IF p = None THEN None ELSE task[p].case]
<1>1. r \in Record /\ r.status = "running"
  BY DEF Record, Absent, Status
<1>2. o \in [kind : Started, from : Tasks \union {None}, case : Tasks \union {None}]
  BY DEF TypeOK, Record
<1>3. /\ origin[t].kind = "unborn"
      /\ task' = [task EXCEPT ![t] = r] /\ origin' = [origin EXCEPT ![t] = o]
      /\ runner' = [runner EXCEPT ![t] = "prepare"]
  BY DEF Launch, Goto
<1>4. /\ task'[t] = r /\ origin'[t] = o /\ runner'[t] = "prepare"
      /\ \A u \in Tasks \ {t} :
             task'[u] = task[u] /\ origin'[u] = origin[u] /\ runner'[u] = runner[u]
  BY <1>3 DEF TypeOK, OriginTypes
<1>5. Types'
  BY <1>1, <1>2, <1>3 DEF TypeOK, OriginTypes
<1>6. o.kind = kind /\ o.from = p
  OBVIOUS
<1> HIDE DEF r, o
<1>7. StagesFit'
  BY <1>1, <1>3, <1>4, <1>6, LaunchFacts DEF StagesFit, StageFits, Working, Outcome, Closing, Late
<1>8. RecordsAreSettled'
  BY <1>3, <1>4, LaunchFacts DEF RecordsAreSettled, ConfirmTypes, InFlight, InHand
<1>9. StoppedIsWithdrawn'
  BY <1>3, <1>4, LaunchFacts DEF StoppedIsWithdrawn, TypeOK
<1>10. ParentsArePastGovernance'
  BY <1>3, <1>4, <1>6, LaunchFacts DEF ParentsArePastGovernance, Governed, OriginTypes
<1>11. TrustedRecords'
  <2>1. Continues(t, store[t])'
    BY <1>3, LaunchFacts DEF Continues, Absent
  <2> QED BY <1>3, <1>4, <1>6, <2>1, LaunchFacts DEF TrustedRecords, Trusted, Continues, InFlight, InHand
<1>12. ConfirmedIsDone'
  BY <1>3, <1>4, LaunchFacts DEF ConfirmedIsDone, ConfirmTypes
<1> QED BY <1>5, <1>7, <1>8, <1>9, <1>10, <1>11, <1>12

\* The confirm call that takes the question finds it open: no call holds it, its
\* runner has set the outcome, and its run never reached pre-governance.
LEMMA ConfirmStep ==
    ASSUME LifecycleInv, NEW c \in Confirms, Confirm(c)
    PROVE  LifecycleInv'
<1> USE DEF LifecycleInv, Types
<1>1. PICK t \in Tasks :
          /\ task[t].status = "awaiting_clarification" /\ Set(t, "done")
          /\ confirm' = [confirm EXCEPT ![c] = [@ EXCEPT !.at = "read", !.on = t]]
  BY DEF Confirm
<1>2. /\ confirm[c].at = "idle" /\ task[t] \in Record
      /\ UNCHANGED <<store, runner, write, onGate, origin, hardStop, restarts>>
  BY DEF Confirm, TypeOK
<1>3. /\ task' \in [Tasks -> Record] /\ task'[t].status = "done"
      /\ task'[t].ready = task[t].ready /\ task'[t].case = task[t].case
      /\ task'[t].parent = task[t].parent
      /\ \A u \in Tasks \ {t} : task'[u] = task[u]
  BY <1>1, SetFacts DEF Status
<1>4. /\ confirm'[c].at = "read" /\ confirm'[c].on = t
      /\ \A d \in Confirms \ {c} : confirm'[d] = confirm[d]
  BY <1>1 DEF ConfirmTypes
<1>5. runner[t] \in Late /\ t \notin onGate
  BY <1>1, <1>2 DEF StagesFit, StageFits, Working, Outcome, Closing, Late, Absent, TypeOK
<1>6. t \notin hardStop
  BY <1>1 DEF StoppedIsWithdrawn, Withdrawn
<1>7. Types'
  <2>1. [confirm[c] EXCEPT !.at = "read", !.on = t]
            \in [at : CallState, on : Tasks \union {None}, write : Record, accepted : BOOLEAN]
    BY DEF ConfirmTypes, CallState
  <2> QED BY <1>1, <1>2, <1>3, <1>4, <2>1 DEF TypeOK, OriginTypes, ConfirmTypes
<1>8. StagesFit'
  BY <1>2, <1>3, <1>5 DEF StagesFit, StageFits, Outcome, Closing, Late, Working, Answerable
<1>9. RecordsAreSettled'
  BY <1>2, <1>3, <1>4, <1>5 DEF RecordsAreSettled, ConfirmTypes
<1>10. StoppedIsWithdrawn'
  BY <1>2, <1>3, <1>4, <1>6 DEF StoppedIsWithdrawn, TypeOK
<1>11. ParentsArePastGovernance'
  BY <1>2 DEF ParentsArePastGovernance
<1>12. TrustedRecords'
  BY <1>2, <1>3, <1>4, <1>1 DEF TrustedRecords, Trusted, Continues
<1>13. ConfirmedIsDone'
  BY <1>1, <1>2, <1>3, <1>4, <1>5 DEF ConfirmedIsDone, ConfirmTypes
<1> QED BY <1>7, <1>8, <1>9, <1>10, <1>11, <1>12, <1>13

\* The later steps of a confirm call: it reads the settled record, stores what it
\* read, and asks start_task for the continuation, which may refuse.
LEMMA ConfirmGoesOn ==
    ASSUME LifecycleInv, NEW c \in Confirms,
           \/ ConfirmRead(c) \/ ConfirmAppend(c) \/ ConfirmRefused(c)
    PROVE  LifecycleInv'
<1> USE DEF LifecycleInv, Types
<1> DEFINE t == confirm[c].on
<1>1. /\ confirm[c] \in [at : CallState, on : Tasks \union {None}, write : Record,
                         accepted : BOOLEAN]
      /\ t \in Tasks /\ task[t] \in Record /\ task[t].status = "done"
      /\ confirm[c].at = "append" => confirm[c].write.status = "done"
      /\ runner[t] \in Late
  <2>1. confirm[c].at \in InFlight
    BY DEF ConfirmRead, ConfirmAppend, ConfirmRefused, InFlight
  <2> QED BY <2>1 DEF ConfirmTypes, TypeOK, RecordsAreSettled, StagesFit, StageFits, Working,
                      Outcome, Closing, Late, Absent
<1>2. /\ UNCHANGED <<task, runner, write, onGate, origin, hardStop, restarts>>
      /\ \A d \in Confirms \ {c} : confirm'[d] = confirm[d]
      /\ confirm'[c].on = t
      /\ \/ /\ confirm[c].at = "read" /\ confirm'[c].at = "append"
            /\ confirm'[c].write = task[t] /\ UNCHANGED store
         \/ /\ confirm[c].at = "append" /\ confirm'[c].at = "launch"
            /\ store' = [store EXCEPT ![t] = confirm[c].write]
         \/ confirm'[c].at = "answered" /\ UNCHANGED store
  <2>1. CASE ConfirmRead(c)
    BY <1>1, <2>1 DEF ConfirmRead, ConfirmTypes
  <2>2. CASE ConfirmAppend(c)
    BY <1>1, <2>2 DEF ConfirmAppend, ConfirmTypes
  <2>3. CASE ConfirmRefused(c)
    BY <1>1, <2>3 DEF ConfirmRefused, ConfirmTypes, Answered, Idle
  <2> QED BY <2>1, <2>2, <2>3
<1>3. Types'
  <2>1. ASSUME ConfirmRead(c) PROVE ConfirmTypes'
    <3>1. [confirm[c] EXCEPT !.at = "append", !.write = task[t]]
              \in [at : CallState, on : Tasks \union {None}, write : Record, accepted : BOOLEAN]
      BY <1>1 DEF CallState
    <3> QED BY <1>1, <1>2, <2>1, <3>1 DEF ConfirmRead, ConfirmTypes
  <2>2. ASSUME ConfirmAppend(c) PROVE ConfirmTypes'
    <3>1. [confirm[c] EXCEPT !.at = "launch"]
              \in [at : CallState, on : Tasks \union {None}, write : Record, accepted : BOOLEAN]
      BY <1>1 DEF CallState
    <3> QED BY <1>1, <1>2, <2>2, <3>1 DEF ConfirmAppend, ConfirmTypes
  <2>3. ASSUME ConfirmRefused(c) PROVE ConfirmTypes'
    <3>1. Answered(c, FALSE)
              \in [at : CallState, on : Tasks \union {None}, write : Record, accepted : BOOLEAN]
      BY <1>1 DEF CallState, Answered, Idle, Record, Absent, Status
    <3> QED BY <1>1, <1>2, <2>3, <3>1 DEF ConfirmRefused, ConfirmTypes
  <2>4. TypeOK' /\ OriginTypes'
    BY <1>1, <1>2 DEF TypeOK, OriginTypes
  <2> QED BY <2>1, <2>2, <2>3, <2>4
<1> HIDE DEF t
<1>4. /\ store \in [Tasks -> Record]
      /\ \A u \in Tasks \ {t} : store'[u] = store[u]
      /\ store'[t] \in {store[t], confirm[c].write}
      /\ store'[t] # store[t] => confirm[c].at = "append" /\ store'[t] = confirm[c].write
  BY <1>1, <1>2 DEF TypeOK
<1>5. StagesFit'
  BY <1>1, <1>2, <1>4 DEF StagesFit, StageFits, Outcome, Closing, Late
<1>6. RecordsAreSettled'
  BY <1>1, <1>2, <1>4 DEF RecordsAreSettled, ConfirmTypes, Answerable, InFlight, t
<1>7. StoppedIsWithdrawn'
  BY <1>1, <1>2, <1>4 DEF StoppedIsWithdrawn, TypeOK, t
<1>8. ParentsArePastGovernance'
  BY <1>2 DEF ParentsArePastGovernance
<1>9. TrustedRecords'
  <2>1. Trusted(t) => Continues(t, task[t])
    BY <1>1 DEF TrustedRecords, Outcome, Closing, Late
  <2>2. Trusted(t) => Continues(t, store'[t])
    BY <1>1, <1>4 DEF TrustedRecords, t
  <2> QED BY <1>1, <1>2, <1>4, <2>1, <2>2 DEF TrustedRecords, Trusted, Continues, t
<1>10. ConfirmedIsDone'
  BY <1>2 DEF ConfirmedIsDone, ConfirmTypes, t
<1> QED BY <1>3, <1>5, <1>6, <1>7, <1>8, <1>9, <1>10

\* A restart makes the stored records live and ends every thread.
LEMMA RestartStep == LifecycleInv /\ Restart => LifecycleInv'
<1> SUFFICES ASSUME LifecycleInv, Restart PROVE LifecycleInv'
  OBVIOUS
<1> USE DEF LifecycleInv, Types
<1>1. /\ task' = store /\ onGate' = {} /\ restarts' = restarts + 1 /\ restarts < MaxRestarts
      /\ UNCHANGED <<store, origin, hardStop>>
      /\ \A t \in Tasks : /\ write'[t] = Absent
                          /\ runner'[t] = IF runner[t] = "none" THEN "none" ELSE "ended"
  BY DEF Restart
<1>2. restarts \in Nat /\ restarts' # 0
  BY <1>1, TaskLifecycleAssumption DEF TypeOK
<1>3. \A c \in Confirms :
          /\ confirm'[c] \in [at : CallState, on : Tasks \union {None}, write : Record,
                              accepted : BOOLEAN]
          /\ confirm'[c].at \notin InFlight
  BY DEF Restart, ConfirmTypes, CallState, InFlight, Idle, Record, Absent, Status
<1>4. Types'
  <2>1. ConfirmTypes'
    BY <1>3 DEF Restart, ConfirmTypes
  <2>2. Absent \in Record
    BY DEF Record, Absent, Status
  <2>3. TypeOK'
    BY <1>1, <1>2, <2>2, TaskLifecycleAssumption DEF Restart, TypeOK
  <2> QED BY <1>1, <2>1, <2>3 DEF OriginTypes
<1>5. StagesFit'
  BY <1>1 DEF StagesFit, StageFits, RecordsAreSettled, Working, Outcome, Closing, Late
<1>6. RecordsAreSettled'
  BY <1>1, <1>3 DEF RecordsAreSettled, InFlight, InHand, Late
<1>7. StoppedIsWithdrawn'
  BY <1>1, <1>3 DEF StoppedIsWithdrawn, InFlight, InHand, Outcome, Closing, Late, TypeOK
<1>8. ParentsArePastGovernance'
  BY <1>1 DEF ParentsArePastGovernance, Governed, Outcome, Closing, Late, OriginTypes
<1>9. TrustedRecords'
  BY <1>1, <1>3 DEF TrustedRecords, Trusted, Continues, InFlight, InHand
<1>10. ConfirmedIsDone'
  BY <1>2 DEF ConfirmedIsDone
<1> QED BY <1>4, <1>5, <1>6, <1>7, <1>8, <1>9, <1>10

-------------------------------------------------------------------------------
\* The initial state satisfies the invariant.
LEMMA InitKeepsInv == Init => LifecycleInv
<1> SUFFICES ASSUME Init PROVE LifecycleInv
  OBVIOUS
<1>1. Absent \in Record
  BY DEF Record, Absent, Status
<1>2. Types
  BY <1>1, TaskLifecycleAssumption
     DEF Init, Types, TypeOK, OriginTypes, ConfirmTypes, Started, CallState, InFlight, Idle
<1>3. StagesFit /\ RecordsAreSettled /\ StoppedIsWithdrawn
  BY DEF Init, StagesFit, StageFits, RecordsAreSettled, StoppedIsWithdrawn, Idle, Absent,
         InFlight, Working, Outcome, Closing, Late, InHand
<1>4. ParentsArePastGovernance /\ TrustedRecords /\ ConfirmedIsDone
  BY DEF Init, ParentsArePastGovernance, TrustedRecords, ConfirmedIsDone, Trusted, Idle
<1> QED BY <1>2, <1>3, <1>4 DEF LifecycleInv

\* Every step keeps it.
LEMMA StepKeepsInv == LifecycleInv /\ [Next]_vars => LifecycleInv'
<1> SUFFICES ASSUME LifecycleInv, [Next]_vars PROVE LifecycleInv'
  OBVIOUS
<1>1. TypeOK /\ ConfirmTypes /\ (UNCHANGED confirm => ConfirmTypes')
  BY DEF LifecycleInv, Types, ConfirmTypes
<1>2. ASSUME NEW t \in Tasks, StartFresh(t) PROVE LifecycleInv'
  BY <1>1, <1>2, LaunchStep DEF StartFresh, Started
<1>3. ASSUME NEW t \in Tasks, StartFollowUp(t) PROVE LifecycleInv'
  <2>1. PICK p \in Tasks : ContinuableParent(p) /\ Launch(t, "candidate", p)
    BY <1>3 DEF StartFollowUp
  <2> QED BY <1>1, <1>3, <2>1, LaunchStep DEF StartFollowUp, Started
<1>4. ASSUME NEW t \in Tasks, AddDeliverables(t) PROVE LifecycleInv'
  <2>1. PICK p \in Tasks : ContinuableParent(p) /\ Launch(t, "delta", p)
    BY <1>4 DEF AddDeliverables
  <2> QED BY <1>1, <1>4, <2>1, TaskLifecycleAssumption, LaunchStep DEF AddDeliverables, Started
<1>5. ASSUME NEW t \in Tasks, Runner(t) PROVE LifecycleInv'
  BY <1>5, RunnerStep, AppendStep DEF Runner
<1>6. ASSUME NEW t \in Tasks, GetTask(t) PROVE LifecycleInv'
  BY <1>6, PollStep
<1>7. ASSUME NEW c \in Confirms, Confirm(c) PROVE LifecycleInv'
  BY <1>7, ConfirmStep
<1>8. ASSUME NEW c \in Confirms, ConfirmRead(c) \/ ConfirmAppend(c) \/ ConfirmRefused(c)
      PROVE  LifecycleInv'
  BY <1>8, ConfirmGoesOn
<1>9. ASSUME NEW c \in Confirms, NEW t \in Tasks, ConfirmLaunch(c, t) PROVE LifecycleInv'
  <2>1. confirm[c].at \in InFlight /\ confirm[c].on \in Tasks
    BY <1>1, <1>9 DEF ConfirmLaunch, ConfirmTypes, InFlight
  <2>2. /\ ContinuableParent(confirm[c].on) /\ Launch(t, "clarification", confirm[c].on)
        /\ UNCHANGED <<store, write, onGate, hardStop, restarts>>
        /\ confirm' = [confirm EXCEPT ![c] = Answered(c, TRUE)]
    BY <1>9 DEF ConfirmLaunch
  <2>3. /\ Answered(c, TRUE) \in [at : CallState, on : Tasks \union {None}, write : Record,
                                  accepted : BOOLEAN]
        /\ Answered(c, TRUE).at = "answered" /\ Answered(c, TRUE).on = confirm[c].on
    BY <2>1 DEF Answered, Idle, CallState, Record, Absent, Status
  <2>4. /\ ConfirmTypes'
        /\ \A d \in Confirms : \/ confirm'[d] = confirm[d]
                               \/ confirm'[d].at = "answered" /\ confirm'[d].on = confirm[d].on
    BY <1>1, <2>2, <2>3 DEF ConfirmTypes, InFlight
  <2>5. confirm[c].on # None /\ "clarification" \in Started \ {"unborn"}
    BY <2>1, TaskLifecycleAssumption DEF Started
  <2> QED BY <2>1, <2>2, <2>4, <2>5, LaunchStep
<1>10. CASE Restart
  BY <1>10, RestartStep
<1>11. CASE UNCHANGED vars
  BY <1>11 DEF vars, LifecycleInv, Types, TypeOK, OriginTypes, ConfirmTypes, StagesFit,
     RecordsAreSettled, StoppedIsWithdrawn, ParentsArePastGovernance, TrustedRecords,
     Trusted, Continues, ConfirmedIsDone
<1> QED BY <1>2, <1>3, <1>4, <1>5, <1>6, <1>7, <1>8, <1>9, <1>10, <1>11 DEF Next

\* The invariant holds throughout: nothing a thread, a call or a restart does
\* breaks what the four copies of a record may hold.
THEOREM SpecKeepsInv == Spec => []LifecycleInv
<1>1. Init => LifecycleInv
  BY InitKeepsInv
<1>2. LifecycleInv /\ [Next]_vars => LifecycleInv'
  BY StepKeepsInv
<1> QED BY <1>1, <1>2, PTL DEF Spec

\* Every variable keeps its type.
THEOREM TypeCorrect == Spec => []TypeOK
<1>1. LifecycleInv => TypeOK
  BY DEF LifecycleInv, Types
<1> QED BY <1>1, SpecKeepsInv, PTL

\* A case that 101A stopped is never continued, however many restarts bring its
\* record back: the checks of start_task read task[p] alone, and no copy of a
\* stopped record that could become task[p] passes them.
THEOREM StopIsFinal == Spec => []HardStoppedCaseNeverContinues
<1>1. LifecycleInv => HardStoppedCaseNeverContinues
  BY DEF LifecycleInv, ParentsArePastGovernance, HardStoppedCaseNeverContinues
<1> QED BY <1>1, SpecKeepsInv, PTL

\* A restart brings back no task that waits on a thread or a gate that is gone.
THEOREM RestartFindsNoGhost == Spec => []StoreHoldsNoGhost
<1>1. LifecycleInv => StoreHoldsNoGhost
  BY DEF LifecycleInv, RecordsAreSettled, Answerable, StoreHoldsNoGhost
<1> QED BY <1>1, SpecKeepsInv, PTL

\* While the server stays up a clarification question is confirmed once.
THEOREM OneConfirmation == Spec => []OneConfirmationWhileUp
<1>1. LifecycleInv => OneConfirmationWhileUp
  BY DEF LifecycleInv, ConfirmedIsDone, OneConfirmationWhileUp
<1> QED BY <1>1, SpecKeepsInv, PTL

\* A trusted child, from a confirmation or a delta, stays in the case of the task
\* it continues, in its live record and in what a restart reads back.
THEOREM ChildKeepsTheCase == Spec => []TrustedChildKeepsTheCase
<1>1. LifecycleInv => TrustedChildKeepsTheCase
  BY DEF LifecycleInv, TrustedRecords, Trusted, Continues, TrustedChildKeepsTheCase
<1> QED BY <1>1, SpecKeepsInv, PTL

\* While the server stays up an error stands, and nothing turns a done task into an
\* error but its own runner before it has stored the result: polls, late confirmations,
\* continuations, other runners and the question's or the error's own append leave it.
THEOREM OutcomeStands == Spec => SettledStaysSettled
<1> DEFINE Stands == \A t \in Tasks : task[t].status \in {"done", "error"} /\ restarts' = restarts
                         => \/ task'[t].status = task[t].status
                            \/ task[t].status = "done" /\ task'[t].status = "error"
                               /\ runner[t] \in {"complete", "save"}
<1>1. LifecycleInv /\ [Next]_vars => Stands
  <2> SUFFICES ASSUME LifecycleInv, Next, NEW t \in Tasks, task[t].status \in {"done", "error"},
                      restarts' = restarts, task'[t] # task[t]
               PROVE  /\ task[t].status = "done" /\ task'[t].status = "error"
                      /\ runner[t] \in {"complete", "save"}
    BY DEF vars
  <2>1. /\ TypeOK /\ task[t] # Absent /\ runner[t] \in Outcome
        /\ origin[t].kind # "unborn" /\ t \notin onGate
        /\ runner[t] \in Closing => task[t].status = "done"
    <3>1. /\ TypeOK /\ StageFits(runner[t], task[t], store[t])
          /\ t \in onGate => runner[t] = "review"
          /\ runner[t] = "none" <=> origin[t].kind = "unborn"
      BY DEF LifecycleInv, Types, StagesFit
    <3>2. task[t] # Absent
      BY DEF Absent
    <3> QED BY <3>1, <3>2 DEF StageFits, Outcome, Closing, Late, Working, TypeOK
  <2>2. ASSUME NEW u \in Tasks, NEW kind, NEW p, Launch(u, kind, p) PROVE FALSE
    BY <2>1, <2>2 DEF Launch, TypeOK
  <2>3. ASSUME NEW u \in Tasks, Runner(u)
        PROVE  u = t /\ (RunRaises(t) \/ SaveRaises(t))
    BY <2>1, <2>3 DEF Runner, Prepare, Compile, AskClarification, PrepareRaises, HardStop,
       AskHuman, ReviewEnds, RunAsksNobody, FinishRun, RunRaises, SaveRaises, ReadRecord,
       AppendRecord, AppendRaises, Set, TypeOK, Outcome, Closing, Late
  <2>4. ASSUME RunRaises(t) \/ SaveRaises(t)
        PROVE  runner[t] \in Closing /\ task'[t].status = "error"
    BY <2>1, <2>4, SetFacts DEF RunRaises, SaveRaises, Outcome, Closing, Late, Status
  <2>5. ASSUME NEW u \in Tasks, GetTask(u) PROVE FALSE
    BY <2>1, <2>5 DEF GetTask, Set, TypeOK
  <2>6. ASSUME NEW c \in Confirms, Confirm(c) PROVE FALSE
    BY <2>1, <2>6 DEF Confirm, Set, TypeOK
  <2>7. ~Restart
    BY <2>1 DEF Restart, TypeOK
  <2>8. \E u \in Tasks : Runner(u)
    BY <2>2, <2>5, <2>6, <2>7 DEF Next, StartFresh, StartFollowUp, AddDeliverables,
       ConfirmLaunch, ConfirmRead, ConfirmAppend, ConfirmRefused
  <2> QED BY <2>1, <2>3, <2>4, <2>8 DEF Closing
<1>2. [][Stands]_vars <=> SettledStaysSettled
  BY DEF SettledStaysSettled
<1> QED BY <1>1, <1>2, SpecKeepsInv, PTL DEF Spec
===============================================================================
