------------------------------ MODULE SchoolCase ------------------------------
(***************************************************************************)
(* A conversation about school matters (server/app.py start_task,          *)
(* confirm_response_pack and add_deliverables over the situation compiler):*)
(* each request becomes a task, may be tied to an earlier task, may be     *)
(* held for one question, and is then governed with its response pack.     *)
(***************************************************************************)
EXTENDS ResponsePack

CONSTANTS Messages,     \* what users may type
          Authorities,  \* the authority a request declares: "" or "draft_only"
          Additions,    \* the custom deliverables an operator may add later
          MaxTasks

(* At most 20 facts are read in a text, 40 are kept in a case. *)
ASSUME MessagesAssumption ==
  \A m \in Messages :
    /\ m.severity \in Range(Severities)
    /\ m.release \in {"none", "negated", "commanded"}
    /\ m.facts \in Seq([id : STRING, value : STRING, status : FactStatuses, by : {0}])
    /\ Len(m.facts) <= MaxFacts
    /\ m.outputs \in Seq([id : STRING, role : STRING, audience : STRING, to : STRING,
                          asked : BOOLEAN])

VARIABLE tasks          \* the tasks, in the order they were started
caseVars == <<tasks>>

NoAnswer == [q |-> "", a |-> ""]
NoSituation == [facts |-> <<>>]

Ids == DOMAIN tasks
Ready(p) == tasks[p].status \in {"done", "awaiting_approval"} /\ tasks[p].compiled

(* The task a request becomes; its own number names the case it would open.*)
Uncompiled(m, kind, bound, relation, answer, authority) ==
  [msg |-> m, kind |-> kind, parent |-> bound.parent,
   case |-> bound.case, relation |-> relation, answer |-> answer,
   authority |-> authority, question |-> "",
   compiled |-> FALSE, status |-> "governance",
   sit |-> NoSituation, pack |-> [decision |-> "NO_OVERRIDE", items |-> {}]]

(* An added deliverable brings nothing else of the pack with it. *)
OnlyAdded(pack) ==
  [pack EXCEPT !.items = {[d EXCEPT !.selected = @ /\ d.added] : d \in @}]

WithPack(task, s, pack) ==
  [task EXCEPT !.sit = s, !.compiled = TRUE,
               !.pack = IF task.kind = "delta" THEN OnlyAdded(pack) ELSE pack]

WithQuestion(task, question) ==
  [task EXCEPT !.question = question,
               !.status = IF question # "" /\ task.answer = NoAnswer
                          THEN "awaiting_clarification" ELSE @]

Situation(task, s) ==
  WithQuestion(WithPack(task, s, BuildPack(s, task.msg)),
               IF task.kind = "delta" THEN "" ELSE CriticalQuestion(s, task.msg, task.answer))

Compiled(m, kind, ctx, relation, answer, authority, customs) ==
  LET bound == ConfirmBinding(relation, ctx, Len(tasks) + 1)
      task  == Uncompiled(m, kind, bound, relation, answer, authority)
  IN IF relation = "unrelated" \/ m.floor THEN task
     ELSE Situation(task, CompileSituation(m, bound.prior, answer, authority, customs))

CaseInit == tasks = <<>>

(* POST /api/tasks: a typed request, with or without a candidate parent. *)
StartTask ==
  /\ Len(tasks) < MaxTasks
  /\ \E m \in Messages, p \in {0} \cup Ids, auth \in Authorities :
       /\ p # 0 => Ready(p)
       /\ LET ctx == IF p = 0 THEN NoCase ELSE CaseContext(p, tasks[p])
          IN tasks' = Append(tasks, Compiled(m, "typed", ctx,
                         CaseAwareRelation(m, ctx), NoAnswer, auth, <<>>))

(* POST .../confirm: one answer resolves the question and starts a trusted *)
(* continuation with the same words and the same declaration.              *)
ConfirmResponsePack ==
  /\ Len(tasks) < MaxTasks
  /\ \E t \in Ids :
       /\ tasks[t].status = "awaiting_clarification"
       /\ \E a \in IF tasks[t].question = "immediate_danger"
                   THEN {"yes", "no", "unknown"} ELSE {"draft_only", "guardian"} :
            LET resolved == [tasks EXCEPT ![t].status = "done"]
                ctx      == CaseContext(t, tasks[t])
            IN tasks' = Append(resolved,
                 Compiled(tasks[t].msg, "clarification", ctx, "follow_up",
                          [q |-> tasks[t].question, a |-> a],
                          tasks[t].authority, <<>>))

(* POST .../deliverables: the parent's words once more, plus custom items; *)
(* the declared authority is not passed on.                                *)
AddDeliverables ==
  /\ Len(tasks) < MaxTasks
  /\ \E t \in Ids, add \in Additions :
       /\ Ready(t)
       /\ tasks' = Append(tasks,
            Compiled(tasks[t].msg, "delta", CaseContext(t, tasks[t]), "follow_up",
                     NoAnswer, "", <<add>>))

(* The governed run of a task ends. *)
Finish ==
  \E t \in Ids, status \in {"done", "awaiting_approval", "error"} :
    /\ tasks[t].status = "governance"
    /\ tasks' = [tasks EXCEPT ![t].status = status]

Decide ==
  \E t \in Ids : /\ tasks[t].status = "awaiting_approval"
                 /\ tasks' = [tasks EXCEPT ![t].status = "done"]

CaseNext == StartTask \/ ConfirmResponsePack \/ AddDeliverables \/ Finish \/ Decide
CaseSpec == CaseInit /\ [][CaseNext]_caseVars

-----------------------------------------------------------------------------
(* A task and the tasks it confirmed as its parents: what every set that   *)
(* holds the task and the parents of its members has in common.            *)
Closed(S) == \A u \in S : tasks[u].parent # 0 => tasks[u].parent \in S
Lineage(t) == {u \in Ids : \A S \in SUBSET Ids : t \in S /\ Closed(S) => u \in S}

Case(t) == {u \in Ids : tasks[u].case = tasks[t].case}
CompiledTasks == {t \in Ids : tasks[t].compiled}
Facts(t) == LET f == tasks[t].sit.facts IN {f[i] : i \in DOMAIN f}
Chosen(t) == {d \in tasks[t].pack.items : d.selected}
Typed(t) == tasks[t].kind = "typed"

(* The classifier or the words themselves report a danger. *)
Worded(m) == "active" \in m.reads \/ "active_danger" \in FacetsOf(m).signals
Alarms(m) == "active_danger" \in m.signals \/ Worded(m)

CaseTypeOK ==
  \A t \in Ids :
    /\ tasks[t].status \in {"governance", "awaiting_clarification", "done",
                            "awaiting_approval", "error"}
    /\ tasks[t].parent \in 0..(t - 1) /\ tasks[t].case \in 1..t
    /\ tasks[t].question \in {"", "immediate_danger", "external_recipient"}
    /\ Len(tasks[t].sit.facts) <= MaxFacts

(* Facts of one case never reach another: whatever a chain of follow-ups   *)
(* carried over, each fact of a task was stated by the words of the task   *)
(* it is attributed to, and that task is an ancestor in the same case.     *)
FactsStayInTheirCase ==
  \A t \in CompiledTasks : \A f \in Facts(t) :
    LET by == IF f.by = 0 THEN t ELSE f.by
    IN by \in Lineage(t) \cap Case(t) /\ f.value \in tasks[by].msg.says

(* A danger a human declared over stays over: a typed follow-up or an      *)
(* answered task is in active danger only if, since the last "no" in its   *)
(* lineage, someone typed so, answered so, or added deliverables (which    *)
(* repeats the parent's words: the exception AdditionKeepsTheAnswer names).*)
AnsweredNoStands ==
  \A t \in CompiledTasks :
    "active_danger" \in tasks[t].sit.signals =>
      \E u \in Lineage(t) :
        /\ \/ Alarms(tasks[u].msg) /\ tasks[u].answer.a # "no"
           \/ tasks[u].answer.a = "yes"
        /\ \A v \in Lineage(t) : tasks[v].answer.a = "no" => v < u

(* Active danger keeps its floor through every merge and every answer:     *)
(* critical, the emergency number among the stakeholders, and the safety   *)
(* checklist and the contact script required unless the words refuse them. *)
DangerKeepsItsFloor ==
  \A t \in CompiledTasks :
    "active_danger" \in tasks[t].sit.signals =>
      /\ tasks[t].sit.severity = "critical"
      /\ EmergencyNumber \in tasks[t].sit.stakeholders
      /\ \A r \in {"site_safety_checklist", "emergency_contact_script"}
                    \ tasks[t].msg.notRoles :
           \E d \in tasks[t].pack.items :
             d.role = r /\ (d.selected \/ tasks[t].kind = "delta")

(* Words that report a danger, unless they say that nobody knows or a      *)
(* checked classification takes the request for an administrative one.     *)
Reported(m) ==
  Worded(m) /\ ~m.lifeUnknown /\ ~(m.checked /\ "nonincident" \in m.reads)

(* A danger the words report reaches the case with or without a live       *)
(* classifier and whatever case the request is tied to, and a human is     *)
(* asked about it: unless a turn of the case said the hazard is over, or   *)
(* the classifier is out of reach and only a pattern rule heard it.        *)
WordedDangerIsHeard ==
  \A t \in CompiledTasks :
    (Typed(t) /\ Reported(tasks[t].msg)) =>
      /\ "active_danger" \in tasks[t].sit.signals
      /\ \/ tasks[t].question = "immediate_danger"
         \/ \E x \in tasks[t].sit.texts : x.settled = "hazard"
         \/ ~tasks[t].msg.checked /\ "active" \notin tasks[t].msg.reads

(* Nothing a case holds is lost by going on with it: the severity does not *)
(* fall, and every fact of the parent, or the fact of the parent that has  *)
(* the same name or says the same, is still there under its name.          *)
FollowUpKeepsTheCase ==
  \A t \in CompiledTasks :
    tasks[t].parent # 0 =>
      LET p == tasks[t].parent
      IN /\ SeverityRank(tasks[t].sit.severity) >= SeverityRank(tasks[p].sit.severity)
         /\ \A f \in Facts(p) : \E h \in Facts(p) :
              /\ h.id = f.id \/ h.value = f.value
              /\ \E g \in Facts(t) : g.id = h.id

(* A release nobody commanded is never gated for: a gate the compiler adds *)
(* by itself is for a recipient the words or the answer name, never for    *)
(* one they refuse, and for none when the authority is draft-only.         *)
ReleaseWasCommanded ==
  \A t \in CompiledTasks : \A d \in tasks[t].pack.items :
    (d.kind = "gate" /\ ~d.custom) =>
      \/ tasks[t].answer.q = "external_recipient" /\ d.to = tasks[t].answer.a
      \/ /\ tasks[t].authority # "draft_only"
         /\ tasks[t].msg.release = "commanded"
         /\ d.to \notin tasks[t].msg.refuses

(* A person's sensitive details asked for a broad audience never reach it: *)
(* whichever rule put it into the pack, a broad artifact the compiler adds *)
(* carries the privacy contract, and the request is on record as unsafe.   *)
BroadcastIsRewritten ==
  \A t \in CompiledTasks :
    "broadcast" \in tasks[t].msg.unsafe =>
      /\ tasks[t].pack.decision # "NO_OVERRIDE"
      /\ \A d \in Chosen(t) :
           (d.kind = "artifact" /\ ~d.custom
            /\ (d.role \in BroadRoles \/ d.audience \in {"school_community", "public"}))
           => d.private

-----------------------------------------------------------------------------
(* What the comments and prompts say and the code does not keep.           *)

(* The floors "can only add coverage or raise severity": no danger the     *)
(* words report is stood down.                                             *)
NoDangerIsStoodDown ==
  \A t \in CompiledTasks :
    (Typed(t) /\ Worded(tasks[t].msg) /\ ~tasks[t].msg.lifeUnknown)
    => "active_danger" \in tasks[t].sit.signals

(* "Severity plus source_safety is sufficient on its own": a danger the    *)
(* words report now is asked about, unless these words end it themselves.  *)
EveryDangerIsAsked ==
  \A t \in CompiledTasks :
    (Typed(t) /\ Reported(tasks[t].msg)) =>
      tasks[t].question = "immediate_danger" \/ tasks[t].msg.settled = "hazard"

(* "Raise, but never lower, the deterministic incident floor". *)
FloorIsNeverLowered ==
  \A t \in CompiledTasks : Typed(t) =>
    \A i \in DOMAIN Facets : Holds(Facets[i], tasks[t].msg) =>
      SeverityRank(tasks[t].sit.severity) >= SeverityRank(Facets[i].severity)

(* "The user's explicit non-release instruction is stronger than a         *)
(* mistaken semantic suggestion": no gate at all under draft-only.         *)
DraftOnlyIsNeverReleased ==
  \A t \in CompiledTasks :
    (Typed(t) /\ (tasks[t].authority = "draft_only"
                  \/ tasks[t].msg.release = "negated")) =>
      \A d \in Chosen(t) : d.kind # "gate"

(* "A governed draft is required before external release": a selected gate *)
(* is about a selected artifact.                                           *)
EveryReleaseHasItsDraft ==
  \A t \in CompiledTasks : ~tasks[t].kind = "delta" =>
    \A d \in Chosen(t) : (d.kind = "gate" /\ ~d.custom) =>
      \E x \in Chosen(t) : x.kind = "artifact" /\ ~x.custom /\ x.role = d.link

(* "It may not merge or silently forget an obligation". *)
NoObligationIsMerged ==
  \A t \in CompiledTasks : (Typed(t) /\ tasks[t].msg.unsafe = {}) =>
    \A id \in tasks[t].sit.asked : \E d \in tasks[t].pack.items : d.id = id

(* Recommendations "must not silently become required work". *)
NothingUnaskedIsRequired ==
  \A t \in CompiledTasks : Typed(t) =>
    \A d \in Chosen(t) : (d.custom /\ d.kind = "artifact") => d.id \in tasks[t].sit.asked

(* "Do not bolt them on later where privacy rules could be bypassed". *)
CustomsAreRewrittenToo ==
  \A t \in CompiledTasks :
    ("broadcast" \in tasks[t].msg.unsafe) =>
      \A d \in Chosen(t) : d.role \in BroadRoles => d.private

(* "Repeating the same value cannot silently upgrade a prior status". *)
RepetitionKeepsStatus ==
  \A t \in CompiledTasks : tasks[t].parent # 0 =>
    \A f \in Facts(tasks[t].parent), g \in Facts(t) :
      f.value = g.value => (f.status = "unverified" => g.status = "unverified")

(* "Must not resurrect a stale active-danger state". *)
AdditionKeepsTheAnswer ==
  \A t \in CompiledTasks :
    (tasks[t].kind = "delta" /\ "active_danger" \in tasks[t].sit.signals) =>
      "active_danger" \in tasks[tasks[t].parent].sit.signals

(* "The agent must not guess it": governed work has no open question. *)
EveryQuestionIsAnswered ==
  \A t \in CompiledTasks : tasks[t].status = "governance" => tasks[t].question = ""
=============================================================================
