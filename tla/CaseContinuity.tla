--------------------------- MODULE CaseContinuity ---------------------------
(***************************************************************************)
(* How a new request is tied to an earlier school case, and what it then   *)
(* inherits (modules/module_school_case_context.py).                       *)
(*                                                                         *)
(* A message is a record.  Its text is abstracted to what the pattern      *)
(* rules read from it:                                                     *)
(*   school    the classifier placed it in the school domain               *)
(*   proposed  the case relation the classifier proposes                   *)
(*   cues      the wordings found: "explicit_new", "edit", "weak", ...     *)
(*   topics    its case-specific words (stop words left out), bigrams its  *)
(*             pairs of them, attributed, object and person the words it     *)
(*             points back with ("that pupil")                               *)
(*   kinds     the kinds of artifact it names; notKinds and notRoles those *)
(*             it excludes                                                 *)
(*   says      the fact values its words support                           *)
(*   facts     the facts the extractor claims to have read in it           *)
(* A case context is the snapshot of a finished task: its situation, the   *)
(* registry of its artifacts and its topic words.                          *)
(***************************************************************************)
EXTENDS Naturals, Sequences, FiniteSets, SequencesExt, FiniteSetsExt

CONSTANTS MaxFacts,     \* _merge_facts keeps the first 40
          MaxRegistry   \* _MAX_CASE_DELIVERABLES, the last 24

ASSUME LimitsAssumption == MaxFacts \in Nat /\ MaxRegistry \in Nat

NoCase == [case |-> 0]

(* _artifact_kind: the everyday name of a role. *)
ArtifactKind(role) ==
  CASE role \in {"internal_incident_report", "evidence_status_report"} -> "report"
    [] role \in {"private_parent_notice", "school_parent_notice"}      -> "notice"
    [] role = "public_communication_draft"                             -> "post"
    [] role \in {"measurement_plan", "site_safety_checklist",
                 "student_support_plan"}                               -> "plan"
    [] role \in {"external_stakeholder_message", "emergency_contact_script",
                 "medical_handover_script"}                            -> "message"
    [] OTHER                                                           -> ""

RolesOf(outputs) == {outputs[i].role : i \in DOMAIN outputs}

(***************************************************************************)
(* The relation.  A proposal of the classifier is not evidence: the text   *)
(* must point at something the candidate case holds.                       *)
(***************************************************************************)
Has(m, cue) == cue \in m.cues

Shared(m, ctx) == m.topics \cap ctx.topics

Novel(m, ctx) == Cardinality(m.topics \ ctx.topics)

(* The kinds named in the text that exactly one earlier artifact has. *)
Referenced(m, ctx) ==
  {k \in m.kinds :
     Cardinality({r \in RolesOf(ctx.registry) : ArtifactKind(r) = k}) = 1}

Continues(m) == Has(m, "continuation") \/ Has(m, "not_new")

(* A newly named subject for an artifact of a familiar kind. *)
NewSubject(m, ctx) ==
  /\ Shared(m, ctx) = {}
  /\ \/ Has(m, "introduced")
     \/ /\ Has(m, "edit") /\ Referenced(m, ctx) # {} /\ Novel(m, ctx) > 0
        /\ ~Has(m, "weak") /\ ~Continues(m) /\ ~Has(m, "exclusion")

(* The rules that prove a follow-up, one disjunct per rule of the code. *)
FollowUpEvidence(m, ctx) ==
  LET shared     == Shared(m, ctx)
      referenced == Referenced(m, ctx)
      edit       == Has(m, "edit")
      weak       == Has(m, "weak")
  IN \/ Has(m, "fact_status") /\ "report" \in referenced
        /\ (weak \/ edit \/ Continues(m))
     \/ Has(m, "exclusion") /\ referenced # {}
        /\ (Has(m, "additive") \/ Continues(m) \/ shared # {})
     \/ m.attributed \cap ctx.topics # {}
     \/ m.object \cap ctx.topics # {}
        /\ (weak \/ (Continues(m) /\ Novel(m, ctx) <= 1))
     \/ /\ Has(m, "pack_wide") /\ Has(m, "fact_status")
        /\ ctx.registry # <<>> /\ m.object \cap ctx.topics # {}
     \/ m.person \cap ctx.people # {} /\ Continues(m) /\ shared # {}
     \/ Has(m, "content_edit") /\ Cardinality(m.bigrams \cap ctx.bigrams) >= 2
     \/ Continues(m) /\ Has(m, "pronoun") /\ shared # {}
     \/ Continues(m) /\ Cardinality(shared) >= 2
     \/ edit /\ referenced # {} /\ (shared # {} \/ Novel(m, ctx) <= 4)
     \/ edit /\ weak /\ Len(ctx.registry) = 1 /\ Novel(m, ctx) <= 3

(* Wording that points somewhere, without evidence where. *)
Unresolved(m, ctx) ==
  \/ m.cues \cap {"generic", "weak", "pronoun", "edit"} # {}
  \/ Continues(m)
  \/ m.kinds # {} /\ Referenced(m, ctx) = {} /\ Has(m, "referential")

ResolveRelation(m, ctx) ==
  CASE ~m.school                    -> "unrelated"
    [] m.school /\ ctx = NoCase     -> IF m.proposed = "follow_up"
                                       THEN "ambiguous" ELSE "new_case"
    [] OTHER ->
         IF Has(m, "explicit_new") \/ NewSubject(m, ctx) THEN "new_case"
         ELSE IF FollowUpEvidence(m, ctx)                THEN "follow_up"
         ELSE IF Unresolved(m, ctx)                      THEN "ambiguous"
         ELSE "new_case"

(* Outside the domain, one retry: it counts only if it proves a follow-up. *)
CaseAwareRelation(m, ctx) ==
  IF ~m.school /\ ctx # NoCase
     /\ ResolveRelation([m EXCEPT !.school = TRUE], ctx) = "follow_up"
  THEN "follow_up" ELSE ResolveRelation(m, ctx)

\* Mutant: a candidate is inherited from although it was not confirmed.
InheritCandidate(relation, ctx, newCase) ==
  IF relation = "follow_up" /\ ctx # NoCase
  THEN [case |-> ctx.case, parent |-> ctx.source, prior |-> ctx]
  ELSE [case |-> newCase, parent |-> 0, prior |-> ctx]

(* confirm_case_binding: only a confirmed follow-up inherits the case. *)
ConfirmBinding(relation, ctx, newCase) ==
  IF relation = "follow_up" /\ ctx # NoCase
  THEN [case |-> ctx.case, parent |-> ctx.source, prior |-> ctx]
  ELSE [case |-> newCase, parent |-> 0, prior |-> NoCase]

(* The elements of a sequence that are in a set, in their order. *)
Filtered(seq, keep) ==
  LET kept[i \in 0..Len(seq)] ==
        IF i = 0 THEN <<>>
        ELSE IF seq[i] \in keep THEN Append(kept[i - 1], seq[i]) ELSE kept[i - 1]
  IN kept[Len(seq)]

(***************************************************************************)
(* Facts.  [id, value, status, by]; "by" is the task that stated the fact, *)
(* 0 until the snapshot of that task names it.                             *)
(***************************************************************************)
FactStatuses == {"reported", "confirmed", "unverified", "unknown"}

(* _safe_fact_list: grounded in the text, and never confirmed by a model. *)
GroundedFacts(m) ==
  LET grounded == Filtered(m.facts, {f \in Range(m.facts) : f.value \in m.says})
  IN [i \in DOMAIN grounded |->
        [grounded[i] EXCEPT !.status = IF @ = "confirmed" THEN "reported" ELSE @]]

KeepFirst(facts, f) ==
  IF \E i \in DOMAIN facts : facts[i].id = f.id \/ facts[i].value = f.value
  THEN facts ELSE Append(facts, f)

(* A value already known keeps its status; a new value under a known id    *)
(* replaces the old one in place.                                          *)
MergeFact(facts, f) ==
  LET byId    == {i \in DOMAIN facts : facts[i].id = f.id}
      byValue == {i \in DOMAIN facts : facts[i].value = f.value}
  IN IF byId = {} /\ byValue = {} THEN Append(facts, f)
     ELSE IF byId = {} THEN facts
     ELSE LET i == Min(byId)
          IN IF facts[i].value = f.value THEN facts ELSE [facts EXCEPT ![i] = f]

(* The parent's facts without repetitions, then the current ones in turn. *)
KeepAll(parent) ==
  LET kept[i \in 0..Len(parent)] ==
        IF i = 0 THEN <<>> ELSE KeepFirst(kept[i - 1], parent[i])
  IN kept[Len(parent)]

MergeAll(base, current) ==
  LET merged[i \in 0..Len(current)] ==
        IF i = 0 THEN base ELSE MergeFact(merged[i - 1], current[i])
  IN merged[Len(current)]

\* Mutant: at the limit the newest facts push out the oldest.
MergeNewest(parent, current) ==
  LET all == MergeAll(KeepAll(parent), current)
  IN SubSeq(all, 1 + Max({0, Len(all) - MaxFacts}), Len(all))

MergeFacts(parent, current) ==
  LET all == MergeAll(KeepAll(parent), current)
  IN SubSeq(all, 1, Min({Len(all), MaxFacts}))

(***************************************************************************)
(* Artifacts.                                                              *)
(***************************************************************************)
Excluded(m, role) == role \in m.notRoles \/ ArtifactKind(role) \in m.notKinds

(* The first output of each role, in their order. *)
OnePerRole(outputs) ==
  LET firsts == Filtered([i \in DOMAIN outputs |-> i],
                  {Min({i \in DOMAIN outputs : outputs[i].role = r}) : r \in RolesOf(outputs)})
  IN [k \in DOMAIN firsts |-> outputs[firsts[k]]]

(* _restore_pack_wide_artifact_outputs: "update the whole pack".  Of the     *)
(* current outputs the new roles stay, each once.                           *)
RestorePackWide(outputs, ctx, m) ==
  IF ~Has(m, "pack_wide") \/ ctx.registry = <<>> THEN outputs
  ELSE LET prior == Filtered(ctx.registry,
                      {o \in Range(ctx.registry) : ~Excluded(m, o.role)})
           fresh == Filtered(outputs,
                      {o \in Range(outputs) : /\ ~Excluded(m, o.role)
                                              /\ o.role # "user_titled_document"
                                              /\ o.role \notin RolesOf(prior)})
       IN [i \in DOMAIN prior |-> [prior[i] EXCEPT !.asked = TRUE]] \o OnePerRole(fresh)

(* _restore_referenced_artifact_outputs: a named kind that one file has. *)
RestoreReferenced(outputs, ctx, m) ==
  LET have   == {ArtifactKind(r) : r \in RolesOf(outputs)}
      wanted == {k \in m.kinds \ (m.notKinds \cup have) : k \in Referenced(m, ctx)}
      back   == Filtered(ctx.registry,
                  {o \in Range(ctx.registry) : ArtifactKind(o.role) \in wanted})
  IN outputs \o [i \in DOMAIN back |-> [back[i] EXCEPT !.asked = TRUE]]

(* The registry: one entry per role, the latest version in the first place.*)
Registered(outputs) ==
  LET ones == OnePerRole(outputs)
  IN [k \in DOMAIN ones |->
        outputs[Max({i \in DOMAIN outputs : outputs[i].role = ones[k].role})]]

LastOf(registry) ==
  SubSeq(registry, 1 + Max({0, Len(registry) - MaxRegistry}), Len(registry))

CaseRegistry(outputs, ctx, m) ==
  LET all  == ctx.registry \o outputs
      kept == IF Has(m, "pack_wide")
              THEN Filtered(all, {o \in Range(all) : ~Excluded(m, o.role)}) ELSE all
  IN LastOf(Registered(kept))

(* The files of a pack in a registry: each replaces the version of its role, *)
(* and of those of new roles, in any order, no more stay than it can hold.   *)
WithFiles(registry, files) ==
  LET roles == {o.role : o \in files}
      file(r) == CHOOSE o \in files : o.role = r
      known == [i \in DOMAIN registry |-> IF registry[i].role \in roles
                                          THEN file(registry[i].role) ELSE registry[i]]
      grown[i \in 0..MaxRegistry] ==
        IF i = 0 THEN known
        ELSE LET new == roles \ RolesOf(grown[i - 1])
             IN IF new = {} THEN grown[i - 1]
                ELSE Append(grown[i - 1], file(CHOOSE r \in new : TRUE))
  IN LastOf(grown[MaxRegistry])

(***************************************************************************)
(* merge_followup_situation: what a confirmed follow-up takes over.  The   *)
(* release commands of the parent are not among it.                        *)
(***************************************************************************)
Severities == <<"unknown", "low", "medium", "high", "critical">>
SeverityRank(s) == CHOOSE i \in DOMAIN Severities : Severities[i] = s
\* Mutant: the newest severity counts.
Newer(a, b) == b
Worse(a, b) == IF SeverityRank(b) > SeverityRank(a) THEN b ELSE a

MergeFollowUp(s, ctx, m) ==
  LET p       == ctx.sit
      facts   == MergeFacts(p.facts, s.facts)
      outputs == RestoreReferenced(RestorePackWide(s.outputs, ctx, m), ctx, m)
  IN [s EXCEPT
        !.family   = p.family,
        !.severity = Worse(p.severity, s.severity),
        !.phase    = IF @ \in {"unknown", "follow_up"} THEN p.phase ELSE @,
        !.signals  = @ \cup p.signals,
        !.people   = @ \cup p.people,
        !.stakeholders = @ \cup p.stakeholders,
        !.facts    = facts,
        !.unknowns = (@ \cup p.unknowns) \ {facts[i].id : i \in DOMAIN facts},
        !.outputs  = outputs,
        !.registry = CaseRegistry(outputs, ctx, m),
        !.texts    = @ \cup p.texts,
        !.sources  = p.sources \cup {ctx.source}]

(* build_case_context: the snapshot of a governed task, taken when a later *)
(* request names it as its parent.                                         *)
CaseContext(id, t) ==
  LET named == [i \in DOMAIN t.sit.facts |->
                  IF t.sit.facts[i].by = 0 THEN [t.sit.facts[i] EXCEPT !.by = id]
                  ELSE t.sit.facts[i]]
      packed == {[id |-> d.role, role |-> d.role, audience |-> d.audience,
                  to |-> d.to, asked |-> FALSE] :
                   d \in {x \in t.pack.items : x.kind = "artifact" /\ x.selected}}
  IN [case     |-> t.case,
      source   |-> id,
      sit      |-> [t.sit EXCEPT !.facts = named,
                                 !.sources = @ \cup {id}],
      registry |-> WithFiles(t.sit.registry, packed),
      people   |-> t.sit.people,
      topics   |-> UNION {x.topics : x \in t.sit.texts},
      bigrams  |-> UNION {x.bigrams : x \in t.sit.texts}]
=============================================================================
