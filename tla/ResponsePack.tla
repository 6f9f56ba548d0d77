----------------------------- MODULE ResponsePack -----------------------------
(***************************************************************************)
(* The school situation compiler (modules/module_school_situation.py): it  *)
(* turns a request into a situation record and a response pack, the list   *)
(* of artifacts to write and of release gates to ask a human for.          *)
(*                                                                         *)
(* A message has, beside the fields CaseContinuity reads,                  *)
(*   family, severity, phase, signals, people                              *)
(*                 what the classifier made of it                          *)
(*   lifeUnknown   it says that nobody knows whether help is needed        *)
(*   settled       its words say the danger is over ("none" when silent,   *)
(*                 "people" when only the pupils are said to be safe,      *)
(*                 "hazard" when the hazard itself is)                     *)
(*   outputs       the artifacts it names: asked is FALSE for one that     *)
(*                 only the classifier proposes                            *)
(*   release       "none" without a release clause, "negated" if every one *)
(*                 is negative, else "commanded"; commands and refuses are *)
(*                 the external recipients its clauses name                *)
(*   broad         its audience is broad: {} or a subset of                *)
(*                 {"parents", "staff", "public"}                          *)
(*   unsafe        the unsafe uses it asks for                             *)
(*   official, repository   it asks to change an official record, to       *)
(*                 publish in the staff repository                         *)
(***************************************************************************)
EXTENDS SourceFloors

EmergencyNumber == "malaysia_emergency_services_999"
ParentNotices   == {"private_parent_notice", "school_parent_notice"}
BroadRoles      == {"school_parent_notice", "public_communication_draft"}
Outward         == {"private_recipient", "external_agency", "public"}
IncidentFamilies == {"safety_emergency", "health_medical", "safeguarding_welfare",
                     "discipline_behaviour", "transport_travel", "food_hygiene"}

OfRank(ranks) == {Severities[i] : i \in ranks}
Grave == OfRank({4, 5})

(* situation_response_policy.json: the default pack of a family; its first *)
(* role is the core document when nothing else makes a core.               *)
FamilyPacks ==
  [safety_emergency |-> <<"internal_incident_report", "site_safety_checklist",
                          "student_accountability_checklist">>,
   health_medical |-> <<"internal_incident_report", "private_parent_notice",
                        "medical_handover_script">>,
   safeguarding_welfare |-> <<"internal_incident_report",
                     "safeguarding_action_plan", "evidence_preservation_log">>,
   discipline_behaviour |-> <<"discipline_investigation_report",
                     "evidence_preservation_log", "private_parent_notice">>,
   attendance_student_movement |-> <<"internal_incident_report",
                                     "private_parent_notice">>,
   facilities_environment |-> <<"internal_incident_report",
                     "site_safety_checklist", "staff_internal_notice">>,
   transport_travel |-> <<"transport_response_plan", "internal_incident_report",
                          "private_parent_notice">>,
   food_hygiene |-> <<"food_safety_response", "internal_incident_report",
                      "private_parent_notice">>,
   cyber_data |-> <<"cyber_incident_response", "evidence_preservation_log",
                    "regulatory_notification_assessment">>,
   finance_procurement |-> <<"finance_procurement_memo">>,
   events_cocurricular |-> <<"event_action_plan", "external_stakeholder_message">>,
   teaching_learning_support |-> <<"student_support_plan",
                                   "curriculum_continuity_plan">>,
   staffing_hr |-> <<"internal_incident_report", "evidence_preservation_log",
                     "duty_roster">>,
   communications_reputation |-> <<"internal_incident_report",
                                   "public_communication_draft">>,
   records_regulatory |-> <<"regulatory_notification_assessment",
                            "education_authority_report">>,
   community_external_party |-> <<"internal_incident_report",
                                  "external_stakeholder_message">>,
   general_school_admin |-> <<"user_titled_document">>]

FamilyPack(family) == FamilyPacks[family]

InPack(role, family) == \E i \in DOMAIN FamilyPack(family) : FamilyPack(family)[i] = role

(***************************************************************************)
(* The situation.                                                          *)
(***************************************************************************)
Answered(answer, question) == IF answer.q = question THEN answer.a ELSE ""

(* The danger answer, before the deterministic floors. *)
WithAnswer(s, a) ==
  CASE a = "yes"     -> [s EXCEPT !.signals = @ \cup {"active_danger"},
                                  !.severity = "critical", !.phase = "ongoing"]
    [] a = "no"      -> [s EXCEPT !.signals = @ \ {"active_danger"},
                                  !.phase = IF @ = "ongoing" THEN "just_occurred"
                                            ELSE @]
    [] a = "unknown" -> [s EXCEPT
                           !.signals = @ \cup {"external_help_may_be_required"},
                           !.severity = "critical"]
    [] OTHER         -> s

(* What an injury, an active danger and an open life-safety question imply. *)
WithFloors(s, m) ==
  LET injured == "injury_or_illness" \in s.signals
      pupil   == \/ "minor_involved" \in s.signals \/ Reads(m, {"physical_minor"})
                 \/ "student" \in s.people /\ ~Reads(m, {"physical"})
      s1 == IF ~injured THEN s
            ELSE [s EXCEPT
                    !.signals = @ \cup (IF pupil THEN {"minor_involved"} ELSE {}),
                    !.stakeholders = @ \cup {"medical_services"} \cup
                       (IF pupil THEN {"guardian"} ELSE {}),
                    !.severity = IF @ = "unknown" THEN "medium" ELSE @]
      s2 == IF m.lifeUnknown THEN [s1 EXCEPT !.signals = @ \ {"active_danger"}] ELSE s1
      s3 == IF "active_danger" \notin s2.signals THEN s2
            ELSE [s2 EXCEPT
                    !.signals = @ \cup {"external_help_may_be_required"},
                    !.stakeholders = @ \cup {EmergencyNumber},
                    !.severity = "critical", !.phase = "ongoing"]
      s4 == IF m.lifeUnknown /\ s3.signals \cap {"injury_or_illness",
                                "safeguarding_concern", "person_missing"} # {}
            THEN [s3 EXCEPT !.signals = @ \cup {"external_help_may_be_required"},
                            !.severity = Worse(@, "high")]
            ELSE s3
  IN IF s4.severity \notin Grave THEN s4
     ELSE [s4 EXCEPT !.signals = @ \cup {"possible_regulatory_trigger"},
                     !.stakeholders = @ \cup {"school_leadership",
                                              "education_authority"}]

\* Mutant: the merged situation is left as it is.
Unanswered(s, a) == s

(* The answer once more, after the parent's signals were merged in. *)
Reanswered(s, a) ==
  CASE a = "yes" ->
         [s EXCEPT !.signals = @ \cup {"active_danger",
                                       "external_help_may_be_required"},
                   !.stakeholders = @ \cup {EmergencyNumber},
                   !.severity = "critical", !.phase = "ongoing", !.danger = "yes"]
    [] a = "no" ->
         LET open == s.signals \cap {"person_missing", "safeguarding_concern"} # {}
         IN [s EXCEPT
               !.signals = (@ \ {"active_danger"}) \
                  (IF open THEN {} ELSE {"external_help_may_be_required"}),
               !.stakeholders = @ \ (IF open THEN {} ELSE {EmergencyNumber}),
               !.phase = IF @ = "ongoing" THEN "just_occurred" ELSE @,
               !.danger = "no"]
    [] a = "unknown" ->
         [s EXCEPT !.signals = @ \cup {"external_help_may_be_required"},
                   !.severity = Worse(@, "high"), !.danger = "unknown"]
    [] OTHER -> s

\* Mutant: a draft-only authority changes nothing.
CommandedAnyway(m, authority, outputs) ==
  IF m.release = "commanded" THEN m.commands \ m.refuses ELSE {}

(* The recipients the release clauses command.  A negation of everything,  *)
(* or an authority declared draft-only, commands none.                     *)
Commanded(m, authority, outputs) ==
  LET named == {o.to : o \in {outputs[i] : i \in DOMAIN outputs}} \ {"school_staff"}
      inferred == IF m.release = "none"           THEN {}
                  ELSE IF m.commands # {}         THEN m.commands
                  ELSE IF named # {}              THEN named
                  ELSE IF "public" \in m.broad    THEN {"public_media"}
                  ELSE IF "parents" \in m.broad   THEN {"school_community"}
                  ELSE {"external_stakeholder"}
      single == IF "school_community" \in inferred THEN inferred \ {"guardian"}
                ELSE inferred
  IN IF m.release = "negated" \/ authority = "draft_only" THEN {}
     ELSE single \ m.refuses

WithRecipient(recipients, a) ==
  CASE a = ""           -> recipients
    [] a = "draft_only" -> recipients \ {"external_stakeholder"}
    [] OTHER            -> (recipients \ {"external_stakeholder"}) \cup {a}

(* A second output of a role becomes a custom deliverable: the pack holds  *)
(* one entry per role.                                                     *)
Repeats(outputs) ==
  {i \in DOMAIN outputs : \E j \in 1..(i - 1) : outputs[j].role = outputs[i].role}

AsCustom(o) == [id |-> o.id, role |-> o.role, audience |-> o.audience, to |-> o.to,
                mode |-> "draft", explicit |-> TRUE]

(* The classifier's record, the facts its words do not support left out. *)
Said(m, customs) ==
  [family |-> m.family, phase |-> m.phase, severity |-> m.severity,
   signals |-> m.signals, people |-> m.people,
   stakeholders |-> {}, facts |-> GroundedFacts(m),
   unknowns |-> m.unknowns, outputs |-> m.outputs, registry |-> <<>>,
   customs |-> customs, asked |-> {}, release |-> {}, danger |-> "",
   texts |-> {m}, sources |-> {}]

(* Nobody was named: a pupil when a minor is involved. *)
Peopled(s) ==
  IF s.people # {} THEN s
  ELSE [s EXCEPT !.people = IF "minor_involved" \in s.signals THEN {"student"}
                            ELSE {"unknown"}]

Merged(s, prior, m) == IF prior = NoCase THEN s ELSE MergeFollowUp(s, prior, m)

Firsts(outputs) ==
  LET extra == Repeats(outputs)
  IN Filtered(outputs, {o \in Range(outputs) : \A i \in extra : outputs[i].id # o.id})

Commissioned(s, m, answer, authority) ==
  LET extra == Repeats(s.outputs)
      asked == {o \in {s.outputs[i] : i \in DOMAIN s.outputs} : o.asked}
  IN [s EXCEPT
        !.outputs = Firsts(@),
        !.customs = @ \o [i \in 1..Cardinality(extra) |->
                            AsCustom(s.outputs[SetToSortSeq(extra, <)[i]])],
        !.asked   = {o.id : o \in asked} \cup
                    {c.id : c \in {x \in {s.customs[i] : i \in DOMAIN s.customs} :
                                      x.explicit}},
        !.release = WithRecipient(Commanded(m, authority, Firsts(s.outputs)),
                                  Answered(answer, "external_recipient"))]

Situated(s, m, prior, a) ==
  Reanswered(Merged(Peopled(WithFloors(WithAnswer(Floored(s, m), a), m)), prior, m), a)

CompileSituation(m, prior, answer, authority, customs) ==
  Commissioned(Situated(Said(m, customs), m, prior, Answered(answer, "immediate_danger")),
               m, answer, authority)

(***************************************************************************)
(* The pack.  entries: role |-> the contract of the artifact of that role. *)
(***************************************************************************)
(* An unsafe use asked for: INFEASIBLE outranks RED. *)
InputDecision(unsafe) ==
  IF unsafe \cap {"metric", "invention", "finance"} # {} THEN "INFEASIBLE"
  ELSE IF unsafe \cap {"donor", "bypass", "status", "broadcast", "memory"} # {}
  THEN "RED" ELSE "NO_OVERRIDE"

(* The strongest of some origins. *)
Strongest(origins) ==
  IF "safe_substitution" \in origins THEN "safe_substitution"
  ELSE IF "explicit_request" \in origins THEN "explicit_request"
  ELSE IF "policy_required" \in origins THEN "policy_required"
  ELSE "system_recommendation"

Contract(role, req, origin) ==
  [role |-> role, req |-> req, origin |-> origin, private |-> FALSE, id |-> "",
   dflt |-> "", audience |-> "internal", to |-> "school_staff"]

(* add(): the contracts of a role are one; a later one may raise what is    *)
(* required and its origin, and hands over its data.                       *)
Joined(role, e, contracts) ==
  [role |-> role, private |-> e.private, id |-> e.id,
   audience |-> e.audience, to |-> e.to,
   req |-> IF \E c \in contracts : c.req = "required" THEN "required" ELSE e.req,
   origin |-> Strongest({e.origin} \cup {c.origin : c \in contracts}),
   dflt |-> IF \A c \in contracts : c.dflt = "" THEN e.dflt
            ELSE (CHOOSE c \in contracts : c.dflt # "").dflt]

AddAll(entries, contracts) ==
  [r \in DOMAIN entries \cup {c.role : c \in contracts} |->
     LET same == {c \in contracts : c.role = r}
     IN Joined(r, IF r \in DOMAIN entries THEN entries[r]
                  ELSE CHOOSE c \in same : TRUE, same)]

(* The private letter of an incident is not widened by a model. *)
Narrowed(o, s, m) ==
  IF /\ s.family \in IncidentFamilies /\ "parents" \notin m.broad
     /\ \/ o.role = "school_parent_notice"
        \/ o.role \in ParentNotices /\ o.audience \in {"school_community", "public"}
  THEN [o EXCEPT !.role = "private_parent_notice",
                 !.audience = "private_recipient", !.to = "guardian"]
  ELSE o

(* A requested output as a contract, rewritten where its use is unsafe. *)
RequestedContract(o, s, m) ==
  LET toStaff == /\ "broadcast" \in m.unsafe /\ "staff" \in m.broad
                 /\ o.role \in BroadRoles \cup {"user_titled_document", "staff_internal_notice"}
      toMany  == /\ "broadcast" \in m.unsafe /\ ~toStaff
                 /\ \/ o.role \in BroadRoles
                    \/ o.audience \in {"school_community", "public"}
      team == CASE s.family = "discipline_behaviour" -> "discipline_investigation_report"
                [] s.family = "safeguarding_welfare" -> "safeguarding_action_plan"
                [] OTHER -> "student_support_plan"
      role == IF toStaff THEN team
              ELSE IF "status" \in m.unsafe /\ s.family = "discipline_behaviour"
                      /\ o.role \in {"user_titled_document", "staff_internal_notice",
                                     "public_communication_draft"}
              THEN "discipline_investigation_report"
              ELSE IF toMany
              THEN IF o.role = "public_communication_draft" \/ o.audience = "public"
                   THEN "public_communication_draft" ELSE "school_parent_notice"
              ELSE IF "finance" \in m.unsafe /\ o.role = "user_titled_document"
              THEN "finance_procurement_memo"
              ELSE IF /\ o.role = "private_parent_notice"
                      /\ \/ "parents" \in m.broad
                         \/ o.asked /\ o.audience = "school_community"
              THEN "school_parent_notice" ELSE o.role
      origin == IF o.asked THEN "explicit_request"
                ELSE IF toStaff \/ toMany THEN "safe_substitution"
                ELSE "system_recommendation"
  IN [role |-> role,
      req  |-> IF origin = "system_recommendation" THEN "recommended" ELSE "required",
      origin |-> origin, private |-> toStaff \/ toMany, id |-> o.id, dflt |-> "",
      audience |-> IF toStaff THEN "internal" ELSE o.audience,
      to |-> IF toStaff THEN "authorised_support_team" ELSE o.to]

(* The outputs that no negation refuses.  Beside a sensitive broadcast only *)
(* those the source names stay, if it names any.                           *)
Structured(s, m) ==
  Filtered(s.outputs, {o \in Range(s.outputs) : o.role \notin m.notRoles})
Wanted(s, m) ==
  LET named == Filtered(Structured(s, m), {o \in Range(s.outputs) : o.asked})
  IN IF "broadcast" \in m.unsafe /\ named # <<>> THEN named ELSE Structured(s, m)

(* Nothing was named: the release or the family suggests one document. *)
DefaultOutputs(s, m) ==
  LET one(role, audience, to) == <<[id |-> "default", role |-> role, audience |-> audience,
                                    to |-> to, asked |-> FALSE]>>
      inside(role) == one(role, "internal", "school_staff")
  IN IF Wanted(s, m) # <<>> \/ s.customs # <<>>     THEN Wanted(s, m)
     ELSE IF "finance" \in m.unsafe                THEN inside("finance_procurement_memo")
     ELSE IF "metric" \in m.unsafe                 THEN inside("evidence_status_report")
     ELSE IF "public_media" \in s.release
     THEN one("public_communication_draft", "public", "public_media")
     ELSE IF "education_authority" \in s.release   THEN inside("education_authority_request")
     ELSE IF "parents" \in m.broad                 THEN inside("school_parent_notice")
     ELSE IF s.family = "discipline_behaviour"
     THEN inside("discipline_investigation_report")
     ELSE <<>>

RequestedContracts(s, m) ==
  LET outputs == DefaultOutputs(s, m) IN
  IF "metric" \in m.unsafe /\ "finance" \notin m.unsafe
  THEN [i \in 1..(2 * Len(outputs)) |->
          IF i % 2 = 1
          THEN [Contract("evidence_status_report", "required", "safe_substitution")
                  EXCEPT !.id = outputs[(i + 1) \div 2].id]
          ELSE Contract("measurement_plan", "required", "safe_substitution")]
  ELSE [i \in DOMAIN outputs |->
          RequestedContract(Narrowed(outputs[i], s, m), s, m)]

(* What the signals make necessary whatever was asked: a set of contracts  *)
(* for each kind of incident.                                              *)
On(s, signals) == s.signals \cap signals # {}
Pupils(s)      == "student" \in s.people \/ On(s, {"minor_involved"})
AsksForWork(s)       == s.asked # {}

Must(roles) == {Contract(r, "required", "policy_required") : r \in roles}
May(roles)  == {Contract(r, "recommended", "policy_required") : r \in roles}
Hint(role, dflt) ==
  {[Contract(role, "recommended", "system_recommendation") EXCEPT !.dflt = dflt]}

(* The immediate danger is over; pupils said to be safe do not end a danger*)
(* that is still signalled.                                                *)
DangerOver(s, m) ==
  \/ s.danger = "no" \/ m.settled = "hazard"
  \/ m.settled = "people" /\ ~On(s, {"active_danger"})

InjuryContracts(s, m) ==
  IF ~On(s, {"injury_or_illness"}) THEN {}
  ELSE Must({"internal_incident_report"})
       \cup (IF Pupils(s) THEN Must({"private_parent_notice"}) ELSE {})
       \cup (IF s.severity = "critical" THEN Must({"medical_handover_script"})
             ELSE IF AsksForWork(s) THEN {}
             ELSE {[c EXCEPT !.req = IF s.severity = "high" /\ ~DangerOver(s, m)
                                     THEN "required" ELSE @] :
                     c \in Hint("medical_handover_script", "no")})

(* A quarrel among staff only is a report, not a discipline case. *)
StaffConflict(s, m) ==
  /\ s.family \in {"staffing_hr", "discipline_behaviour"}
  /\ Reads(m, {"staff_conflict"})
  /\ s.people = {"staff"} \/ (s.people = {} /\ ~Reads(m, {"pupil_words"}))

DangerContracts(s) ==
  LET active == On(s, {"active_danger"})
  IN (IF active
      THEN Must({"internal_incident_report", "site_safety_checklist",
                 "emergency_contact_script"})
      ELSE IF s.severity \in Grave /\ On(s, {"person_missing",
                       "safeguarding_concern", "external_help_may_be_required"})
      THEN May({"site_safety_checklist", "emergency_contact_script"}) ELSE {})
     \cup (IF "fire_and_rescue" \notin s.stakeholders THEN {}
           ELSE IF active THEN Must({"fire_rescue_contact_script"})
           ELSE May({"fire_rescue_contact_script"}))

MissingContracts(s) ==
  IF ~On(s, {"person_missing"}) THEN {}
  ELSE Must({"internal_incident_report", "student_accountability_checklist",
             "site_safety_checklist", "emergency_contact_script"}
            \cup (IF Pupils(s) THEN {"private_parent_notice"} ELSE {}))

Safeguards(s, m) ==
  On(s, {"safeguarding_concern"}) /\ (\/ s.family = "safeguarding_welfare"
                                     \/ Reads(m, {"safeguarding"}))

WelfareContracts(s, m) ==
  (IF /\ On(s, {"safeguarding_concern"})
      /\ \/ s.family = "safeguarding_welfare" /\ "broadcast" \notin m.unsafe
         \/ On(s, {"person_missing"}) \/ Reads(m, {"safeguarding"})
   THEN Must({"internal_incident_report", "safeguarding_action_plan"})
        \cup May({"evidence_preservation_log"}) ELSE {})
  \cup (IF ~On(s, {"evidence_preservation_needed"}) THEN {}
        ELSE IF On(s, {"data_security_incident", "person_missing",
                       "safeguarding_concern"})
        THEN Must({"evidence_preservation_log"})
        ELSE Hint("evidence_preservation_log", ""))

FacilityContracts(s, m) ==
  LET control == On(s, {"active_danger"}) \/ s.severity \in Grave
                 \/ Reads(m, {"hazard_words"})
      notice  == IF "staff" \in s.people \/ "school_staff" \in s.stakeholders
                 THEN Hint("staff_internal_notice", "") ELSE {}
  IN IF s.family # "facilities_environment" THEN {}
     ELSE IF control
     THEN notice \cup Must({"site_safety_checklist"}
            \cup (IF s.phase # "planned" /\ ~AsksForWork(s)
                  THEN {"internal_incident_report"} ELSE {}))
     ELSE IF On(s, {"service_disruption"})
     THEN notice \cup May({"site_safety_checklist"}) ELSE {}

TransportContracts(s, m) ==
  LET collision == Reads(m, {"collision"})
  IN IF ~On(s, {"transport_operation"}) THEN {}
     ELSE (IF collision
           THEN Must({"internal_incident_report"}
                     \cup (IF Pupils(s) THEN {"private_parent_notice"} ELSE {}))
           ELSE {})
       \cup (IF collision \/ ~AsksForWork(s) THEN Must({"transport_response_plan"})
             ELSE Hint("transport_response_plan", ""))
       \cup (IF /\ ~collision /\ ~AsksForWork(s) /\ ~Reads(m, {"transport_plan"})
                /\ Pupils(s) /\ \/ On(s, {"guardian_notification_relevant"})
                                \/ "guardian" \in s.stakeholders
             THEN Hint("private_parent_notice", "yes") ELSE {})
       \cup (IF "transport_provider" \in s.stakeholders
             THEN Hint("external_stakeholder_message", "no") ELSE {})

FoodContracts(s) ==
  IF ~On(s, {"food_water_exposure"}) THEN {}
  ELSE Must({"food_safety_response"}
            \cup (IF On(s, {"injury_or_illness"}) /\ Pupils(s)
                  THEN {"private_parent_notice"} ELSE {}))

(* The guardians of a pupil hear of it, unless a notice is there already. *)
GuardianContracts(entries, s, m) ==
  IF /\ On(s, {"guardian_notification_relevant"}) /\ Pupils(s)
     /\ \/ On(s, {"injury_or_illness", "person_missing"})
        \/ Reads(m, {"collision"}) \/ Safeguards(s, m)
        \/ On(s, {"transport_operation"}) /\ ~AsksForWork(s)
     /\ ParentNotices \cap DOMAIN entries = {}
  THEN Must({"private_parent_notice"}) ELSE {}

AccountabilityContracts(s, m) ==
  (IF On(s, {"event_operation"}) /\ ~AsksForWork(s)
   THEN {[c EXCEPT !.origin = "system_recommendation"] :
           c \in Must({"event_action_plan", "external_stakeholder_message"})}
   ELSE {})
  \cup (IF /\ On(s, {"evacuation_accountability", "active_danger"})
           /\ ~Reads(m, {"no_students"})
           /\ Pupils(s) \/ s.people = {} \/ "unknown" \in s.people
        THEN Must({"student_accountability_checklist"}) ELSE {})

RecordContracts(s, m) ==
  (IF On(s, {"data_security_incident"})
   THEN Must({"cyber_incident_response", "evidence_preservation_log",
              "regulatory_notification_assessment"}) ELSE {})
  \cup (IF ~On(s, {"public_interest"}) \/ "metric" \in m.unsafe THEN {}
        ELSE IF AsksForWork(s) THEN Hint("public_communication_draft", "")
        ELSE Must({"public_communication_draft"}))
  \cup (IF On(s, {"financial_value_involved"})
           /\ ~("meeting_minutes" \in RolesOf(Structured(s, m)) /\ Reads(m, {"writes"})
                /\ "finance" \notin m.unsafe)
        THEN Must({"finance_procurement_memo"}) ELSE {})
  \cup (IF s.family = "records_regulatory" /\ On(s, {"possible_regulatory_trigger"})
        THEN Must({"regulatory_notification_assessment"}) ELSE {})
  \cup (IF s.severity \in Grave
        THEN May({"regulatory_notification_assessment", "post_incident_review"})
        ELSE {})

(* A role the text refuses is never added. *)
Allowed(m, c) == c.role \notin m.notRoles

(* In the order of the code, where a step looks at the entries before it. *)
Signalled(requested, s, m) ==
  LET ok(cs)  == {c \in cs : Allowed(m, c)}
      quarrel == StaffConflict(s, m)
      injured == AddAll(requested, ok(InjuryContracts(s, m)))
      cleared == IF ~quarrel \/ Reads(m, {"discipline_report"}) THEN injured
                 ELSE [r \in DOMAIN injured \ {"discipline_investigation_report"}
                         |-> injured[r]]
      care    == AddAll(cleared, ok(
                   (IF quarrel THEN Must({"internal_incident_report"}) ELSE {})
                   \cup DangerContracts(s) \cup MissingContracts(s)
                   \cup WelfareContracts(s, m) \cup FacilityContracts(s, m)
                   \cup TransportContracts(s, m) \cup FoodContracts(s)))
      told    == AddAll(care, ok(GuardianContracts(care, s, m)))
  IN AddAll(told, ok(AccountabilityContracts(s, m) \cup RecordContracts(s, m)))

(* The draft a release to a recipient needs, unless one is there. *)
DraftRole(recipient) ==
  CASE recipient = "guardian"            -> "private_parent_notice"
    [] recipient = "school_community"    -> "school_parent_notice"
    [] recipient = "public_media"        -> "public_communication_draft"
    [] recipient = "medical_services"    -> "medical_handover_script"
    [] recipient = EmergencyNumber       -> "emergency_contact_script"
    [] recipient = "fire_and_rescue"     -> "fire_rescue_contact_script"
    [] recipient = "education_authority" -> "education_authority_request"
    [] OTHER                             -> "external_stakeholder_message"

HasDraft(recipient, entries) ==
  \/ DraftRole(recipient) \in DOMAIN entries
  \/ recipient = "education_authority"
     /\ "education_authority_report" \in DOMAIN entries


(* A parent notice refused in the text withdraws the guardian release too. *)
Releases(s, m) ==
  IF ParentNotices \subseteq m.notRoles THEN s.release \ {"guardian"} ELSE s.release

\* Mutant: only what was requested is rewritten.
AsAdded(entries, m) == entries

(* The privacy contract again, for broad drafts a release brought in. *)
Rewritten(entries, m) ==
  [r \in DOMAIN entries |->
     IF r \in BroadRoles /\ "broadcast" \in m.unsafe
     THEN [entries[r] EXCEPT !.private = TRUE] ELSE entries[r]]

(* What was requested: the last contract of a role hands over its obligation *)
(* and its audience, and a privacy contract stays.                           *)
Requested(s, m) ==
  LET contracts == RequestedContracts(s, m)
      added     == {i \in DOMAIN contracts : Allowed(m, contracts[i])}
      adding(r) == {i \in added : contracts[i].role = r}
  IN [r \in {contracts[i].role : i \in added} |->
        LET same == {contracts[i] : i \in adding(r)}
        IN [Joined(r, contracts[Max(adding(r))], same)
              EXCEPT !.private = \E c \in same : c.private]]

(* A pack without a core document gets the family's first. *)
Core(entries, s) ==
  {r \in DOMAIN entries : \/ entries[r].req = "required" \/ InPack(r, s.family)
                          \/ entries[r].origin \in {"explicit_request", "safe_substitution"}
                          \/ entries[r].dflt = "yes"}
WithCore(entries, s, m) ==
  LET default == Contract(Head(FamilyPack(s.family)), "required", "policy_required")
  IN IF Core(entries, s) # {} \/ m.official \/ ~Allowed(m, default)
     THEN entries ELSE AddAll(entries, {default})

WithDrafts(entries, s, m) ==
  AddAll(entries, {c \in {Contract(DraftRole(r), "required", "policy_required") :
                             r \in {x \in Releases(s, m) : /\ ~HasDraft(x, entries)
                                                           /\ "metric" \notin m.unsafe}} :
                     Allowed(m, c)})

(* A generic document beside a rewritten broadcast would only repeat it. *)
WithoutRepeat(entries, s, m) ==
  [r \in {x \in DOMAIN entries :
            ~(/\ x = "user_titled_document" /\ entries[x].origin = "policy_required"
              /\ "broadcast" \in m.unsafe /\ s.asked = {}
              /\ Releases(s, m) \cap {"school_community", "public_media"} # {})}
     |-> entries[r]]

Entries(s, m) ==
  WithoutRepeat(Rewritten(WithDrafts(WithCore(Signalled(Requested(s, m), s, m), s, m), s, m), m),
                s, m)

(* Selected: what is required, and what is recommended unless its contract *)
(* says otherwise; a mere proposal of the model only where the case suggests*)
(* it, and never when the request named other work and not this.           *)
Unrequested(c, s) ==
  IF c.id # "" THEN c.id \notin s.asked
  ELSE \A i \in DOMAIN s.outputs :
         s.outputs[i].id \in s.asked => s.outputs[i].role # c.role

Suggested(role, s) ==
  \/ InPack(role, s.family)
  \/ role = "post_incident_review"
     /\ s.phase \in {"just_occurred", "post_incident", "follow_up"}
  \/ role = "regulatory_notification_assessment" /\ s.severity \in Grave

SelectedEntry(c, s) ==
  /\ \/ c.req = "required"
     \/ /\ c.origin = "system_recommendation" /\ c.dflt # "no"
        /\ c.dflt = "yes" \/ c.id = "" \/ Suggested(c.role, s)
  /\ ~(s.asked # {} /\ Unrequested(c, s) /\ c.origin = "system_recommendation")

EntryItem(c, s) ==
  [id |-> c.id, role |-> c.role, kind |-> "artifact", audience |-> c.audience,
   to |-> c.to, private |-> c.private, selected |-> SelectedEntry(c, s),
   added |-> FALSE, custom |-> FALSE, link |-> ""]

(* Custom deliverables, and the gate an outward one brings with it. *)
CustomItems(c) ==
  LET item == [id |-> c.id, role |-> c.role, kind |-> "artifact",
               audience |-> c.audience, to |-> c.to, private |-> FALSE,
               selected |-> TRUE, added |-> ~c.explicit, custom |-> TRUE,
               link |-> ""]
  IN {item} \cup
     IF c.mode = "external_release" \/ c.audience \in Outward
     THEN {[item EXCEPT !.kind = "gate", !.added = TRUE, !.link = c.id]} ELSE {}

(* resolve_release_link: the artifact a release gate is about. *)
ReleaseLink(recipient, entries) ==
  LET safe == CASE recipient = "education_authority" ->
                     <<"education_authority_request", "evidence_status_report",
                       "regulatory_notification_assessment",
                       "internal_incident_report">>
                [] recipient = "guardian" -> <<"private_parent_notice",
                                               "school_parent_notice">>
                [] OTHER -> <<DraftRole(recipient)>>
      there == SelectSeq(safe, LAMBDA r : r \in DOMAIN entries)
  IN IF there = <<>> THEN DraftRole(recipient) ELSE Head(there)

GateItem(recipient, entries) ==
  [id |-> "", role |-> "external_release_gate", kind |-> "gate",
   audience |-> "private_recipient", to |-> recipient, private |-> FALSE,
   selected |-> TRUE, added |-> FALSE, custom |-> FALSE,
   link |-> ReleaseLink(recipient, entries)]

SystemItem(role) ==
  [id |-> "", role |-> role, kind |-> "system", audience |-> "internal",
   to |-> "school_staff", private |-> FALSE, selected |-> TRUE, added |-> FALSE,
   custom |-> FALSE, link |-> ""]

Items(entries, s, m) ==
  {EntryItem(entries[r], s) : r \in DOMAIN entries}
  \cup (UNION {CustomItems(s.customs[i]) : i \in DOMAIN s.customs})
  \cup {GateItem(r, entries) : r \in Releases(s, m)}
  \cup (IF m.official THEN {SystemItem("official_record_change_gate")} ELSE {})
  \cup (IF m.repository THEN {SystemItem("internal_repository_publish_gate")} ELSE {})

BuildPack(s, m) == [decision |-> InputDecision(m.unsafe), items |-> Items(Entries(s, m), s, m)]

(* _critical_question: the one question a human is asked before work.  The *)
(* signals count when a live classifier was there; otherwise the words of  *)
(* the case must say so themselves.  Words that end a danger count from    *)
(* whichever turn of the case they come.                                   *)
CriticalQuestion(s, m, answer) ==
  LET danger  == "active_danger" \in s.signals
      told    == \E x \in s.texts :
                   ReadsAny(x, {"active", "physical", "safeguarding", "missing"})
      unsafe  == \/ told
                 \/ m.checked /\ s.signals \cap {"active_danger",
                      "injury_or_illness", "person_missing", "safeguarding_concern",
                      "external_help_may_be_required"} # {}
      settled == {x.settled : x \in s.texts}
      over    == "hazard" \in settled \/ ("people" \in settled /\ ~danger)
  IN IF /\ answer.q # "immediate_danger"
        /\ s.severity \in Grave /\ unsafe /\ ~over
     THEN "immediate_danger"
     ELSE IF "external_stakeholder" \in s.release
             /\ answer.q # "external_recipient"
     THEN "external_recipient" ELSE ""
=============================================================================
