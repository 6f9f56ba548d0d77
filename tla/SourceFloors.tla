---------------------------- MODULE SourceFloors ----------------------------
(***************************************************************************)
(* What the words of a request alone say about an incident, whatever the   *)
(* classifier made of it (modules/module_school_fallback_floors.py and the *)
(* floors of module_school_situation.py).                                  *)
(*                                                                         *)
(* A message has two more fields: reads, the patterns its text matches,    *)
(* and checked, whether the classifier's situation is a live, checked one; *)
(* when it is not, the lexical fallback reads the text instead.            *)
(* The situation s is the record being compiled: family, phase, severity,  *)
(* signals, stakeholders and people are what these floors change.          *)
(***************************************************************************)
EXTENDS CaseContinuity

Reads(m, patterns) == patterns \subseteq m.reads
ReadsAny(m, patterns) == patterns \cap m.reads # {}

(* One pattern rule: the patterns that must match, those that must not,    *)
(* what is added and dropped, the case it makes, and how: "raise" never    *)
(* lowers a severity, "set" overwrites it.                                 *)
Rule(reads, signals, stakeholders) ==
  [reads |-> reads, unless |-> {}, signals |-> signals, drop |-> {},
   stakeholders |-> stakeholders, how |-> "add", family |-> "",
   severity |-> "unknown", phase |-> ""]

Makes(rule, how, family, severity, phase) ==
  [rule EXCEPT !.how = how, !.family = family, !.severity = severity, !.phase = phase]

Real(rule) == [rule EXCEPT !.unless = {"exercise"}]

Minor == {"injury_or_illness", "minor_involved"}
Care  == {"guardian", "medical_services"}
Alarm == {"active_danger", "external_help_may_be_required"}

HealthFacets ==
  <<Makes(Rule({"ill_in_exercise"}, Minor, Care),
         "raise", "health_medical", "high", "just_occurred"),
    Makes(Rule({"ill_after_food"}, Minor \cup {"food_water_exposure"},
              Care \cup {"school_leadership"}),
         "set", "food_hygiene", "high", "just_occurred"),
    Makes(Rule({"group_injury"}, Minor, Care),
         "raise", "health_medical", "high", "just_occurred")>>

HazardFacets ==
  <<Makes(Rule({"collapse"}, {"service_disruption"}, {"school_leadership"}),
         "set", "facilities_environment", "medium", "just_occurred"),
    Makes(Rule({"collapse", "uncontrolled"}, {"active_danger"}, {"fire_and_rescue"}),
         "set", "facilities_environment", "high", "ongoing"),
    Makes(Rule({"misdirected_records"},
              {"data_security_incident", "personal_data_involved",
               "evidence_preservation_needed", "possible_regulatory_trigger"},
              {"school_leadership", "education_authority"}),
         "set", "cyber_data", "high", "just_occurred"),
    Makes(Rule({"staff_harm"}, {"safeguarding_concern", "minor_involved",
                               "evidence_preservation_needed"},
              {"guardian", "school_leadership"}),
         "set", "safeguarding_welfare", "high", "just_occurred"),
    Makes(Rule({"chemical", "health_effect"}, Minor, Care),
         "set", "safety_emergency", "high", "just_occurred"),
    Makes(Rule({"chemical", "health_effect", "still_unsafe"}, Alarm,
              {"malaysia_emergency_services_999", "fire_and_rescue"}),
         "set", "safety_emergency", "critical", "ongoing")>>

ThreatFacets ==
  <<Real(Makes(Rule({"gas", "at_school"}, Alarm, {"school_leadership", "fire_and_rescue"}),
              "raise", "safety_emergency", "critical", "ongoing")),
    Real(Rule({"gas", "at_school", "health_effect"}, Minor, Care)),
    Real(Makes(Rule({"bomb", "at_school"},
                   Alarm \cup {"evacuation_accountability", "minor_involved",
                               "evidence_preservation_needed"},
                   {"school_leadership", "police", "guardian"}),
              "raise", "safety_emergency", "critical", "ongoing")),
    Real(Makes(Rule({"intruder"},
                   Alarm \cup {"evacuation_accountability", "minor_involved"},
                   {"school_leadership", "police"}),
              "raise", "safety_emergency", "critical", "ongoing")),
    Real(Makes(Rule({"coercion"}, {"safeguarding_concern", "minor_involved",
                                  "evidence_preservation_needed"},
                   {"guardian", "school_leadership"}),
              "raise", "safeguarding_welfare", "high", "just_occurred")),
    Real([Rule({"coercion", "weapon"}, {"external_help_may_be_required"}, {"police"})
            EXCEPT !.drop = {"financial_value_involved"}]),
    Real(Makes(Rule({"ill_cluster"}, Minor, Care \cup {"school_leadership"}),
              "raise", "health_medical", "high", "just_occurred")),
    Real(Makes(Rule({"severe_allergy"}, Minor \cup Alarm, Care \cup {"school_leadership"}),
              "raise", "health_medical", "critical", "ongoing")),
    Real(Makes(Rule({"live_wires"}, Alarm, {"school_leadership", "fire_and_rescue"}),
              "raise", "safety_emergency", "critical", "ongoing"))>>

IntegrityFacets ==
  <<Makes(Rule({"online_rumour"}, {"public_interest", "minor_involved"},
              {"public_media", "school_leadership"}),
         "raise", "communications_reputation", "medium", "just_occurred"),
    [Makes(Rule({"missing_money"},
               {"financial_value_involved", "evidence_preservation_needed"},
               {"school_leadership"}),
          "raise", "finance_procurement", "medium", "just_occurred")
       EXCEPT !.drop = {"event_operation"}],
    Makes(Rule({"exam_leak"}, {"official_record_involved",
                "evidence_preservation_needed", "possible_regulatory_trigger"},
              {"school_leadership", "education_authority"}),
         "raise", "records_regulatory", "medium", "just_occurred"),
    Makes(Rule({"ransomware"}, {"data_security_incident",
                "evidence_preservation_needed", "service_disruption",
                "possible_regulatory_trigger"},
              {"school_leadership", "education_authority"}),
         "set", "cyber_data", "high", "ongoing"),
    Makes(Rule({"flood", "moving"}, Alarm \cup {"evacuation_accountability",
                "minor_involved", "service_disruption"},
              {"school_leadership", "malaysia_emergency_services_999"}),
         "set", "safety_emergency", "critical", "ongoing")>>

Facets == HealthFacets \o HazardFacets \o ThreatFacets \o IntegrityFacets

Holds(rule, m) == Reads(m, rule.reads) /\ ~ReadsAny(m, rule.unless)

(* The family, severity and phase the rules leave behind: escalate() keeps *)
(* what is worse, a plain update does not.                                 *)
NoFacet == Rule({}, {}, {})

AddFacet(out, rule) ==
  CASE rule.how = "add"   -> out
    [] rule.how = "set"   -> rule
    [] rule.how = "raise" ->
         IF SeverityRank(rule.severity) > SeverityRank(out.severity) THEN rule
         ELSE IF out.family = "" THEN [out EXCEPT !.family = rule.family,
                                                  !.phase = rule.phase]
         ELSE out

WorstFacet(m) ==
  LET worst[i \in 0..Len(Facets)] ==
        IF i = 0 THEN NoFacet
        ELSE IF Holds(Facets[i], m) THEN AddFacet(worst[i - 1], Facets[i])
        ELSE worst[i - 1]
  IN worst[Len(Facets)]

FacetsOf(m) ==
  LET found == {rule \in Range(Facets) : Holds(rule, m)}
  IN [WorstFacet(m) EXCEPT !.signals = UNION {r.signals : r \in found},
                           !.stakeholders = UNION {r.stakeholders : r \in found},
                           !.drop = UNION {r.drop : r \in found}]

-----------------------------------------------------------------------------
(***************************************************************************)
(* The floors over the situation.                                          *)
(***************************************************************************)
Added(s, signals, stakeholders) ==
  [s EXCEPT !.signals = @ \cup signals, !.stakeholders = @ \cup stakeholders]

AsFamily(s, family) ==
  IF s.family = "general_school_admin" THEN [s EXCEPT !.family = family] ELSE s

WithFacets(s, f) ==
  [Added(s, f.signals, f.stakeholders) EXCEPT
     !.family = IF /\ f.family # ""
                   /\ \/ @ = "general_school_admin"
                      \/ SeverityRank(f.severity) >= SeverityRank(s.severity)
                THEN f.family ELSE @,
     !.phase = IF f.phase # "" THEN f.phase ELSE @,
     !.severity = Worse(@, f.severity)]

Lost == {"person_missing", "safeguarding_concern",
         "external_help_may_be_required", "evacuation_accountability"}

WithMissingMinor(s, m) ==
  IF ~Reads(m, {"missing_minor"}) THEN s
  ELSE [Added(s, Lost \cup {"minor_involved"}, {"guardian", "school_leadership"})
          EXCEPT !.family = "safeguarding_welfare", !.severity = "critical"]

WithTransport(s, m, family) ==
  IF ~Reads(m, {"transport"}) THEN s
  ELSE LET t == Added(s, {"transport_operation"}, {"transport_provider"})
       IN IF ~Reads(m, {"collision"})
          THEN IF family THEN AsFamily(t, "transport_travel") ELSE t
          ELSE [Added(AsFamily(t, "transport_travel"),
                      {"minor_involved", "guardian_notification_relevant"},
                      {"guardian"})
                  EXCEPT !.severity = Worse(@, "medium"),
                         !.phase = IF @ = "unknown" THEN "just_occurred" ELSE @]

WithAttention(s, m) ==
  IF Reads(m, {"public_attention"})
  THEN Added(s, {"public_interest"}, {"public_media"}) ELSE s

(* The floors that run after every classification. *)
SafetyFloors(s, m) ==
  LET injured == IF ~Reads(m, {"physical"}) THEN s
                 ELSE AsFamily(Added(s,
                        {"injury_or_illness"} \cup (IF Reads(m, {"physical_minor"})
                           THEN {"minor_involved"} ELSE {}),
                        {"medical_services"} \cup (IF Reads(m, {"physical_minor"})
                           THEN {"guardian"} ELSE {})), "health_medical")
      danger  == IF ~Reads(m, {"active"}) THEN injured
                 ELSE [Added(injured, Alarm, {"malaysia_emergency_services_999"}
                         \cup (IF Reads(m, {"fire_words"}) THEN {"fire_and_rescue"} ELSE {}))
                         EXCEPT !.family = "safety_emergency", !.phase = "ongoing",
                                !.severity = "critical"]
      lost    == IF ~Reads(m, {"missing"}) THEN danger
                 ELSE [Added(danger, Lost, {}) EXCEPT
                         !.family = "safeguarding_welfare", !.severity = "critical"]
      cyber   == IF ~Reads(m, {"cyber"}) THEN lost
                 ELSE [Added(lost, {"personal_data_involved", "data_security_incident",
                                    "evidence_preservation_needed"}, {})
                         EXCEPT !.family = "cyber_data"]
      public  == WithAttention(WithTransport(WithMissingMinor(cyber, m), m, TRUE), m)
      invest  == IF ~Reads(m, {"investment"}) THEN public
                 ELSE [Added(public, {"financial_value_involved"}, {})
                         EXCEPT !.family = "finance_procurement"]
  IN WithFacets(invest, FacetsOf(m))

(* The lexical fallback: words instead of a classification. *)
LexicalRules ==
  <<Rule({"missing_words"}, {"safeguarding_concern"}, {}),
    Rule({"transport_words"}, {"transport_operation"}, {"transport_provider"}),
    Rule({"food_words"}, {"food_water_exposure"}, {}),
    Rule({"event_words"}, {"event_operation"}, {}),
    Rule({"evacuate_words"}, {"evacuation_accountability"}, {}),
    Rule({"money_words"}, {"financial_value_involved"}, {}),
    Rule({"discipline_words"}, {"evidence_preservation_needed"}, {}),
    Rule({"fault_words"}, {"service_disruption"}, {}),
    Rule({"grievance_words"}, {"evidence_preservation_needed"}, {}),
    Rule({"staff_conflict"}, {"evidence_preservation_needed"}, {"school_leadership"}),
    Rule({"attendance_words"}, {"official_record_involved"}, {}),
    Rule({"sick_after"}, {"food_water_exposure"}, {})>>

(* The last of these that matches names the family. *)
LexicalFamilies ==
  <<[read |-> "missing_words", of |-> {"general_school_admin"}, is |-> "safeguarding_welfare"],
    [read |-> "money_words",   of |-> {"general_school_admin"}, is |-> "finance_procurement"],
    [read |-> "discipline_words", of |-> {}, is |-> "discipline_behaviour"],
    [read |-> "support_words", of |-> {"general_school_admin", "food_hygiene"},
     is |-> "teaching_learning_support"],
    [read |-> "fault_words",   of |-> {}, is |-> "facilities_environment"],
    [read |-> "grievance_words", of |-> {}, is |-> "staffing_hr"],
    [read |-> "staff_conflict", of |-> {}, is |-> "staffing_hr"],
    [read |-> "attendance_words", of |-> {}, is |-> "attendance_student_movement"],
    [read |-> "sick_after",    of |-> {}, is |-> "food_hygiene"]>>

LexicalFloors(s, m) ==
  LET found == {r \in Range(LexicalRules) : Holds(r, m)}
      named == FoldLeft(LAMBDA f, r :
                 IF r.read \in m.reads /\ (r.of = {} \/ f \in r.of) THEN r.is ELSE f,
                 s.family, LexicalFamilies)
      all   == Added(s, UNION {r.signals : r \in found},
                     UNION {r.stakeholders : r \in found})
  IN [all EXCEPT
        !.family = named,
        !.signals = @ \ (IF Reads(m, {"discipline_words", "theft_words"})
                         THEN {"financial_value_involved"} ELSE {}),
        !.stakeholders = IF Reads(m, {"fire_words"}) THEN @ \cup {"fire_and_rescue"}
                         ELSE @ \ {"fire_and_rescue"}]

\* Mutant: without a classification only the fallback words are read.
WordsOnly(s, m) ==
  IF m.checked THEN SafetyFloors(s, m) ELSE LexicalFloors(s, m)

SafeFallbacks(s, m) ==
  IF m.checked THEN SafetyFloors(s, m) ELSE LexicalFloors(SafetyFloors(s, m), m)

-----------------------------------------------------------------------------
(***************************************************************************)
(* _corroborate_semantic_impact: what the text must support.               *)
(***************************************************************************)
Welfare(m) == ReadsAny(m, {"safeguarding", "missing"})
HurtMinor(m) == Reads(m, {"physical", "physical_minor"})
Guardians(m) == \/ Reads(m, {"parent"}) \/ HurtMinor(m) \/ Welfare(m)
                \/ Reads(m, {"food_incident", "physical_minor"})

(* The predicate of each signal that has one. *)
Supports(m) ==
  [active_danger            |-> Reads(m, {"active"}),
   injury_or_illness        |-> Reads(m, {"physical"}),
   person_missing           |-> Reads(m, {"missing"}),
   safeguarding_concern     |-> Welfare(m),
   external_help_may_be_required |-> Reads(m, {"active"}) \/ Welfare(m),
   possible_regulatory_trigger |-> ReadsAny(m, {"regulatory", "active", "missing", "cyber"}),
   public_interest          |-> Reads(m, {"public"}),
   financial_value_involved |-> Reads(m, {"finance"}),
   transport_operation      |-> Reads(m, {"transport_topic"}),
   food_water_exposure      |-> Reads(m, {"food_incident"}),
   evacuation_accountability |-> ReadsAny(m, {"active", "missing", "evacuation"}),
   data_security_incident   |-> Reads(m, {"cyber"}),
   guardian_notification_relevant |-> Guardians(m)]

Unsupported(m) ==
  {x \in DOMAIN Supports(m) : ~Supports(m)[x]}
  \cup (IF HurtMinor(m) \/ Welfare(m) \/ Reads(m, {"student"}) THEN {}
        ELSE {"minor_involved"})
  \cup (IF ReadsAny(m, {"physical", "cyber"}) \/ Welfare(m) THEN {}
        ELSE {"evidence_preservation_needed"})

FamilySupported(family, m) ==
  CASE family = "safety_emergency" -> ReadsAny(m, {"active", "physical"}) \/ Welfare(m)
    [] family = "health_medical"   -> Reads(m, {"physical"})
    [] family = "safeguarding_welfare" -> Welfare(m)
    [] family = "facilities_environment" -> ReadsAny(m, {"facility", "active"})
    [] family = "transport_travel" -> Reads(m, {"transport_topic"})
    [] family = "food_hygiene"     -> ReadsAny(m, {"food_topic", "food_incident"})
    [] family = "cyber_data"       -> Reads(m, {"cyber"})
    [] family = "finance_procurement" -> Reads(m, {"finance"})
    [] family = "records_regulatory"  -> Reads(m, {"regulatory"})
    [] OTHER -> TRUE

Agencies == {"medical_services", "malaysia_emergency_services_999",
             "fire_and_rescue", "police", "education_authority"}
Incident == {"active_danger", "injury_or_illness", "person_missing",
             "safeguarding_concern", "external_help_may_be_required",
             "possible_regulatory_trigger", "food_water_exposure",
             "evacuation_accountability", "guardian_notification_relevant",
             "evidence_preservation_needed"}

Material(m) == Welfare(m) \/ ReadsAny(m, {"physical", "active", "cyber", "finance",
                 "regulatory", "food_topic", "food_incident", "transport_topic",
                 "facility"})
Urgent(m) == ReadsAny(m, {"active", "missing", "urgent_words"})

(* A checked classification of an administrative request stands down. *)
StandDown(s, m) ==
  IF ~(m.checked /\ Reads(m, {"nonincident"})) THEN s
  ELSE [s EXCEPT
          !.signals = @ \ (Incident \cup {"minor_involved", "data_security_incident",
                                          "financial_value_involved"}),
          !.family = IF FamilySupported(@, [reads |-> {}]) THEN @
                     ELSE "general_school_admin",
          !.severity = "low", !.stakeholders = @ \ Agencies]

(* A rumour said to be false is a matter of reputation only. *)
OnlyRumour(s, m) ==
  IF ~Reads(m, {"false_rumour"}) \/ Material(m) THEN s
  ELSE [s EXCEPT
          !.family = "communications_reputation", !.severity = "medium",
          !.signals = (@ \ Incident) \cup {"public_interest"}
                      \cup (IF Reads(m, {"student"}) THEN {"minor_involved"} ELSE {}),
          !.stakeholders = (@ \ (Agencies \cup {"guardian"}))
                           \cup {"public_media", "school_leadership"}]

(* The source says it is over: what nothing in it supports is taken back. *)
Contained(s, m) ==
  IF ~(/\ m.checked /\ s.severity \in {"high", "critical"} /\ ~Urgent(m)
       /\ \/ m.settled = "hazard"
          \/ m.settled = "people" /\ "active_danger" \notin s.signals)
  THEN s
  ELSE [s EXCEPT
          !.severity = IF Material(m) THEN "medium" ELSE "low",
          !.signals = @ \ {x \in (Incident \ {"food_water_exposure"})
                                 \cup {"data_security_incident"} :
                             x \notin DOMAIN Supports(m) \/ ~Supports(m)[x]},
          !.stakeholders = @ \
             ((IF Reads(m, {"active"}) THEN {}
               ELSE {"malaysia_emergency_services_999", "fire_and_rescue", "police"})
              \cup (IF Reads(m, {"regulatory"}) THEN {} ELSE {"education_authority"})
              \cup (IF Reads(m, {"physical"}) THEN {} ELSE {"medical_services"}))]

(* Without a live classification the text is the ceiling. *)
Ceiling(s, m) ==
  IF m.checked THEN s
  ELSE [s EXCEPT
          !.severity = IF @ \in {"high", "critical"} /\ ~Urgent(m)
                       THEN IF Material(m) THEN "medium" ELSE "low" ELSE @,
          !.stakeholders = @ \
             ((IF Reads(m, {"physical"}) THEN {} ELSE {"medical_services"})
              \cup (IF Reads(m, {"active"}) THEN {}
                    ELSE {"malaysia_emergency_services_999", "fire_and_rescue"})
              \cup (IF Guardians(m) THEN {} ELSE {"guardian"})
              \cup (IF Reads(m, {"regulatory"}) \/ Urgent(m) THEN {}
                    ELSE {"education_authority"})
              \cup (IF Reads(m, {"public"}) THEN {} ELSE {"public_media"}))]

Corroborated(s, m) ==
  LET kept == IF m.checked THEN s
              ELSE [s EXCEPT
                      !.signals = @ \ Unsupported(m),
                      !.family = IF FamilySupported(@, m) THEN @
                                 ELSE "general_school_admin"]
  IN Ceiling(Contained(OnlyRumour(StandDown(kept, m), m), m), m)

(* compile(): the fallbacks, the corroboration, and the closed floors once *)
(* more after it.                                                          *)
Reapplied(s, m) ==
  LET f == FacetsOf(m)
      closed == [WithFacets(s, f) EXCEPT !.signals = @ \ f.drop]
  IN WithAttention(WithTransport(WithMissingMinor(closed, m), m, FALSE), m)

Floored(s, m) ==
  LET people == s.people \cup (m.reads \cap {"student", "staff"})
  IN Reapplied(Corroborated(SafeFallbacks([s EXCEPT !.people = people], m), m), m)
=============================================================================
