----------------------------- MODULE MCSchoolCase -----------------------------
(***************************************************************************)
(* A small school: the messages of one incident and of its neighbours.     *)
(***************************************************************************)
EXTENDS SchoolCase

Blank == [school |-> TRUE, proposed |-> "follow_up", cues |-> {}, topics |-> {},
          bigrams |-> {}, attributed |-> {}, object |-> {}, person |-> {},
          kinds |-> {}, notKinds |-> {}, notRoles |-> {}, says |-> {},
          reads |-> {}, checked |-> TRUE, facts |-> <<>>, family |-> "general_school_admin", severity |-> "low",
          phase |-> "unknown", signals |-> {}, people |-> {},
          lifeUnknown |-> FALSE, settled |-> "none", unknowns |-> {},
          outputs |-> <<>>, release |-> "none", commands |-> {},
          refuses |-> {}, broad |-> {}, unsafe |-> {}, official |-> FALSE,
          repository |-> FALSE, floor |-> FALSE]

Out(id, role, audience, to, asked) ==
  [id |-> id, role |-> role, audience |-> audience, to |-> to, asked |-> asked]
Fact(id, value, status) == [id |-> id, value |-> value, status |-> status, by |-> 0]
Report == Out("o1", "internal_incident_report", "internal", "school_staff", TRUE)
Letter(id, asked) == Out(id, "private_parent_notice", "private_recipient", "guardian", asked)
Checklist(id) == Out(id, "site_safety_checklist", "internal", "school_staff", FALSE)
Post(id) == Out(id, "public_communication_draft", "public", "public_media", TRUE)

(* Smoke in the laboratory, a pupil is hurt; a cause and a rumour; "send   *)
(* the report out", to nobody in particular.                               *)
Smoke == [Blank EXCEPT
  !.family = "safety_emergency", !.severity = "critical", !.phase = "ongoing",
  !.signals = {"active_danger", "injury_or_illness"}, !.people = {"student"},
  !.topics = {"smoke", "laboratory"}, !.says = {"lamp_fell", "gas_smelt"},
  !.reads = {"active", "fire_words", "physical", "physical_minor", "student"},
  !.facts = <<Fact("cause", "lamp_fell", "confirmed"),
              Fact("rumour", "gas_smelt", "unverified"),
              Fact("victim", "boy_fainted", "reported")>>,
  !.kinds = {"report"}, !.outputs = <<Report>>, !.release = "commanded"]

(* The cause is corrected to what was a rumour before, and more is told    *)
(* than a case can keep.                                                   *)
Corrected == [Blank EXCEPT
  !.cues = {"continuation"}, !.topics = {"smoke", "laboratory"},
  !.says = {"gas_smelt", "at_ten", "in_lab_two"},
  !.facts = <<Fact("cause", "gas_smelt", "reported"),
              Fact("time", "at_ten", "reported"),
              Fact("room", "in_lab_two", "reported")>>,
  !.signals = {"injury_or_illness"}, !.severity = "medium",
  !.family = "facilities_environment"]

(* "Make the report shorter", "send it", both without a subject. *)
Shorter == [Blank EXCEPT !.school = FALSE, !.cues = {"edit"}, !.kinds = {"report"}]
SendIt == [Blank EXCEPT !.cues = {"edit", "weak"}, !.release = "commanded"]

(* "Update every file but the parent notice: the smoke is gone, a wire had *)
(* sparked."  The classifier adds a checklist, twice.                      *)
UpdateAll == [Blank EXCEPT
  !.cues = {"pack_wide", "fact_status"}, !.object = {"smoke"},
  !.topics = {"smoke"}, !.notRoles = {"private_parent_notice"},
  !.kinds = {"notice"}, !.notKinds = {"notice"}, !.settled = "hazard",
  !.outputs = <<Checklist("o1"), Checklist("o2")>>,
  !.says = {"wire_sparked"}, !.facts = <<Fact("cause", "wire_sparked", "reported")>>]

(* "Do the same again", with facts nobody stated. *)
Vague == [Blank EXCEPT !.cues = {"generic"},
                       !.facts = <<Fact("cause", "lamp_fell", "reported")>>]

(* Two letters about a quarrel; nothing is to be sent. *)
Letters == [Blank EXCEPT
  !.family = "discipline_behaviour", !.topics = {"quarrel"}, !.people = {"student"},
  !.says = {"boys_quarrelled"}, !.facts = <<Fact("cause", "boys_quarrelled", "reported")>>,
  !.outputs = <<Letter("o1", TRUE), Letter("o2", TRUE)>>,
  !.release = "negated", !.refuses = {"guardian"}]

(* The marks of named pupils on the public page, twice; the classifier     *)
(* proposes a report beside them.                                          *)
Marks == [Blank EXCEPT
  !.topics = {"marks"}, !.broad = {"public"}, !.unsafe = {"broadcast"},
  !.signals = {"public_interest"},
  !.outputs = <<Post("o1"), Post("o2"), [Report EXCEPT !.id = "o3", !.asked = FALSE]>>,
  !.release = "commanded",
  !.commands = {"public_media", "school_community"}]

(* The minutes, notify the vendor but not the parents: the classifier adds *)
(* the message, twice.                                                     *)
Minutes == [Blank EXCEPT
  !.family = "facilities_environment", !.topics = {"delivery"},
  !.outputs = <<Out("o1", "meeting_minutes", "internal", "school_staff", TRUE),
                Out("o2", "external_stakeholder_message", "private_recipient",
                    "vendor", FALSE),
                Out("o3", "external_stakeholder_message", "private_recipient",
                    "vendor", FALSE)>>,
  !.release = "commanded", !.commands = {"vendor", "guardian"},
  !.refuses = {"guardian"}]

(* A child is missing and nobody knows whether help is needed. *)
Missing == [Blank EXCEPT
  !.family = "safeguarding_welfare", !.severity = "critical",
  !.signals = {"person_missing", "active_danger"}, !.people = {"student"},
  !.topics = {"missing"}, !.lifeUnknown = TRUE, !.unknowns = {"danger"},
  !.outputs = <<Report, Out("o3", "school_parent_notice", "school_community",
                            "school_community", TRUE),
                Letter("o2", TRUE)>>, !.release = "commanded"]

(* A bus has collided, pupils shaken; a notice to the staff is proposed.   *)
Collision == [Blank EXCEPT
  !.family = "transport_travel", !.severity = "high", !.phase = "just_occurred",
  !.signals = {"transport_operation", "guardian_notification_relevant"},
  !.people = {"student"}, !.topics = {"bus"}, !.cues = {"collision"},
  !.outputs = <<Out("o1", "staff_internal_notice", "internal", "school_staff", FALSE)>>]

(* The classifier is out of reach; pupils are hurt, a ceiling has come down*)
(* and the room is closed.                                                 *)
CeilingDown == [Blank EXCEPT
  !.checked = FALSE, !.topics = {"ceiling"}, !.proposed = "new_case",
  !.reads = {"physical", "physical_minor", "group_injury", "collapse", "facility",
             "student"}]

(* The classifier is out of reach; "it has spread", the kitchen is on fire.*)
Fire == [Blank EXCEPT
  !.checked = FALSE, !.cues = {"continuation", "pronoun"},
  !.topics = {"smoke", "kitchen"}, !.reads = {"active", "fire_words"}]

(* The classifier is out of reach; a bomb threat has come in. *)
Bomb == [Blank EXCEPT
  !.checked = FALSE, !.topics = {"threat"}, !.reads = {"bomb", "at_school"}]

(* Smoke is reported beside the agenda of a meeting. *)
Agenda == [Blank EXCEPT
  !.family = "safety_emergency", !.severity = "critical", !.phase = "ongoing",
  !.signals = {"active_danger", "external_help_may_be_required"},
  !.topics = {"agenda", "smoke"}, !.reads = {"active", "nonincident"},
  !.outputs = <<Out("o1", "user_titled_document", "internal", "school_staff", TRUE)>>]

(* A rumour of a death, said to be false, and a classifier that takes it   *)
(* for an emergency.                                                       *)
Rumour == [Blank EXCEPT
  !.family = "safety_emergency", !.severity = "critical",
  !.signals = {"injury_or_illness", "external_help_may_be_required"},
  !.topics = {"rumour"}, !.reads = {"false_rumour", "student"}]

MCMessages == {Smoke, Corrected, Shorter, SendIt, UpdateAll, Vague, Letters, Marks, Minutes,
               Missing, Collision, CeilingDown, Fire, Bomb, Agenda, Rumour}
MCAuthorities == {"", "draft_only"}
MCAdditions == {[id |-> "c1", role |-> "user_titled_document", audience |-> "internal",
                 to |-> "school_staff", mode |-> "draft", explicit |-> FALSE],
                [id |-> "c1", role |-> "private_parent_notice",
                 audience |-> "private_recipient", to |-> "guardian",
                 mode |-> "external_release", explicit |-> FALSE]}

(* One conversation at a time: the next task starts when the last one has  *)
(* ended or waits for its human; draft-only is declared on the first; how  *)
(* the last task of a full conversation ends is left out.                  *)
MCNext ==
  /\ CaseNext
  /\ Len(tasks) < MaxTasks
  /\ Len(tasks') > Len(tasks) =>
       /\ \A t \in Ids : tasks[t].status # "governance"
       /\ tasks # <<>> => Last(tasks').authority \in {"", Last(tasks).authority}
MCSpec == CaseInit /\ [][MCNext]_caseVars
=============================================================================
