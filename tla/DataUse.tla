-------------------------------- MODULE DataUse --------------------------------
(***************************************************************************)
(* The data-use guard, module 101D                                          *)
(* (teow_agl/modules/module_101d_data_use_guard.py): what the agent itself  *)
(* intends to do with data, judged per action by closed rules.              *)
(*                                                                          *)
(* A text is the set of its Readings, what the guard's term lists and       *)
(* patterns find in it.  A use is a record of one candidate action:         *)
(*   tool, verb  its tool and the verb of its operation                     *)
(*   workflow    its metadata names a workflow                              *)
(*   scope, audience, boundary, draftOnly, gate   its output scope, its     *)
(*               audience, its approval boundary, release_state draft_only, *)
(*               and external_release_action                                *)
(*   contracted  it belongs to a response pack or closed action contract    *)
(*   companion   it is the operator's chat companion of a pack              *)
(*   goal        readings of the shared user intent                         *)
(*   purpose     readings of its own purpose, effect and declared use       *)
(*   body        readings of the text it writes                             *)
(*   declared    readings of its data categories (allowed data reads the    *)
(*               same and comes with a workflow)                            *)
(*   own         the closed list of labels it carries: at most one set      *)
(***************************************************************************)
EXTENDS FiniteSets

Label == {"socioeconomic_data", "differential_treatment", "public_pii",
          "health_or_discipline", "student_sensitive_data", "public_disclosure",
          "persistent_sensitive_learning", "external_release",
          "official_record_change", "financial_value_change",
          "unsupported_fact_invention"}

\* Terms that name a personal number; a phone or contact field may be the
\* school's own ("phone_field") or scoped to a person ("pupil_phone").
PersonTerm == {"identity_term", "pupil_phone"}
PiiTerm == PersonTerm \union {"phone_field"}
\* Values: a number shaped as an identity card, a phone number or an address.
Value == {"identity_number", "contact_value"}
Reading == PiiTerm \union Value
           \union {"socio", "differential", "health", "student", "school_channel",
                   "number_excluded"}

Scope == {"", "internal", "public_draft", "community_draft", "public", "public_release",
          "external", "guardian", "official_record"}
Audience == {"", "operator", "public", "guardian", "school_community"}
Use == [tool : {"file", "email", "publish", "web_search"},
        verb : {"write", "send", "publish", "search"},
        workflow : BOOLEAN, scope : Scope, audience : Audience,
        boundary : {"", "draft_only", "human_required", "official"},
        draftOnly : BOOLEAN, gate : BOOLEAN, contracted : BOOLEAN, companion : BOOLEAN,
        goal : SUBSET Reading, purpose : SUBSET Reading, body : SUBSET Reading,
        declared : SUBSET Reading, own : {{}} \union {{ls} : ls \in SUBSET Label}]

(***************************************************************************)
(* What the guard reads.  The action's own text leaves the shared goal out; *)
(* a contracted action's text does too.                                     *)
(***************************************************************************)
Own(u) == u.purpose \union u.body \union u.declared
Text(u) == u.purpose \union u.declared \union (IF u.contracted THEN {} ELSE u.goal)

\* An action that carries its own list of labels, an empty one included, does
\* not get the task's.
Concepts(u, labels) == IF u.own = {} THEN labels ELSE UNION u.own

Tagged(u) == u.workflow \/ u.scope # "" \/ u.boundary # "" \/ u.declared # {}

ObviousUse(u) ==
    \/ {"socio", "differential"} \subseteq Text(u)
    \/ Text(u) \intersect PiiTerm # {} /\ u.verb \in {"publish", "send"}

Inert(u, cs) == ~Tagged(u) /\ cs = {} /\ ~ObviousUse(u)

\* Mutant: a label that understanding did not give overrules the term lists.
LabelDecides(u, cs, reading, label) ==
    IF cs # {} THEN label \in cs ELSE reading \in Text(u)

Asserts(u, cs, reading, label) == reading \in Text(u) \/ label \in cs

\* The school's own contact field may be named while it holds no value.
SchoolChannelOnly(u) ==
    /\ "school_channel" \in Text(u) \union Own(u)
    /\ Own(u) \intersect (PersonTerm \union Value) = {}

\* Mutant: the exemption of the school's own channel shields values as well.
PersonalWhateverChannel(u, cs) ==
    \/ Text(u) \intersect PiiTerm # {}
    \/ Own(u) \intersect PiiTerm # {} /\ "number_excluded" \notin Own(u) /\ ~SchoolChannelOnly(u)
    \/ /\ (Text(u) \union Own(u)) \intersect Value # {}
       /\ "school_channel" \notin Text(u) \union Own(u)
    \/ "public_pii" \in cs

Personal(u, cs) ==
    \/ Text(u) \intersect PiiTerm # {}
    \/ Own(u) \intersect PiiTerm # {} /\ "number_excluded" \notin Own(u) /\ ~SchoolChannelOnly(u)
    \/ "identity_number" \in Text(u)
    \/ Own(u) \intersect Value # {}
    \/ "contact_value" \in Text(u) /\ "school_channel" \notin Text(u) \union Own(u)
    \/ "public_pii" \in cs

Health(u, cs) == "health" \in Own(u) \/ "health_or_discipline" \in cs
Student(u, cs) == "student" \in Own(u) \/ "student_sensitive_data" \in cs

(***************************************************************************)
(* Where the action's output goes.                                          *)
(***************************************************************************)
Publishes(u) == u.verb = "publish" \/ u.tool = "publish"
Delivers(u) == Publishes(u) \/ u.verb = "send" \/ u.tool = "email"
Private(u) == u.audience = "guardian"
Broad(u) == u.audience = "school_community" \/ u.scope = "community_draft"

\* Mutant: every delivery outside counts as public.
PublicOrSent(u, cs) ==
    u.scope \in {"public", "public_release", "public_draft", "external"}
    \/ u.audience = "public" \/ Delivers(u) \/ u.gate

Public(u, cs) ==
    \/ u.scope \in {"public", "public_release", "public_draft"}
    \/ u.scope = "external" /\ ~Private(u)
    \/ u.audience = "public"
    \/ Publishes(u)
    \/ "public_disclosure" \in cs /\ u.gate

External(u) ==
    /\ ~u.draftOnly
    /\ \/ Delivers(u)
       \/ u.gate
       \/ u.scope \in {"external", "public_release"}
       \/ u.boundary = "human_required"

(***************************************************************************)
(* DataUseGuard.assess: the first rule that applies decides.                *)
(***************************************************************************)
Forbidden(u, cs) ==
    \/ u.tool = "web_search" /\ Personal(u, cs)
    \/ /\ Asserts(u, cs, "socio", "socioeconomic_data")
       /\ Asserts(u, cs, "differential", "differential_treatment")
    \/ "persistent_sensitive_learning" \in cs
    \/ /\ Public(u, cs) \/ Broad(u)
       /\ Personal(u, cs) \/ Health(u, cs) \/ Student(u, cs)

Verified(u, cs) ==
    \/ u.scope = "official_record"
    \/ u.boundary = "official"
    \/ "official_record_change" \in cs
    \/ "financial_value_change" \in cs
    \/ External(u) /\ u.scope # "public_draft"
    \/ /\ u.declared \intersect (PiiTerm \union {"socio", "health"}) # {}
       /\ u.scope # "internal"

Assess(u, labels) ==
    LET cs == Concepts(u, labels)
    IN  IF u.companion \/ Inert(u, cs) THEN "NO_OVERRIDE"
        ELSE IF Forbidden(u, cs) THEN "RED"
        ELSE IF "unsupported_fact_invention" \in cs THEN "INFEASIBLE"
        ELSE IF Verified(u, cs) THEN "GREEN"
        ELSE "NO_OVERRIDE"

(***************************************************************************)
(* Runtime._understand_data_use: the labels of a task.  A checked school    *)
(* classification brings its own; otherwise a live model is asked, unless   *)
(* the term lists settle the goal or find nothing in it, and its answer is  *)
(* any set of labels, none when it fails.                                   *)
(***************************************************************************)
Settled(goal) == \/ {"socio", "differential"} \subseteq goal
                 \/ goal \intersect PiiTerm # {} /\ "health" \in goal
Plausible(goal, sensitive) ==
    sensitive \/ goal \intersect (PiiTerm \union {"socio", "health"}) # {}

Understood(task, goal, sensitive, labels) ==
    IF task.checked THEN {task.given}
    ELSE IF task.live /\ ~Settled(goal) /\ Plausible(goal, sensitive)
         THEN SUBSET labels ELSE {{}}
===============================================================================
