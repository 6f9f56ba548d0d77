------------------------------- MODULE MCRouting -------------------------------
(***************************************************************************)
(* Small inputs for RoutingChecks.  Two families of cases: the features     *)
(* whose weights and rules interact, with every backup status and the       *)
(* adjustments module 104 proposes (-5, -8), none and a rejection (5),      *)
(* under two data uses; and the data uses whose rules interact, under a few *)
(* routing inputs and every way a task gets its labels.                      *)
(***************************************************************************)
EXTENDS RoutingChecks

TraitsUnderTest == {"destructive", "irreversible", "external_facing", "sensitive_path",
                    "high_value_asset", "out_of_workspace", "bulk_operation",
                    "credential_path", "generated_output"}

LabelsUnderTest == {"public_pii", "health_or_discipline", "differential_treatment",
                    "unsupported_fact_invention"}

MCInputs ==
    [pre : {"clear"}, traits : SUBSET TraitsUnderTest,
     backup : {"unknown", "verified", "stale"}, confident : BOOLEAN,
     adj : {-8, -5, 0, 5}, dataUse : {"NO_OVERRIDE"},
     draft : BOOLEAN, sensitive : BOOLEAN]
    \union
    [pre : {"infeasible", "hard", "category"},
     traits : {{}, {"generated_output"}, {"credential_path"}},
     backup : {"unknown"}, confident : BOOLEAN, adj : {-8, 0},
     dataUse : {"NO_OVERRIDE"}, draft : BOOLEAN, sensitive : BOOLEAN]

PlainUse ==
    [tool |-> "file", verb |-> "write", workflow |-> FALSE, scope |-> "", audience |-> "",
     boundary |-> "", draftOnly |-> FALSE, gate |-> FALSE, contracted |-> FALSE,
     companion |-> FALSE, goal |-> {}, purpose |-> {}, body |-> {}, declared |-> {},
     own |-> {}]
OfficialWrite == [PlainUse EXCEPT !.workflow = TRUE, !.scope = "official_record"]

Offline == [checked |-> FALSE, live |-> FALSE, given |-> {}]
Tasks == [checked : {FALSE}, live : BOOLEAN, given : {{}}]
         \union [checked : {TRUE}, live : {TRUE}, given : {{}, {"public_disclosure"}}]

PlainInput ==
    [pre |-> "clear", traits |-> {}, backup |-> "verified", confident |-> FALSE,
     adj |-> 0, dataUse |-> "NO_OVERRIDE", draft |-> FALSE, sensitive |-> FALSE]
UseInputs == {PlainInput,
              [PlainInput EXCEPT !.traits = {"external_facing"}, !.adj = -8, !.confident = TRUE],
              [PlainInput EXCEPT !.sensitive = TRUE, !.draft = TRUE],
              [PlainInput EXCEPT !.traits = {"credential_path"}]}

Bodies == {{}, {"phone_field"}, {"identity_term", "number_excluded"}, {"health"}}
          \union {field \union {"school_channel"} \union v :
                      field \in {{}, {"phone_field"}}, v \in SUBSET Value}
MCUses ==
    {u \in [tool : {"file", "email"}, verb : {"write", "send", "publish"},
            workflow : BOOLEAN,
            scope : {"", "internal", "public_draft", "guardian"},
            audience : {"", "public", "guardian"}, boundary : {""},
            draftOnly : BOOLEAN, gate : BOOLEAN, contracted : BOOLEAN, companion : {FALSE},
            goal : {{}, {"socio"}, {"contact_value", "health"}}, purpose : {{}}, body : Bodies,
            declared : {{}}, own : {{}, {{}}}] :
        (u.tool = "email" <=> u.verb = "send") /\ (u.contracted => u.workflow)}
    \union {[PlainUse EXCEPT !.tool = "web_search", !.verb = "search", !.goal = {"identity_term"}],
            [PlainUse EXCEPT !.workflow = TRUE, !.declared = {"socio"}],
            [PlainUse EXCEPT !.workflow = TRUE, !.companion = TRUE, !.body = {"health"}],
            [PlainUse EXCEPT !.purpose = {"socio", "differential"}]}

MCCases == [in : MCInputs, use : {PlainUse, OfficialWrite}, task : {Offline}]
           \union [in : UseInputs, use : MCUses, task : Tasks]
===============================================================================
