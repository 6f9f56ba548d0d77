------------------------------ MODULE SchoolBundle ------------------------------
(***************************************************************************)
(* Module 102S: how the writer (a live language model) fills the Markdown   *)
(* artifacts of a governed school plan, ContentSynthesizer.enrich_school_plan. *)
(*                                                                          *)
(* One call writes every artifact of a batch; deterministic checks read     *)
(* each text, and the same provider audits the texts for invented facts and *)
(* for the goal.  What fails is written again a bounded number of times,    *)
(* then replaced by a local template or held.  A pack larger than one batch *)
(* is written in batches and audited once, as a whole.  An outage opens a   *)
(* circuit for the rest of the task.                                        *)
(***************************************************************************)
EXTENDS Naturals, FiniteSets

CONSTANTS Sizes,      \* how many artifacts the plan may have
          BatchSize   \* 6 in the code
ASSUME SizesAssumption == Sizes \subseteq Nat \ {0} /\ BatchSize \in Nat \ {0}

VARIABLES
    size, owned,   \* the artifacts 1..size; coverage_source is the response pack
    safe,          \* those whose template passes the checks
    circuit,       \* _school_provider_unavailable
    phase, first,  \* "write", "audit", "close", "pack" or "done"; the batch in hand
    attempt, repair, \* the attempt in hand, and what it must write
    body,          \* mapping: the text in hand of each artifact, by what the checks say
    flaws,         \* last_issues: the artifacts they name; keys: the ids were wrong
    audit,         \* last_audit
    out,           \* the metadata written to the plan
    cleared,       \* history: an audit read this very text and found nothing in it
    calls          \* history: calls of the provider
pack == <<size, owned, safe>>
hand == <<first, attempt, repair>>
vars == <<size, owned, safe, circuit, phase, first, attempt, repair, body, flaws, audit, out, cleared, calls>>

Arts == 1..size
Batch == {a \in Arts : first <= a /\ a < first + BatchSize}
Deferred == size > BatchSize
Attempts == IF owned THEN 2 ELSE 3

(***************************************************************************)
(* One answer of the auditor is read twice, for invented facts and for the  *)
(* goal.  Each reading may name artifacts, find something that names none   *)
(* (bundle), or find the answer missing or malformed (out); claims that the *)
(* artifact's own source or a proposal's wording covers are dropped first.  *)
(***************************************************************************)
Findings(S) == {f \in [named : SUBSET S, bundle : BOOLEAN, out : BOOLEAN, pass : BOOLEAN] :
                   f.pass <=> f.named = {} /\ ~f.bundle /\ ~f.out}
Grounding(S) == Findings(S)
GoalAlignment(S) == Findings(S)
AuditOf(S) == {[named |-> f.named \cup g.named, bundle |-> f.bundle \/ g.bundle, out |-> f.out \/ g.out,
                grounded |-> f.pass, goal |-> g.pass] : f \in Grounding(S), g \in GoalAlignment(S)}
Passed(r) == r.grounded /\ r.goal
NoAudit == [named |-> {}, bundle |-> FALSE, grounded |-> FALSE, goal |-> FALSE, out |-> FALSE]
Audited == audit # NoAudit

Live == {"mapping", "batched", "retained", "pending"}
Meta(mode, sem, goal) == [mode |-> mode, sem |-> sem, goal |-> goal]
Unwritten == Meta("none", FALSE, FALSE)
\* _school_response_pack_safe_fallback: the template, if it passes the checks.
\* Mutant: one that does not pass leaves no mark.
TemplateUnmarked(a) == IF a \in safe THEN Meta("template", FALSE, FALSE) ELSE Unwritten
Template(a) == Meta(IF a \in safe THEN "template" ELSE "held", FALSE, FALSE)

Clean == [named |-> {}, keys |-> FALSE]
StartBatch(f) == /\ first' = f /\ attempt' = 1
                 /\ repair' = {a \in Arts : f <= a /\ a < f + BatchSize}

Init ==
    /\ size \in Sizes /\ owned \in BOOLEAN /\ safe \in SUBSET Arts
    /\ circuit = FALSE /\ phase = "write" /\ first = 1 /\ attempt = 1 /\ repair = Batch
    /\ body = [a \in Arts |-> "none"] /\ flaws = Clean /\ audit = NoAudit
    /\ out = [a \in Arts |-> Unwritten] /\ cleared = {} /\ calls = 0

\* The batch is done: the next one, the audit of the whole pack, or the end.
Proceed ==
    IF first + BatchSize <= size THEN phase' = "write" /\ StartBatch(first + BatchSize)
    ELSE phase' = (IF Deferred THEN "pack" ELSE "done") /\ UNCHANGED hand

Fill(m) == out' = [a \in Arts |-> IF a \in DOMAIN m THEN m[a] ELSE out[a]]

\* The circuit is open: nobody is asked for this batch.
WriteLocally ==
    /\ phase = "write" /\ circuit
    /\ Fill([a \in Batch |-> Template(a)])
    /\ Proceed
    /\ UNCHANGED <<pack, circuit, body, flaws, audit, cleared, calls>>

(***************************************************************************)
(* One attempt: the provider answers nothing, or other ids than asked for,  *)
(* or a text for each.  Texts accepted before stay; the last audit is       *)
(* forgotten.                                                               *)
(***************************************************************************)
\* Mutant: the audit of the previous attempt is kept.
ForgetNothing == audit
Forget == NoAudit

Outage ==
    /\ phase = "write" /\ ~circuit
    /\ circuit' = TRUE /\ phase' = "close"
    /\ body' = [a \in Arts |-> IF a \in Batch THEN "none" ELSE body[a]]
    /\ flaws' = Clean /\ audit' = Forget /\ calls' = calls + 1
    /\ UNCHANGED <<pack, hand, out, cleared>>

\* What comes after an attempt with findings: the artifacts they name are written
\* again, all of them when a finding names none; at the last attempt, or when
\* rewriting cannot help, the batch is closed.
Named(f, r) == f.named \cup r.named
Retry(f, r, last) ==
    IF last \/ attempt = Attempts THEN phase' = "close" /\ UNCHANGED <<attempt, repair>>
    ELSE /\ phase' = "write" /\ attempt' = attempt + 1
         /\ repair' = IF r.bundle \/ r.out \/ Named(f, r) = {} THEN Batch ELSE Named(f, r)

WrongKeys ==
    /\ phase = "write" /\ ~circuit
    /\ body' = [a \in Arts |-> IF a \in repair THEN "none" ELSE body[a]]
    /\ flaws' = [named |-> repair, keys |-> TRUE] /\ audit' = Forget /\ calls' = calls + 1
    /\ cleared' = cleared \ repair
    /\ Retry(flaws', audit', FALSE)
    /\ UNCHANGED <<pack, first, circuit, out>>

\* validate_school_markdown: "hard" is a leak of privacy, data use or authority,
\* "repair" a fault of form, role or facts; too short or too similar is only a note.
Checked == {"clean", "repair", "hard"}
\* A clean batch of a larger pack waits for the audit of the whole.
Pending == Meta("pending", FALSE, FALSE)
Write ==
    /\ phase = "write" /\ ~circuit
    /\ \E new \in [repair -> Checked] :
           body' = [a \in Arts |-> IF a \in repair THEN new[a] ELSE body[a]]
    /\ flaws' = [named |-> {a \in Batch : body'[a] # "clean"}, keys |-> FALSE]
    /\ audit' = Forget /\ calls' = calls + 1 /\ cleared' = cleared \ repair
    /\ IF flaws'.named = {}
       THEN IF Deferred THEN Fill([a \in Batch |-> Pending]) /\ Proceed
            ELSE phase' = "audit" /\ UNCHANGED <<hand, out>>
       \* A leak of privacy or authority is never given back to the provider.
       ELSE /\ Retry(flaws', audit', \E a \in Batch : body'[a] = "hard")
            /\ UNCHANGED <<first, out>>
    /\ UNCHANGED <<pack, circuit>>

Asked(r) == /\ audit' = r /\ calls' = calls + 1
            /\ circuit' = r.out
            /\ cleared' = IF r.out THEN cleared ELSE (cleared \cup Batch) \ r.named
Audit ==
    /\ phase = "audit"
    /\ \E r \in AuditOf(Batch) :
           /\ Asked(r)
           /\ IF Passed(r) THEN Fill([a \in Batch |-> Meta("mapping", TRUE, TRUE)]) /\ Proceed
              \* A goal found incomplete as a whole is not repaired file by file.
              ELSE /\ Retry(Clean, r, r.out \/ (r.grounded /\ r.bundle /\ r.named = {}))
                   /\ UNCHANGED <<first, out>>
    /\ UNCHANGED <<pack, body, flaws>>

(***************************************************************************)
(* After the attempts.  A batch whose last texts nobody audited, for one    *)
(* bad file, is audited once so that its clean siblings may be kept.        *)
(***************************************************************************)
\* Mutant: it is audited although the last attempt was.
AuditsAgain == /\ Cardinality(Batch) > 1 /\ ~Deferred /\ ~circuit /\ ~flaws.keys
               /\ \A a \in Batch : body[a] \in {"clean", "repair"}
AuditsRest == AuditsAgain /\ ~Audited

AuditRest ==
    /\ phase = "close" /\ AuditsRest
    /\ \E r \in AuditOf(Batch) : Asked(r)
    /\ UNCHANGED <<pack, phase, hand, body, flaws, out>>

\* A live text is kept if nothing names it and no finding condemns the batch.
\* Mutant: what the checks found is forgotten, only the audit counts.
KeptUnchecked(a) == body[a] # "none" /\ (Deferred \/ Audited) /\ ~flaws.keys /\ ~audit.out /\ a \notin audit.named
Kept(a) == body[a] # "none" /\ (Deferred \/ Audited) /\ ~flaws.keys /\ ~audit.out
           /\ a \notin Named(flaws, audit)
\* Mutant: a finding that names no file does not count against the goal.
GoalPassed == audit.goal
GoalComplete == audit.goal /\ ~audit.bundle

Close ==
    /\ phase = "close" /\ ~AuditsRest
    /\ Fill([a \in Batch |-> IF Kept(a) THEN Meta("retained", ~Deferred, GoalComplete)
                              ELSE IF owned THEN Template(a) ELSE Meta("held", FALSE, FALSE)])
    /\ Proceed
    /\ UNCHANGED <<pack, circuit, body, flaws, audit, cleared, calls>>

(***************************************************************************)
(* The audit of a pack written in batches.                                  *)
(***************************************************************************)
Held == {a \in Arts : out[a].mode \in {"held", "none"}}
\* Mutant: the provider is asked although its circuit is open.
AuditsPackRegardless == Held = {}
AuditsPack == Held = {} /\ ~circuit

GiveUp ==
    /\ phase = "pack" /\ ~AuditsPack
    /\ phase' = "done"
    /\ UNCHANGED <<pack, circuit, hand, body, flaws, audit, out, cleared, calls>>

PackMeta(a, r) ==
    CASE Passed(r) /\ out[a].mode \in {"pending", "retained"} -> Meta("batched", TRUE, TRUE)
      [] ~Passed(r) /\ out[a].mode = "pending" ->
             IF ~r.out /\ a \notin r.named THEN Meta("retained", TRUE, FALSE) ELSE Template(a)
      [] OTHER -> out[a]

AuditPack ==
    /\ phase = "pack" /\ AuditsPack
    /\ \E r \in AuditOf(Arts) :
           /\ audit' = r /\ calls' = calls + 1 /\ circuit' = r.out
           /\ cleared' = IF r.out THEN cleared ELSE Arts \ r.named
           /\ out' = [a \in Arts |-> PackMeta(a, r)]
    /\ phase' = "done"
    /\ UNCHANGED <<pack, hand, body, flaws>>

Next == WriteLocally \/ Outage \/ WrongKeys \/ Write \/ Audit \/ AuditRest \/ Close \/ GiveUp \/ AuditPack
        \/ (phase = "done" /\ UNCHANGED vars)
\* One thread; the provider's calls have a timeout.
Spec == Init /\ [][Next]_vars /\ WF_vars(Next)

(***************************************************************************)
(* What the rest of the run reads: school_artifact_verification_checks      *)
(* (artifact_contract) and the fast path.                                   *)
(***************************************************************************)
ContractHolds(a) == /\ out[a].mode # "held"
                    /\ out[a].mode \in Live \ {"pending"} => out[a].sem
FastPath == \A a \in Arts : out[a].mode \in Live /\ out[a].sem /\ out[a].goal

(***************************************************************************)
(* Properties.                                                              *)
(***************************************************************************)
TypeOK ==
    /\ size \in Sizes /\ owned \in BOOLEAN /\ safe \subseteq Arts /\ circuit \in BOOLEAN
    /\ phase \in {"write", "audit", "close", "pack", "done"}
    /\ first \in Arts /\ attempt \in 1..Attempts /\ repair \subseteq Arts
    /\ body \in [Arts -> Checked \cup {"none"}]
    /\ flaws \in [named : SUBSET Arts, keys : BOOLEAN]
    /\ audit \in AuditOf(Arts) \cup {NoAudit}
    /\ out \in [Arts -> [mode : Live \cup {"none", "template", "held"}, sem : BOOLEAN, goal : BOOLEAN]]
    /\ cleared \subseteq Arts /\ calls \in Nat

\* "A live-authored file ... must carry an explicit successful semantic audit": a
\* live text recorded as audited was read by an audit, in its last wording, that
\* found nothing in it, whatever was rewritten around it (102B, enrich_school_plan).
RecordedAuditIsReal ==
    \A a \in Arts : out[a].sem => a \in cleared

\* A live text the deterministic checks fault, for privacy or for form, is in no
\* plan: neither kept for its clean siblings nor passed by an audit.
FaultedTextIsReplaced ==
    \A a \in Arts : out[a].mode \in Live => body[a] = "clean"

\* The fast path, which skips the judge, takes only a pack that one audit passed
\* as a whole: no finding, named or not (runtime.py:166).
FastPathWasPassed ==
    phase = "done" /\ FastPath => Passed(audit)

\* After an outage the provider is not asked again in the task.
NoCallAfterOutage == [][circuit => calls' = calls]_vars

\* The provider is asked a bounded number of times, however its answers fail.
Batches == (size + BatchSize - 1) \div BatchSize
CallsAreBounded ==
    calls <= IF Deferred THEN Batches * Attempts + 1 ELSE 2 * Attempts

\* Every artifact ends with a text or held; no pack is left half written.
EveryArtifactSettles == <>[](phase = "done" /\ \A a \in Arts : out[a].mode # "none")

\* "A live-authored file is not verified merely because upstream forgot to mark it
\* failed; it must carry an explicit successful semantic audit" (the comment at
\* module_school_artifact_guard.py:2748): the contract check holds of no live text
\* that no audit has read.
LiveTextWasAudited ==
    phase = "done" => \A a \in Arts : out[a].mode \in Live /\ ContractHolds(a) => a \in cleared

\* "Quarantine only the file named by the semantic audit" (102B:4013).
NamedTextIsQuarantined ==
    phase = "done" => \A a \in audit.named : out[a].mode \notin Live
=============================================================================
