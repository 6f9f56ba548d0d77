------------------------------ MODULE School_proofs ------------------------------
(***************************************************************************)
(* What TLAPS proves of the school case.                                   *)
(*                                                                         *)
(* Of module 102S (SchoolBundle), for packs of every size, batches of      *)
(* every size and every answer of the writer and the auditor: no text is   *)
(* recorded as audited unless an audit read it as it stands, no faulted    *)
(* text is in the plan, the fast path takes only a pack one audit passed,  *)
(* after an outage nobody is asked again, and the provider is asked a      *)
(* bounded number of times.                                                *)
(*                                                                         *)
(* Of a conversation (SchoolCase), for every message and conversations of  *)
(* every length: facts stay in their case, a danger declared over stays    *)
(* over, a reported one is heard and asked about, an active one keeps its  *)
(* floor, a follow-up loses nothing, no release is gated for that nobody   *)
(* commanded, and a person's details asked for many are under the privacy  *)
(* contract.                                                               *)
(***************************************************************************)
EXTENDS SchoolBundle, SchoolCase, WellFoundedInduction, TLAPS

-----------------------------------------------------------------------------
(* Module 102S.                                                            *)


\* The texts of the batch in hand are not in the plan yet, nor those of a later
\* batch.
NothingAhead ==
    phase \in {"write", "audit", "close"} =>
        \A a \in Arts : a >= first => out[a] = Unwritten

\* What is written again is of the batch in hand; a pack of one batch has it in
\* hand throughout.
HandFits ==
    /\ phase = "write" => repair \subseteq Batch
    /\ ~Deferred => first = 1
    /\ phase = "pack" => Deferred

\* A batch is audited by itself when it is the pack, its texts are clean and the
\* provider answers.
AuditIsDue ==
    phase = "audit" =>
        /\ ~Deferred /\ ~circuit
        /\ \A a \in Batch : body[a] = "clean"

\* When a batch is closed, the last issues name every faulted text in hand,
\* unless the provider answered with other ids.
FlawsAreTold ==
    phase \in {"audit", "close"} /\ ~flaws.keys =>
        \A a \in Batch \ flaws.named : body[a] \in {"clean", "none"}

\* The last audit read the texts in hand as they are now: every rewriting forgets
\* it.
AuditStands ==
    ~Deferred /\ Audited /\ ~audit.out => Batch \ audit.named \subseteq cleared

\* Until the audit of the whole, no text of a pack written in batches counts as
\* audited.
BatchesAreUnaudited ==
    Deferred /\ phase # "done" => \A a \in Arts : ~out[a].sem

BundleInv ==
    /\ TypeOK
    /\ NothingAhead /\ HandFits /\ AuditIsDue /\ FlawsAreTold
    /\ AuditStands /\ BatchesAreUnaudited
    /\ RecordedAuditIsReal /\ FaultedTextIsReplaced /\ FastPathWasPassed

(***************************************************************************)
(* The answers of the auditor.                                              *)
(***************************************************************************)

\* What a reading says: it passes exactly when it names nothing, condemns nothing
\* and is there.
LEMMA AuditFacts ==
    ASSUME NEW S, NEW r \in AuditOf(S)
    PROVE  /\ r.named \subseteq S /\ r.bundle \in BOOLEAN /\ r.out \in BOOLEAN
           /\ r.grounded \in BOOLEAN /\ r.goal \in BOOLEAN
           /\ Passed(r) <=> r.named = {} /\ ~r.bundle /\ ~r.out
           /\ r # NoAudit
<1>1. PICK f \in Findings(S), g \in Findings(S) :
          r = [named |-> f.named \cup g.named, bundle |-> f.bundle \/ g.bundle,
               out |-> f.out \/ g.out, grounded |-> f.pass, goal |-> g.pass]
  BY DEF AuditOf, Grounding, GoalAlignment
<1>2. /\ f.named \subseteq S /\ f.bundle \in BOOLEAN /\ f.out \in BOOLEAN /\ f.pass \in BOOLEAN
      /\ f.pass <=> f.named = {} /\ ~f.bundle /\ ~f.out
      /\ g.named \subseteq S /\ g.bundle \in BOOLEAN /\ g.out \in BOOLEAN /\ g.pass \in BOOLEAN
      /\ g.pass <=> g.named = {} /\ ~g.bundle /\ ~g.out
  BY DEF Findings
<1>3. /\ r.named = f.named \cup g.named /\ r.bundle = (f.bundle \/ g.bundle)
      /\ r.out = (f.out \/ g.out) /\ r.grounded = f.pass /\ r.goal = g.pass
  BY <1>1
<1>4. Passed(r) <=> r.named = {} /\ ~r.bundle /\ ~r.out
  BY <1>2, <1>3 DEF Passed
<1>5. r # NoAudit
  <2>. SUFFICES ASSUME r = NoAudit PROVE FALSE
    OBVIOUS
  <2>1. r.named = {} /\ r.bundle = FALSE /\ r.out = FALSE /\ r.goal = FALSE
    BY DEF NoAudit
  <2>. QED  BY <1>4, <2>1 DEF Passed
<1>. QED  BY <1>2, <1>3, <1>4, <1>5

\* An audit of some texts is a possible audit of more.
LEMMA AuditOfMore ==
    ASSUME NEW S, NEW T, S \subseteq T
    PROVE  AuditOf(S) \subseteq AuditOf(T)
<1>1. Findings(S) \subseteq Findings(T)
  BY DEF Findings
<1>. QED  BY <1>1 DEF AuditOf, Grounding, GoalAlignment

(***************************************************************************)
(* The steps that several actions share.                                    *)
(***************************************************************************)

\* The types of what does not concern the pack's own shape.
LEMMA SizeFacts ==
    ASSUME TypeOK
    PROVE  /\ size \in Nat /\ size > 0 /\ BatchSize \in Nat /\ BatchSize > 0
           /\ first \in Nat /\ first >= 1 /\ first <= size
           /\ Batch \subseteq Arts /\ first \in Batch
           /\ \A a \in Arts : a \in Nat /\ a >= 1
           /\ \A a \in Batch : a >= first
           /\ ~Deferred /\ first = 1 => Batch = Arts
BY SizesAssumption DEF TypeOK, Arts, Batch, Deferred

\* Going on after a batch: the next one, which begins behind this one, or the
\* audit of the whole, or the end.
LEMMA ProceedFacts ==
    ASSUME TypeOK, HandFits, Proceed, UNCHANGED pack
    PROVE  /\ phase' \in {"write", "pack", "done"}
           /\ first' \in Arts /\ attempt' \in 1..Attempts /\ repair' \subseteq Arts
           /\ phase' = "write" => repair' \subseteq Batch' /\ first' = first + BatchSize
           /\ phase' = "write" => \A a \in Batch : ~(a >= first')
           /\ phase' = "pack" => Deferred
           /\ ~Deferred => first' = 1 /\ phase' = "done"
           /\ Arts' = Arts /\ Deferred' = Deferred /\ Attempts' = Attempts
<1>1. Arts' = Arts /\ Deferred' = Deferred /\ Attempts' = Attempts
  BY DEF pack, Arts, Deferred, Attempts
<1>2. attempt \in 1..Attempts /\ repair \subseteq Arts /\ 1 \in 1..Attempts
  BY DEF TypeOK, Attempts
<1>3. CASE first + BatchSize <= size
  <2>1. phase' = "write" /\ first' = first + BatchSize /\ attempt' = 1
        /\ repair' = {a \in Arts : first + BatchSize <= a /\ a < first + BatchSize + BatchSize}
    BY <1>3 DEF Proceed, StartBatch
  <2>2. Batch' = {a \in Arts : first' <= a /\ a < first' + BatchSize}
    BY <1>1 DEF Batch
  <2>3. repair' = Batch'
    BY <2>1, <2>2
  <2>4. first' \in Arts
    BY <1>3, <2>1, SizeFacts DEF Arts
  <2>5. \A a \in Batch : ~(a >= first')
    BY <2>1, SizeFacts DEF Batch
  <2>6. Deferred
    BY <1>3, SizeFacts DEF Deferred
  <2>. QED  BY <1>1, <1>2, <2>1, <2>3, <2>4, <2>5, <2>6
<1>4. CASE ~(first + BatchSize <= size)
  <2>1. phase' = (IF Deferred THEN "pack" ELSE "done")
        /\ first' = first /\ attempt' = attempt /\ repair' = repair
    BY <1>4 DEF Proceed, hand
  <2>. QED  BY <1>1, <1>2, <2>1 DEF HandFits, TypeOK
<1>. QED  BY <1>3, <1>4

\* Filling in a batch touches the batch alone.
LEMMA FillFacts ==
    ASSUME TypeOK, NEW m, DOMAIN m = Batch, Fill(m)
    PROVE  /\ \A a \in Batch : out'[a] = m[a]
           /\ \A a \in Arts \ Batch : out'[a] = out[a]
           /\ DOMAIN out' = Arts
BY SizeFacts DEF Fill

\* A batch that is filled in leaves nothing ahead of the next.
LEMMA FilledAndGone ==
    ASSUME BundleInv, NEW m, DOMAIN m = Batch, Fill(m), Proceed, UNCHANGED pack,
           phase \in {"write", "audit", "close"}
    PROVE  NothingAhead' /\ HandFits' /\ AuditIsDue' /\ FlawsAreTold'
<1>. USE DEF BundleInv
<1>1. NothingAhead'
  <2>. SUFFICES ASSUME phase' = "write", NEW a \in Arts, a >= first'
                PROVE  out'[a] = Unwritten
    BY ProceedFacts DEF NothingAhead
  <2>1. a \notin Batch
    BY ProceedFacts
  <2>2. a >= first
    BY ProceedFacts, SizeFacts
  <2>. QED  BY <2>1, <2>2, FillFacts DEF NothingAhead
<1>2. HandFits'
  BY ProceedFacts DEF HandFits
<1>3. AuditIsDue' /\ FlawsAreTold'
  BY ProceedFacts DEF AuditIsDue, FlawsAreTold
<1>. QED  BY <1>1, <1>2, <1>3

\* Writing again: what is written is of the batch in hand.
LEMMA RetryFacts ==
    ASSUME BundleInv, NEW f, NEW r, NEW last, Retry(f, r, last),
           Named(f, r) \subseteq Batch, phase \in {"write", "audit"},
           UNCHANGED <<pack, first, out>>
    PROVE  /\ phase' \in {"write", "close"}
           /\ attempt' \in 1..Attempts /\ repair' \subseteq Arts
           /\ Arts' = Arts /\ Deferred' = Deferred /\ Attempts' = Attempts /\ Batch' = Batch
           /\ NothingAhead' /\ HandFits' /\ AuditIsDue'
<1>. USE DEF BundleInv
<1>1. Arts' = Arts /\ Deferred' = Deferred /\ Attempts' = Attempts /\ Batch' = Batch
  BY DEF pack, Arts, Deferred, Attempts, Batch
<1>2. attempt \in 1..Attempts /\ repair \subseteq Arts /\ Attempts \in Nat
  BY DEF TypeOK, Attempts
<1>3. CASE last \/ attempt = Attempts
  <2>1. phase' = "close" /\ attempt' = attempt /\ repair' = repair
    BY <1>3 DEF Retry
  <2>. QED  BY <1>1, <1>2, <2>1 DEF NothingAhead, HandFits, AuditIsDue
<1>4. CASE ~(last \/ attempt = Attempts)
  <2>1. phase' = "write" /\ attempt' = attempt + 1 /\ repair' \subseteq Batch
    BY <1>4, SizeFacts DEF Retry
  <2>2. attempt' \in 1..Attempts
    BY <1>2, <1>4, <2>1
  <2>. QED  BY <1>1, <1>2, <2>1, <2>2, SizeFacts DEF NothingAhead, HandFits, AuditIsDue
<1>. QED  BY <1>3, <1>4

Metas == [mode : Live \cup {"none", "template", "held"}, sem : BOOLEAN, goal : BOOLEAN]

\* The marks a text can get; only "none", "template" and "held" are not live.
LEMMA MetaFacts ==
    /\ \A mode \in Live \cup {"none", "template", "held"}, s, g \in BOOLEAN :
          /\ Meta(mode, s, g) \in Metas
          /\ Meta(mode, s, g).mode = mode /\ Meta(mode, s, g).sem = s
          /\ Meta(mode, s, g).goal = g
    /\ Unwritten \in Metas /\ Unwritten.mode = "none" /\ Unwritten.sem = FALSE
    /\ Pending \in Metas /\ Pending.mode = "pending" /\ Pending.sem = FALSE
    /\ \A a : /\ Template(a) \in Metas /\ Template(a).sem = FALSE
              /\ Template(a).mode \in {"template", "held"}
    /\ "none" \notin Live /\ "template" \notin Live /\ "held" \notin Live
    /\ "mapping" \in Live /\ "batched" \in Live /\ "retained" \in Live /\ "pending" \in Live
BY DEF Metas, Meta, Unwritten, Pending, Template, Live

\* What a fill writes is typed when what it is given is.
LEMMA FillTyped ==
    ASSUME TypeOK, NEW m, DOMAIN m = Batch, \A a \in Batch : m[a] \in Metas,
           Fill(m), UNCHANGED pack
    PROVE  out' \in [Arts' -> Metas]
<1>1. Arts' = Arts
  BY DEF pack, Arts
<1>2. out \in [Arts -> Metas]
  BY DEF TypeOK, Metas
<1>3. \A a \in Arts : (IF a \in DOMAIN m THEN m[a] ELSE out[a]) \in Metas
  BY <1>2
<1>. QED  BY <1>1, <1>3 DEF Fill

\* The types, in the form the steps use.
LEMMA TypesAgain ==
    ASSUME UNCHANGED pack, TypeOK,
           circuit' \in BOOLEAN, phase' \in {"write", "audit", "close", "pack", "done"},
           first' \in Arts, attempt' \in 1..Attempts, repair' \subseteq Arts,
           body' \in [Arts -> Checked \cup {"none"}],
           flaws' \in [named : SUBSET Arts, keys : BOOLEAN],
           audit' \in AuditOf(Arts) \cup {NoAudit},
           out' \in [Arts' -> Metas], cleared' \subseteq Arts, calls' \in Nat
    PROVE  TypeOK'
<1>1. size' = size /\ owned' = owned /\ safe' = safe /\ Arts' = Arts /\ Attempts' = Attempts
  BY DEF pack, Arts, Attempts
<1>2. size \in Sizes /\ owned \in BOOLEAN /\ safe \subseteq Arts
  BY DEF TypeOK
<1>. QED  BY <1>1, <1>2 DEF TypeOK, Metas

(***************************************************************************)
(* The actions.                                                             *)
(***************************************************************************)

\* Nobody is asked: templates fill the batch.
LEMMA WriteLocallyStep ==
    ASSUME BundleInv, WriteLocally
    PROVE  BundleInv'
<1>. USE DEF BundleInv
<1>. DEFINE m == [a \in Batch |-> Template(a)]
<1>1. /\ phase = "write" /\ Fill(m) /\ Proceed /\ UNCHANGED pack
      /\ UNCHANGED <<circuit, body, flaws, audit, cleared, calls>>
  BY DEF WriteLocally
<1>2. /\ \A a \in Batch : out'[a] = Template(a)
      /\ \A a \in Arts \ Batch : out'[a] = out[a]
  BY <1>1, FillFacts
<1>3. NothingAhead' /\ HandFits' /\ AuditIsDue' /\ FlawsAreTold'
  BY <1>1, FilledAndGone
<1>4. TypeOK'
  <2>1. out' \in [Arts' -> Metas]
    BY <1>1, FillTyped, MetaFacts
  <2>. QED  BY <1>1, <2>1, ProceedFacts, TypesAgain DEF TypeOK
<1>5. Arts' = Arts /\ Deferred' = Deferred /\ (~Deferred => Batch' = Batch)
  BY <1>1, ProceedFacts DEF Arts, Batch, HandFits
<1>6. AuditStands'
  BY <1>1, <1>5 DEF AuditStands, Audited
<1>7. BatchesAreUnaudited'
  BY <1>1, <1>2, <1>5, MetaFacts DEF BatchesAreUnaudited
<1>8. RecordedAuditIsReal'
  BY <1>1, <1>2, <1>5, MetaFacts DEF RecordedAuditIsReal
<1>9. FaultedTextIsReplaced'
  BY <1>1, <1>2, <1>5, MetaFacts DEF FaultedTextIsReplaced
<1>10. FastPathWasPassed'
  <2>1. first \in Batch /\ first \in Arts
    BY SizeFacts
  <2>2. out'[first].mode \notin Live
    BY <1>2, <2>1, MetaFacts
  <2>. QED  BY <1>5, <2>1, <2>2 DEF FastPathWasPassed, FastPath
<1>. QED  BY <1>3, <1>4, <1>6, <1>7, <1>8, <1>9, <1>10

\* Where the plan, the audited texts and the size stay and the texts changed are
\* not in the plan yet, what is said of the plan stays true.
LEMMA PlanUntouched ==
    ASSUME BundleInv, UNCHANGED pack, UNCHANGED out, phase # "done", phase' # "done",
           phase \in {"write", "audit", "close"},
           \A a \in Arts \ Batch : body'[a] = body[a],
           \A a \in Arts \ Batch : a \in cleared => a \in cleared'
    PROVE  /\ BatchesAreUnaudited' /\ RecordedAuditIsReal'
           /\ FaultedTextIsReplaced' /\ FastPathWasPassed'
<1>. USE DEF BundleInv
<1>1. Arts' = Arts /\ Deferred' = Deferred
  BY DEF pack, Arts, Deferred
<1>2. \A a \in Batch : out[a] = Unwritten
  BY SizeFacts DEF NothingAhead
<1>3. BatchesAreUnaudited'
  BY <1>1 DEF BatchesAreUnaudited
<1>4. RecordedAuditIsReal'
  BY <1>1, <1>2, MetaFacts DEF RecordedAuditIsReal
<1>5. FaultedTextIsReplaced'
  BY <1>1, <1>2, MetaFacts DEF FaultedTextIsReplaced
<1>. QED  BY <1>3, <1>4, <1>5 DEF FastPathWasPassed

\* The provider answers nothing.
LEMMA OutageStep ==
    ASSUME BundleInv, Outage
    PROVE  BundleInv'
<1>. USE DEF BundleInv
<1>1. /\ phase = "write" /\ phase' = "close" /\ circuit' = TRUE
      /\ UNCHANGED pack /\ UNCHANGED hand /\ UNCHANGED out /\ cleared' = cleared
      /\ body' = [a \in Arts |-> IF a \in Batch THEN "none" ELSE body[a]]
      /\ flaws' = Clean /\ audit' = NoAudit /\ calls' = calls + 1
  BY DEF Outage, Forget
<1>2. Arts' = Arts /\ Batch' = Batch /\ Deferred' = Deferred
  BY <1>1 DEF pack, hand, Arts, Batch, Deferred
<1>3. TypeOK'
  <2>1. body' \in [Arts -> Checked \cup {"none"}]
    BY <1>1 DEF TypeOK
  <2>2. /\ first' \in Arts /\ attempt' \in 1..Attempts /\ repair' \subseteq Arts
        /\ flaws' \in [named : SUBSET Arts, keys : BOOLEAN]
        /\ calls' \in Nat /\ cleared' \subseteq Arts
    BY <1>1 DEF TypeOK, hand, Clean
  <2>3. out' \in [Arts' -> Metas]
    BY <1>1, <1>2 DEF TypeOK, Metas
  <2>. QED  BY <1>1, <2>1, <2>2, <2>3, TypesAgain
<1>4. NothingAhead' /\ HandFits' /\ AuditIsDue'
  BY <1>1, <1>2 DEF NothingAhead, HandFits, AuditIsDue, hand
<1>5. FlawsAreTold'
  BY <1>1, <1>2, SizeFacts DEF FlawsAreTold
<1>6. AuditStands'
  BY <1>1 DEF AuditStands, Audited
<1>7. /\ BatchesAreUnaudited' /\ RecordedAuditIsReal'
      /\ FaultedTextIsReplaced' /\ FastPathWasPassed'
  BY <1>1, PlanUntouched
<1>. QED  BY <1>3, <1>4, <1>5, <1>6, <1>7

\* The provider answers with other ids.
LEMMA WrongKeysStep ==
    ASSUME BundleInv, WrongKeys
    PROVE  BundleInv'
<1>. USE DEF BundleInv
<1>1. /\ phase = "write" /\ UNCHANGED <<pack, first, circuit, out>>
      /\ body' = [a \in Arts |-> IF a \in repair THEN "none" ELSE body[a]]
      /\ flaws' = [named |-> repair, keys |-> TRUE] /\ audit' = NoAudit /\ calls' = calls + 1
      /\ cleared' = cleared \ repair
      /\ Retry(flaws', audit', FALSE)
  BY DEF WrongKeys, Forget
<1>2. repair \subseteq Batch
  BY <1>1 DEF HandFits
<1>3. Named(flaws', audit') \subseteq Batch
  BY <1>1, <1>2 DEF Named, NoAudit
<1>4. /\ phase' \in {"write", "close"} /\ attempt' \in 1..Attempts /\ repair' \subseteq Arts
      /\ Arts' = Arts /\ Batch' = Batch
      /\ NothingAhead' /\ HandFits' /\ AuditIsDue'
  BY <1>1, <1>3, RetryFacts
<1>5. TypeOK'
  <2>1. body' \in [Arts -> Checked \cup {"none"}]
    BY <1>1 DEF TypeOK
  <2>2. /\ first' \in Arts /\ circuit' \in BOOLEAN
        /\ flaws' \in [named : SUBSET Arts, keys : BOOLEAN]
        /\ calls' \in Nat /\ cleared' \subseteq Arts
    BY <1>1 DEF TypeOK
  <2>3. out' \in [Arts' -> Metas]
    BY <1>1, <1>4 DEF TypeOK, Metas
  <2>. QED  BY <1>1, <1>4, <2>1, <2>2, <2>3, TypesAgain
<1>6. FlawsAreTold'
  BY <1>1 DEF FlawsAreTold
<1>7. AuditStands'
  BY <1>1 DEF AuditStands, Audited
<1>8. /\ BatchesAreUnaudited' /\ RecordedAuditIsReal'
      /\ FaultedTextIsReplaced' /\ FastPathWasPassed'
  BY <1>1, <1>2, <1>4, PlanUntouched
<1>. QED  BY <1>4, <1>5, <1>6, <1>7, <1>8

\* The writer writes.
LEMMA WriteStep ==
    ASSUME BundleInv, Write
    PROVE  BundleInv'
<1>. USE DEF BundleInv
<1>1. PICK new \in [repair -> Checked] :
          body' = [a \in Arts |-> IF a \in repair THEN new[a] ELSE body[a]]
  BY DEF Write
<1>2. /\ phase = "write" /\ circuit = FALSE /\ UNCHANGED pack /\ UNCHANGED circuit
      /\ flaws' = [named |-> {a \in Batch : body'[a] # "clean"}, keys |-> FALSE]
      /\ audit' = NoAudit /\ calls' = calls + 1 /\ cleared' = cleared \ repair
  BY DEF Write, Forget, TypeOK
<1>3. repair \subseteq Batch
  BY <1>2 DEF HandFits
<1>4. /\ \A a \in Arts \ Batch : body'[a] = body[a]
      /\ body' \in [Arts -> Checked \cup {"none"}]
      /\ \A a \in Arts \ Batch : a \in cleared => a \in cleared'
  BY <1>1, <1>2, <1>3 DEF TypeOK
<1>5. /\ flaws' \in [named : SUBSET Arts, keys : BOOLEAN]
      /\ calls' \in Nat /\ cleared' \subseteq Arts
  BY <1>2, SizeFacts DEF TypeOK
<1>6. AuditStands'
  BY <1>2 DEF AuditStands, Audited
<1>7. Arts' = Arts /\ Deferred' = Deferred
  BY <1>2 DEF pack, Arts, Deferred
<1>8. CASE flaws'.named = {} /\ Deferred
  <2>. DEFINE m == [a \in Batch |-> Pending]
  <2>1. Fill(m) /\ Proceed
    BY <1>8 DEF Write
  <2>2. /\ \A a \in Batch : out'[a] = Pending
        /\ \A a \in Arts \ Batch : out'[a] = out[a]
    BY <2>1, FillFacts
  <2>3. NothingAhead' /\ HandFits' /\ AuditIsDue' /\ FlawsAreTold'
    BY <1>2, <2>1, FilledAndGone
  <2>4. TypeOK'
    <3>1. out' \in [Arts' -> Metas]
      BY <1>2, <2>1, FillTyped, MetaFacts
    <3>. QED  BY <1>2, <1>4, <1>5, <2>1, <3>1, ProceedFacts, TypesAgain DEF TypeOK
  <2>5. BatchesAreUnaudited'
    BY <1>2, <1>7, <2>2, MetaFacts DEF BatchesAreUnaudited
  <2>6. RecordedAuditIsReal'
    BY <1>4, <1>7, <2>2, MetaFacts DEF RecordedAuditIsReal
  <2>7. FaultedTextIsReplaced'
    <3>1. \A a \in Batch : body'[a] = "clean"
      BY <1>2, <1>8
    <3>. QED  BY <1>4, <1>7, <2>2, <3>1 DEF FaultedTextIsReplaced
  <2>8. FastPathWasPassed'
    <3>1. first \in Batch /\ first \in Arts
      BY SizeFacts
    <3>2. ~out'[first].sem
      BY <2>2, <3>1, MetaFacts
    <3>. QED  BY <1>7, <3>1, <3>2 DEF FastPathWasPassed, FastPath
  <2>. QED  BY <1>6, <2>3, <2>4, <2>5, <2>6, <2>7, <2>8
<1>9. CASE flaws'.named = {} /\ ~Deferred
  <2>1. phase' = "audit" /\ UNCHANGED hand /\ UNCHANGED out
    BY <1>9 DEF Write
  <2>2. Batch' = Batch /\ \A a \in Batch : body'[a] = "clean"
    BY <1>2, <1>7, <1>9, <2>1 DEF Batch, hand
  <2>3. TypeOK'
    <3>1. out' \in [Arts' -> Metas]
      BY <1>7, <2>1 DEF TypeOK, Metas
    <3>2. first' \in Arts /\ attempt' \in 1..Attempts /\ repair' \subseteq Arts /\ circuit' \in BOOLEAN
      BY <1>2, <2>1 DEF TypeOK, hand
    <3>. QED  BY <1>2, <1>4, <1>5, <2>1, <3>1, <3>2, TypesAgain
  <2>4. NothingAhead' /\ HandFits' /\ AuditIsDue' /\ FlawsAreTold'
    BY <1>2, <1>7, <1>9, <2>1, <2>2
       DEF NothingAhead, HandFits, AuditIsDue, FlawsAreTold, hand
  <2>5. /\ BatchesAreUnaudited' /\ RecordedAuditIsReal'
        /\ FaultedTextIsReplaced' /\ FastPathWasPassed'
    BY <1>2, <1>4, <2>1, PlanUntouched
  <2>. QED  BY <1>6, <2>3, <2>4, <2>5
<1>10. CASE flaws'.named # {}
  <2>1. /\ Retry(flaws', audit', \E a \in Batch : body'[a] = "hard")
        /\ UNCHANGED <<first, out>>
    BY <1>10 DEF Write
  <2>2. Named(flaws', audit') \subseteq Batch
    BY <1>2 DEF Named, NoAudit
  <2>3. /\ phase' \in {"write", "close"} /\ attempt' \in 1..Attempts /\ repair' \subseteq Arts
        /\ Batch' = Batch /\ NothingAhead' /\ HandFits' /\ AuditIsDue'
    BY <1>2, <2>1, <2>2, RetryFacts
  <2>4. TypeOK'
    <3>1. out' \in [Arts' -> Metas] /\ first' \in Arts /\ circuit' \in BOOLEAN
      BY <1>2, <1>7, <2>1 DEF TypeOK, Metas
    <3>. QED  BY <1>2, <1>4, <1>5, <2>3, <3>1, TypesAgain
  <2>5. FlawsAreTold'
    BY <1>2, <2>3 DEF FlawsAreTold
  <2>6. /\ BatchesAreUnaudited' /\ RecordedAuditIsReal'
        /\ FaultedTextIsReplaced' /\ FastPathWasPassed'
    BY <1>2, <1>4, <2>1, <2>3, PlanUntouched
  <2>. QED  BY <1>6, <2>3, <2>4, <2>5, <2>6
<1>. QED  BY <1>8, <1>9, <1>10

\* What an answer of the auditor to the batch in hand does to the record.
LEMMA AskedFacts ==
    ASSUME BundleInv, UNCHANGED <<pack, first>>, NEW r \in AuditOf(Batch), Asked(r)
    PROVE  /\ audit' = r /\ circuit' = r.out /\ circuit' \in BOOLEAN
           /\ audit' \in AuditOf(Arts) \cup {NoAudit}
           /\ calls' \in Nat /\ cleared' \subseteq Arts
           /\ ~r.out => \A a \in Batch \ r.named : a \in cleared'
           /\ \A a \in Arts \ Batch : a \in cleared => a \in cleared'
           /\ AuditStands'
<1>. USE DEF BundleInv
<1>1. /\ audit' = r /\ circuit' = r.out /\ calls' = calls + 1
      /\ cleared' = IF r.out THEN cleared ELSE (cleared \cup Batch) \ r.named
  BY DEF Asked
<1>2. r.named \subseteq Batch /\ r.out \in BOOLEAN
  BY AuditFacts
<1>3. audit' \in AuditOf(Arts) \cup {NoAudit}
  BY <1>1, SizeFacts, AuditOfMore
<1>4. calls' \in Nat /\ cleared' \subseteq Arts
  BY <1>1, SizeFacts DEF TypeOK
<1>5. Batch' = Batch
  BY DEF pack, Batch, Arts
<1>6. AuditStands'
  BY <1>1, <1>5 DEF AuditStands
<1>. QED  BY <1>1, <1>2, <1>3, <1>4, <1>6

\* The provider audits the batch.
LEMMA AuditStep ==
    ASSUME BundleInv, Audit
    PROVE  BundleInv'
<1>. USE DEF BundleInv
<1>1. PICK r \in AuditOf(Batch) :
          /\ Asked(r)
          /\ IF Passed(r) THEN Fill([a \in Batch |-> Meta("mapping", TRUE, TRUE)]) /\ Proceed
             ELSE /\ Retry(Clean, r, r.out \/ (r.grounded /\ r.bundle /\ r.named = {}))
                  /\ UNCHANGED <<first, out>>
  BY DEF Audit
<1>2. /\ phase = "audit" /\ UNCHANGED pack /\ UNCHANGED <<body, flaws>>
      /\ ~Deferred /\ first = 1 /\ \A a \in Batch : body[a] = "clean"
  BY DEF Audit, AuditIsDue, HandFits
<1>3. Arts' = Arts /\ Deferred' = Deferred /\ Batch = Arts
  BY <1>2, SizeFacts DEF pack, Arts, Deferred
<1>4. r.named \subseteq Batch /\ (Passed(r) <=> r.named = {} /\ ~r.bundle /\ ~r.out)
  BY AuditFacts
<1>5. CASE Passed(r)
  <2>. DEFINE m == [a \in Batch |-> Meta("mapping", TRUE, TRUE)]
  <2>1. Fill(m) /\ Proceed
    BY <1>1, <1>5
  <2>2. first' = 1 /\ phase' = "done"
    BY <1>2, <2>1, ProceedFacts
  <2>3. UNCHANGED first
    BY <1>2, <2>2
  <2>4. /\ audit' = r /\ circuit' \in BOOLEAN /\ audit' \in AuditOf(Arts) \cup {NoAudit}
        /\ calls' \in Nat /\ cleared' \subseteq Arts
        /\ \A a \in Batch : a \in cleared'
        /\ AuditStands'
    BY <1>1, <1>2, <1>4, <1>5, <2>3, AskedFacts
  <2>5. \A a \in Arts : out'[a] = Meta("mapping", TRUE, TRUE)
    <3>1. \A a \in Batch : out'[a] = m[a]
      BY <2>1, FillFacts
    <3>. QED  BY <1>3, <3>1
  <2>6. TypeOK'
    <3>1. out' \in [Arts' -> Metas]
      BY <1>2, <2>1, FillTyped, MetaFacts
    <3>. QED  BY <1>2, <2>1, <2>4, <3>1, ProceedFacts, TypesAgain DEF TypeOK
  <2>7. NothingAhead' /\ HandFits' /\ AuditIsDue' /\ FlawsAreTold'
    BY <1>2, <2>1, FilledAndGone
  <2>8. BatchesAreUnaudited' /\ FastPathWasPassed'
    BY <1>5, <2>2, <2>4 DEF BatchesAreUnaudited, FastPathWasPassed, Passed
  <2>9. RecordedAuditIsReal' /\ FaultedTextIsReplaced'
    BY <1>2, <1>3, <2>4 DEF RecordedAuditIsReal, FaultedTextIsReplaced
  <2>. QED  BY <2>4, <2>6, <2>7, <2>8, <2>9
<1>6. CASE ~Passed(r)
  <2>1. /\ Retry(Clean, r, r.out \/ (r.grounded /\ r.bundle /\ r.named = {}))
        /\ UNCHANGED <<first, out>>
    BY <1>1, <1>6
  <2>2. Named(Clean, r) \subseteq Batch
    BY <1>4 DEF Named, Clean
  <2>3. /\ phase' \in {"write", "close"} /\ attempt' \in 1..Attempts /\ repair' \subseteq Arts
        /\ Batch' = Batch /\ NothingAhead' /\ HandFits' /\ AuditIsDue'
    BY <1>2, <2>1, <2>2, RetryFacts
  <2>4. /\ circuit' \in BOOLEAN /\ audit' \in AuditOf(Arts) \cup {NoAudit}
        /\ calls' \in Nat /\ cleared' \subseteq Arts
        /\ \A a \in Arts \ Batch : a \in cleared => a \in cleared'
        /\ AuditStands'
    BY <1>1, <1>2, <2>1, AskedFacts
  <2>5. TypeOK'
    <3>1. /\ out' \in [Arts' -> Metas] /\ first' \in Arts
          /\ body' \in [Arts -> Checked \cup {"none"}]
          /\ flaws' \in [named : SUBSET Arts, keys : BOOLEAN]
      BY <1>2, <1>3, <2>1 DEF TypeOK, Metas
    <3>. QED  BY <1>2, <2>3, <2>4, <3>1, TypesAgain
  <2>6. FlawsAreTold'
    BY <1>2, <2>3 DEF FlawsAreTold
  <2>7. /\ BatchesAreUnaudited' /\ RecordedAuditIsReal'
        /\ FaultedTextIsReplaced' /\ FastPathWasPassed'
    BY <1>2, <2>1, <2>3, <2>4, PlanUntouched
  <2>. QED  BY <2>3, <2>4, <2>5, <2>6, <2>7
<1>. QED  BY <1>5, <1>6

\* The clean siblings of a bad file are audited once.
LEMMA AuditRestStep ==
    ASSUME BundleInv, AuditRest
    PROVE  BundleInv'
<1>. USE DEF BundleInv
<1>1. PICK r \in AuditOf(Batch) : Asked(r)
  BY DEF AuditRest
<1>2. /\ phase = "close" /\ phase' = "close" /\ UNCHANGED pack /\ UNCHANGED hand
      /\ UNCHANGED <<body, flaws, out>>
  BY DEF AuditRest
<1>3. Arts' = Arts /\ Deferred' = Deferred /\ Batch' = Batch /\ first' = first
  BY <1>2 DEF pack, hand, Arts, Deferred, Batch
<1>4. /\ circuit' \in BOOLEAN /\ audit' \in AuditOf(Arts) \cup {NoAudit}
      /\ calls' \in Nat /\ cleared' \subseteq Arts
      /\ \A a \in Arts \ Batch : a \in cleared => a \in cleared'
      /\ AuditStands'
  BY <1>1, <1>2, <1>3, AskedFacts
<1>5. TypeOK'
  <2>1. /\ out' \in [Arts' -> Metas] /\ first' \in Arts
        /\ attempt' \in 1..Attempts /\ repair' \subseteq Arts
        /\ body' \in [Arts -> Checked \cup {"none"}]
        /\ flaws' \in [named : SUBSET Arts, keys : BOOLEAN]
    BY <1>2, <1>3 DEF TypeOK, Metas, hand
  <2>. QED  BY <1>2, <1>4, <2>1, TypesAgain
<1>6. NothingAhead' /\ HandFits' /\ AuditIsDue' /\ FlawsAreTold'
  BY <1>2, <1>3 DEF NothingAhead, HandFits, AuditIsDue, FlawsAreTold
<1>7. /\ BatchesAreUnaudited' /\ RecordedAuditIsReal'
      /\ FaultedTextIsReplaced' /\ FastPathWasPassed'
  BY <1>2, <1>4, PlanUntouched
<1>. QED  BY <1>4, <1>5, <1>6, <1>7

\* The batch is closed: what nothing names is kept, the rest replaced or held.
LEMMA CloseStep ==
    ASSUME BundleInv, Close
    PROVE  BundleInv'
<1>. USE DEF BundleInv
<1>. DEFINE m == [a \in Batch |->
                    IF Kept(a) THEN Meta("retained", ~Deferred, GoalComplete)
                    ELSE IF owned THEN Template(a) ELSE Meta("held", FALSE, FALSE)]
<1>1. /\ phase = "close" /\ Fill(m) /\ Proceed /\ UNCHANGED pack
      /\ UNCHANGED <<circuit, body, flaws, audit, cleared, calls>>
  BY DEF Close
<1>2. audit.goal \in BOOLEAN /\ audit.bundle \in BOOLEAN /\ audit.named \subseteq Arts
  <2>1. CASE audit = NoAudit
    BY <2>1 DEF NoAudit
  <2>2. CASE audit \in AuditOf(Arts)
    BY <2>2, AuditFacts
  <2>. QED  BY <2>1, <2>2 DEF TypeOK
<1>3. GoalComplete \in BOOLEAN /\ (~Deferred) \in BOOLEAN
  BY <1>2 DEF GoalComplete, Deferred
<1>4. \A a \in Batch : /\ m[a] \in Metas
                       /\ m[a].mode \in Live => Kept(a)
                       /\ m[a].sem => Kept(a) /\ ~Deferred
                       /\ m[a].goal => Kept(a) /\ GoalComplete
  <2>. SUFFICES ASSUME NEW a \in Batch
                PROVE  /\ m[a] \in Metas
                       /\ m[a].mode \in Live => Kept(a)
                       /\ m[a].sem => Kept(a) /\ ~Deferred
                       /\ m[a].goal => Kept(a) /\ GoalComplete
    OBVIOUS
  <2>1. CASE Kept(a)
    <3>1. m[a] = Meta("retained", ~Deferred, GoalComplete)
      BY <2>1
    <3>2. \A s, g \in BOOLEAN : /\ Meta("retained", s, g) \in Metas
                                /\ Meta("retained", s, g).sem = s
                                /\ Meta("retained", s, g).goal = g
      BY MetaFacts
    <3>3. m[a] \in Metas /\ m[a].sem = ~Deferred /\ m[a].goal = GoalComplete
      BY <1>3, <3>1, <3>2
    <3>. QED  BY <2>1, <3>3
  <2>2. CASE ~Kept(a)
    <3>1. m[a] \in {Template(a), Meta("held", FALSE, FALSE)}
      BY <2>2
    <3>2. /\ Template(a) \in Metas /\ Template(a).mode \notin Live
          /\ Template(a).sem = FALSE /\ Template(a).goal = FALSE
      BY MetaFacts DEF Template, Meta
    <3>3. /\ Meta("held", FALSE, FALSE) \in Metas
          /\ Meta("held", FALSE, FALSE).mode \notin Live
          /\ Meta("held", FALSE, FALSE).sem = FALSE /\ Meta("held", FALSE, FALSE).goal = FALSE
      BY MetaFacts
    <3>. QED  BY <3>1, <3>2, <3>3
  <2>. QED  BY <2>1, <2>2
<1>5. DOMAIN m = Batch
  OBVIOUS
<1>. HIDE DEF m
<1>6. /\ \A a \in Batch : out'[a] = m[a]
      /\ \A a \in Arts \ Batch : out'[a] = out[a]
  BY <1>1, <1>5, FillFacts
<1>7. NothingAhead' /\ HandFits' /\ AuditIsDue' /\ FlawsAreTold'
  BY <1>1, <1>5, FilledAndGone
<1>8. TypeOK'
  <2>1. out' \in [Arts' -> Metas]
    BY <1>1, <1>4, <1>5, FillTyped
  <2>. QED  BY <1>1, <2>1, ProceedFacts, TypesAgain DEF TypeOK
<1>9. Arts' = Arts /\ Deferred' = Deferred /\ (~Deferred => Batch' = Batch)
  BY <1>1, ProceedFacts DEF Arts, Batch, HandFits
<1>10. AuditStands'
  BY <1>1, <1>9 DEF AuditStands, Audited
<1>11. BatchesAreUnaudited'
  BY <1>1, <1>4, <1>6, <1>9 DEF BatchesAreUnaudited
<1>12. RecordedAuditIsReal'
  <2>1. \A a \in Batch : Kept(a) /\ ~Deferred => a \in cleared
    BY DEF Kept, Named, AuditStands
  <2>. QED  BY <1>1, <1>4, <1>6, <1>9, <2>1 DEF RecordedAuditIsReal
<1>13. FaultedTextIsReplaced'
  <2>1. \A a \in Batch : Kept(a) => body[a] = "clean"
    BY <1>1 DEF Kept, Named, FlawsAreTold
  <2>. QED  BY <1>1, <1>4, <1>6, <1>9, <2>1 DEF FaultedTextIsReplaced
<1>14. FastPathWasPassed'
  <2>. SUFFICES ASSUME FastPath'
                PROVE  Passed(audit)
    BY <1>1 DEF FastPathWasPassed
  <2>1. first \in Batch /\ first \in Arts
    BY SizeFacts
  <2>2. \A a \in Batch : Kept(a) /\ ~Deferred /\ GoalComplete
    BY <1>4, <1>6, <1>9, SizeFacts DEF FastPath
  <2>3. Batch = Arts
    BY <2>1, <2>2, SizeFacts DEF HandFits
  <2>4. audit.named = {} /\ ~audit.bundle /\ ~audit.out /\ Audited
    BY <1>2, <2>1, <2>2, <2>3 DEF Kept, Named, GoalComplete
  <2>. QED  BY <2>4, AuditFacts DEF TypeOK, Audited
<1>. QED  BY <1>7, <1>8, <1>10, <1>11, <1>12, <1>13, <1>14

\* A pack with a held text, or without a provider, is not audited.
LEMMA GiveUpStep ==
    ASSUME BundleInv, GiveUp
    PROVE  BundleInv'
<1>. USE DEF BundleInv
<1>1. /\ phase = "pack" /\ phase' = "done" /\ UNCHANGED pack /\ UNCHANGED hand
      /\ UNCHANGED <<circuit, body, flaws, audit, out, cleared, calls>>
  BY DEF GiveUp
<1>2. Arts' = Arts /\ Deferred' = Deferred /\ Batch' = Batch /\ Deferred
  BY <1>1 DEF pack, hand, Arts, Deferred, Batch, HandFits
<1>3. TypeOK'
  <2>1. /\ out' \in [Arts' -> Metas] /\ first' \in Arts
        /\ attempt' \in 1..Attempts /\ repair' \subseteq Arts
    BY <1>1, <1>2 DEF TypeOK, Metas, hand
  <2>. QED  BY <1>1, <2>1, TypesAgain DEF TypeOK
<1>4. /\ NothingAhead' /\ HandFits' /\ AuditIsDue' /\ FlawsAreTold'
      /\ AuditStands' /\ BatchesAreUnaudited'
  BY <1>1, <1>2
     DEF NothingAhead, HandFits, AuditIsDue, FlawsAreTold, AuditStands, BatchesAreUnaudited
<1>5. RecordedAuditIsReal' /\ FaultedTextIsReplaced'
  BY <1>1, <1>2 DEF RecordedAuditIsReal, FaultedTextIsReplaced
<1>6. FastPathWasPassed'
  <2>1. ~out[first].sem /\ first \in Arts
    BY <1>1, <1>2, SizeFacts DEF BatchesAreUnaudited
  <2>. QED  BY <1>1, <1>2, <2>1 DEF FastPathWasPassed, FastPath
<1>. QED  BY <1>3, <1>4, <1>5, <1>6

\* The whole pack is audited.
LEMMA AuditPackStep ==
    ASSUME BundleInv, AuditPack
    PROVE  BundleInv'
<1>. USE DEF BundleInv
<1>1. PICK r \in AuditOf(Arts) :
          /\ audit' = r /\ calls' = calls + 1 /\ circuit' = r.out
          /\ cleared' = IF r.out THEN cleared ELSE Arts \ r.named
          /\ out' = [a \in Arts |-> PackMeta(a, r)]
  BY DEF AuditPack
<1>2. /\ phase = "pack" /\ phase' = "done" /\ UNCHANGED pack /\ UNCHANGED hand
      /\ UNCHANGED <<body, flaws>>
  BY DEF AuditPack
<1>3. Arts' = Arts /\ Deferred' = Deferred /\ Batch' = Batch /\ Deferred
  BY <1>2 DEF pack, hand, Arts, Deferred, Batch, HandFits
<1>4. /\ r.named \subseteq Arts /\ r.out \in BOOLEAN
      /\ Passed(r) <=> r.named = {} /\ ~r.bundle /\ ~r.out
  BY AuditFacts
<1>5. \A a \in Arts :
          \/ /\ out[a].mode \in {"pending", "retained"} /\ Passed(r)
             /\ out'[a] = Meta("batched", TRUE, TRUE)
          \/ /\ out[a].mode = "pending" /\ ~Passed(r) /\ ~r.out /\ a \notin r.named
             /\ out'[a] = Meta("retained", TRUE, FALSE)
          \/ out'[a] = Template(a)
          \/ out'[a] = out[a] /\ ~out[a].sem
  <2>. SUFFICES ASSUME NEW a \in Arts
                PROVE  \/ /\ out[a].mode \in {"pending", "retained"} /\ Passed(r)
                          /\ PackMeta(a, r) = Meta("batched", TRUE, TRUE)
                       \/ /\ out[a].mode = "pending" /\ ~Passed(r)
                          /\ ~r.out /\ a \notin r.named
                          /\ PackMeta(a, r) = Meta("retained", TRUE, FALSE)
                       \/ PackMeta(a, r) = Template(a)
                       \/ PackMeta(a, r) = out[a] /\ ~out[a].sem
    BY <1>1
  <2>1. ~out[a].sem
    BY <1>2, <1>3 DEF BatchesAreUnaudited
  <2>2. CASE Passed(r) /\ out[a].mode \in {"pending", "retained"}
    <3>1. PackMeta(a, r) = Meta("batched", TRUE, TRUE)
      BY <2>2 DEF PackMeta
    <3>. QED  BY <2>2, <3>1
  <2>3. CASE ~Passed(r) /\ out[a].mode = "pending"
    <3>1. PackMeta(a, r) = IF ~r.out /\ a \notin r.named
                           THEN Meta("retained", TRUE, FALSE) ELSE Template(a)
      BY <2>3 DEF PackMeta
    <3>. QED  BY <2>3, <3>1
  <2>4. CASE /\ ~(Passed(r) /\ out[a].mode \in {"pending", "retained"})
             /\ ~(~Passed(r) /\ out[a].mode = "pending")
    <3>1. PackMeta(a, r) = out[a]
      BY <2>4 DEF PackMeta
    <3>. QED  BY <2>1, <3>1
  <2>. QED  BY <2>2, <2>3, <2>4
<1>. DEFINE batched == Meta("batched", TRUE, TRUE)
            retained == Meta("retained", TRUE, FALSE)
<1>6. /\ batched \in Metas /\ retained \in Metas /\ retained.goal = FALSE
       /\ "pending" \in Live /\ "retained" \in Live
       /\ \A a : /\ Template(a) \in Metas /\ Template(a).sem = FALSE
                 /\ Template(a).mode \notin Live
  BY MetaFacts
<1>7. \A a \in Arts :
          \/ out[a].mode \in {"pending", "retained"} /\ Passed(r) /\ out'[a] = batched
          \/ /\ out[a].mode = "pending" /\ ~Passed(r) /\ ~r.out /\ a \notin r.named
             /\ out'[a] = retained
          \/ out'[a] = Template(a)
          \/ out'[a] = out[a] /\ ~out[a].sem
  BY <1>5
<1>. HIDE DEF batched, retained
<1>8. TypeOK'
  <2>1. \A a \in Arts : out'[a] \in Metas
    <3>1. out \in [Arts -> Metas]
      BY DEF TypeOK, Metas
    <3>. QED  BY <1>6, <1>7, <3>1
  <2>2. out' \in [Arts' -> Metas]
    BY <1>1, <1>3, <2>1
  <2>3. /\ first' \in Arts /\ attempt' \in 1..Attempts /\ repair' \subseteq Arts
        /\ cleared' \subseteq Arts /\ circuit' \in BOOLEAN /\ calls' \in Nat
        /\ audit' \in AuditOf(Arts) \cup {NoAudit}
    BY <1>1, <1>2, <1>4 DEF TypeOK, hand
  <2>. QED  BY <1>2, <2>2, <2>3, TypesAgain DEF TypeOK
<1>9. /\ NothingAhead' /\ HandFits' /\ AuditIsDue' /\ FlawsAreTold'
      /\ AuditStands' /\ BatchesAreUnaudited'
  BY <1>2, <1>3
     DEF NothingAhead, HandFits, AuditIsDue, FlawsAreTold, AuditStands, BatchesAreUnaudited
<1>10. RecordedAuditIsReal'
  <2>. SUFFICES ASSUME NEW a \in Arts, out'[a].sem
                PROVE  a \in cleared'
    BY <1>3 DEF RecordedAuditIsReal
  <2>1. ~r.out /\ a \notin r.named
    BY <1>4, <1>6, <1>7
  <2>. QED  BY <1>1, <2>1
<1>11. FaultedTextIsReplaced'
  <2>. SUFFICES ASSUME NEW a \in Arts, out'[a].mode \in Live
                PROVE  body[a] = "clean"
    BY <1>2, <1>3 DEF FaultedTextIsReplaced
  <2>1. out[a].mode \in Live
    BY <1>6, <1>7
  <2>. QED  BY <2>1 DEF FaultedTextIsReplaced
<1>12. FastPathWasPassed'
  <2>. SUFFICES ASSUME \A a \in Arts : out'[a].sem /\ out'[a].goal
                PROVE  Passed(r)
    BY <1>1, <1>3 DEF FastPathWasPassed, FastPath
  <2>1. first \in Arts
    BY SizeFacts
  <2>. QED  BY <1>6, <1>7, <2>1
<1>. QED  BY <1>8, <1>9, <1>10, <1>11, <1>12

(***************************************************************************)
(* The theorems.                                                            *)
(***************************************************************************)

\* The first batch of any plan: nothing is written, nothing audited.
LEMMA InitKeepsInv ==
    ASSUME Init
    PROVE  BundleInv
<1>1. TypeOK
  <2>1. size \in Nat /\ size > 0 /\ BatchSize \in Nat \ {0}
    BY SizesAssumption DEF Init
  <2>2. first \in Arts /\ Batch \subseteq Arts /\ 1 \in 1..Attempts
    BY <2>1 DEF Init, Arts, Batch, Attempts
  <2>3. out \in [Arts -> Metas]
    BY MetaFacts DEF Init
  <2>4. flaws \in [named : SUBSET Arts, keys : BOOLEAN]
    BY DEF Init, Clean
  <2>5. body \in [Arts -> Checked \cup {"none"}]
    BY DEF Init
  <2>. QED  BY <2>1, <2>2, <2>3, <2>4, <2>5 DEF Init, TypeOK, Metas
<1>2. NothingAhead /\ HandFits /\ AuditIsDue /\ FlawsAreTold
  BY DEF Init, NothingAhead, HandFits, AuditIsDue, FlawsAreTold
<1>3. AuditStands
  BY DEF Init, AuditStands, Audited
<1>4. /\ BatchesAreUnaudited /\ RecordedAuditIsReal
      /\ FaultedTextIsReplaced /\ FastPathWasPassed
  BY MetaFacts
     DEF Init, BatchesAreUnaudited, RecordedAuditIsReal, FaultedTextIsReplaced, FastPathWasPassed
<1>. QED  BY <1>1, <1>2, <1>3, <1>4 DEF BundleInv

\* Every step keeps the invariant.
LEMMA StepKeepsInv ==
    ASSUME BundleInv, [Next]_vars
    PROVE  BundleInv'
<1>1. CASE UNCHANGED vars
  <2>1. /\ UNCHANGED pack /\ UNCHANGED <<circuit, phase, first, attempt, repair, body>>
        /\ UNCHANGED <<flaws, audit, out, cleared, calls>> /\ size' = size /\ owned' = owned
        /\ safe' = safe
    BY <1>1 DEF vars, pack
  <2>2. /\ Arts' = Arts /\ Deferred' = Deferred /\ Batch' = Batch /\ Attempts' = Attempts
        /\ Audited' = Audited /\ FastPath' = FastPath
    BY <2>1 DEF Arts, Deferred, Batch, Attempts, Audited, FastPath
  <2>. QED
    BY <2>1, <2>2
       DEF BundleInv, TypeOK, NothingAhead, HandFits, AuditIsDue, FlawsAreTold, AuditStands,
           BatchesAreUnaudited, RecordedAuditIsReal, FaultedTextIsReplaced, FastPathWasPassed
<1>. QED
  BY <1>1, WriteLocallyStep, OutageStep, WrongKeysStep, WriteStep, AuditStep, AuditRestStep,
     CloseStep, GiveUpStep, AuditPackStep DEF Next

\* The invariant holds of every reachable state.
THEOREM SpecKeepsInv == Spec => []BundleInv
BY InitKeepsInv, StepKeepsInv, PTL DEF Spec

\* Type correctness.
THEOREM TypeCorrect == Spec => []TypeOK
<1>1. BundleInv => TypeOK
  BY DEF BundleInv
<1>. QED  BY <1>1, SpecKeepsInv, PTL

\* A live text recorded as audited was read by an audit, in its last wording,
\* that found nothing in it, whatever was rewritten around it and however the
\* pack was cut into batches (102B, enrich_school_plan).
THEOREM AuditsAreReal == Spec => []RecordedAuditIsReal
<1>1. BundleInv => RecordedAuditIsReal
  BY DEF BundleInv
<1>. QED  BY <1>1, SpecKeepsInv, PTL

\* A live text the deterministic checks fault is in no plan.
THEOREM FaultsAreReplaced == Spec => []FaultedTextIsReplaced
<1>1. BundleInv => FaultedTextIsReplaced
  BY DEF BundleInv
<1>. QED  BY <1>1, SpecKeepsInv, PTL

\* The fast path takes only a pack that one audit passed as a whole
\* (runtime.py:166).
THEOREM FastPathIsEarned == Spec => []FastPathWasPassed
<1>1. BundleInv => FastPathWasPassed
  BY DEF BundleInv
<1>. QED  BY <1>1, SpecKeepsInv, PTL

\* After an outage the provider is not asked again in the task.
THEOREM OutageEndsTheAsking == Spec => NoCallAfterOutage
<1>1. BundleInv /\ [Next]_vars => [circuit => calls' = calls]_vars
  <2>. SUFFICES ASSUME BundleInv, Next, circuit
                PROVE  calls' = calls
    OBVIOUS
  <2>1. ~(Outage \/ WrongKeys \/ Write \/ AuditPack)
    BY DEF Outage, WrongKeys, Write, AuditPack, AuditsPack
  <2>2. ~Audit
    BY DEF Audit, BundleInv, AuditIsDue
  <2>3. ~AuditRest
    BY DEF AuditRest, AuditsRest, AuditsAgain
  <2>4. CASE WriteLocally \/ Close \/ GiveUp \/ UNCHANGED vars
    BY <2>4 DEF WriteLocally, Close, GiveUp, vars
  <2>. QED  BY <2>1, <2>2, <2>3, <2>4 DEF Next
<1>. QED  BY <1>1, SpecKeepsInv, PTL DEF Spec, NoCallAfterOutage

(***************************************************************************)
(* How often the provider is asked.                                        *)
(***************************************************************************)

\* How often the provider was asked when the k-th batch after the first is in hand.
\* Of a pack written in batches, each attempt is one call and the whole is audited
\* once; of a pack of one batch, each attempt is a call and at most one audit.
CallsAt(k) ==
    /\ first = k * BatchSize + 1
    /\ Deferred =>
         /\ phase = "write" => calls < k * Attempts + attempt
         /\ phase = "close" => calls <= k * Attempts + attempt
         /\ phase = "pack"  => calls <= (k + 1) * Attempts
         /\ phase = "done"  => calls <= (k + 1) * Attempts + 1
    /\ ~Deferred =>
         /\ phase = "write" => calls + 2 <= 2 * attempt
         /\ phase = "audit" => calls < 2 * attempt
         /\ phase = "close" => calls <= 2 * attempt /\ (AuditsRest => calls < 2 * attempt)
         /\ phase = "done"  => calls <= 2 * Attempts
CallsCounted == \E k \in Nat : CallsAt(k)

\* One more factor is one more summand, products keep the order, and a quotient is
\* the last multiple below: what the count needs of products of two unknowns.
LEMMA OneMoreBatch ==
    ASSUME NEW k \in Nat, NEW b \in Nat
    PROVE  k * b \in Nat /\ (k + 1) * b = k * b + b
OBVIOUS

LEMMA ProductsGrow ==
    ASSUME NEW d \in Nat, NEW e \in Nat, NEW b \in Nat, d <= e
    PROVE  d * b <= e * b
OBVIOUS

LEMMA QuotientFacts ==
    ASSUME NEW n \in Nat, NEW b \in Nat \ {0}
    PROVE  /\ n \div b \in Nat
           /\ n < (n \div b) * b + b
OBVIOUS

\* What the steps need of the numbers.
LEMMA CountFacts ==
    ASSUME TypeOK
    PROVE  /\ Attempts \in Nat /\ attempt \in Nat /\ calls \in Nat
           /\ 1 <= attempt /\ attempt <= Attempts
<1>1. Attempts \in Nat /\ attempt \in 1..Attempts /\ calls \in Nat
  BY DEF TypeOK, Attempts
<1>. QED  BY <1>1

\* The products the count is made of.
LEMMA CountedProducts ==
    ASSUME NEW k \in Nat
    PROVE  /\ k * Attempts \in Nat /\ (k + 1) * Attempts = k * Attempts + Attempts
           /\ k * BatchSize \in Nat /\ (k + 1) * BatchSize = k * BatchSize + BatchSize
<1>1. Attempts \in Nat /\ BatchSize \in Nat
  BY SizesAssumption DEF Attempts
<1>. QED  BY <1>1, OneMoreBatch

\* A batch that is done within its attempts leaves the count right.
LEMMA ProceedCounts ==
    ASSUME BundleInv, NEW k \in Nat, first = k * BatchSize + 1,
           Proceed, UNCHANGED pack, calls' \in Nat,
           Deferred => calls' <= k * Attempts + attempt,
           ~Deferred => calls' <= 2 * attempt
    PROVE  CallsCounted'
<1>. USE DEF BundleInv
<1>1. /\ size' = size /\ Deferred' = Deferred /\ Attempts' = Attempts
  BY DEF pack, Deferred, Attempts
<1>2. CASE first + BatchSize <= size
  <2>1. phase' = "write" /\ first' = first + BatchSize /\ attempt' = 1
    BY <1>2 DEF Proceed, StartBatch
  <2>2. Deferred
    BY <1>2, SizeFacts DEF Deferred
  <2>3. first' = (k + 1) * BatchSize + 1
    BY <2>1, CountedProducts, SizeFacts
  <2>4. calls' < (k + 1) * Attempts + attempt'
    <3>1. PICK n \in Nat : n = k * Attempts /\ (k + 1) * Attempts = n + Attempts
      BY CountedProducts
    <3>. QED  BY <2>1, <2>2, <3>1, CountFacts
  <2>5. CallsAt(k + 1)'
    BY <1>1, <2>1, <2>2, <2>3, <2>4 DEF CallsAt
  <2>. QED  BY <2>5 DEF CallsCounted
<1>3. CASE ~(first + BatchSize <= size)
  <2>1. phase' = (IF Deferred THEN "pack" ELSE "done")
        /\ first' = first /\ attempt' = attempt
    BY <1>3 DEF Proceed, hand
  <2>2. Deferred => calls' <= (k + 1) * Attempts
    <3>1. PICK n \in Nat : n = k * Attempts /\ (k + 1) * Attempts = n + Attempts
      BY CountedProducts
    <3>. QED  BY <3>1, CountFacts
  <2>3. ~Deferred => calls' <= 2 * Attempts
    BY CountFacts
  <2>4. CallsAt(k)'
    BY <1>1, <2>1, <2>2, <2>3 DEF CallsAt
  <2>. QED  BY <2>4 DEF CallsCounted
<1>. QED  BY <1>2, <1>3

\* An attempt with findings costs one call, and the audit of it another.
LEMMA RetryCounts ==
    ASSUME BundleInv, NEW k \in Nat, CallsAt(k),
           NEW f, NEW r, NEW last, Retry(f, r, last),
           UNCHANGED <<pack, first>>, calls' = calls + 1,
           \/ phase = "write"
           \/ phase = "audit" /\ ~Deferred /\ Audited'
    PROVE  CallsCounted'
<1>. USE DEF BundleInv
<1>1. Deferred' = Deferred /\ Attempts' = Attempts /\ first' = first
  BY DEF pack, Deferred, Attempts
<1>2. \/ phase' = "close" /\ attempt' = attempt
      \/ phase' = "write" /\ attempt' = attempt + 1
  BY DEF Retry
<1>3. PICK n \in Nat : n = k * Attempts
  BY CountedProducts
<1>4. CASE phase = "write"
  <2>1. /\ Deferred => calls < n + attempt
        /\ ~Deferred => calls + 2 <= 2 * attempt
    BY <1>3, <1>4 DEF CallsAt
  <2>2. Deferred => /\ phase' = "write" => calls' < n + attempt'
                    /\ phase' = "close" => calls' <= n + attempt'
    BY <1>2, <2>1, CountFacts
  <2>3. ~Deferred => /\ phase' = "write" => calls' + 2 <= 2 * attempt'
                     /\ phase' = "close" => calls' < 2 * attempt' /\ calls' <= 2 * attempt'
    BY <1>2, <2>1, CountFacts
  <2>4. CallsAt(k)'
    BY <1>1, <1>2, <1>3, <2>2, <2>3 DEF CallsAt
  <2>. QED  BY <2>4 DEF CallsCounted
<1>5. CASE phase = "audit" /\ ~Deferred /\ Audited'
  <2>1. calls < 2 * attempt
    BY <1>5 DEF CallsAt
  <2>2. /\ phase' = "write" => calls' + 2 <= 2 * attempt'
        /\ phase' = "close" => calls' <= 2 * attempt'
    BY <1>2, <2>1, CountFacts
  <2>3. ~AuditsRest'
    BY <1>5 DEF AuditsRest
  <2>4. CallsAt(k)'
    BY <1>1, <1>2, <1>5, <2>2, <2>3 DEF CallsAt
  <2>. QED  BY <2>4 DEF CallsCounted
<1>. QED  BY <1>4, <1>5

\* Every step keeps the count.
LEMMA CountStays ==
    ASSUME BundleInv, CallsCounted, [Next]_vars
    PROVE  CallsCounted'
<1>. USE DEF BundleInv
<1>1. PICK k \in Nat : CallsAt(k)
  BY DEF CallsCounted
<1>2. PICK n \in Nat : n = k * Attempts /\ (k + 1) * Attempts = n + Attempts
  BY CountedProducts
<1>3. first = k * BatchSize + 1
  BY <1>1 DEF CallsAt
<1>4. phase = "write" => /\ Deferred => calls < k * Attempts + attempt
                         /\ ~Deferred => calls + 2 <= 2 * attempt
  BY <1>1 DEF CallsAt
<1>5. CASE WriteLocally
  <2>1. phase = "write" /\ Proceed /\ UNCHANGED pack /\ calls' = calls
    BY <1>5 DEF WriteLocally
  <2>2. /\ calls' \in Nat
        /\ Deferred => calls' <= k * Attempts + attempt
        /\ ~Deferred => calls' <= 2 * attempt
    BY <1>2, <1>4, <2>1, CountFacts
  <2>. QED  BY <1>3, <2>1, <2>2, ProceedCounts
<1>6. CASE Outage
  <2>1. /\ phase = "write" /\ phase' = "close" /\ calls' = calls + 1
        /\ UNCHANGED <<pack, hand>>
    BY <1>6 DEF Outage
  <2>2. Deferred' = Deferred /\ Attempts' = Attempts /\ first' = first /\ attempt' = attempt
    BY <2>1 DEF pack, hand, Deferred, Attempts
  <2>3. /\ Deferred => calls' <= n + attempt
        /\ ~Deferred => calls' < 2 * attempt /\ calls' <= 2 * attempt
    BY <1>2, <1>4, <2>1, CountFacts
  <2>4. CallsAt(k)'
    BY <1>2, <1>3, <2>1, <2>2, <2>3 DEF CallsAt
  <2>. QED  BY <2>4 DEF CallsCounted
<1>7. CASE WrongKeys
  <2>1. /\ phase = "write" /\ calls' = calls + 1 /\ UNCHANGED <<pack, first>>
        /\ Retry(flaws', audit', FALSE)
    BY <1>7 DEF WrongKeys
  <2>. QED  BY <1>1, <2>1, RetryCounts
<1>8. CASE Write
  <2>1. phase = "write" /\ calls' = calls + 1 /\ UNCHANGED pack
    BY <1>8 DEF Write
  <2>2. /\ calls' \in Nat
        /\ Deferred => calls' <= k * Attempts + attempt
        /\ ~Deferred => calls' < 2 * attempt
    BY <1>2, <1>4, <2>1, CountFacts
  <2>3. CASE flaws'.named = {} /\ Deferred
    <3>1. Proceed
      BY <1>8, <2>3 DEF Write
    <3>. QED  BY <1>3, <2>1, <2>2, <2>3, <3>1, ProceedCounts
  <2>4. CASE flaws'.named = {} /\ ~Deferred
    <3>1. phase' = "audit" /\ UNCHANGED hand
      BY <1>8, <2>4 DEF Write
    <3>2. Deferred' = Deferred /\ first' = first /\ attempt' = attempt
      BY <2>1, <3>1 DEF pack, hand, Deferred
    <3>3. CallsAt(k)'
      BY <1>3, <2>2, <2>4, <3>1, <3>2 DEF CallsAt
    <3>. QED  BY <3>3 DEF CallsCounted
  <2>5. CASE flaws'.named # {}
    <3>1. Retry(flaws', audit', \E a \in Batch : body'[a] = "hard") /\ UNCHANGED first
      BY <1>8, <2>5 DEF Write
    <3>. QED  BY <1>1, <2>1, <3>1, RetryCounts
  <2>. QED  BY <2>3, <2>4, <2>5
<1>9. CASE Audit
  <2>1. PICK r \in AuditOf(Batch) :
            /\ Asked(r)
            /\ IF Passed(r) THEN Proceed
               ELSE /\ Retry(Clean, r, r.out \/ (r.grounded /\ r.bundle /\ r.named = {}))
                    /\ UNCHANGED first
    BY <1>9 DEF Audit
  <2>2. phase = "audit" /\ ~Deferred /\ UNCHANGED pack
    BY <1>9 DEF Audit, AuditIsDue
  <2>3. calls' = calls + 1 /\ audit' = r /\ Audited'
    BY <2>1, AuditFacts DEF Asked, Audited, NoAudit
  <2>4. calls' \in Nat /\ calls' <= 2 * attempt
    <3>1. calls < 2 * attempt
      BY <1>1, <2>2 DEF CallsAt
    <3>. QED  BY <2>3, <3>1, CountFacts
  <2>5. CASE Passed(r)
    BY <1>3, <2>1, <2>2, <2>4, <2>5, ProceedCounts
  <2>6. CASE ~Passed(r)
    BY <1>1, <2>1, <2>2, <2>3, <2>6, RetryCounts
  <2>. QED  BY <2>5, <2>6
<1>10. CASE AuditRest
  <2>1. PICK r \in AuditOf(Batch) : Asked(r)
    BY <1>10 DEF AuditRest
  <2>2. phase = "close" /\ AuditsRest /\ UNCHANGED <<pack, phase, hand>>
    BY <1>10 DEF AuditRest
  <2>3. calls' = calls + 1 /\ audit' = r /\ Audited'
    BY <2>1, AuditFacts DEF Asked, Audited, NoAudit
  <2>4. ~Deferred /\ ~AuditsRest'
    BY <2>2, <2>3 DEF AuditsRest, AuditsAgain
  <2>5. calls' <= 2 * attempt
    <3>1. calls < 2 * attempt
      BY <1>1, <2>2, <2>4 DEF CallsAt
    <3>. QED  BY <2>3, <3>1, CountFacts
  <2>6. Deferred' = Deferred /\ first' = first /\ attempt' = attempt
    BY <2>2 DEF pack, hand, Deferred
  <2>7. CallsAt(k)'
    BY <1>3, <2>2, <2>4, <2>5, <2>6 DEF CallsAt
  <2>. QED  BY <2>7 DEF CallsCounted
<1>11. CASE Close
  <2>1. phase = "close" /\ Proceed /\ UNCHANGED pack /\ calls' = calls
    BY <1>11 DEF Close
  <2>2. /\ calls' \in Nat
        /\ Deferred => calls' <= k * Attempts + attempt
        /\ ~Deferred => calls' <= 2 * attempt
    BY <1>1, <2>1, CountFacts DEF CallsAt
  <2>. QED  BY <1>3, <2>1, <2>2, ProceedCounts
<1>12. CASE GiveUp \/ AuditPack
  <2>1. phase = "pack" /\ phase' = "done" /\ UNCHANGED <<pack, hand>>
        /\ (calls' = calls \/ calls' = calls + 1)
    BY <1>12 DEF GiveUp, AuditPack
  <2>2. Deferred /\ Deferred' = Deferred /\ Attempts' = Attempts /\ first' = first
    BY <2>1 DEF pack, hand, Deferred, Attempts, HandFits
  <2>3. calls' <= (k + 1) * Attempts + 1
    <3>1. calls <= n + Attempts
      BY <1>1, <1>2, <2>1, <2>2 DEF CallsAt
    <3>. QED  BY <1>2, <2>1, <3>1, CountFacts
  <2>4. CallsAt(k)'
    BY <1>3, <2>1, <2>2, <2>3 DEF CallsAt
  <2>. QED  BY <2>4 DEF CallsCounted
<1>13. CASE UNCHANGED vars
  <2>1. CallsAt(k)'
    BY <1>1, <1>13 DEF CallsAt, vars, hand, pack, Deferred, Attempts, AuditsRest, AuditsAgain,
                      Audited, Batch, Arts
  <2>. QED  BY <2>1 DEF CallsCounted
<1>. QED  BY <1>5, <1>6, <1>7, <1>8, <1>9, <1>10, <1>11, <1>12, <1>13 DEF Next

\* The batch in hand is one of the pack's batches, so the count gives the bound.
LEMMA CountBounds ==
    ASSUME BundleInv, CallsCounted
    PROVE  CallsAreBounded
<1>. USE DEF BundleInv
<1>1. PICK k \in Nat : CallsAt(k)
  BY DEF CallsCounted
<1>2. PICK n \in Nat : n = k * Attempts /\ (k + 1) * Attempts = n + Attempts
  BY CountedProducts
<1>3. CASE ~Deferred
  <2>1. phase # "pack"
    BY <1>3 DEF HandFits
  <2>2. calls <= 2 * attempt \/ calls <= 2 * Attempts
    BY <1>1, <1>3, <2>1, CountFacts DEF CallsAt, TypeOK
  <2>3. calls <= 2 * Attempts
    BY <2>2, CountFacts
  <2>. QED  BY <1>3, <2>3 DEF CallsAreBounded
<1>4. CASE Deferred
  <2>1. calls <= (k + 1) * Attempts + 1
    <3>1. phase # "audit"
      BY <1>4 DEF AuditIsDue
    <3>2. calls <= n + attempt \/ calls <= n + Attempts + 1
      BY <1>1, <1>2, <1>4, <3>1, CountFacts DEF CallsAt, TypeOK
    <3>. QED  BY <1>2, <3>2, CountFacts
  <2>2. k + 1 <= Batches
    <3>. DEFINE m == size + BatchSize - 1
    <3>1. m \in Nat /\ BatchSize \in Nat \ {0}
      BY SizeFacts
    <3>2. Batches \in Nat /\ m < Batches * BatchSize + BatchSize
      BY <3>1, QuotientFacts DEF Batches
    <3>3. (k + 1) * BatchSize <= m
      <4>1. k * BatchSize + 1 <= size
        BY <1>1, SizeFacts DEF CallsAt
      <4>. QED  BY <4>1, CountedProducts, SizeFacts
    <3>. HIDE DEF m
    <3>. SUFFICES ASSUME Batches + 1 <= k + 1
                  PROVE  FALSE
      BY <3>2
    <3>4. (Batches + 1) * BatchSize <= (k + 1) * BatchSize
      BY <3>1, <3>2, ProductsGrow
    <3>5. (Batches + 1) * BatchSize = Batches * BatchSize + BatchSize
      BY <3>2, CountedProducts
    <3>6. Batches * BatchSize \in Nat
      BY <3>2, CountedProducts
    <3>7. (k + 1) * BatchSize \in Nat
      BY <3>1, OneMoreBatch
    <3>. QED  BY <3>1, <3>2, <3>3, <3>4, <3>5, <3>6, <3>7
  <2>3. (k + 1) * Attempts <= Batches * Attempts /\ Batches * Attempts \in Nat
    <3>1. Batches \in Nat
      BY SizeFacts, QuotientFacts DEF Batches
    <3>2. Attempts \in Nat /\ k + 1 \in Nat
      BY CountFacts
    <3>3. (k + 1) * Attempts <= Batches * Attempts
      BY <2>2, <3>1, <3>2, ProductsGrow
    <3>4. Batches * Attempts \in Nat
      BY <3>1, <3>2, OneMoreBatch
    <3>. QED  BY <3>3, <3>4
  <2>4. calls <= Batches * Attempts + 1
    BY <1>2, <2>1, <2>3, CountFacts
  <2>. QED  BY <1>4, <2>4 DEF CallsAreBounded
<1>. QED  BY <1>3, <1>4

\* The provider is asked a bounded number of times for a pack, however its answers
\* fail: two calls for each attempt of a pack of one batch, one for each attempt of
\* each batch and one audit of the whole for a larger one.
THEOREM CallsStayBounded == Spec => []CallsAreBounded
<1>1. Init => CallsCounted
  <2>. SUFFICES ASSUME Init
                PROVE  CallsCounted
    OBVIOUS
  <2>1. phase = "write" /\ first = 1 /\ attempt = 1 /\ calls = 0
    BY DEF Init
  <2>2. 0 * BatchSize = 0 /\ 0 * Attempts = 0
    BY SizesAssumption DEF Attempts
  <2>3. CallsAt(0)
    BY <2>1, <2>2 DEF CallsAt
  <2>. QED  BY <2>3 DEF CallsCounted
<1>. QED  BY <1>1, SpecKeepsInv, CountStays, CountBounds, PTL DEF Spec

-----------------------------------------------------------------------------
(* The conversation.                                                       *)

\* What holds at 0 and passes from each number to the next holds up to n.
LEMMA Upward ==
  ASSUME NEW n \in Nat, NEW P, 0 \in P, \A i \in 1..n : i - 1 \in P => i \in P
  PROVE  \A i \in 0..n : i \in P
<1> DEFINE Bad == {i \in 0..n : i \notin P}
<1> SUFFICES ASSUME Bad # {} PROVE FALSE OBVIOUS
<1>1. PICK b \in Bad : \A k \in Bad : ~(<<k, b>> \in OpToRel(<, Nat))
  <2>1. Bad \subseteq Nat OBVIOUS
  <2> QED BY <2>1, NatLessThanWellFounded, WFMin
<1>2. b \in 1..n /\ b - 1 \in 0..n /\ b - 1 < b OBVIOUS
<1>3. b - 1 \notin Bad
  <2>1. b - 1 \in Nat /\ b \in Nat BY <1>2
  <2> QED BY <1>1, <1>2, <2>1 DEF OpToRel
<1> QED BY <1>2, <1>3

\* A function that starts at base and makes each value from the one before.
Stepwise(f, n, S, base, step) ==
  /\ f \in [0..n -> S] /\ f[0] = base
  /\ \A i \in 1..n : f[i] = step[i][f[i - 1]]

\* A function each of whose values is made from the one before exists.
LEMMA FoldExists ==
  ASSUME NEW n \in Nat, NEW S, NEW base \in S, NEW step \in [1..n -> [S -> S]]
  PROVE  \E f : Stepwise(f, n, S, base, step)
<1> DEFINE Is(k, f) == f[0] = base /\ \A i \in 1..k : f[i] = step[i][f[i - 1]]
           P == {k \in 0..n : \E f \in [0..k -> S] : Is(k, f)}
<1>1. 0 \in P
  <2> DEFINE g == [i \in 0..0 |-> base]
  <2>1. g \in [0..0 -> S] /\ g[0] = base OBVIOUS
  <2>2. 0 \in 0..n /\ \A i \in 1..0 : FALSE OBVIOUS
  <2> HIDE DEF g
  <2> QED BY <2>1, <2>2
<1>2. ASSUME NEW k \in 1..n, k - 1 \in P PROVE k \in P
  <2>1. PICK f \in [0..(k - 1) -> S] : Is(k - 1, f) BY <1>2
  <2> DEFINE g == [i \in 0..k |-> IF i < k THEN f[i] ELSE step[k][f[k - 1]]]
  <2>2. g \in [0..k -> S]
    <3>1. step[k] \in [S -> S] /\ f[k - 1] \in S OBVIOUS
    <3> QED BY <3>1
  <2>3. g[0] = base BY <2>1
  <2>4. ASSUME NEW i \in 1..k PROVE g[i] = step[i][g[i - 1]]
    <3>1. CASE i < k
      <4>1. i \in 1..(k - 1) /\ i \in 0..k /\ i - 1 \in 0..k /\ i - 1 < k BY <3>1
      <4>2. g[i] = f[i] /\ g[i - 1] = f[i - 1] BY <3>1, <4>1
      <4>3. f[i] = step[i][f[i - 1]] BY <2>1, <4>1
      <4> HIDE DEF g
      <4> QED BY <4>2, <4>3
    <3>2. CASE i = k
      <4>1. k \in 0..k /\ k - 1 \in 0..k /\ k - 1 < k OBVIOUS
      <4>2. g[k] = step[k][f[k - 1]] /\ g[k - 1] = f[k - 1] BY <4>1
      <4> HIDE DEF g
      <4> QED BY <3>2, <4>2
    <3> QED BY <3>1, <3>2
  <2> HIDE DEF g
  <2>5. k \in 0..n OBVIOUS
  <2>6. Is(k, g) BY <2>3, <2>4
  <2> QED BY <2>2, <2>5, <2>6
<1>3. n \in P
  <2>1. \A k \in 1..n : k - 1 \in P => k \in P BY <1>2
  <2>2. n \in 0..n OBVIOUS
  <2> HIDE DEF P
  <2>3. \A i \in 0..n : i \in P BY <1>1, <2>1, Upward
  <2> QED BY <2>2, <2>3
<1> QED BY <1>3 DEF Stepwise

\* A filter, unfolded into its steps.
LEMMA FilteredSteps ==
  ASSUME NEW T, NEW seq \in Seq(T), NEW keep
  PROVE  \E c \in [0..Len(seq) -> Seq(T)] :
           /\ c[0] = <<>>
           /\ \A i \in 1..Len(seq) :
                c[i] = IF seq[i] \in keep THEN Append(c[i - 1], seq[i]) ELSE c[i - 1]
           /\ Filtered(seq, keep) = c[Len(seq)]
<1>1. PICK n \in Nat : n = Len(seq) OBVIOUS
<1>2. \A i \in 1..n : seq[i] \in T BY <1>1
<1> DEFINE Add(i, q) == IF seq[i] \in keep THEN Append(q, seq[i]) ELSE q
           Is(f) == f = [i \in 0..n |-> IF i = 0 THEN <<>> ELSE Add(i, f[i - 1])]
<1>3. \A i \in 1..n, q \in Seq(T) : Add(i, q) \in Seq(T) BY <1>2
<1>4. Filtered(seq, keep) = (CHOOSE f : Is(f))[n] BY <1>1 DEF Filtered
<1> HIDE DEF Add
<1>5. PICK step : step = [i \in 1..n |-> [q \in Seq(T) |-> Add(i, q)]] OBVIOUS
<1>6. step \in [1..n -> [Seq(T) -> Seq(T)]] BY <1>3, <1>5
<1>7. PICK f \in [0..n -> Seq(T)] :
        f[0] = <<>> /\ \A i \in 1..n : f[i] = step[i][f[i - 1]]
  <2>1. <<>> \in Seq(T) OBVIOUS
  <2>2. \E f : Stepwise(f, n, Seq(T), <<>>, step) BY <1>6, <2>1, FoldExists
  <2> QED BY <2>2 DEF Stepwise
<1>8. ASSUME NEW i \in 1..n PROVE f[i] = Add(i, f[i - 1])
  <2>1. f[i - 1] \in Seq(T) BY <1>7
  <2> QED BY <1>5, <1>7, <2>1
<1>9. Is(f)
  <2>1. f = [i \in 0..n |-> f[i]] BY <1>7
  <2>2. \A i \in 0..n : f[i] = IF i = 0 THEN <<>> ELSE Add(i, f[i - 1]) BY <1>7, <1>8
  <2> QED BY <2>1, <2>2
<1>10. PICK c : c = (CHOOSE g : Is(g)) OBVIOUS
<1>11. Is(c) BY <1>9, <1>10
<1>12. c[0] = <<>> /\ \A i \in 1..n : c[i] = Add(i, c[i - 1])
  BY <1>11
<1>13. \A i \in 0..n : c[i] \in Seq(T)
  <2>1. PICK P : P = {i \in 0..n : c[i] \in Seq(T)} OBVIOUS
  <2>2. 0 \in P
    <3>1. c[0] \in Seq(T) BY <1>12
    <3> QED BY <1>1, <2>1, <3>1
  <2>3. \A i \in 1..n : i - 1 \in P => i \in P BY <1>3, <1>12, <2>1
  <2>4. \A i \in 0..n : i \in P BY <2>2, <2>3, Upward
  <2> QED BY <2>1, <2>4
<1>14. c \in [0..n -> Seq(T)] BY <1>11, <1>13
<1>15. Filtered(seq, keep) = c[n] BY <1>4, <1>10
<1>16. \A i \in 1..n : c[i] = IF seq[i] \in keep THEN Append(c[i - 1], seq[i]) ELSE c[i - 1]
  BY <1>12 DEF Add
<1> QED BY <1>1, <1>12, <1>14, <1>15, <1>16

\* What a filter keeps is in the set it keeps, and is not longer than before.
LEMMA FilteredKeeps ==
  ASSUME NEW T, NEW seq \in Seq(T), NEW keep
  PROVE  /\ Filtered(seq, keep) \in Seq(T)
         /\ Len(Filtered(seq, keep)) <= Len(seq)
         /\ \A i \in DOMAIN Filtered(seq, keep) : Filtered(seq, keep)[i] \in keep
<1>1. PICK n \in Nat : n = Len(seq) OBVIOUS
<1>2. PICK c \in [0..n -> Seq(T)] :
        /\ c[0] = <<>>
        /\ \A i \in 1..n : c[i] = IF seq[i] \in keep THEN Append(c[i - 1], seq[i]) ELSE c[i - 1]
        /\ Filtered(seq, keep) = c[n]
  <2>1. \E c \in [0..Len(seq) -> Seq(T)] :
          /\ c[0] = <<>>
          /\ \A i \in 1..Len(seq) :
               c[i] = IF seq[i] \in keep THEN Append(c[i - 1], seq[i]) ELSE c[i - 1]
          /\ Filtered(seq, keep) = c[Len(seq)]
    BY FilteredSteps
  <2> QED BY <1>1, <2>1
<1> DEFINE Good(q, i) == Len(q) <= i /\ \A j \in 1..Len(q) : q[j] \in keep
<1>3. PICK P : P = {i \in 0..n : Good(c[i], i)} OBVIOUS
<1>4. Good(c[0], 0) BY <1>2
<1>5. ASSUME NEW i \in 1..n, i - 1 \in P PROVE i \in P
  <2>1. PICK q \in Seq(T) : q = c[i - 1] BY <1>1, <1>2
  <2>2. Good(q, i - 1) BY <1>1, <1>3, <1>5, <2>1
  <2>3. c[i] = IF seq[i] \in keep THEN Append(q, seq[i]) ELSE q BY <1>2, <2>1
  <2>4. seq[i] \in T BY <1>1
  <2>5. Good(c[i], i)
    <3>1. CASE seq[i] \notin keep BY <1>1, <2>1, <2>2, <2>3, <3>1
    <3>2. CASE seq[i] \in keep
      <4>1. c[i] = Append(q, seq[i]) BY <2>3, <3>2
      <4>2. /\ Len(c[i]) = Len(q) + 1 /\ c[i][Len(q) + 1] = seq[i]
            /\ \A j \in 1..Len(q) : c[i][j] = q[j]
        BY <2>1, <2>4, <4>1
      <4> QED BY <1>1, <2>1, <2>2, <3>2, <4>2
    <3> QED BY <3>1, <3>2
  <2> HIDE DEF Good
  <2> QED BY <1>1, <1>3, <2>5
<1>6. n \in P
  <2>1. \A i \in 1..n : i - 1 \in P => i \in P BY <1>5
  <2>2. 0 \in P
    <3> HIDE DEF Good
    <3> QED BY <1>1, <1>3, <1>4
  <2>3. \A i \in 0..n : i \in P BY <1>1, <2>1, <2>2, Upward
  <2> QED BY <1>1, <2>3
<1>7. Good(c[n], n)
  <2> HIDE DEF Good
  <2> QED BY <1>3, <1>6
<1>8. c[n] \in Seq(T) /\ DOMAIN c[n] = 1..Len(c[n]) BY <1>1, <1>2
<1> QED BY <1>1, <1>2, <1>7, <1>8

\* A fact as a situation holds it.
FactRecords == [id : STRING, value : STRING, status : FactStatuses, by : Nat]

\* What the compiler reads from a message: the facts its words support, which
\* name no task yet.
LEMMA GroundedFactsAreSaid ==
  ASSUME NEW m \in Messages
  PROVE  /\ GroundedFacts(m) \in Seq(FactRecords)
         /\ Len(GroundedFacts(m)) <= MaxFacts
         /\ \A i \in DOMAIN GroundedFacts(m) :
              /\ GroundedFacts(m)[i].value \in m.says
              /\ GroundedFacts(m)[i].by = 0
<1> DEFINE T == [id : STRING, value : STRING, status : FactStatuses, by : {0}]
<1>2. m.facts \in Seq(T) /\ Len(m.facts) <= MaxFacts BY MessagesAssumption
<1>3. PICK keep : keep = {f \in Range(m.facts) : f.value \in m.says} OBVIOUS
<1>4. PICK q : q = Filtered(m.facts, keep) OBVIOUS
<1>5. q \in Seq(T) /\ Len(q) <= Len(m.facts) /\ \A i \in DOMAIN q : q[i] \in keep
  <2> HIDE DEF T
  <2> QED BY <1>2, <1>4, FilteredKeeps
<1>6. GroundedFacts(m) = [i \in DOMAIN q |->
        [q[i] EXCEPT !.status = IF @ = "confirmed" THEN "reported" ELSE @]]
  BY <1>3, <1>4 DEF GroundedFacts
<1>7. PICK n \in Nat : n = Len(q) /\ DOMAIN q = 1..n BY <1>5
<1>8. \A i \in 1..n : q[i] \in T /\ q[i].value \in m.says
  <2> HIDE DEF T
  <2> QED BY <1>3, <1>5, <1>7
<1>9. PICK r : r = GroundedFacts(m) OBVIOUS
<1>10. \A i \in 1..n : /\ r[i] \in FactRecords
                       /\ r[i].value = q[i].value /\ r[i].by = 0
  <2> TAKE i \in 1..n
  <2>1. PICK f, st : f = q[i] /\ st = IF f.status = "confirmed" THEN "reported" ELSE f.status
    OBVIOUS
  <2>2. r[i] = [f EXCEPT !.status = st] BY <1>6, <1>7, <1>9, <2>1
  <2>3. f \in T
    <3> HIDE DEF T
    <3> QED BY <1>8, <2>1
  <2>4. st \in FactStatuses BY <2>1, <2>3 DEF FactStatuses
  <2> QED BY <2>1, <2>2, <2>3, <2>4 DEF FactRecords
<1>11. r \in [1..n -> FactRecords] BY <1>6, <1>7, <1>9, <1>10
<1>12. r \in Seq(FactRecords) /\ Len(r) = n /\ DOMAIN r = 1..n BY <1>7, <1>11
<1>13. n <= MaxFacts BY <1>2, <1>5, <1>7, LimitsAssumption
<1> QED BY <1>8, <1>9, <1>10, <1>12, <1>13

\* Keeping the first of the facts that share a name or a value, in steps.
LEMMA KeepAllSteps ==
  ASSUME NEW parent \in Seq(FactRecords)
  PROVE  \E c \in [0..Len(parent) -> Seq(FactRecords)] :
           /\ c[0] = <<>>
           /\ \A i \in 1..Len(parent) : c[i] = KeepFirst(c[i - 1], parent[i])
           /\ KeepAll(parent) = c[Len(parent)]
<1>1. PICK n \in Nat : n = Len(parent) OBVIOUS
<1>2. \A i \in 1..n : parent[i] \in FactRecords BY <1>1
<1> DEFINE Is(f) == f = [i \in 0..n |-> IF i = 0 THEN <<>> ELSE KeepFirst(f[i - 1], parent[i])]
<1>3. \A i \in 1..n, q \in Seq(FactRecords) : KeepFirst(q, parent[i]) \in Seq(FactRecords)
  BY <1>2 DEF KeepFirst
<1>4. KeepAll(parent) = (CHOOSE f : Is(f))[n] BY <1>1 DEF KeepAll
<1>5. PICK step : step = [i \in 1..n |-> [q \in Seq(FactRecords) |-> KeepFirst(q, parent[i])]]
  OBVIOUS
<1>6. step \in [1..n -> [Seq(FactRecords) -> Seq(FactRecords)]] BY <1>3, <1>5
<1>7. PICK f \in [0..n -> Seq(FactRecords)] :
        f[0] = <<>> /\ \A i \in 1..n : f[i] = step[i][f[i - 1]]
  <2>1. <<>> \in Seq(FactRecords) OBVIOUS
  <2>2. \E f : Stepwise(f, n, Seq(FactRecords), <<>>, step) BY <1>6, <2>1, FoldExists
  <2> QED BY <2>2 DEF Stepwise
<1>8. ASSUME NEW i \in 1..n PROVE f[i] = KeepFirst(f[i - 1], parent[i])
  <2>1. f[i - 1] \in Seq(FactRecords) BY <1>7
  <2> QED BY <1>5, <1>7, <2>1
<1>9. Is(f)
  <2>1. f = [i \in 0..n |-> f[i]] BY <1>7
  <2>2. \A i \in 0..n : f[i] = IF i = 0 THEN <<>> ELSE KeepFirst(f[i - 1], parent[i])
    BY <1>7, <1>8
  <2> QED BY <2>1, <2>2
<1>10. PICK c : c = (CHOOSE g : Is(g)) OBVIOUS
<1>11. Is(c) BY <1>9, <1>10
<1>12. c[0] = <<>> /\ \A i \in 1..n : c[i] = KeepFirst(c[i - 1], parent[i]) BY <1>11
<1>13. \A i \in 0..n : c[i] \in Seq(FactRecords)
  <2>1. PICK P : P = {i \in 0..n : c[i] \in Seq(FactRecords)} OBVIOUS
  <2>2. 0 \in P
    <3>1. c[0] \in Seq(FactRecords) BY <1>12
    <3> QED BY <1>1, <2>1, <3>1
  <2>3. ASSUME NEW i \in 1..n, i - 1 \in P PROVE i \in P
    <3>1. c[i - 1] \in Seq(FactRecords) BY <2>1, <2>3
    <3>2. c[i] \in Seq(FactRecords) BY <1>3, <1>12, <3>1
    <3> QED BY <1>1, <2>1, <3>2
  <2>4. \A i \in 0..n : i \in P BY <1>1, <2>2, <2>3, Upward
  <2> QED BY <2>1, <2>4
<1>14. c \in [0..n -> Seq(FactRecords)] BY <1>11, <1>13
<1>15. KeepAll(parent) = c[n] BY <1>4, <1>10
<1> QED BY <1>1, <1>12, <1>14, <1>15

\* What is kept of the parent's facts: facts of the parent, no more of them, and
\* of each one the name or the value.
LEMMA KeepAllKeeps ==
  ASSUME NEW parent \in Seq(FactRecords)
  PROVE  /\ KeepAll(parent) \in Seq(FactRecords)
         /\ Len(KeepAll(parent)) <= Len(parent)
         /\ \A j \in DOMAIN KeepAll(parent) :
              \E i \in DOMAIN parent : KeepAll(parent)[j] = parent[i]
         /\ \A i \in DOMAIN parent : \E j \in DOMAIN KeepAll(parent) :
              \/ KeepAll(parent)[j].id = parent[i].id
              \/ KeepAll(parent)[j].value = parent[i].value
<1>1. PICK n \in Nat : n = Len(parent) /\ DOMAIN parent = 1..n OBVIOUS
<1>2. PICK c \in [0..n -> Seq(FactRecords)] :
        /\ c[0] = <<>>
        /\ \A i \in 1..n : c[i] = KeepFirst(c[i - 1], parent[i])
        /\ KeepAll(parent) = c[n]
  <2>1. \E c \in [0..Len(parent) -> Seq(FactRecords)] :
          /\ c[0] = <<>>
          /\ \A i \in 1..Len(parent) : c[i] = KeepFirst(c[i - 1], parent[i])
          /\ KeepAll(parent) = c[Len(parent)]
    BY KeepAllSteps
  <2> QED BY <1>1, <2>1
<1> DEFINE Good(q, i) ==
             /\ Len(q) <= i
             /\ \A j \in 1..Len(q) : \E a \in 1..i : q[j] = parent[a]
             /\ \A a \in 1..i : \E j \in 1..Len(q) :
                  q[j].id = parent[a].id \/ q[j].value = parent[a].value
<1>3. PICK P : P = {i \in 0..n : Good(c[i], i)} OBVIOUS
<1>4. Good(c[0], 0) BY <1>2
<1>5. ASSUME NEW i \in 1..n, i - 1 \in P PROVE i \in P
  <2>1. PICK q \in Seq(FactRecords) : q = c[i - 1] BY <1>1, <1>2
  <2>2. Good(q, i - 1) BY <1>1, <1>3, <1>5, <2>1
  <2>3. PICK f \in FactRecords : f = parent[i] BY <1>1
  <2>4. c[i] = IF \E j \in DOMAIN q : q[j].id = f.id \/ q[j].value = f.value
               THEN q ELSE Append(q, f)
    BY <1>2, <2>1, <2>3 DEF KeepFirst
  <2>5. DOMAIN q = 1..Len(q) /\ Len(q) \in Nat BY <2>1
  <2>6. Good(c[i], i)
    <3>1. CASE \E j \in DOMAIN q : q[j].id = f.id \/ q[j].value = f.value
      <4>1. c[i] = q BY <2>4, <3>1
      <4>2. \A a \in 1..i : a = i \/ a \in 1..(i - 1) BY <1>1
      <4>3. \A a \in 1..(i - 1) : a \in 1..i BY <1>1
      <4>4. Len(q) <= i BY <1>1, <2>2, <2>5
      <4>5. \A j \in 1..Len(q) : \E a \in 1..i : q[j] = parent[a] BY <2>2, <4>3
      <4>6. \A a \in 1..i : \E j \in 1..Len(q) :
              q[j].id = parent[a].id \/ q[j].value = parent[a].value
        BY <2>2, <2>3, <2>5, <3>1, <4>2
      <4> QED BY <4>1, <4>4, <4>5, <4>6
    <3>2. CASE ~\E j \in DOMAIN q : q[j].id = f.id \/ q[j].value = f.value
      <4>1. c[i] = Append(q, f) BY <2>4, <3>2
      <4>2. PICK k \in Nat : k = Len(q) BY <2>5
      <4>3. /\ Len(c[i]) = k + 1 /\ c[i][k + 1] = f
            /\ \A j \in 1..k : c[i][j] = q[j]
        BY <2>1, <2>3, <4>1, <4>2
      <4>4. \A a \in 1..i : a = i \/ a \in 1..(i - 1) BY <1>1
      <4>5. \A a \in 1..(i - 1) : a \in 1..i BY <1>1
      <4>6. \A j \in 1..(k + 1) : j = k + 1 \/ j \in 1..k BY <4>2
      <4>7. k + 1 \in 1..(k + 1) /\ \A j \in 1..k : j \in 1..(k + 1) BY <4>2
      <4>8. i \in 1..i /\ k <= i - 1 /\ k + 1 <= i BY <1>1, <2>2, <4>2
      <4>9. \A j \in 1..Len(c[i]) : \E a \in 1..i : c[i][j] = parent[a]
        BY <2>2, <2>3, <4>2, <4>3, <4>5, <4>6, <4>8
      <4>10. \A a \in 1..i : \E j \in 1..Len(c[i]) :
               c[i][j].id = parent[a].id \/ c[i][j].value = parent[a].value
        <5> TAKE a \in 1..i
        <5>1. CASE a = i BY <2>3, <4>3, <4>7, <5>1
        <5>2. CASE a \in 1..(i - 1)
          <6>1. PICK j \in 1..k : q[j].id = parent[a].id \/ q[j].value = parent[a].value
            BY <2>2, <4>2, <5>2
          <6> QED BY <4>3, <4>7, <6>1
        <5> QED BY <4>4, <5>1, <5>2
      <4> QED BY <4>3, <4>8, <4>9, <4>10
    <3> QED BY <3>1, <3>2
  <2> HIDE DEF Good
  <2> QED BY <1>1, <1>3, <2>6
<1>6. Good(c[n], n)
  <2>1. \A i \in 1..n : i - 1 \in P => i \in P BY <1>5
  <2> HIDE DEF Good
  <2>2. 0 \in P BY <1>1, <1>3, <1>4
  <2>3. \A i \in 0..n : i \in P BY <1>1, <2>1, <2>2, Upward
  <2>4. n \in P BY <1>1, <2>3
  <2> QED BY <1>3, <2>4
<1>7. c[n] \in Seq(FactRecords) /\ DOMAIN c[n] = 1..Len(c[n]) BY <1>1, <1>2
<1>8. PICK k : k = KeepAll(parent) OBVIOUS
<1>9. k \in Seq(FactRecords) /\ DOMAIN k = 1..Len(k) /\ Good(k, n) BY <1>2, <1>6, <1>7, <1>8
<1> QED BY <1>1, <1>8, <1>9

\* The least of some numbers is one of them.
LEMMA MinIn ==
  ASSUME NEW S, S \subseteq Nat, S # {}
  PROVE  Min(S) \in S
<1>1. PICK x \in S : \A y \in S : ~(<<y, x>> \in OpToRel(<, Nat))
  BY NatLessThanWellFounded, WFMin
<1>2. \A y \in S : x <= y
  <2> TAKE y \in S
  <2>1. x \in Nat /\ y \in Nat OBVIOUS
  <2>2. ~(y < x) BY <1>1, <2>1 DEF OpToRel
  <2> QED BY <2>1, <2>2
<1>3. \E z \in S : \A y \in S : z =< y BY <1>2
<1>4. Min(S) = CHOOSE z \in S : \A y \in S : z =< y BY DEF Min
<1> QED BY <1>3, <1>4

\* One fact more: every place keeps its name, and what a place holds was there
\* before or is the new fact.
LEMMA MergeFactKeeps ==
  ASSUME NEW q \in Seq(FactRecords), NEW f \in FactRecords
  PROVE  /\ MergeFact(q, f) \in Seq(FactRecords)
         /\ Len(q) <= Len(MergeFact(q, f))
         /\ \A j \in 1..Len(q) : MergeFact(q, f)[j].id = q[j].id
         /\ \A j \in 1..Len(MergeFact(q, f)) :
              MergeFact(q, f)[j] = f \/ (j \in 1..Len(q) /\ MergeFact(q, f)[j] = q[j])
<1>1. PICK k \in Nat : k = Len(q) /\ DOMAIN q = 1..k OBVIOUS
<1>2. PICK byId : byId = {i \in 1..k : q[i].id = f.id} OBVIOUS
<1>3. PICK byValue : byValue = {i \in 1..k : q[i].value = f.value} OBVIOUS
<1>4. PICK r : r = MergeFact(q, f) OBVIOUS
<1>5. r = IF byId = {} /\ byValue = {} THEN Append(q, f)
          ELSE IF byId = {} THEN q
          ELSE IF q[Min(byId)].value = f.value THEN q
          ELSE [q EXCEPT ![Min(byId)] = f]
  BY <1>1, <1>2, <1>3, <1>4 DEF MergeFact
<1> DEFINE Good == /\ r \in Seq(FactRecords) /\ k <= Len(r)
                   /\ \A j \in 1..k : r[j].id = q[j].id
                   /\ \A j \in 1..Len(r) : r[j] = f \/ (j \in 1..k /\ r[j] = q[j])
<1>6. ASSUME r = q PROVE Good BY <1>1, <1>6
<1>7. ASSUME r = Append(q, f) PROVE Good
  <2>1. /\ r \in Seq(FactRecords) /\ Len(r) = k + 1 /\ r[k + 1] = f
        /\ \A j \in 1..k : r[j] = q[j]
    BY <1>1, <1>7
  <2>2. \A j \in 1..(k + 1) : j = k + 1 \/ j \in 1..k BY <1>1
  <2> QED BY <1>1, <2>1, <2>2
<1>8. ASSUME byId # {}, r = [q EXCEPT ![Min(byId)] = f] PROVE Good
  <2>1. PICK i : i = Min(byId) OBVIOUS
  <2>2. i \in byId
    <3>1. byId \subseteq Nat BY <1>1, <1>2
    <3> QED BY <1>8, <2>1, <3>1, MinIn
  <2>3. i \in 1..k /\ q[i].id = f.id BY <1>2, <2>2
  <2>4. r = [q EXCEPT ![i] = f] BY <1>8, <2>1
  <2>5. r \in Seq(FactRecords) /\ Len(r) = k BY <1>1, <2>3, <2>4
  <2>6. \A j \in 1..k : r[j] = IF j = i THEN f ELSE q[j] BY <1>1, <2>3, <2>4
  <2> QED BY <1>1, <2>3, <2>5, <2>6
<1>9. Good BY <1>5, <1>6, <1>7, <1>8
<1> QED BY <1>1, <1>4, <1>9

\* The merge of current facts, in steps.
LEMMA MergeAllSteps ==
  ASSUME NEW base \in Seq(FactRecords), NEW current \in Seq(FactRecords)
  PROVE  \E c \in [0..Len(current) -> Seq(FactRecords)] :
           /\ c[0] = base
           /\ \A i \in 1..Len(current) : c[i] = MergeFact(c[i - 1], current[i])
           /\ MergeAll(base, current) = c[Len(current)]
<1>1. PICK n \in Nat : n = Len(current) OBVIOUS
<1>2. \A i \in 1..n : current[i] \in FactRecords BY <1>1
<1> DEFINE Is(f) == f = [i \in 0..n |-> IF i = 0 THEN base ELSE MergeFact(f[i - 1], current[i])]
<1>3. \A i \in 1..n, q \in Seq(FactRecords) : MergeFact(q, current[i]) \in Seq(FactRecords)
  BY <1>2, MergeFactKeeps
<1>4. MergeAll(base, current) = (CHOOSE f : Is(f))[n] BY <1>1 DEF MergeAll
<1>5. PICK step : step = [i \in 1..n |-> [q \in Seq(FactRecords) |-> MergeFact(q, current[i])]]
  OBVIOUS
<1>6. step \in [1..n -> [Seq(FactRecords) -> Seq(FactRecords)]] BY <1>3, <1>5
<1>7. PICK f \in [0..n -> Seq(FactRecords)] :
        f[0] = base /\ \A i \in 1..n : f[i] = step[i][f[i - 1]]
  <2>1. \E f : Stepwise(f, n, Seq(FactRecords), base, step) BY <1>6, FoldExists
  <2> QED BY <2>1 DEF Stepwise
<1>8. ASSUME NEW i \in 1..n PROVE f[i] = MergeFact(f[i - 1], current[i])
  <2>1. f[i - 1] \in Seq(FactRecords) BY <1>7
  <2> QED BY <1>5, <1>7, <2>1
<1>9. Is(f)
  <2>1. f = [i \in 0..n |-> f[i]] BY <1>7
  <2>2. \A i \in 0..n : f[i] = IF i = 0 THEN base ELSE MergeFact(f[i - 1], current[i])
    BY <1>7, <1>8
  <2> QED BY <2>1, <2>2
<1>10. PICK c : c = (CHOOSE g : Is(g)) OBVIOUS
<1>11. Is(c) BY <1>9, <1>10
<1>12. c[0] = base /\ \A i \in 1..n : c[i] = MergeFact(c[i - 1], current[i]) BY <1>11
<1>13. \A i \in 0..n : c[i] \in Seq(FactRecords)
  <2>1. PICK P : P = {i \in 0..n : c[i] \in Seq(FactRecords)} OBVIOUS
  <2>2. 0 \in P BY <1>1, <1>12, <2>1
  <2>3. ASSUME NEW i \in 1..n, i - 1 \in P PROVE i \in P
    <3>1. c[i - 1] \in Seq(FactRecords) BY <2>1, <2>3
    <3>2. c[i] \in Seq(FactRecords) BY <1>3, <1>12, <3>1
    <3> QED BY <1>1, <2>1, <3>2
  <2>4. \A i \in 0..n : i \in P BY <1>1, <2>2, <2>3, Upward
  <2> QED BY <2>1, <2>4
<1>14. c \in [0..n -> Seq(FactRecords)] BY <1>11, <1>13
<1>15. MergeAll(base, current) = c[n] BY <1>4, <1>10
<1> QED BY <1>1, <1>12, <1>14, <1>15

\* After the merge every earlier place still has its name, and each fact is an
\* earlier one in its place or a current one.
LEMMA MergeAllKeeps ==
  ASSUME NEW base \in Seq(FactRecords), NEW current \in Seq(FactRecords)
  PROVE  /\ MergeAll(base, current) \in Seq(FactRecords)
         /\ Len(base) <= Len(MergeAll(base, current))
         /\ \A j \in 1..Len(base) : MergeAll(base, current)[j].id = base[j].id
         /\ \A j \in 1..Len(MergeAll(base, current)) :
              \/ j \in 1..Len(base) /\ MergeAll(base, current)[j] = base[j]
              \/ \E i \in DOMAIN current : MergeAll(base, current)[j] = current[i]
<1>1. PICK n \in Nat : n = Len(current) /\ DOMAIN current = 1..n OBVIOUS
<1>2. PICK c \in [0..n -> Seq(FactRecords)] :
        /\ c[0] = base
        /\ \A i \in 1..n : c[i] = MergeFact(c[i - 1], current[i])
        /\ MergeAll(base, current) = c[n]
  <2>1. \E c \in [0..Len(current) -> Seq(FactRecords)] :
          /\ c[0] = base
          /\ \A i \in 1..Len(current) : c[i] = MergeFact(c[i - 1], current[i])
          /\ MergeAll(base, current) = c[Len(current)]
    BY MergeAllSteps
  <2> QED BY <1>1, <2>1
<1>3. PICK b \in Nat : b = Len(base) OBVIOUS
<1> DEFINE Good(q) ==
             /\ b <= Len(q)
             /\ \A j \in 1..b : q[j].id = base[j].id
             /\ \A j \in 1..Len(q) :
                  (j \in 1..b /\ q[j] = base[j]) \/ \E a \in 1..n : q[j] = current[a]
<1>4. PICK P : P = {i \in 0..n : Good(c[i])} OBVIOUS
<1>5. Good(c[0]) BY <1>2, <1>3
<1>6. ASSUME NEW i \in 1..n, i - 1 \in P PROVE i \in P
  <2>1. PICK q \in Seq(FactRecords) : q = c[i - 1] BY <1>1, <1>2
  <2>2. Good(q) BY <1>4, <1>6, <2>1
  <2>3. PICK f \in FactRecords : f = current[i] BY <1>1
  <2>4. PICK r : r = c[i] OBVIOUS
  <2>5. PICK k \in Nat : k = Len(q) OBVIOUS
  <2>6. /\ r \in Seq(FactRecords) /\ k <= Len(r)
        /\ \A j \in 1..k : r[j].id = q[j].id
        /\ \A j \in 1..Len(r) : r[j] = f \/ (j \in 1..k /\ r[j] = q[j])
    <3>1. r = MergeFact(q, f) BY <1>2, <2>1, <2>3, <2>4
    <3> QED BY <2>5, <3>1, MergeFactKeeps
  <2>7. Len(r) \in Nat BY <2>6
  <2>8. b <= Len(r) /\ \A j \in 1..b : j \in 1..k BY <1>3, <2>2, <2>5, <2>6, <2>7
  <2>9. \A j \in 1..b : r[j].id = base[j].id BY <2>2, <2>6, <2>8
  <2>10. \A j \in 1..Len(r) :
           (j \in 1..b /\ r[j] = base[j]) \/ \E a \in 1..n : r[j] = current[a]
    BY <2>2, <2>3, <2>5, <2>6
  <2>11. Good(r) BY <2>8, <2>9, <2>10
  <2> HIDE DEF Good
  <2> QED BY <1>1, <1>4, <2>4, <2>11
<1>7. Good(c[n])
  <2>1. \A i \in 1..n : i - 1 \in P => i \in P BY <1>6
  <2> HIDE DEF Good
  <2>2. 0 \in P BY <1>1, <1>4, <1>5
  <2>3. \A i \in 0..n : i \in P BY <1>1, <2>1, <2>2, Upward
  <2>4. n \in P BY <1>1, <2>3
  <2> QED BY <1>4, <2>4
<1>8. PICK r : r = MergeAll(base, current) OBVIOUS
<1>9. r \in Seq(FactRecords) /\ Good(r) BY <1>1, <1>2, <1>7, <1>8
<1> QED BY <1>1, <1>3, <1>8, <1>9

\* The facts of a case after a follow-up: no more than are kept, each one from the
\* parent or from the current words; and each fact of the parent, or the one of the
\* parent that has its name or says the same, is still there under its name.
LEMMA MergeFactsKeeps ==
  ASSUME NEW parent \in Seq(FactRecords), NEW current \in Seq(FactRecords),
         Len(parent) <= MaxFacts
  PROVE  /\ MergeFacts(parent, current) \in Seq(FactRecords)
         /\ Len(MergeFacts(parent, current)) <= MaxFacts
         /\ \A j \in DOMAIN MergeFacts(parent, current) :
              \/ \E i \in DOMAIN parent : MergeFacts(parent, current)[j] = parent[i]
              \/ \E i \in DOMAIN current : MergeFacts(parent, current)[j] = current[i]
         /\ \A i \in DOMAIN parent : \E h \in DOMAIN parent :
              /\ parent[h].id = parent[i].id \/ parent[h].value = parent[i].value
              /\ \E j \in DOMAIN MergeFacts(parent, current) :
                   MergeFacts(parent, current)[j].id = parent[h].id
<1>1. PICK base : base = KeepAll(parent) OBVIOUS
<1>2. /\ base \in Seq(FactRecords) /\ Len(base) <= Len(parent)
      /\ \A j \in DOMAIN base : \E i \in DOMAIN parent : base[j] = parent[i]
      /\ \A i \in DOMAIN parent : \E j \in DOMAIN base :
           base[j].id = parent[i].id \/ base[j].value = parent[i].value
  BY <1>1, KeepAllKeeps
<1>3. PICK all : all = MergeAll(base, current) OBVIOUS
<1>4. /\ all \in Seq(FactRecords) /\ Len(base) <= Len(all)
      /\ \A j \in 1..Len(base) : all[j].id = base[j].id
      /\ \A j \in 1..Len(all) :
           \/ j \in 1..Len(base) /\ all[j] = base[j]
           \/ \E i \in DOMAIN current : all[j] = current[i]
  <2>1. /\ MergeAll(base, current) \in Seq(FactRecords)
        /\ Len(base) <= Len(MergeAll(base, current))
        /\ \A j \in 1..Len(base) : MergeAll(base, current)[j].id = base[j].id
        /\ \A j \in 1..Len(MergeAll(base, current)) :
             \/ j \in 1..Len(base) /\ MergeAll(base, current)[j] = base[j]
             \/ \E i \in DOMAIN current : MergeAll(base, current)[j] = current[i]
    BY <1>2, MergeAllKeeps
  <2> QED BY <1>3, <2>1
<1>5. PICK k : k = Min({Len(all), MaxFacts}) OBVIOUS
<1>6. k \in Nat /\ k <= Len(all) /\ k <= MaxFacts /\ (k = Len(all) \/ k = MaxFacts)
  <2>1. Len(all) \in Nat /\ MaxFacts \in Nat BY <1>4, LimitsAssumption
  <2>2. k \in {Len(all), MaxFacts}
    <3>1. {Len(all), MaxFacts} \subseteq Nat /\ {Len(all), MaxFacts} # {} BY <2>1
    <3> QED BY <1>5, <3>1, MinIn
  <2>3. \E z \in {Len(all), MaxFacts} : \A y \in {Len(all), MaxFacts} : z =< y BY <2>1
  <2>4. k = CHOOSE z \in {Len(all), MaxFacts} : \A y \in {Len(all), MaxFacts} : z =< y
    BY <1>5 DEF Min
  <2>5. \A y \in {Len(all), MaxFacts} : k =< y BY <2>3, <2>4
  <2> QED BY <2>1, <2>2, <2>5
<1>7. PICK r : r = MergeFacts(parent, current) OBVIOUS
<1>8. r = SubSeq(all, 1, k) BY <1>1, <1>3, <1>5, <1>7 DEF MergeFacts
<1>9. /\ r \in Seq(FactRecords) /\ Len(r) = k /\ DOMAIN r = 1..k
      /\ \A j \in 1..k : r[j] = all[j]
  BY <1>4, <1>6, <1>8
<1>10. DOMAIN base = 1..Len(base) /\ Len(base) \in Nat /\ Len(base) <= k
  BY <1>2, <1>4, <1>6, LimitsAssumption
<1>11. \A j \in DOMAIN r : \/ \E i \in DOMAIN parent : r[j] = parent[i]
                           \/ \E i \in DOMAIN current : r[j] = current[i]
  <2> TAKE j \in DOMAIN r
  <2>1. j \in 1..Len(all) /\ r[j] = all[j] BY <1>4, <1>6, <1>9
  <2>2. CASE j \in 1..Len(base) /\ all[j] = base[j] BY <1>2, <1>10, <2>1, <2>2
  <2>3. CASE \E i \in DOMAIN current : all[j] = current[i] BY <2>1, <2>3
  <2> QED BY <1>4, <2>1, <2>2, <2>3
<1>12. ASSUME NEW i \in DOMAIN parent
       PROVE  \E h \in DOMAIN parent :
                /\ parent[h].id = parent[i].id \/ parent[h].value = parent[i].value
                /\ \E j \in DOMAIN r : r[j].id = parent[h].id
  <2>1. PICK j \in DOMAIN base : base[j].id = parent[i].id \/ base[j].value = parent[i].value
    BY <1>2
  <2>2. PICK h \in DOMAIN parent : base[j] = parent[h] BY <1>2
  <2>3. j \in 1..k /\ j \in 1..Len(base) BY <1>6, <1>10
  <2>4. r[j].id = parent[h].id BY <1>4, <1>9, <2>2, <2>3
  <2> QED BY <1>9, <2>1, <2>2, <2>3, <2>4
<1> QED BY <1>6, <1>7, <1>9, <1>11, <1>12

\* The severities, as a set.
SeverityLevels == {"unknown", "low", "medium", "high", "critical"}

\* The five severities and their ranks.
LEMMA Ranks ==
  /\ Range(Severities) = SeverityLevels
  /\ SeverityRank("unknown") = 1 /\ SeverityRank("low") = 2 /\ SeverityRank("medium") = 3
  /\ SeverityRank("high") = 4 /\ SeverityRank("critical") = 5
<1>1. /\ DOMAIN Severities = 1..5
      /\ Severities[1] = "unknown" /\ Severities[2] = "low" /\ Severities[3] = "medium"
      /\ Severities[4] = "high" /\ Severities[5] = "critical"
  BY DEF Severities
<1>2. \A i \in 1..5 : i = 1 \/ i = 2 \/ i = 3 \/ i = 4 \/ i = 5 OBVIOUS
<1>3. Range(Severities) = SeverityLevels
  BY <1>1, <1>2 DEF Range, SeverityLevels
<1>4. ASSUME NEW i \in 1..5 PROVE SeverityRank(Severities[i]) = i
  <2>1. \A j \in 1..5 : Severities[j] = Severities[i] => j = i BY <1>1, <1>2
  <2>2. SeverityRank(Severities[i]) = CHOOSE j \in 1..5 : Severities[j] = Severities[i]
    BY <1>1 DEF SeverityRank
  <2> QED BY <2>1, <2>2
<1> QED BY <1>1, <1>3, <1>4

\* What is worse of two severities is one of them, and not less than either.
LEMMA WorseKeeps ==
  ASSUME NEW a \in SeverityLevels, NEW b \in SeverityLevels
  PROVE  /\ Worse(a, b) \in SeverityLevels
         /\ SeverityRank(Worse(a, b)) >= SeverityRank(a)
         /\ SeverityRank(Worse(a, b)) >= SeverityRank(b)
         /\ "critical" \in {a, b} => Worse(a, b) = "critical"
  BY Ranks DEF Worse, SeverityLevels

\* The fields of a source rule, and what makes one sound.
RuleFields == {"reads", "unless", "signals", "drop", "stakeholders", "how", "family",
               "severity", "phase"}

\* A rule of the tables: its severity is one of the list, and it drops no danger.
SoundRule(r) ==
  /\ r = [f \in RuleFields |-> r[f]]
  /\ r.how \in {"add", "set", "raise"} /\ r.severity \in SeverityLevels
  /\ "active_danger" \notin r.drop

\* Every rule of the tables is sound.
LEMMA RuleIsSound ==
  ASSUME NEW a, NEW b, NEW c PROVE SoundRule(Rule(a, b, c))
BY DEF Rule, SoundRule, SeverityLevels, RuleFields

\* So is a rule that a pattern makes.
LEMMA MakesIsSound ==
  ASSUME NEW r, SoundRule(r), NEW how \in {"add", "set", "raise"}, NEW family,
          NEW severity \in SeverityLevels, NEW ph
  PROVE  SoundRule(Makes(r, how, family, severity, ph))
BY DEF Makes, SoundRule, RuleFields

\* So is a rule of the facets that hold.
LEMMA RealIsSound ==
  ASSUME NEW r, SoundRule(r) PROVE SoundRule(Real(r))
BY DEF Real, SoundRule, RuleFields

\* Every rule of the tables is sound.
LEMMA TablesAreSound ==
  /\ HealthFacets \in Seq(Range(HealthFacets)) /\ \A r \in Range(HealthFacets) : SoundRule(r)
  /\ HazardFacets \in Seq(Range(HazardFacets)) /\ \A r \in Range(HazardFacets) : SoundRule(r)
  /\ ThreatFacets \in Seq(Range(ThreatFacets)) /\ \A r \in Range(ThreatFacets) : SoundRule(r)
  /\ IntegrityFacets \in Seq(Range(IntegrityFacets))
     /\ \A r \in Range(IntegrityFacets) : SoundRule(r)
<1>1. ASSUME NEW a, NEW b, NEW c, NEW how \in {"add", "set", "raise"}, NEW family,
             NEW severity \in SeverityLevels, NEW ph
      PROVE  /\ SoundRule(Makes(Rule(a, b, c), how, family, severity, ph))
             /\ SoundRule(Real(Makes(Rule(a, b, c), how, family, severity, ph)))
             /\ SoundRule(Real(Rule(a, b, c)))
  BY RuleIsSound, MakesIsSound, RealIsSound
<1>2. ASSUME NEW r, SoundRule(r), NEW d, "active_danger" \notin d
      PROVE  SoundRule([r EXCEPT !.drop = d])
  BY <1>2 DEF SoundRule, RuleFields
<1>3. /\ DOMAIN HealthFacets = 1..3
      /\ SoundRule(HealthFacets[1]) /\ SoundRule(HealthFacets[2]) /\ SoundRule(HealthFacets[3])
  BY <1>1 DEF HealthFacets, SeverityLevels
<1>4. HealthFacets = [i \in 1..3 |-> HealthFacets[i]] BY <1>3 DEF HealthFacets
<1>5. \A i \in 1..3 : i = 1 \/ i = 2 \/ i = 3 OBVIOUS
<1>6. HealthFacets \in Seq(Range(HealthFacets)) /\ \A r \in Range(HealthFacets) : SoundRule(r)
  BY <1>3, <1>4, <1>5 DEF Range
<1>7. /\ DOMAIN HazardFacets = 1..6
      /\ SoundRule(HazardFacets[1]) /\ SoundRule(HazardFacets[2]) /\ SoundRule(HazardFacets[3])
      /\ SoundRule(HazardFacets[4]) /\ SoundRule(HazardFacets[5]) /\ SoundRule(HazardFacets[6])
  <2>1. DOMAIN HazardFacets = 1..6 BY DEF HazardFacets
  <2>2. SoundRule(HazardFacets[1]) BY <1>1 DEF HazardFacets, SeverityLevels
  <2>3. SoundRule(HazardFacets[2]) BY <1>1 DEF HazardFacets, SeverityLevels
  <2>4. SoundRule(HazardFacets[3]) BY <1>1 DEF HazardFacets, SeverityLevels
  <2>5. SoundRule(HazardFacets[4]) BY <1>1 DEF HazardFacets, SeverityLevels
  <2>6. SoundRule(HazardFacets[5]) BY <1>1 DEF HazardFacets, SeverityLevels
  <2>7. SoundRule(HazardFacets[6]) BY <1>1 DEF HazardFacets, SeverityLevels
  <2> QED BY <2>1, <2>2, <2>3, <2>4, <2>5, <2>6, <2>7
<1>8. HazardFacets = [i \in 1..6 |-> HazardFacets[i]] BY <1>7 DEF HazardFacets
<1>9. \A i \in 1..6 : i = 1 \/ i = 2 \/ i = 3 \/ i = 4 \/ i = 5 \/ i = 6 OBVIOUS
<1>10. HazardFacets \in Seq(Range(HazardFacets)) /\ \A r \in Range(HazardFacets) : SoundRule(r)
  BY <1>7, <1>8, <1>9 DEF Range
<1>11. /\ DOMAIN ThreatFacets = 1..9
       /\ SoundRule(ThreatFacets[1]) /\ SoundRule(ThreatFacets[2]) /\ SoundRule(ThreatFacets[3])
       /\ SoundRule(ThreatFacets[4]) /\ SoundRule(ThreatFacets[5]) /\ SoundRule(ThreatFacets[7])
       /\ SoundRule(ThreatFacets[8]) /\ SoundRule(ThreatFacets[9])
  <2>1. DOMAIN ThreatFacets = 1..9 BY DEF ThreatFacets
  <2>2. SoundRule(ThreatFacets[1]) BY <1>1 DEF ThreatFacets, SeverityLevels
  <2>3. SoundRule(ThreatFacets[2]) BY <1>1 DEF ThreatFacets, SeverityLevels
  <2>4. SoundRule(ThreatFacets[3]) BY <1>1 DEF ThreatFacets, SeverityLevels
  <2>5. SoundRule(ThreatFacets[4]) BY <1>1 DEF ThreatFacets, SeverityLevels
  <2>6. SoundRule(ThreatFacets[5]) BY <1>1 DEF ThreatFacets, SeverityLevels
  <2>7. SoundRule(ThreatFacets[7]) BY <1>1 DEF ThreatFacets, SeverityLevels
  <2>8. SoundRule(ThreatFacets[8]) BY <1>1 DEF ThreatFacets, SeverityLevels
  <2>9. SoundRule(ThreatFacets[9]) BY <1>1 DEF ThreatFacets, SeverityLevels
  <2> QED BY <2>1, <2>2, <2>3, <2>4, <2>5, <2>6, <2>7, <2>8, <2>9
<1>12. SoundRule(ThreatFacets[6])
  BY <1>2, RuleIsSound, RealIsSound DEF ThreatFacets
<1>13. ThreatFacets = [i \in 1..9 |-> ThreatFacets[i]] BY <1>11 DEF ThreatFacets
<1>14. \A i \in 1..9 : i = 1 \/ i = 2 \/ i = 3 \/ i = 4 \/ i = 5 \/ i = 6 \/ i = 7 \/ i = 8 \/ i = 9
  OBVIOUS
<1>15. ThreatFacets \in Seq(Range(ThreatFacets)) /\ \A r \in Range(ThreatFacets) : SoundRule(r)
  BY <1>11, <1>12, <1>13, <1>14 DEF Range
<1>16. /\ DOMAIN IntegrityFacets = 1..5
       /\ SoundRule(IntegrityFacets[1]) /\ SoundRule(IntegrityFacets[3])
       /\ SoundRule(IntegrityFacets[4]) /\ SoundRule(IntegrityFacets[5])
  <2>1. DOMAIN IntegrityFacets = 1..5 BY DEF IntegrityFacets
  <2>2. SoundRule(IntegrityFacets[1]) BY <1>1 DEF IntegrityFacets, SeverityLevels
  <2>3. SoundRule(IntegrityFacets[3]) BY <1>1 DEF IntegrityFacets, SeverityLevels
  <2>4. SoundRule(IntegrityFacets[4]) BY <1>1 DEF IntegrityFacets, SeverityLevels
  <2>5. SoundRule(IntegrityFacets[5]) BY <1>1 DEF IntegrityFacets, SeverityLevels
  <2> QED BY <2>1, <2>2, <2>3, <2>4, <2>5
<1>17. SoundRule(IntegrityFacets[2])
  BY <1>1, <1>2 DEF IntegrityFacets, SeverityLevels
<1>18. IntegrityFacets = [i \in 1..5 |-> IntegrityFacets[i]] BY <1>16 DEF IntegrityFacets
<1>19. \A i \in 1..5 : i = 1 \/ i = 2 \/ i = 3 \/ i = 4 \/ i = 5 OBVIOUS
<1>20. /\ IntegrityFacets \in Seq(Range(IntegrityFacets))
       /\ \A r \in Range(IntegrityFacets) : SoundRule(r)
  BY <1>16, <1>17, <1>18, <1>19 DEF Range
<1> QED BY <1>6, <1>10, <1>15, <1>20

\* So is every rule of all of them, which are one sequence.
LEMMA FacetsAreSound ==
  Facets \in Seq(Range(Facets)) /\ \A r \in Range(Facets) : SoundRule(r)
<1> DEFINE U == Range(HealthFacets) \cup Range(HazardFacets)
                \cup Range(ThreatFacets) \cup Range(IntegrityFacets)
<1>1. \A r \in U : SoundRule(r) BY TablesAreSound
<1>2. /\ HealthFacets \in Seq(U) /\ HazardFacets \in Seq(U)
      /\ ThreatFacets \in Seq(U) /\ IntegrityFacets \in Seq(U)
  BY TablesAreSound
<1> HIDE DEF U
<1>3. Facets \in Seq(U) BY <1>2 DEF Facets
<1>4. PICK f \in Seq(U) : f = Facets BY <1>3
<1>5. f \in Seq(Range(f)) /\ Range(f) \subseteq U BY <1>4 DEF Range
<1> QED BY <1>1, <1>4, <1>5

\* What the rules leave behind has the fields of a rule and a severity of the list.
LEMMA WorstFacetIsSound ==
  ASSUME NEW m
  PROVE  /\ WorstFacet(m) = [f \in RuleFields |-> WorstFacet(m)[f]]
         /\ WorstFacet(m).severity \in SeverityLevels
<1>1. PICK F : F = Range(Facets) \cup {NoFacet} OBVIOUS
<1>2. \A r \in F : SoundRule(r)
  <2>1. SoundRule(NoFacet) BY RuleIsSound DEF NoFacet
  <2> QED BY <1>1, <2>1, FacetsAreSound
<1>3. PICK V : V = UNION {{r[f] : f \in RuleFields} : r \in F} OBVIOUS
<1> DEFINE S == {g \in [RuleFields -> V] : g.severity \in SeverityLevels}
<1>4. ASSUME NEW r \in F PROVE r \in S
  <2>1. \A f \in RuleFields : r[f] \in V BY <1>3
  <2>2. r \in [RuleFields -> V] BY <1>2, <2>1 DEF SoundRule
  <2> QED BY <1>2, <2>2 DEF SoundRule
<1>5. ASSUME NEW made \in S, NEW r \in Range(Facets) PROVE AddFacet(made, r) \in S
  <2>1. r \in S /\ r.how \in {"add", "set", "raise"} BY <1>1, <1>2, <1>4 DEF SoundRule
  <2>2. [made EXCEPT !.family = r.family, !.phase = r.phase] \in S
    BY <2>1 DEF RuleFields
  <2>3. AddFacet(made, r) \in {made, r, [made EXCEPT !.family = r.family, !.phase = r.phase]}
    BY <2>1 DEF AddFacet
  <2> QED BY <1>5, <2>1, <2>2, <2>3
<1>6. PICK n \in Nat : n = Len(Facets) BY FacetsAreSound
<1>7. \A i \in 1..n : Facets[i] \in Range(Facets) BY <1>6, FacetsAreSound DEF Range
<1> DEFINE Add(i, made) == IF Holds(Facets[i], m) THEN AddFacet(made, Facets[i]) ELSE made
           Is(f) == f = [i \in 0..n |-> IF i = 0 THEN NoFacet ELSE Add(i, f[i - 1])]
<1>8. WorstFacet(m) = (CHOOSE f : Is(f))[n]
  <2>1. WorstFacet(m) = (CHOOSE f : f = [i \in 0..Len(Facets) |->
          IF i = 0 THEN NoFacet
          ELSE IF Holds(Facets[i], m) THEN AddFacet(f[i - 1], Facets[i]) ELSE f[i - 1]])[Len(Facets)]
    BY DEF WorstFacet
  <2> QED BY <1>6, <2>1
<1> HIDE DEF S
<1>9. NoFacet \in S BY <1>1, <1>4
<1>10. \A i \in 1..n, made \in S : Add(i, made) \in S BY <1>5, <1>7
<1> HIDE DEF Add
<1>11. PICK step : step = [i \in 1..n |-> [made \in S |-> Add(i, made)]] OBVIOUS
<1>12. step \in [1..n -> [S -> S]] BY <1>10, <1>11
<1>13. PICK f \in [0..n -> S] : f[0] = NoFacet /\ \A i \in 1..n : f[i] = step[i][f[i - 1]]
  <2>1. \E f : Stepwise(f, n, S, NoFacet, step) BY <1>6, <1>9, <1>12, FoldExists
  <2> QED BY <2>1 DEF Stepwise
<1>14. ASSUME NEW i \in 1..n PROVE f[i] = Add(i, f[i - 1])
  <2>1. f[i - 1] \in S BY <1>6, <1>13
  <2> QED BY <1>11, <1>13, <2>1
<1>15. Is(f)
  <2>1. f = [i \in 0..n |-> f[i]] BY <1>13
  <2>2. \A i \in 0..n : f[i] = IF i = 0 THEN NoFacet ELSE Add(i, f[i - 1])
    BY <1>6, <1>13, <1>14
  <2> QED BY <2>1, <2>2
<1>16. PICK c : c = (CHOOSE g : Is(g)) OBVIOUS
<1>17. Is(c) BY <1>15, <1>16
<1>18. c[0] = NoFacet /\ \A i \in 1..n : c[i] = Add(i, c[i - 1]) BY <1>6, <1>17
<1>19. \A i \in 0..n : c[i] \in S
  <2>1. PICK P : P = {i \in 0..n : c[i] \in S} OBVIOUS
  <2>2. 0 \in P BY <1>6, <1>9, <1>18, <2>1
  <2>3. ASSUME NEW i \in 1..n, i - 1 \in P PROVE i \in P
    <3>1. c[i] \in S BY <1>10, <1>18, <2>1, <2>3
    <3> QED BY <1>6, <2>1, <3>1
  <2>4. \A i \in 0..n : i \in P BY <1>6, <2>2, <2>3, Upward
  <2> QED BY <2>1, <2>4
<1>20. WorstFacet(m) \in S BY <1>6, <1>8, <1>16, <1>19
<1> QED BY <1>20 DEF S

\* What the facets add: a severity of the list, a danger the words report, and they
\* drop none.
LEMMA FacetsOfIsSound ==
  ASSUME NEW m
  PROVE  /\ FacetsOf(m).severity \in SeverityLevels
         /\ "active_danger" \in FacetsOf(m).signals => Worded(m)
         /\ "active_danger" \notin FacetsOf(m).drop
<1>1. PICK found : found = {rule \in Range(Facets) : Holds(rule, m)} OBVIOUS
<1>2. PICK w : w = WorstFacet(m) OBVIOUS
<1>3. DOMAIN w = RuleFields /\ w.severity \in SeverityLevels BY <1>2, WorstFacetIsSound
<1>4. FacetsOf(m) = [w EXCEPT !.signals = UNION {r.signals : r \in found},
                              !.stakeholders = UNION {r.stakeholders : r \in found},
                              !.drop = UNION {r.drop : r \in found}]
  BY <1>1, <1>2 DEF FacetsOf
<1>5. \A r \in found : "active_danger" \notin r.drop BY <1>1, FacetsAreSound DEF SoundRule
<1>6. FacetsOf(m).drop = UNION {r.drop : r \in found} /\ FacetsOf(m).severity = w.severity
  BY <1>3, <1>4 DEF RuleFields
<1> QED BY <1>3, <1>5, <1>6 DEF Worded

\* The fields of a situation.
SituationFields == {"family", "phase", "severity", "signals", "people", "stakeholders",
                    "facts", "unknowns", "outputs", "registry", "customs", "asked",
                    "release", "danger", "texts", "sources"}

\* A situation: the fields of what the classifier said, a severity of the list.
IsSituation(s) == DOMAIN s = SituationFields /\ s.severity \in SeverityLevels

\* What the floors do to a situation: the facts, the texts and the artifacts stay, and a
\* danger comes from before or from the words.
Floor(s, t, m) ==
  /\ IsSituation(t) /\ t.facts = s.facts /\ t.texts = s.texts
  /\ t.outputs = s.outputs /\ t.registry = s.registry
  /\ "active_danger" \in t.signals => "active_danger" \in s.signals \/ Worded(m)

\* They do not take a danger back.
Keeps(s, t) == "active_danger" \in s.signals => "active_danger" \in t.signals

\* Two floors one after the other are a floor.
LEMMA FloorsChain ==
  ASSUME NEW m, NEW s, NEW t, NEW u, Floor(s, t, m), Floor(t, u, m)
  PROVE  Floor(s, u, m)
BY DEF Floor

\* Added signals make no danger but one the words report, and take none back.
LEMMA AddedFloor ==
  ASSUME NEW m, NEW s, IsSituation(s), NEW signals, NEW stakeholders,
         "active_danger" \in signals => Worded(m)
  PROVE  Floor(s, Added(s, signals, stakeholders), m) /\ Keeps(s, Added(s, signals, stakeholders))
BY DEF Floor, Keeps, IsSituation, SituationFields, Added

\* Nor does a change of the family.
LEMMA AsFamilyFloor ==
  ASSUME NEW m, NEW s, IsSituation(s), NEW family
  PROVE  Floor(s, AsFamily(s, family), m) /\ Keeps(s, AsFamily(s, family))
BY DEF Floor, Keeps, IsSituation, SituationFields, AsFamily

\* Nor do the facets the words show, and a danger they report is heard.
LEMMA WithFacetsFloor ==
  ASSUME NEW m, NEW s, IsSituation(s)
  PROVE  /\ Floor(s, WithFacets(s, FacetsOf(m)), m) /\ Keeps(s, WithFacets(s, FacetsOf(m)))
         /\ "active_danger" \in FacetsOf(m).signals
              => "active_danger" \in WithFacets(s, FacetsOf(m)).signals
<1>1. PICK f : f = FacetsOf(m) OBVIOUS
<1>2. f.severity \in SeverityLevels /\ ("active_danger" \in f.signals => Worded(m))
  BY <1>1, FacetsOfIsSound
<1>3. PICK a : a = Added(s, f.signals, f.stakeholders) OBVIOUS
<1>4. Floor(s, a, m) /\ Keeps(s, a) /\ ("active_danger" \in f.signals => "active_danger" \in a.signals)
  BY <1>2, <1>3, AddedFloor DEF Added, IsSituation, SituationFields
<1>5. PICK w : w = Worse(a.severity, f.severity) OBVIOUS
<1>6. w \in SeverityLevels BY <1>2, <1>4, <1>5, WorseKeeps DEF Floor, IsSituation
<1>7. \E fam, ph : WithFacets(s, f)
        = [a EXCEPT !.family = fam, !.phase = ph, !.severity = w]
  BY <1>3, <1>4, <1>5 DEF WithFacets, Floor, IsSituation, SituationFields
<1> QED BY <1>1, <1>4, <1>6, <1>7 DEF Floor, Keeps, IsSituation, SituationFields

\* The same of the missing minor.
LEMMA WithMissingMinorFloor ==
  ASSUME NEW m, NEW s, IsSituation(s)
  PROVE  Floor(s, WithMissingMinor(s, m), m) /\ Keeps(s, WithMissingMinor(s, m))
<1>1. CASE ~Reads(m, {"missing_minor"})
  BY <1>1 DEF WithMissingMinor, Floor, Keeps
<1>2. CASE Reads(m, {"missing_minor"})
  <2>1. PICK a : a = Added(s, Lost \cup {"minor_involved"}, {"guardian", "school_leadership"})
    OBVIOUS
  <2>2. "active_danger" \notin Lost \cup {"minor_involved"} BY DEF Lost
  <2>3. Floor(s, a, m) /\ Keeps(s, a) BY <2>1, <2>2, AddedFloor
  <2>4. WithMissingMinor(s, m)
          = [a EXCEPT !.family = "safeguarding_welfare", !.severity = "critical"]
    BY <1>2, <2>1 DEF WithMissingMinor
  <2> QED BY <2>3, <2>4 DEF Floor, Keeps, IsSituation, SituationFields, SeverityLevels
<1> QED BY <1>1, <1>2

\* The same of the transport rule.
LEMMA WithTransportFloor ==
  ASSUME NEW m, NEW s, IsSituation(s), NEW family \in BOOLEAN
  PROVE  Floor(s, WithTransport(s, m, family), m) /\ Keeps(s, WithTransport(s, m, family))
<1>1. CASE ~Reads(m, {"transport"}) BY <1>1 DEF WithTransport, Floor, Keeps
<1>2. CASE Reads(m, {"transport"})
  <2>1. PICK t : t = Added(s, {"transport_operation"}, {"transport_provider"}) OBVIOUS
  <2>2. Floor(s, t, m) /\ Keeps(s, t) BY <2>1, AddedFloor
  <2>3. PICK u : u = AsFamily(t, "transport_travel") OBVIOUS
  <2>4. Floor(t, u, m) /\ Keeps(t, u) BY <2>2, <2>3, AsFamilyFloor DEF Floor
  <2>5. PICK v : v = Added(u, {"minor_involved", "guardian_notification_relevant"}, {"guardian"})
    OBVIOUS
  <2>6. Floor(u, v, m) /\ Keeps(u, v) BY <2>4, <2>5, AddedFloor DEF Floor
  <2>7. CASE ~Reads(m, {"collision"})
    <3>1. WithTransport(s, m, family) \in {t, u} BY <1>2, <2>1, <2>3, <2>7 DEF WithTransport
    <3> QED BY <2>2, <2>4, <3>1, FloorsChain DEF Keeps
  <2>8. CASE Reads(m, {"collision"})
    <3>1. PICK w : w = Worse(v.severity, "medium") OBVIOUS
    <3>2. w \in SeverityLevels
      BY <2>6, <3>1, WorseKeeps DEF Floor, IsSituation, SeverityLevels
    <3>3. \E ph : WithTransport(s, m, family) = [v EXCEPT !.severity = w, !.phase = ph]
      BY <1>2, <2>1, <2>3, <2>5, <2>6, <2>8, <3>1 DEF WithTransport, Floor, IsSituation, SituationFields
    <3>4. Floor(s, v, m) /\ Keeps(s, v) BY <2>2, <2>4, <2>6, FloorsChain DEF Keeps
    <3> QED BY <3>2, <3>3, <3>4 DEF Floor, Keeps, IsSituation, SituationFields
  <2> QED BY <2>7, <2>8
<1> QED BY <1>1, <1>2

\* The same of the public interest.
LEMMA WithAttentionFloor ==
  ASSUME NEW m, NEW s, IsSituation(s)
  PROVE  Floor(s, WithAttention(s, m), m) /\ Keeps(s, WithAttention(s, m))
<1>1. "active_danger" \in {"public_interest"} => Worded(m) OBVIOUS
<1> QED BY <1>1, AddedFloor DEF WithAttention, Floor, Keeps

\* The floors that run after every classification hear a danger the words report.
LEMMA SafetyFloorsFloor ==
  ASSUME NEW m, NEW s, IsSituation(s)
  PROVE  /\ Floor(s, SafetyFloors(s, m), m) /\ Keeps(s, SafetyFloors(s, m))
         /\ "active" \in m.reads => "active_danger" \in SafetyFloors(s, m).signals
<1>1. PICK injured : injured = IF ~Reads(m, {"physical"}) THEN s
                     ELSE AsFamily(Added(s,
                        {"injury_or_illness"} \cup (IF Reads(m, {"physical_minor"})
                           THEN {"minor_involved"} ELSE {}),
                        {"medical_services"} \cup (IF Reads(m, {"physical_minor"})
                           THEN {"guardian"} ELSE {})), "health_medical")
  OBVIOUS
<1>2. Floor(s, injured, m) /\ Keeps(s, injured)
  <2>1. PICK signals, stakeholders :
          /\ signals = {"injury_or_illness"} \cup (IF Reads(m, {"physical_minor"})
                         THEN {"minor_involved"} ELSE {})
          /\ stakeholders = {"medical_services"} \cup (IF Reads(m, {"physical_minor"})
                              THEN {"guardian"} ELSE {})
    OBVIOUS
  <2>2. "active_danger" \notin signals BY <2>1
  <2>3. PICK a : a = Added(s, signals, stakeholders) OBVIOUS
  <2>4. Floor(s, a, m) /\ Keeps(s, a) BY <2>2, <2>3, AddedFloor
  <2>5. injured = s \/ injured = AsFamily(a, "health_medical") BY <1>1, <2>1, <2>3
  <2>6. Floor(a, AsFamily(a, "health_medical"), m) /\ Keeps(a, AsFamily(a, "health_medical"))
    BY <2>4, AsFamilyFloor DEF Floor
  <2>7. Floor(s, s, m) /\ Keeps(s, s) BY DEF Floor, Keeps
  <2> QED BY <2>4, <2>5, <2>6, <2>7, FloorsChain DEF Keeps
<1>3. PICK danger : danger = IF ~Reads(m, {"active"}) THEN injured
                 ELSE [Added(injured, Alarm, {"malaysia_emergency_services_999"}
                         \cup (IF Reads(m, {"fire_words"}) THEN {"fire_and_rescue"} ELSE {}))
                         EXCEPT !.family = "safety_emergency", !.phase = "ongoing",
                                !.severity = "critical"]
  OBVIOUS
<1>4. /\ Floor(injured, danger, m) /\ Keeps(injured, danger)
      /\ "active" \in m.reads => "active_danger" \in danger.signals
  <2>1. CASE ~Reads(m, {"active"})
    <3>1. "active" \notin m.reads /\ danger = injured BY <1>3, <2>1 DEF Reads
    <3> QED BY <1>2, <3>1 DEF Floor, Keeps
  <2>2. CASE Reads(m, {"active"})
    <3>1. Worded(m) BY <2>2 DEF Reads, Worded
    <3>2. PICK more : more = {"malaysia_emergency_services_999"}
                         \cup (IF Reads(m, {"fire_words"}) THEN {"fire_and_rescue"} ELSE {})
      OBVIOUS
    <3>3. PICK a : a = Added(injured, Alarm, more) OBVIOUS
    <3>4. Floor(injured, a, m) /\ Keeps(injured, a) BY <1>2, <3>1, <3>3, AddedFloor DEF Floor
    <3>5. "active_danger" \in a.signals
      BY <1>2, <3>3 DEF Added, Alarm, Floor, IsSituation, SituationFields
    <3>6. danger = [a EXCEPT !.family = "safety_emergency", !.phase = "ongoing",
                             !.severity = "critical"]
      BY <1>3, <2>2, <3>2, <3>3
    <3> QED BY <3>4, <3>5, <3>6 DEF Floor, Keeps, IsSituation, SituationFields, SeverityLevels
  <2> QED BY <2>1, <2>2
<1>5. PICK lost : lost = IF ~Reads(m, {"missing"}) THEN danger
                 ELSE [Added(danger, Lost, {}) EXCEPT
                         !.family = "safeguarding_welfare", !.severity = "critical"]
  OBVIOUS
<1>6. Floor(danger, lost, m) /\ Keeps(danger, lost)
  <2>1. PICK a : a = Added(danger, Lost, {}) OBVIOUS
  <2>2. "active_danger" \notin Lost BY DEF Lost
  <2>3. Floor(danger, a, m) /\ Keeps(danger, a) BY <1>4, <2>1, <2>2, AddedFloor DEF Floor
  <2>4. lost = danger \/ lost = [a EXCEPT !.family = "safeguarding_welfare", !.severity = "critical"]
    BY <1>5, <2>1
  <2> QED BY <1>4, <2>3, <2>4 DEF Floor, Keeps, IsSituation, SituationFields, SeverityLevels
<1>7. PICK cyber : cyber = IF ~Reads(m, {"cyber"}) THEN lost
                 ELSE [Added(lost, {"personal_data_involved", "data_security_incident",
                                    "evidence_preservation_needed"}, {})
                         EXCEPT !.family = "cyber_data"]
  OBVIOUS
<1>8. Floor(lost, cyber, m) /\ Keeps(lost, cyber)
  <2>1. PICK a : a = Added(lost, {"personal_data_involved", "data_security_incident",
                                  "evidence_preservation_needed"}, {}) OBVIOUS
  <2>2. "active_danger" \notin {"personal_data_involved", "data_security_incident",
                                "evidence_preservation_needed"} OBVIOUS
  <2>3. Floor(lost, a, m) /\ Keeps(lost, a) BY <1>6, <2>1, <2>2, AddedFloor DEF Floor
  <2>4. cyber = lost \/ cyber = [a EXCEPT !.family = "cyber_data"] BY <1>7, <2>1
  <2> QED BY <1>6, <2>3, <2>4 DEF Floor, Keeps, IsSituation, SituationFields
<1>9. PICK minor : minor = WithMissingMinor(cyber, m) OBVIOUS
<1>10. Floor(cyber, minor, m) /\ Keeps(cyber, minor) BY <1>8, <1>9, WithMissingMinorFloor DEF Floor
<1>11. PICK bus : bus = WithTransport(minor, m, TRUE) OBVIOUS
<1>12. Floor(minor, bus, m) /\ Keeps(minor, bus) BY <1>10, <1>11, WithTransportFloor DEF Floor
<1>13. PICK public : public = WithAttention(bus, m) OBVIOUS
<1>14. Floor(bus, public, m) /\ Keeps(bus, public) BY <1>12, <1>13, WithAttentionFloor DEF Floor
<1>15. PICK invest : invest = IF ~Reads(m, {"investment"}) THEN public
                 ELSE [Added(public, {"financial_value_involved"}, {})
                         EXCEPT !.family = "finance_procurement"]
  OBVIOUS
<1>16. Floor(public, invest, m) /\ Keeps(public, invest)
  <2>1. PICK a : a = Added(public, {"financial_value_involved"}, {}) OBVIOUS
  <2>2. "active_danger" \notin {"financial_value_involved"} OBVIOUS
  <2>3. Floor(public, a, m) /\ Keeps(public, a) BY <1>14, <2>1, <2>2, AddedFloor DEF Floor
  <2>4. invest = public \/ invest = [a EXCEPT !.family = "finance_procurement"] BY <1>15, <2>1
  <2> QED BY <1>14, <2>3, <2>4 DEF Floor, Keeps, IsSituation, SituationFields
<1>17. SafetyFloors(s, m) = WithFacets(invest, FacetsOf(m))
  BY <1>1, <1>3, <1>5, <1>7, <1>9, <1>11, <1>13, <1>15 DEF SafetyFloors
<1>18. /\ Floor(invest, SafetyFloors(s, m), m) /\ Keeps(invest, SafetyFloors(s, m))
  BY <1>16, <1>17, WithFacetsFloor DEF Floor
<1>19. Floor(s, danger, m) BY <1>2, <1>4, FloorsChain
<1>20. Floor(s, cyber, m) BY <1>6, <1>8, <1>19, FloorsChain
<1>21. Floor(s, public, m) BY <1>10, <1>12, <1>14, <1>20, FloorsChain
<1>22. Floor(s, SafetyFloors(s, m), m) BY <1>16, <1>18, <1>21, FloorsChain
<1>23. Keeps(danger, SafetyFloors(s, m))
  BY <1>6, <1>8, <1>10, <1>12, <1>14, <1>16, <1>18 DEF Keeps
<1> QED BY <1>2, <1>4, <1>22, <1>23 DEF Keeps

\* No rule of the lexical fallback makes a danger.
LEMMA LexicalRulesMakeNoDanger ==
  \A r \in Range(LexicalRules) : "active_danger" \notin r.signals
<1>1. ASSUME NEW a, NEW b, NEW c, "active_danger" \notin b
      PROVE  "active_danger" \notin Rule(a, b, c).signals
  BY <1>1 DEF Rule
<1>2. DOMAIN LexicalRules = 1..12 BY DEF LexicalRules
<1>3. \A i \in 1..12 : \/ i = 1 \/ i = 2 \/ i = 3 \/ i = 4 \/ i = 5 \/ i = 6
                       \/ i = 7 \/ i = 8 \/ i = 9 \/ i = 10 \/ i = 11 \/ i = 12
  OBVIOUS
<1>4. /\ "active_danger" \notin LexicalRules[1].signals
      /\ "active_danger" \notin LexicalRules[2].signals
      /\ "active_danger" \notin LexicalRules[3].signals
  BY <1>1 DEF LexicalRules
<1>5. /\ "active_danger" \notin LexicalRules[4].signals
      /\ "active_danger" \notin LexicalRules[5].signals
      /\ "active_danger" \notin LexicalRules[6].signals
  BY <1>1 DEF LexicalRules
<1>6. /\ "active_danger" \notin LexicalRules[7].signals
      /\ "active_danger" \notin LexicalRules[8].signals
      /\ "active_danger" \notin LexicalRules[9].signals
  BY <1>1 DEF LexicalRules
<1>7. /\ "active_danger" \notin LexicalRules[10].signals
      /\ "active_danger" \notin LexicalRules[11].signals
      /\ "active_danger" \notin LexicalRules[12].signals
  BY <1>1 DEF LexicalRules
<1> QED BY <1>2, <1>3, <1>4, <1>5, <1>6, <1>7 DEF Range

\* The fallback makes no danger and takes none back.
LEMMA LexicalFloorsFloor ==
  ASSUME NEW m, NEW s, IsSituation(s)
  PROVE  Floor(s, LexicalFloors(s, m), m) /\ Keeps(s, LexicalFloors(s, m))
<1>1. PICK found : found = {r \in Range(LexicalRules) : Holds(r, m)} OBVIOUS
<1>2. PICK signals : signals = UNION {r.signals : r \in found} OBVIOUS
<1>3. "active_danger" \notin signals BY <1>1, <1>2, LexicalRulesMakeNoDanger
<1>4. PICK all : all = Added(s, signals, UNION {r.stakeholders : r \in found}) OBVIOUS
<1>5. Floor(s, all, m) /\ Keeps(s, all) BY <1>3, <1>4, AddedFloor
<1>6. \E named, st, sub :
        /\ "active_danger" \notin sub
        /\ LexicalFloors(s, m) = [all EXCEPT !.family = named, !.signals = all.signals \ sub,
                                             !.stakeholders = st]
  <2>1. PICK sub : sub = (IF Reads(m, {"discipline_words", "theft_words"})
                          THEN {"financial_value_involved"} ELSE {})
    OBVIOUS
  <2>2. "active_danger" \notin sub BY <2>1
  <2>3. \E named, st :
          LexicalFloors(s, m) = [all EXCEPT !.family = named, !.signals = all.signals \ sub,
                                             !.stakeholders = st]
    <3>1. DOMAIN all = SituationFields BY <1>5 DEF Floor, IsSituation
    <3>2. LexicalFloors(s, m) = [all EXCEPT
              !.family = FoldLeft(LAMBDA f, r :
                 IF r.read \in m.reads /\ (r.of = {} \/ f \in r.of) THEN r.is ELSE f,
                 s.family, LexicalFamilies),
              !.signals = @ \ sub,
              !.stakeholders = IF Reads(m, {"fire_words"}) THEN @ \cup {"fire_and_rescue"}
                         ELSE @ \ {"fire_and_rescue"}]
      BY <1>1, <1>2, <1>4, <2>1 DEF LexicalFloors
    <3>3. PICK named : named = FoldLeft(LAMBDA f, r :
                 IF r.read \in m.reads /\ (r.of = {} \/ f \in r.of) THEN r.is ELSE f,
                 s.family, LexicalFamilies)
      OBVIOUS
    <3> QED BY <3>1, <3>2, <3>3 DEF SituationFields
  <2> QED BY <2>2, <2>3
<1> QED BY <1>5, <1>6 DEF Floor, Keeps, IsSituation, SituationFields

\* What runs without a classification, and what runs with one.
LEMMA SafeFallbacksFloor ==
  ASSUME NEW m, NEW s, IsSituation(s)
  PROVE  /\ Floor(s, SafeFallbacks(s, m), m) /\ Keeps(s, SafeFallbacks(s, m))
         /\ "active" \in m.reads => "active_danger" \in SafeFallbacks(s, m).signals
<1>1. PICK t : t = SafetyFloors(s, m) OBVIOUS
<1>2. /\ Floor(s, t, m) /\ Keeps(s, t)
      /\ "active" \in m.reads => "active_danger" \in t.signals
  BY <1>1, SafetyFloorsFloor
<1>3. Floor(t, LexicalFloors(t, m), m) /\ Keeps(t, LexicalFloors(t, m))
  BY <1>2, LexicalFloorsFloor DEF Floor
<1>4. SafeFallbacks(s, m) = t \/ SafeFallbacks(s, m) = LexicalFloors(t, m)
  BY <1>1 DEF SafeFallbacks
<1> QED BY <1>2, <1>3, <1>4, FloorsChain DEF Keeps

\* The words speak of a danger, and it is no administrative request.
Speaks(m) == "active" \in m.reads /\ ~(m.checked /\ "nonincident" \in m.reads)

\* The stages of the corroboration make no danger, and none of them takes back one
\* the words speak of.
LEMMA KeptFloor ==
  ASSUME NEW m, NEW s, IsSituation(s), NEW kept,
         kept = IF m.checked THEN s
              ELSE [s EXCEPT
                      !.signals = @ \ Unsupported(m),
                      !.family = IF FamilySupported(@, m) THEN @
                                 ELSE "general_school_admin"]
  PROVE  Floor(s, kept, m) /\ (Speaks(m) => Keeps(s, kept))
<1>1. CASE m.checked BY <1>1 DEF Floor, Keeps
<1>2. CASE ~m.checked
  <2>1. Speaks(m) => "active_danger" \notin Unsupported(m)
    BY DEF Speaks, Unsupported, Supports, Reads
  <2>2. PICK u : u = Unsupported(m) OBVIOUS
  <2>3. \E f : kept = [s EXCEPT !.signals = s.signals \ u, !.family = f]
    BY <1>2, <2>2 DEF IsSituation, SituationFields
  <2> QED BY <2>1, <2>2, <2>3 DEF Floor, Keeps, IsSituation, SituationFields
<1> QED BY <1>1, <1>2

\* An administrative request is stood down, not one whose words speak of a danger.
LEMMA StandDownFloor ==
  ASSUME NEW m, NEW s, IsSituation(s)
  PROVE  Floor(s, StandDown(s, m), m) /\ (Speaks(m) => Keeps(s, StandDown(s, m)))
<1>1. CASE ~(m.checked /\ Reads(m, {"nonincident"}))
  BY <1>1 DEF Floor, Keeps, StandDown
<1>2. CASE m.checked /\ Reads(m, {"nonincident"})
  <2>1. ~Speaks(m) BY <1>2 DEF Speaks, Reads
  <2>2. \E sub, f, st : StandDown(s, m) = [s EXCEPT !.signals = s.signals \ sub, !.family = f,
                                          !.severity = "low", !.stakeholders = st]
    BY <1>2 DEF StandDown, IsSituation, SituationFields
  <2> QED BY <2>1, <2>2 DEF Floor, Keeps, IsSituation, SituationFields, SeverityLevels
<1> QED BY <1>1, <1>2

\* A false rumour is, unless the words speak of a danger.
LEMMA OnlyRumourFloor ==
  ASSUME NEW m, NEW s, IsSituation(s)
  PROVE  Floor(s, OnlyRumour(s, m), m) /\ (Speaks(m) => Keeps(s, OnlyRumour(s, m)))
<1>1. CASE ~Reads(m, {"false_rumour"}) \/ Material(m)
  BY <1>1 DEF Floor, Keeps, OnlyRumour
<1>2. CASE ~(~Reads(m, {"false_rumour"}) \/ Material(m))
  <2>1. ~Speaks(m) BY <1>2 DEF Speaks, Material, ReadsAny
  <2>2. PICK more : more = {"public_interest"}
                      \cup (IF Reads(m, {"student"}) THEN {"minor_involved"} ELSE {})
    OBVIOUS
  <2>3. "active_danger" \notin more BY <2>2
  <2>4. \E st : OnlyRumour(s, m) = [s EXCEPT
          !.family = "communications_reputation", !.severity = "medium",
          !.signals = (s.signals \ Incident) \cup more, !.stakeholders = st]
    BY <1>2, <2>2 DEF OnlyRumour, IsSituation, SituationFields
  <2> QED BY <2>1, <2>3, <2>4 DEF Floor, Keeps, IsSituation, SituationFields, SeverityLevels
<1> QED BY <1>1, <1>2

\* So is a contained incident.
LEMMA ContainedFloor ==
  ASSUME NEW m, NEW s, IsSituation(s)
  PROVE  Floor(s, Contained(s, m), m) /\ (Speaks(m) => Keeps(s, Contained(s, m)))
<1>1. PICK c \in BOOLEAN : c = (/\ m.checked /\ s.severity \in {"high", "critical"} /\ ~Urgent(m)
       /\ \/ m.settled = "hazard"
          \/ m.settled = "people" /\ "active_danger" \notin s.signals)
  OBVIOUS
<1>2. CASE ~c BY <1>1, <1>2 DEF Floor, Keeps, Contained
<1>3. CASE c
  <2>1. ~Speaks(m) BY <1>1, <1>3 DEF Speaks, Urgent, ReadsAny
  <2>2. PICK w \in SeverityLevels : w = IF Material(m) THEN "medium" ELSE "low"
    BY DEF SeverityLevels
  <2>3. \E sub, st : Contained(s, m) = [s EXCEPT !.severity = w, !.signals = s.signals \ sub,
                                        !.stakeholders = st]
    BY <1>1, <1>3, <2>2 DEF Contained, IsSituation, SituationFields
  <2> QED BY <2>1, <2>3 DEF Floor, Keeps, IsSituation, SituationFields
<1> QED BY <1>2, <1>3

\* The ceiling without a classifier touches no danger.
LEMMA CeilingFloor ==
  ASSUME NEW m, NEW s, IsSituation(s)
  PROVE  Floor(s, Ceiling(s, m), m) /\ Keeps(s, Ceiling(s, m))
<1>1. CASE m.checked BY <1>1 DEF Floor, Keeps, Ceiling
<1>2. CASE ~m.checked
  <2>1. PICK w \in SeverityLevels :
          w = IF s.severity \in {"high", "critical"} /\ ~Urgent(m)
              THEN IF Material(m) THEN "medium" ELSE "low" ELSE s.severity
    BY DEF SeverityLevels, IsSituation
  <2>2. \E st : Ceiling(s, m) = [s EXCEPT !.severity = w, !.stakeholders = st]
    BY <1>2, <2>1 DEF Ceiling, IsSituation, SituationFields
  <2> QED BY <2>2 DEF Floor, Keeps, IsSituation, SituationFields
<1> QED BY <1>1, <1>2

\* What the words do not corroborate is left out, a danger they report is not.
LEMMA CorroboratedFloor ==
  ASSUME NEW m, NEW s, IsSituation(s)
  PROVE  Floor(s, Corroborated(s, m), m) /\ (Speaks(m) => Keeps(s, Corroborated(s, m)))
<1>1. PICK kept : kept = IF m.checked THEN s
              ELSE [s EXCEPT
                      !.signals = @ \ Unsupported(m),
                      !.family = IF FamilySupported(@, m) THEN @
                                 ELSE "general_school_admin"]
  OBVIOUS
<1>2. Floor(s, kept, m) /\ (Speaks(m) => Keeps(s, kept)) BY <1>1, KeptFloor
<1>3. PICK down : down = StandDown(kept, m) OBVIOUS
<1>4. Floor(kept, down, m) /\ (Speaks(m) => Keeps(kept, down))
  BY <1>2, <1>3, StandDownFloor DEF Floor
<1>5. PICK rumour : rumour = OnlyRumour(down, m) OBVIOUS
<1>6. Floor(down, rumour, m) /\ (Speaks(m) => Keeps(down, rumour))
  BY <1>4, <1>5, OnlyRumourFloor DEF Floor
<1>7. PICK over : over = Contained(rumour, m) OBVIOUS
<1>8. Floor(rumour, over, m) /\ (Speaks(m) => Keeps(rumour, over))
  BY <1>6, <1>7, ContainedFloor DEF Floor
<1>9. Floor(over, Ceiling(over, m), m) /\ Keeps(over, Ceiling(over, m))
  BY <1>8, CeilingFloor DEF Floor
<1>10. Corroborated(s, m) = Ceiling(over, m)
  BY <1>1, <1>3, <1>5, <1>7 DEF Corroborated
<1>11. Floor(s, down, m) BY <1>2, <1>4, FloorsChain
<1>12. Floor(s, over, m) BY <1>6, <1>8, <1>11, FloorsChain
<1> QED BY <1>2, <1>4, <1>6, <1>8, <1>9, <1>10, <1>12, FloorsChain DEF Keeps

\* The floors once more: nothing takes a danger back, and the facets' is added.
LEMMA ReappliedFloor ==
  ASSUME NEW m, NEW s, IsSituation(s)
  PROVE  /\ Floor(s, Reapplied(s, m), m) /\ Keeps(s, Reapplied(s, m))
         /\ "active_danger" \in FacetsOf(m).signals
              => "active_danger" \in Reapplied(s, m).signals
<1>1. PICK f : f = FacetsOf(m) OBVIOUS
<1>2. "active_danger" \notin f.drop BY <1>1, FacetsOfIsSound
<1>3. PICK a : a = WithFacets(s, f) OBVIOUS
<1>4. /\ Floor(s, a, m) /\ Keeps(s, a)
      /\ "active_danger" \in f.signals => "active_danger" \in a.signals
  BY <1>1, <1>3, WithFacetsFloor
<1>5. PICK closed : closed = [a EXCEPT !.signals = @ \ f.drop] OBVIOUS
<1>6. Floor(a, closed, m) /\ Keeps(a, closed)
  BY <1>2, <1>4, <1>5 DEF Floor, Keeps, IsSituation, SituationFields
<1>7. PICK minor : minor = WithMissingMinor(closed, m) OBVIOUS
<1>8. Floor(closed, minor, m) /\ Keeps(closed, minor)
  BY <1>6, <1>7, WithMissingMinorFloor DEF Floor
<1>9. PICK bus : bus = WithTransport(minor, m, FALSE) OBVIOUS
<1>10. Floor(minor, bus, m) /\ Keeps(minor, bus)
  BY <1>8, <1>9, WithTransportFloor DEF Floor
<1>11. Floor(bus, WithAttention(bus, m), m) /\ Keeps(bus, WithAttention(bus, m))
  BY <1>10, WithAttentionFloor DEF Floor
<1>12. Reapplied(s, m) = WithAttention(bus, m)
  BY <1>1, <1>3, <1>5, <1>7, <1>9 DEF Reapplied
<1>13. Floor(s, closed, m) BY <1>4, <1>6, FloorsChain
<1>14. Floor(s, bus, m) BY <1>8, <1>10, <1>13, FloorsChain
<1> QED BY <1>1, <1>4, <1>6, <1>8, <1>10, <1>11, <1>12, <1>14, FloorsChain DEF Keeps

\* A danger after the floors was there before or is worded; a reported one is there.
LEMMA FlooredHears ==
  ASSUME NEW m, NEW s, IsSituation(s)
  PROVE  /\ Floor(s, Floored(s, m), m)
         /\ Reported(m) => "active_danger" \in Floored(s, m).signals
<1>1. PICK a : a = [s EXCEPT !.people = s.people \cup (m.reads \cap {"student", "staff"})]
  OBVIOUS
<1>2. Floor(s, a, m) BY <1>1 DEF Floor, IsSituation, SituationFields
<1>3. PICK b : b = SafeFallbacks(a, m) OBVIOUS
<1>4. Floor(a, b, m) /\ ("active" \in m.reads => "active_danger" \in b.signals)
  BY <1>2, <1>3, SafeFallbacksFloor DEF Floor
<1>5. PICK c : c = Corroborated(b, m) OBVIOUS
<1>6. Floor(b, c, m) /\ (Speaks(m) => Keeps(b, c))
  BY <1>4, <1>5, CorroboratedFloor DEF Floor
<1>7. PICK d : d = Reapplied(c, m) OBVIOUS
<1>8. /\ Floor(c, d, m) /\ Keeps(c, d)
      /\ "active_danger" \in FacetsOf(m).signals => "active_danger" \in d.signals
  BY <1>6, <1>7, ReappliedFloor DEF Floor
<1>9. Floored(s, m) = d BY <1>1, <1>3, <1>5, <1>7 DEF Floored
<1>10. Floor(s, b, m) BY <1>2, <1>4, FloorsChain
<1>11. Floor(s, d, m) BY <1>6, <1>8, <1>10, FloorsChain
<1>12. ASSUME Reported(m) PROVE "active_danger" \in d.signals
  <2>1. CASE "active" \in m.reads
    <3>1. Speaks(m) BY <1>12, <2>1 DEF Reported, Speaks
    <3> QED BY <1>4, <1>6, <1>8, <2>1, <3>1 DEF Keeps
  <2>2. CASE "active" \notin m.reads
    BY <1>8, <1>12, <2>2 DEF Reported, Worded
  <2> QED BY <2>1, <2>2
<1> QED BY <1>9, <1>11, <1>12

\* What an active danger brings with it in a situation.
FloorMet(s) ==
  "active_danger" \in s.signals => s.severity = "critical" /\ EmergencyNumber \in s.stakeholders

\* What a later stage of the compiler leaves alone.
SameRecord(s, t) ==
  /\ IsSituation(t) /\ t.facts = s.facts /\ t.texts = s.texts
  /\ t.outputs = s.outputs /\ t.registry = s.registry

\* The danger answer makes or ends a danger, and nothing else does here.
LEMMA WithAnswerStep ==
  ASSUME NEW s, IsSituation(s), NEW a
  PROVE  /\ SameRecord(s, WithAnswer(s, a))
         /\ "active_danger" \in WithAnswer(s, a).signals
              => a # "no" /\ (a = "yes" \/ "active_danger" \in s.signals)
         /\ a \notin {"yes", "no", "unknown"} => WithAnswer(s, a) = s
<1>1. CASE a = "yes"
  BY <1>1 DEF WithAnswer, SameRecord, IsSituation, SituationFields, SeverityLevels
<1>2. CASE a = "no"
  BY <1>2 DEF WithAnswer, SameRecord, IsSituation, SituationFields, SeverityLevels
<1>3. CASE a = "unknown"
  BY <1>3 DEF WithAnswer, SameRecord, IsSituation, SituationFields, SeverityLevels
<1>4. CASE a \notin {"yes", "no", "unknown"}
  BY <1>4 DEF WithAnswer, SameRecord
<1> QED BY <1>1, <1>2, <1>3, <1>4

\* The floors of a situation: a danger is critical and has the emergency number, and
\* only words that nobody knows take one back.
LEMMA WithFloorsStep ==
  ASSUME NEW s, IsSituation(s), NEW m
  PROVE  /\ SameRecord(s, WithFloors(s, m)) /\ FloorMet(WithFloors(s, m))
         /\ "active_danger" \in WithFloors(s, m).signals => "active_danger" \in s.signals
         /\ "active_danger" \in s.signals /\ ~m.lifeUnknown
              => "active_danger" \in WithFloors(s, m).signals
<1> DEFINE pupil == \/ "minor_involved" \in s.signals \/ Reads(m, {"physical_minor"})
                    \/ "student" \in s.people /\ ~Reads(m, {"physical"})
           hurt == IF ~("injury_or_illness" \in s.signals) THEN s
            ELSE [s EXCEPT
                    !.signals = @ \cup (IF pupil THEN {"minor_involved"} ELSE {}),
                    !.stakeholders = @ \cup {"medical_services"} \cup
                       (IF pupil THEN {"guardian"} ELSE {}),
                    !.severity = IF @ = "unknown" THEN "medium" ELSE @]
           unheard(x) == IF m.lifeUnknown THEN [x EXCEPT !.signals = @ \ {"active_danger"}] ELSE x
           alarmed(x) == IF "active_danger" \notin x.signals THEN x
            ELSE [x EXCEPT
                    !.signals = @ \cup {"external_help_may_be_required"},
                    !.stakeholders = @ \cup {EmergencyNumber},
                    !.severity = "critical", !.phase = "ongoing"]
           open(x) == IF m.lifeUnknown /\ x.signals \cap {"injury_or_illness",
                                "safeguarding_concern", "person_missing"} # {}
            THEN [x EXCEPT !.signals = @ \cup {"external_help_may_be_required"},
                            !.severity = Worse(@, "high")]
            ELSE x
           grave(x) == IF x.severity \notin Grave THEN x
     ELSE [x EXCEPT !.signals = @ \cup {"possible_regulatory_trigger"},
                     !.stakeholders = @ \cup {"school_leadership",
                                              "education_authority"}]
<1>1. WithFloors(s, m) = grave(open(alarmed(unheard(hurt)))) BY DEF WithFloors
<1>2. PICK s1 : s1 = hurt OBVIOUS
<1>3. SameRecord(s, s1) /\ ("active_danger" \in s1.signals <=> "active_danger" \in s.signals)
  BY <1>2 DEF SameRecord, IsSituation, SituationFields, SeverityLevels
<1>4. PICK s2 : s2 = unheard(s1) OBVIOUS
<1>5. /\ SameRecord(s1, s2) /\ ("active_danger" \in s2.signals => "active_danger" \in s1.signals)
      /\ ~m.lifeUnknown => s2 = s1
  BY <1>3, <1>4 DEF SameRecord, IsSituation, SituationFields
<1>6. PICK s3 : s3 = alarmed(s2) OBVIOUS
<1>7. /\ SameRecord(s2, s3) /\ FloorMet(s3)
      /\ "active_danger" \in s3.signals <=> "active_danger" \in s2.signals
  BY <1>5, <1>6 DEF SameRecord, IsSituation, SituationFields, SeverityLevels, FloorMet
<1>8. PICK s4 : s4 = open(s3) OBVIOUS
<1>9. /\ SameRecord(s3, s4) /\ FloorMet(s4)
      /\ "active_danger" \in s4.signals <=> "active_danger" \in s3.signals
  <2>1. PICK w : w = Worse(s3.severity, "high") OBVIOUS
  <2>2. w \in SeverityLevels /\ (s3.severity = "critical" => w = "critical")
    BY <1>7, <2>1, WorseKeeps DEF SameRecord, IsSituation, SeverityLevels
  <2>3. \/ s4 = s3
        \/ s4 = [s3 EXCEPT !.signals = s3.signals \cup {"external_help_may_be_required"},
                           !.severity = w]
    BY <1>8, <2>1
  <2>4. CASE s4 = s3 BY <1>7, <2>4 DEF SameRecord
  <2>5. CASE s4 = [s3 EXCEPT !.signals = s3.signals \cup {"external_help_may_be_required"},
                           !.severity = w]
    <3>1. /\ DOMAIN s4 = SituationFields /\ s4.severity = w
          /\ s4.facts = s3.facts /\ s4.texts = s3.texts /\ s4.stakeholders = s3.stakeholders
          /\ s4.outputs = s3.outputs /\ s4.registry = s3.registry
      BY <1>7, <2>5 DEF SameRecord, IsSituation, SituationFields
    <3>2. s4.signals = s3.signals \cup {"external_help_may_be_required"}
      BY <1>7, <2>5 DEF SameRecord, IsSituation, SituationFields
    <3> QED BY <1>7, <2>2, <3>1, <3>2 DEF SameRecord, IsSituation, FloorMet
  <2> QED BY <2>3, <2>4, <2>5
<1>10. PICK s5 : s5 = grave(s4) OBVIOUS
<1>11. /\ SameRecord(s4, s5) /\ FloorMet(s5)
       /\ "active_danger" \in s5.signals <=> "active_danger" \in s4.signals
  BY <1>9, <1>10 DEF SameRecord, IsSituation, SituationFields, FloorMet
<1> HIDE DEF hurt, unheard, alarmed, open, grave
<1>12. WithFloors(s, m) = s5 BY <1>1, <1>2, <1>4, <1>6, <1>8, <1>10
<1> QED BY <1>3, <1>5, <1>7, <1>9, <1>11, <1>12 DEF SameRecord

\* A sequence, whatever it holds.
Listed(q) == q \in Seq(Range(q))

\* A sequence over any set is one.
LEMMA ListedFrom ==
  ASSUME NEW T, NEW q \in Seq(T)
  PROVE  Listed(q)
<1>1. PICK n \in Nat : n = Len(q) OBVIOUS
<1>2. q \in [1..n -> T] BY <1>1
<1>3. \A i \in 1..n : q[i] \in Range(q) BY <1>2 DEF Range
<1>4. q \in [1..n -> Range(q)] BY <1>2, <1>3
<1> QED BY <1>4 DEF Listed

\* It has a length, and its elements are its range.
LEMMA ListedHas ==
  ASSUME NEW q, Listed(q)
  PROVE  /\ q \in Seq(Range(q)) /\ Len(q) \in Nat /\ DOMAIN q = 1..Len(q)
         /\ q \in [1..Len(q) -> Range(q)]
BY DEF Listed

\* A function on the first numbers is a sequence.
LEMMA NumberedListed ==
  ASSUME NEW n \in Nat, NEW f, DOMAIN f = 1..n, f = [i \in 1..n |-> f[i]]
  PROVE  Listed(f) /\ Len(f) = n
<1>1. f \in [1..n -> Range(f)] BY DEF Range
<1>2. f \in Seq(Range(f)) BY <1>1
<1> QED BY <1>1, <1>2 DEF Listed

\* What is left of a sequence by a filter is one.
LEMMA FilteredListed ==
  ASSUME NEW q, Listed(q), NEW keep
  PROVE  Listed(Filtered(q, keep))
<1>1. PICK T : T = Range(q) OBVIOUS
<1>2. q \in Seq(T) BY <1>1 DEF Listed
<1>3. Filtered(q, keep) \in Seq(T) BY <1>2, FilteredKeeps
<1> QED BY <1>3, ListedFrom

\* So are two sequences one after the other.
LEMMA JoinListed ==
  ASSUME NEW a, Listed(a), NEW b, Listed(b)
  PROVE  Listed(a \o b)
<1>1. PICK T : T = Range(a) \cup Range(b) OBVIOUS
<1>2. a \in [1..Len(a) -> T] /\ Len(a) \in Nat BY <1>1, ListedHas
<1>3. b \in [1..Len(b) -> T] /\ Len(b) \in Nat BY <1>1, ListedHas
<1>4. a \in Seq(T) /\ b \in Seq(T) BY <1>2, <1>3
<1>5. a \o b \in Seq(T) BY <1>4
<1> QED BY <1>5, ListedFrom

\* The largest of some numbers that have a bound is one of them.
LEMMA MaxIn ==
  ASSUME NEW n \in Nat, NEW S, S \subseteq 0..n, S # {}
  PROVE  Max(S) \in S
<1>1. PICK D : D = {n - x : x \in S} OBVIOUS
<1>2. D \subseteq Nat /\ D # {}
  <2>1. \A x \in S : n - x \in Nat OBVIOUS
  <2>2. PICK x : x \in S OBVIOUS
  <2>3. n - x \in D BY <1>1, <2>2
  <2> QED BY <1>1, <2>1, <2>3
<1>3. PICK d \in D : \A e \in D : ~(<<e, d>> \in OpToRel(<, Nat))
  BY <1>2, NatLessThanWellFounded, WFMin
<1>4. PICK x \in S : d = n - x BY <1>1, <1>3
<1>5. ASSUME NEW y \in S PROVE x >= y
  <2>1. n - y \in D BY <1>1
  <2>2. n - y \in Nat /\ d \in Nat BY <1>2, <1>3, <2>1
  <2>3. ~(n - y < d) BY <1>3, <2>1, <2>2 DEF OpToRel
  <2>4. x \in 0..n /\ y \in 0..n OBVIOUS
  <2> QED BY <1>4, <2>3, <2>4
<1>6. \E z \in S : \A y \in S : z >= y BY <1>5
<1>7. Max(S) = CHOOSE z \in S : \A y \in S : z >= y BY DEF Max
<1> QED BY <1>6, <1>7

\* The last entries of a registry are a registry.
LEMMA LastOfListed ==
  ASSUME NEW q, Listed(q)
  PROVE  Listed(LastOf(q))
<1>1. PICK n \in Nat : n = Len(q) BY ListedHas
<1>2. PICK k : k = Max({0, n - MaxRegistry}) OBVIOUS
<1>3. k \in 0..n
  <2>1. MaxRegistry \in Nat BY LimitsAssumption
  <2>2. CASE n - MaxRegistry >= 0
    <3>1. {0, n - MaxRegistry} \subseteq 0..n BY <2>1, <2>2
    <3>2. k \in {0, n - MaxRegistry} BY <1>2, <3>1, MaxIn
    <3> QED BY <3>1, <3>2
  <2>3. CASE ~(n - MaxRegistry >= 0)
    <3>1. PICK S : S = {0, n - MaxRegistry} OBVIOUS
    <3>2. \A y \in S : 0 >= y BY <2>1, <2>3, <3>1
    <3>3. 0 \in S BY <3>1
    <3>4. Max(S) = CHOOSE z \in S : \A y \in S : z >= y BY DEF Max
    <3>5. \A z \in S : (\A y \in S : z >= y) => z = 0 BY <2>1, <2>3, <3>1
    <3>6. Max(S) = 0 BY <3>2, <3>3, <3>4, <3>5
    <3> QED BY <1>2, <3>1, <3>6
  <2> QED BY <2>2, <2>3
<1>4. LastOf(q) = SubSeq(q, 1 + k, n) BY <1>1, <1>2 DEF LastOf
<1>5. PICK T : T = Range(q) OBVIOUS
<1>6. q \in Seq(T) BY <1>5 DEF Listed
<1>7. SubSeq(q, 1 + k, n) \in Seq(T) BY <1>1, <1>3, <1>6
<1> QED BY <1>4, <1>7, ListedFrom

\* The first outputs of their roles are a sequence.
LEMMA OnePerRoleListed ==
  ASSUME NEW outputs, Listed(outputs)
  PROVE  Listed(OnePerRole(outputs))
<1>1. PICK numbers : numbers = [i \in DOMAIN outputs |-> i] OBVIOUS
<1>2. PICK keep : keep = {Min({i \in DOMAIN outputs : outputs[i].role = r}) :
                             r \in RolesOf(outputs)}
  OBVIOUS
<1>3. PICK firsts : firsts = Filtered(numbers, keep) OBVIOUS
<1>4. Listed(firsts)
  <2>1. PICK n \in Nat : DOMAIN outputs = 1..n BY ListedHas
  <2>2. DOMAIN numbers = 1..n /\ numbers = [i \in 1..n |-> numbers[i]] BY <1>1, <2>1
  <2>3. Listed(numbers) BY <2>2, NumberedListed
  <2> QED BY <1>3, <2>3, FilteredListed
<1>5. PICK g : g = OnePerRole(outputs) OBVIOUS
<1>6. g = [k \in DOMAIN firsts |-> outputs[firsts[k]]]
  BY <1>1, <1>2, <1>3, <1>5 DEF OnePerRole
<1>7. PICK n \in Nat : DOMAIN firsts = 1..n BY <1>4, ListedHas
<1>8. DOMAIN g = 1..n /\ g = [i \in 1..n |-> g[i]] BY <1>6, <1>7
<1> QED BY <1>5, <1>8, NumberedListed

\* The registry of a sequence of artifacts is a sequence.
LEMMA RegisteredListed ==
  ASSUME NEW outputs, Listed(outputs)
  PROVE  Listed(Registered(outputs))
<1>1. PICK ones : ones = OnePerRole(outputs) OBVIOUS
<1>2. PICK g : g = Registered(outputs) OBVIOUS
<1>3. PICK n \in Nat : DOMAIN ones = 1..n BY <1>1, OnePerRoleListed, ListedHas
<1>4. DOMAIN g = 1..n /\ g = [i \in 1..n |-> g[i]] BY <1>1, <1>2, <1>3 DEF Registered
<1> QED BY <1>2, <1>4, NumberedListed

\* So is a registry with the files of a pack.
LEMMA WithFilesListed ==
  ASSUME NEW registry, Listed(registry), NEW files
  PROVE  Listed(WithFiles(registry, files))
<1> DEFINE roles == {o.role : o \in files}
           file(r) == CHOOSE o \in files : o.role = r
           Grow(q) == LET new == roles \ RolesOf(q)
                      IN IF new = {} THEN q ELSE Append(q, file(CHOOSE r \in new : TRUE))
<1>1. PICK known : known = [i \in DOMAIN registry |-> IF registry[i].role \in roles
                                          THEN file(registry[i].role) ELSE registry[i]]
  OBVIOUS
<1>2. PICK n \in Nat : DOMAIN registry = 1..n BY ListedHas
<1>3. DOMAIN known = 1..n /\ known = [i \in 1..n |-> known[i]] BY <1>1, <1>2
<1>4. Listed(known) BY <1>3, NumberedListed
<1>5. PICK T : T = Range(known) \cup files OBVIOUS
<1>6. known \in Seq(T)
  <2>1. known \in [1..Len(known) -> T] /\ Len(known) \in Nat BY <1>4, <1>5, ListedHas
  <2> QED BY <2>1
<1>7. ASSUME NEW q \in Seq(T) PROVE Grow(q) \in Seq(T)
  <2>1. CASE roles \ RolesOf(q) = {} BY <2>1
  <2>2. CASE roles \ RolesOf(q) # {}
    <3>1. PICK r : r = CHOOSE x \in roles \ RolesOf(q) : TRUE OBVIOUS
    <3>2. r \in roles BY <2>2, <3>1
    <3>3. file(r) \in files BY <3>2
    <3>4. Append(q, file(r)) \in Seq(T) BY <1>5, <3>3
    <3>5. Grow(q) = Append(q, file(r)) BY <2>2, <3>1
    <3> QED BY <3>4, <3>5
  <2> QED BY <2>1, <2>2
<1> DEFINE Is(f) == f = [i \in 0..MaxRegistry |-> IF i = 0 THEN known ELSE Grow(f[i - 1])]
<1>8. WithFiles(registry, files) = LastOf((CHOOSE f : Is(f))[MaxRegistry])
  BY <1>1 DEF WithFiles
<1> HIDE DEF Grow
<1>9. PICK N \in Nat : N = MaxRegistry BY LimitsAssumption
<1>10. PICK step : step = [i \in 1..N |-> [q \in Seq(T) |-> Grow(q)]] OBVIOUS
<1>11. step \in [1..N -> [Seq(T) -> Seq(T)]] BY <1>7, <1>10
<1>12. PICK f \in [0..N -> Seq(T)] :
         f[0] = known /\ \A i \in 1..N : f[i] = step[i][f[i - 1]]
  <2>1. \E f : Stepwise(f, N, Seq(T), known, step) BY <1>6, <1>11, FoldExists
  <2> QED BY <2>1 DEF Stepwise
<1>13. ASSUME NEW i \in 1..N PROVE f[i] = Grow(f[i - 1])
  <2>1. f[i - 1] \in Seq(T) BY <1>12
  <2> QED BY <1>10, <1>12, <2>1
<1>14. Is(f)
  <2>1. f = [i \in 0..N |-> f[i]] BY <1>12
  <2>2. \A i \in 0..N : f[i] = IF i = 0 THEN known ELSE Grow(f[i - 1]) BY <1>12, <1>13
  <2> QED BY <1>9, <2>1, <2>2
<1>15. PICK c : c = (CHOOSE g : Is(g)) OBVIOUS
<1>16. Is(c) BY <1>14, <1>15
<1>17. c[0] = known /\ \A i \in 1..N : c[i] = Grow(c[i - 1]) BY <1>9, <1>16
<1>18. PICK P : P = {i \in 0..N : c[i] \in Seq(T)} OBVIOUS
<1>19. 0 \in P BY <1>6, <1>9, <1>17, <1>18
<1>20. \A i \in 1..N : i - 1 \in P => i \in P BY <1>7, <1>17, <1>18
<1>21. N \in P
  <2>1. \A i \in 0..N : i \in P BY <1>19, <1>20, Upward
  <2> QED BY <2>1
<1>22. Listed(c[N]) BY <1>18, <1>21, ListedFrom
<1> QED BY <1>8, <1>9, <1>15, <1>22, LastOfListed

\* What a merge restores is a sequence, and so is the registry it leaves.
LEMMA RestoredListed ==
  ASSUME NEW outputs, Listed(outputs), NEW ctx, Listed(ctx.registry), NEW m
  PROVE  /\ Listed(RestorePackWide(outputs, ctx, m))
         /\ Listed(RestoreReferenced(outputs, ctx, m))
         /\ Listed(CaseRegistry(outputs, ctx, m))
<1>1. PICK reg : reg = ctx.registry /\ Listed(reg) OBVIOUS
<1>2. ASSUME NEW q, Listed(q) PROVE Listed([i \in DOMAIN q |-> [q[i] EXCEPT !.asked = TRUE]])
  <2>1. PICK g : g = [i \in DOMAIN q |-> [q[i] EXCEPT !.asked = TRUE]] OBVIOUS
  <2>2. PICK n \in Nat : DOMAIN q = 1..n BY <1>2, ListedHas
  <2>3. DOMAIN g = 1..n /\ g = [i \in 1..n |-> g[i]] BY <2>1, <2>2
  <2> QED BY <2>1, <2>3, NumberedListed
<1>3. Listed(RestorePackWide(outputs, ctx, m))
  <2>1. PICK prior : prior = Filtered(reg, {o \in Range(reg) : ~Excluded(m, o.role)}) OBVIOUS
  <2>2. PICK fresh : fresh = Filtered(outputs,
                      {o \in Range(outputs) : /\ ~Excluded(m, o.role)
                                              /\ o.role # "user_titled_document"
                                              /\ o.role \notin RolesOf(prior)})
    OBVIOUS
  <2>3. Listed(prior) /\ Listed(fresh) BY <1>1, <2>1, <2>2, FilteredListed
  <2>4. PICK back : back = [i \in DOMAIN prior |-> [prior[i] EXCEPT !.asked = TRUE]] OBVIOUS
  <2>5. Listed(back \o OnePerRole(fresh))
    BY <1>2, <2>3, <2>4, OnePerRoleListed, JoinListed
  <2>6. RestorePackWide(outputs, ctx, m) \in {outputs, back \o OnePerRole(fresh)}
    BY <1>1, <2>1, <2>2, <2>4 DEF RestorePackWide
  <2> QED BY <2>5, <2>6
<1>4. Listed(RestoreReferenced(outputs, ctx, m))
  <2>1. PICK wanted :
          wanted = {k \in m.kinds \ (m.notKinds \cup {ArtifactKind(r) : r \in RolesOf(outputs)}) :
                      k \in Referenced(m, ctx)}
    OBVIOUS
  <2>2. PICK back : back = Filtered(reg, {o \in Range(reg) : ArtifactKind(o.role) \in wanted})
    OBVIOUS
  <2>3. Listed(back) BY <1>1, <2>2, FilteredListed
  <2>4. RestoreReferenced(outputs, ctx, m)
          = outputs \o [i \in DOMAIN back |-> [back[i] EXCEPT !.asked = TRUE]]
    BY <1>1, <2>1, <2>2 DEF RestoreReferenced
  <2> QED BY <1>2, <2>3, <2>4, JoinListed
<1>5. Listed(CaseRegistry(outputs, ctx, m))
  <2>1. PICK all : all = reg \o outputs OBVIOUS
  <2>2. PICK kept : kept = IF Has(m, "pack_wide")
              THEN Filtered(all, {o \in Range(all) : ~Excluded(m, o.role)}) ELSE all
    OBVIOUS
  <2>3. Listed(all) BY <1>1, <2>1, JoinListed
  <2>4. Listed(kept) BY <2>2, <2>3, FilteredListed
  <2>5. CaseRegistry(outputs, ctx, m) = LastOf(Registered(kept))
    BY <1>1, <2>1, <2>2 DEF CaseRegistry
  <2> QED BY <2>4, <2>5, RegisteredListed, LastOfListed
<1> QED BY <1>3, <1>4, <1>5

\* And what is left of the outputs when the repeated ones are taken out.
LEMMA FirstsListed ==
  ASSUME NEW outputs, Listed(outputs)
  PROVE  Listed(Firsts(outputs))
<1>1. PICK keep : keep = {o \in Range(outputs) :
                            \A i \in Repeats(outputs) : outputs[i].id # o.id}
  OBVIOUS
<1>2. Firsts(outputs) = Filtered(outputs, keep) BY <1>1 DEF Firsts
<1> QED BY <1>2, FilteredListed

\* Who is affected changes nothing else.
LEMMA PeopledStep ==
  ASSUME NEW s, IsSituation(s), FloorMet(s)
  PROVE  /\ SameRecord(s, Peopled(s)) /\ Peopled(s).signals = s.signals
         /\ FloorMet(Peopled(s))
<1>1. CASE s.people # {} BY <1>1 DEF Peopled, SameRecord
<1>2. CASE s.people = {}
  <2>1. PICK people : Peopled(s) = [s EXCEPT !.people = people] BY <1>2 DEF Peopled
  <2> QED BY <2>1 DEF SameRecord, IsSituation, SituationFields, FloorMet
<1> QED BY <1>1, <1>2

\* A case that is merged in: nothing of it, or the situation of its parent.
Prior(prior) == prior = NoCase \/ (IsSituation(prior.sit) /\ FloorMet(prior.sit))

\* What a merge keeps of both, and what its facts and texts are.
LEMMA MergedStep ==
  ASSUME NEW s, IsSituation(s), FloorMet(s), NEW prior, Prior(prior), NEW m
  PROVE  /\ IsSituation(Merged(s, prior, m)) /\ FloorMet(Merged(s, prior, m))
         /\ prior = NoCase => Merged(s, prior, m) = s
         /\ prior # NoCase =>
              /\ Merged(s, prior, m).facts = MergeFacts(prior.sit.facts, s.facts)
              /\ Merged(s, prior, m).texts = s.texts \cup prior.sit.texts
              /\ SeverityRank(Merged(s, prior, m).severity) >= SeverityRank(prior.sit.severity)
              /\ "active_danger" \in Merged(s, prior, m).signals
                   => "active_danger" \in s.signals \/ "active_danger" \in prior.sit.signals
         /\ "active_danger" \in s.signals => "active_danger" \in Merged(s, prior, m).signals
         /\ Listed(s.outputs) /\ Listed(s.registry)
            /\ (prior = NoCase \/ Listed(prior.registry))
              => Listed(Merged(s, prior, m).outputs) /\ Listed(Merged(s, prior, m).registry)
<1>1. CASE prior = NoCase BY <1>1 DEF Merged
<1>2. CASE prior # NoCase
  <2>1. PICK p : p = prior.sit OBVIOUS
  <2>2. IsSituation(p) /\ FloorMet(p) BY <1>2, <2>1 DEF Prior
  <2>3. PICK w : w = Worse(p.severity, s.severity) OBVIOUS
  <2>4. /\ w \in SeverityLevels /\ SeverityRank(w) >= SeverityRank(p.severity)
        /\ "critical" \in {p.severity, s.severity} => w = "critical"
    BY <2>2, <2>3, WorseKeeps DEF IsSituation
  <2>5. PICK t : t = Merged(s, prior, m) OBVIOUS
  <2>6. t = MergeFollowUp(s, prior, m) BY <1>2, <2>5 DEF Merged
  <2>7. DOMAIN t = SituationFields BY <2>6 DEF MergeFollowUp, IsSituation
  <2>8. t.severity = w BY <2>1, <2>3, <2>6 DEF MergeFollowUp, IsSituation, SituationFields
  <2>9. t.signals = s.signals \cup p.signals
    BY <2>1, <2>6 DEF MergeFollowUp, IsSituation, SituationFields
  <2>10. t.stakeholders = s.stakeholders \cup p.stakeholders
    BY <2>1, <2>6 DEF MergeFollowUp, IsSituation, SituationFields
  <2>11. t.facts = MergeFacts(p.facts, s.facts)
    BY <2>1, <2>6 DEF MergeFollowUp, IsSituation, SituationFields
  <2>12. t.texts = s.texts \cup p.texts
    BY <2>1, <2>6 DEF MergeFollowUp, IsSituation, SituationFields
  <2>13. ASSUME Listed(s.outputs), Listed(prior.registry)
         PROVE  Listed(t.outputs) /\ Listed(t.registry)
    <3>1. PICK o1 : o1 = RestorePackWide(s.outputs, prior, m) OBVIOUS
    <3>2. PICK o2 : o2 = RestoreReferenced(o1, prior, m) OBVIOUS
    <3>3. Listed(o2) BY <2>13, <3>1, <3>2, RestoredListed
    <3>4. PICK rg : rg = CaseRegistry(o2, prior, m) OBVIOUS
    <3>5. Listed(rg) BY <2>13, <3>3, <3>4, RestoredListed
    <3>6. t.outputs = o2 /\ t.registry = rg
      BY <2>6, <3>1, <3>2, <3>4 DEF MergeFollowUp, IsSituation, SituationFields
    <3> QED BY <3>3, <3>5, <3>6
  <2> QED BY <1>2, <2>1, <2>2, <2>4, <2>5, <2>7, <2>8, <2>9, <2>10, <2>11, <2>12, <2>13
          DEF IsSituation, FloorMet
<1> QED BY <1>1, <1>2

\* The answer once more: it makes or ends a danger, and lowers no severity.
LEMMA ReansweredStep ==
  ASSUME NEW s, IsSituation(s), FloorMet(s), NEW a
  PROVE  /\ SameRecord(s, Reanswered(s, a)) /\ FloorMet(Reanswered(s, a))
         /\ SeverityRank(Reanswered(s, a).severity) >= SeverityRank(s.severity)
         /\ "active_danger" \in Reanswered(s, a).signals
              => a # "no" /\ (a = "yes" \/ "active_danger" \in s.signals)
         /\ a \notin {"yes", "no", "unknown"} => Reanswered(s, a) = s
<1>1. SeverityRank(s.severity) \in 1..5 BY Ranks DEF IsSituation, SeverityLevels
<1>2. CASE a = "yes"
  <2>1. SeverityRank("critical") = 5 BY Ranks
  <2>2. PICK t : t = Reanswered(s, a) OBVIOUS
  <2>3. /\ DOMAIN t = SituationFields /\ t.severity = "critical"
        /\ t.facts = s.facts /\ t.texts = s.texts
        /\ t.outputs = s.outputs /\ t.registry = s.registry
        /\ EmergencyNumber \in t.stakeholders
    BY <1>2, <2>2 DEF Reanswered, IsSituation, SituationFields
  <2> QED BY <1>1, <1>2, <2>1, <2>2, <2>3 DEF SameRecord, IsSituation, SeverityLevels, FloorMet
<1>3. CASE a = "no"
  <2>1. PICK t : t = Reanswered(s, a) OBVIOUS
  <2>2. \E sub, st, ph : t = [s EXCEPT !.signals = (s.signals \ {"active_danger"}) \ sub,
                                       !.stakeholders = st, !.phase = ph, !.danger = "no"]
    BY <1>3, <2>1 DEF Reanswered, IsSituation, SituationFields
  <2>3. /\ DOMAIN t = SituationFields /\ t.severity = s.severity
        /\ t.facts = s.facts /\ t.texts = s.texts /\ "active_danger" \notin t.signals
        /\ t.outputs = s.outputs /\ t.registry = s.registry
    BY <2>2 DEF IsSituation, SituationFields
  <2> QED BY <1>1, <1>3, <2>1, <2>3 DEF SameRecord, IsSituation, FloorMet
<1>4. CASE a = "unknown"
  <2>1. PICK w : w = Worse(s.severity, "high") OBVIOUS
  <2>2. /\ w \in SeverityLevels /\ SeverityRank(w) >= SeverityRank(s.severity)
        /\ s.severity = "critical" => w = "critical"
    BY <2>1, WorseKeeps DEF IsSituation, SeverityLevels
  <2>3. PICK t : t = Reanswered(s, a) OBVIOUS
  <2>4. /\ DOMAIN t = SituationFields /\ t.severity = w
        /\ t.facts = s.facts /\ t.texts = s.texts /\ t.stakeholders = s.stakeholders
        /\ t.outputs = s.outputs /\ t.registry = s.registry
        /\ t.signals = s.signals \cup {"external_help_may_be_required"}
    BY <1>4, <2>1, <2>3 DEF Reanswered, IsSituation, SituationFields
  <2> QED BY <1>4, <2>2, <2>3, <2>4 DEF SameRecord, IsSituation, FloorMet
<1>5. CASE a \notin {"yes", "no", "unknown"}
  <2>1. Reanswered(s, a) = s BY <1>5 DEF Reanswered
  <2> QED BY <1>1, <1>5, <2>1 DEF SameRecord
<1> QED BY <1>2, <1>3, <1>4, <1>5

\* What the release of a situation may name: what an answer named, or what the words
\* command under an authority that is not draft-only and do not refuse.
MayRelease(x, m, answer, authority) ==
  \/ answer.q = "external_recipient" /\ x = answer.a
  \/ authority # "draft_only" /\ m.release = "commanded" /\ x \notin m.refuses

\* The recipients of the release are those it may name.
LEMMA ReleaseNames ==
  ASSUME NEW m \in Messages, NEW outputs, NEW answer, NEW authority,
         NEW x \in WithRecipient(Commanded(m, authority, outputs),
                                 Answered(answer, "external_recipient"))
  PROVE  MayRelease(x, m, answer, authority)
<1>1. m.release \in {"none", "negated", "commanded"} BY MessagesAssumption
<1>2. PICK commanded : commanded = Commanded(m, authority, outputs) OBVIOUS
<1>3. ASSUME NEW y \in commanded
      PROVE  authority # "draft_only" /\ m.release = "commanded" /\ y \notin m.refuses
  <2>1. PICK named : named = {o.to : o \in {outputs[i] : i \in DOMAIN outputs}} \ {"school_staff"}
    OBVIOUS
  <2>2. PICK inferred :
          inferred = IF m.release = "none"           THEN {}
                  ELSE IF m.commands # {}         THEN m.commands
                  ELSE IF named # {}              THEN named
                  ELSE IF "public" \in m.broad    THEN {"public_media"}
                  ELSE IF "parents" \in m.broad   THEN {"school_community"}
                  ELSE {"external_stakeholder"}
    OBVIOUS
  <2>3. PICK single : single = IF "school_community" \in inferred THEN inferred \ {"guardian"}
                ELSE inferred
    OBVIOUS
  <2>4. commanded = IF m.release = "negated" \/ authority = "draft_only" THEN {}
                    ELSE single \ m.refuses
    BY <1>2, <2>1, <2>2, <2>3 DEF Commanded
  <2>5. ~(m.release = "negated" \/ authority = "draft_only") /\ y \in single /\ y \notin m.refuses
    BY <1>3, <2>4
  <2>6. y \in inferred BY <2>3, <2>5
  <2>7. m.release = "none" => inferred = {} BY <2>2
  <2> QED BY <1>1, <2>5, <2>6, <2>7
<1>4. PICK a : a = Answered(answer, "external_recipient") OBVIOUS
<1>5. x \in WithRecipient(commanded, a) BY <1>2, <1>4
<1>6. x \in commanded \/ (a # "" /\ x = a) BY <1>5 DEF WithRecipient
<1>7. a # "" => answer.q = "external_recipient" /\ a = answer.a BY <1>4 DEF Answered
<1> QED BY <1>3, <1>6, <1>7 DEF MayRelease

\* What a compiled situation is made of.
CompiledFrom(c, m, prior, answer, authority) ==
  LET a == Answered(answer, "immediate_danger")
  IN /\ IsSituation(c) /\ FloorMet(c)
     /\ prior = NoCase => c.facts = GroundedFacts(m) /\ c.texts = {m}
     /\ prior # NoCase =>
          /\ c.facts = MergeFacts(prior.sit.facts, GroundedFacts(m))
          /\ c.texts = {m} \cup prior.sit.texts
          /\ SeverityRank(c.severity) >= SeverityRank(prior.sit.severity)
     /\ "active_danger" \in c.signals =>
          /\ a # "no"
          /\ \/ a = "yes" \/ Alarms(m)
             \/ prior # NoCase /\ "active_danger" \in prior.sit.signals
     /\ a \notin {"yes", "no", "unknown"} /\ Reported(m) => "active_danger" \in c.signals
     /\ \A x \in c.release : MayRelease(x, m, answer, authority)
     /\ prior = NoCase \/ Listed(prior.registry) => Listed(c.outputs) /\ Listed(c.registry)

\* The classifier's record is a situation.
LEMMA SaidIsSituation ==
  ASSUME NEW m \in Messages, NEW customs
  PROVE  /\ IsSituation(Said(m, customs)) /\ Said(m, customs).facts = GroundedFacts(m)
         /\ Said(m, customs).texts = {m} /\ Said(m, customs).signals = m.signals
         /\ Listed(Said(m, customs).outputs) /\ Listed(Said(m, customs).registry)
<1>1. m.severity \in SeverityLevels BY Ranks, MessagesAssumption
<1>2. Listed(m.outputs)
  <2>1. PICK T : T = [id : STRING, role : STRING, audience : STRING, to : STRING,
                      asked : BOOLEAN]
    OBVIOUS
  <2>2. m.outputs \in Seq(T) BY <2>1, MessagesAssumption
  <2> QED BY <2>2, ListedFrom
<1>3. Listed(<<>>)
  <2>1. <<>> \in Seq({}) OBVIOUS
  <2> QED BY <2>1, ListedFrom
<1>4. PICK s : s = Said(m, customs) OBVIOUS
<1>5. s.outputs = m.outputs /\ s.registry = <<>> BY <1>4 DEF Said
<1>6. /\ IsSituation(s) /\ s.facts = GroundedFacts(m) /\ s.texts = {m}
      /\ s.signals = m.signals
  BY <1>1, <1>4 DEF Said, IsSituation, SituationFields
<1> QED BY <1>2, <1>3, <1>4, <1>5, <1>6

\* The outputs and the release are settled last, and change nothing else.
LEMMA CommissionedStep ==
  ASSUME NEW m \in Messages, NEW s, IsSituation(s), NEW answer, NEW authority, NEW c,
         c = Commissioned(s, m, answer, authority)
  PROVE  /\ IsSituation(c) /\ c.facts = s.facts /\ c.texts = s.texts
         /\ c.signals = s.signals /\ c.severity = s.severity
         /\ c.stakeholders = s.stakeholders
         /\ \A x \in c.release : MayRelease(x, m, answer, authority)
         /\ c.registry = s.registry /\ (Listed(s.outputs) => Listed(c.outputs))
<1>1. PICK release : release = WithRecipient(Commanded(m, authority, Firsts(s.outputs)),
                                             Answered(answer, "external_recipient"))
  OBVIOUS
<1>2. \A x \in release : MayRelease(x, m, answer, authority) BY <1>1, ReleaseNames
<1>3. PICK firsts : firsts = Firsts(s.outputs) OBVIOUS
<1>4. \E cu, as : c = [s EXCEPT !.outputs = firsts, !.customs = cu, !.asked = as,
                                !.release = release]
  BY <1>1, <1>3 DEF Commissioned, IsSituation, SituationFields
<1>5. c.outputs = firsts BY <1>4 DEF IsSituation, SituationFields
<1>6. Listed(s.outputs) => Listed(c.outputs) BY <1>3, <1>5, FirstsListed
<1> QED BY <1>2, <1>4, <1>6 DEF IsSituation, SituationFields

\* A compiled situation keeps what it was made of.
LEMMA CompileIsSound ==
  ASSUME NEW m \in Messages, NEW prior, Prior(prior), NEW answer, NEW authority, NEW customs
  PROVE  CompiledFrom(CompileSituation(m, prior, answer, authority, customs),
                      m, prior, answer, authority)
<1>1. PICK a : a = Answered(answer, "immediate_danger") OBVIOUS
<1>2. PICK said : said = Said(m, customs) OBVIOUS
<1>3. /\ IsSituation(said) /\ said.facts = GroundedFacts(m)
      /\ said.texts = {m} /\ said.signals = m.signals
      /\ Listed(said.outputs) /\ Listed(said.registry)
  BY <1>2, SaidIsSituation
<1>4. PICK fl : fl = Floored(said, m) OBVIOUS
<1>5. Floor(said, fl, m) /\ (Reported(m) => "active_danger" \in fl.signals)
  BY <1>3, <1>4, FlooredHears
<1>6. PICK an : an = WithAnswer(fl, a) OBVIOUS
<1>7. /\ SameRecord(fl, an)
      /\ "active_danger" \in an.signals => a # "no" /\ (a = "yes" \/ "active_danger" \in fl.signals)
      /\ a \notin {"yes", "no", "unknown"} => an = fl
  BY <1>5, <1>6, WithAnswerStep DEF Floor
<1>8. PICK st : st = WithFloors(an, m) OBVIOUS
<1>8a. PICK wf : wf = Peopled(st) OBVIOUS
<1>9. /\ SameRecord(an, wf) /\ FloorMet(wf)
      /\ "active_danger" \in wf.signals => "active_danger" \in an.signals
      /\ "active_danger" \in an.signals /\ ~m.lifeUnknown => "active_danger" \in wf.signals
  <2>1. /\ SameRecord(an, st) /\ FloorMet(st)
        /\ "active_danger" \in st.signals => "active_danger" \in an.signals
        /\ "active_danger" \in an.signals /\ ~m.lifeUnknown => "active_danger" \in st.signals
    BY <1>7, <1>8, WithFloorsStep DEF SameRecord
  <2>2. SameRecord(st, wf) /\ wf.signals = st.signals /\ FloorMet(wf)
    BY <1>8a, <2>1, PeopledStep DEF SameRecord
  <2> QED BY <2>1, <2>2 DEF SameRecord
<1>10. PICK me : me = Merged(wf, prior, m) OBVIOUS
<1>11. /\ IsSituation(me) /\ FloorMet(me)
       /\ prior = NoCase => me = wf
       /\ prior # NoCase =>
              /\ me.facts = MergeFacts(prior.sit.facts, wf.facts)
              /\ me.texts = wf.texts \cup prior.sit.texts
              /\ SeverityRank(me.severity) >= SeverityRank(prior.sit.severity)
              /\ "active_danger" \in me.signals
                   => "active_danger" \in wf.signals \/ "active_danger" \in prior.sit.signals
       /\ "active_danger" \in wf.signals => "active_danger" \in me.signals
       /\ Listed(wf.outputs) /\ Listed(wf.registry) /\ (prior = NoCase \/ Listed(prior.registry))
            => Listed(me.outputs) /\ Listed(me.registry)
  BY <1>9, <1>10, MergedStep DEF SameRecord
<1>12. PICK re : re = Reanswered(me, a) OBVIOUS
<1>13. /\ SameRecord(me, re) /\ FloorMet(re)
       /\ SeverityRank(re.severity) >= SeverityRank(me.severity)
       /\ "active_danger" \in re.signals => a # "no" /\ (a = "yes" \/ "active_danger" \in me.signals)
       /\ a \notin {"yes", "no", "unknown"} => re = me
  BY <1>11, <1>12, ReansweredStep
<1>14. PICK c : c = Commissioned(re, m, answer, authority) OBVIOUS
<1>15. /\ IsSituation(c) /\ c.facts = re.facts /\ c.texts = re.texts
       /\ c.signals = re.signals /\ c.severity = re.severity
       /\ c.stakeholders = re.stakeholders
       /\ \A x \in c.release : MayRelease(x, m, answer, authority)
       /\ c.registry = re.registry /\ (Listed(re.outputs) => Listed(c.outputs))
  BY <1>13, <1>14, CommissionedStep DEF SameRecord
<1>16. CompileSituation(m, prior, answer, authority, customs) = c
  BY <1>1, <1>2, <1>4, <1>6, <1>8, <1>8a, <1>10, <1>12, <1>14 DEF CompileSituation, Situated
<1>17. wf.facts = GroundedFacts(m) /\ wf.texts = {m}
  BY <1>3, <1>5, <1>7, <1>9 DEF SameRecord, Floor
<1>18. FloorMet(c) BY <1>13, <1>15 DEF FloorMet
<1>19. prior = NoCase => c.facts = GroundedFacts(m) /\ c.texts = {m}
  BY <1>11, <1>13, <1>15, <1>17 DEF SameRecord
<1>20. ASSUME prior # NoCase
       PROVE  /\ c.facts = MergeFacts(prior.sit.facts, GroundedFacts(m))
              /\ c.texts = {m} \cup prior.sit.texts
              /\ SeverityRank(c.severity) >= SeverityRank(prior.sit.severity)
  <2>1. \A x \in SeverityLevels : SeverityRank(x) \in Int BY Ranks DEF SeverityLevels
  <2>2. /\ me.severity \in SeverityLevels /\ re.severity \in SeverityLevels
        /\ prior.sit.severity \in SeverityLevels
    BY <1>11, <1>13, <1>20 DEF SameRecord, IsSituation, Prior
  <2>3. SeverityRank(c.severity) >= SeverityRank(prior.sit.severity)
    BY <1>11, <1>13, <1>15, <1>20, <2>1, <2>2
  <2> QED BY <1>11, <1>13, <1>15, <1>17, <1>20, <2>3 DEF SameRecord
<1>21. ASSUME "active_danger" \in c.signals
       PROVE  /\ a # "no"
              /\ \/ a = "yes" \/ Alarms(m)
                 \/ prior # NoCase /\ "active_danger" \in prior.sit.signals
  BY <1>3, <1>5, <1>7, <1>9, <1>11, <1>13, <1>15, <1>21 DEF Floor, Alarms
<1>22. ASSUME a \notin {"yes", "no", "unknown"}, Reported(m) PROVE "active_danger" \in c.signals
  BY <1>5, <1>7, <1>9, <1>11, <1>13, <1>15, <1>22 DEF Reported
<1>23. prior = NoCase \/ Listed(prior.registry) => Listed(c.outputs) /\ Listed(c.registry)
  <2>1. Listed(wf.outputs) /\ Listed(wf.registry)
    BY <1>3, <1>5, <1>7, <1>9 DEF Floor, SameRecord
  <2> QED BY <1>11, <1>13, <1>15, <2>1 DEF SameRecord
<1> QED BY <1>1, <1>15, <1>16, <1>18, <1>19, <1>20, <1>21, <1>22, <1>23 DEF CompiledFrom

\* How a task came about.
Kinds == {"typed", "clarification", "delta"}

\* What becomes of it.
Statuses == {"governance", "awaiting_clarification", "done", "awaiting_approval", "error"}

\* What a human may be asked.
Questions == {"", "immediate_danger", "external_recipient"}

\* The fields of a task.
TaskFields == {"msg", "kind", "parent", "case", "relation", "answer", "authority", "question",
               "compiled", "status", "sit", "pack"}

\* What a task with this record was compiled over: the snapshot of its parent.
PriorAt(ts, k) == IF k.parent = 0 THEN NoCase ELSE CaseContext(k.parent, ts[k.parent])

\* How a task is tied to the one before it.
Tied(k, ts, t) ==
  /\ k.parent \in 0..(t - 1)
  /\ k.parent # 0 => ts[k.parent].compiled
  /\ k.case = IF k.parent = 0 THEN t ELSE ts[k.parent].case

\* A task as the handlers leave it: its parent is earlier and compiled, it belongs to
\* the parent's case, and what it holds was compiled over the parent's snapshot.
Well(k, ts, t) ==
  /\ DOMAIN k = TaskFields /\ k.msg \in Messages /\ k.kind \in Kinds
  /\ k.status \in Statuses /\ k.question \in Questions /\ k.compiled \in BOOLEAN
  /\ Tied(k, ts, t)
  /\ k.status = "awaiting_clarification" => k.compiled
  /\ k.answer.a = "no" => k.answer.q = "immediate_danger"
  /\ k.kind = "typed" => k.answer = NoAnswer
  /\ ~k.compiled => k.sit = NoSituation
  /\ k.compiled =>
       /\ CompiledFrom(k.sit, k.msg, PriorAt(ts, k), k.answer, k.authority)
       /\ k.pack = IF k.kind = "delta" THEN OnlyAdded(BuildPack(k.sit, k.msg))
                       ELSE BuildPack(k.sit, k.msg)
       /\ k.question = IF k.kind = "delta" THEN ""
                           ELSE CriticalQuestion(k.sit, k.msg, k.answer)

\* The same of the t-th of some tasks.
WellFormed(ts, t) == Well(ts[t], ts, t)

\* Tasks every one of which is well formed.
Sound(ts) == ts \in Seq(Range(ts)) /\ \A t \in DOMAIN ts : WellFormed(ts, t)

\* The inductive invariant of a conversation.
CaseInv == Sound(tasks)

\* The snapshot of a task depends on its situation, its pack and its case only.
LEMMA ContextOfSame ==
  ASSUME NEW p, NEW a, NEW b, a.sit = b.sit, a.pack = b.pack, a.case = b.case
  PROVE  CaseContext(p, a) = CaseContext(p, b)
<1> DEFINE Ctx(sit, kit, case) ==
      LET named == [i \in DOMAIN sit.facts |->
                  IF sit.facts[i].by = 0 THEN [sit.facts[i] EXCEPT !.by = p]
                  ELSE sit.facts[i]]
          packed == {[id |-> d.role, role |-> d.role, audience |-> d.audience,
                  to |-> d.to, asked |-> FALSE] :
                   d \in {x \in kit.items : x.kind = "artifact" /\ x.selected}}
      IN [case     |-> case,
          source   |-> p,
          sit      |-> [sit EXCEPT !.facts = named,
                                   !.sources = @ \cup {p}],
          registry |-> WithFiles(sit.registry, packed),
          people   |-> sit.people,
          topics   |-> UNION {x.topics : x \in sit.texts},
          bigrams  |-> UNION {x.bigrams : x \in sit.texts}]
<1>1. CaseContext(p, a) = Ctx(a.sit, a.pack, a.case) BY DEF CaseContext
<1>2. CaseContext(p, b) = Ctx(b.sit, b.pack, b.case) BY DEF CaseContext
<1> HIDE DEF Ctx
<1> QED BY <1>1, <1>2

\* What the snapshot of a compiled task holds.
UnderName(p, facts) ==
  [i \in DOMAIN facts |-> IF facts[i].by = 0 THEN [facts[i] EXCEPT !.by = p] ELSE facts[i]]

\* The snapshot is a situation with the facts under their names.
LEMMA ContextHolds ==
  ASSUME NEW p, NEW k, IsSituation(k.sit)
  PROVE  /\ CaseContext(p, k).case = k.case /\ CaseContext(p, k).source = p
         /\ CaseContext(p, k).sit.facts = UnderName(p, k.sit.facts)
         /\ CaseContext(p, k).sit.texts = k.sit.texts
         /\ CaseContext(p, k).sit.signals = k.sit.signals
         /\ CaseContext(p, k).sit.severity = k.sit.severity
         /\ CaseContext(p, k).sit.stakeholders = k.sit.stakeholders
         /\ IsSituation(CaseContext(p, k).sit)
         /\ \E files : CaseContext(p, k).registry = WithFiles(k.sit.registry, files)
<1>1. PICK files : files = {[id |-> d.role, role |-> d.role, audience |-> d.audience,
                  to |-> d.to, asked |-> FALSE] :
                   d \in {x \in k.pack.items : x.kind = "artifact" /\ x.selected}}
  OBVIOUS
<1>2. PICK named : named = UnderName(p, k.sit.facts) OBVIOUS
<1>3. PICK s : s = [k.sit EXCEPT !.facts = named, !.sources = @ \cup {p}] OBVIOUS
<1>4. CaseContext(p, k) = [case |-> k.case, source |-> p, sit |-> s,
                           registry |-> WithFiles(k.sit.registry, files),
                           people |-> k.sit.people,
                           topics   |-> UNION {x.topics : x \in k.sit.texts},
                           bigrams  |-> UNION {x.bigrams : x \in k.sit.texts}]
  BY <1>1, <1>2, <1>3 DEF CaseContext, UnderName
<1>5. /\ CaseContext(p, k).case = k.case /\ CaseContext(p, k).source = p
      /\ CaseContext(p, k).sit = s
      /\ CaseContext(p, k).registry = WithFiles(k.sit.registry, files)
  BY <1>4
<1>6. /\ DOMAIN s = SituationFields /\ s.facts = named /\ s.texts = k.sit.texts
      /\ s.signals = k.sit.signals /\ s.severity = k.sit.severity
      /\ s.stakeholders = k.sit.stakeholders
  BY <1>3 DEF IsSituation, SituationFields
<1> QED BY <1>2, <1>5, <1>6 DEF IsSituation

\* Two records that differ in their status only.
Alike(a, b) ==
  /\ DOMAIN b = TaskFields /\ b.msg = a.msg /\ b.kind = a.kind /\ b.parent = a.parent
  /\ b.case = a.case /\ b.answer = a.answer /\ b.authority = a.authority
  /\ b.question = a.question /\ b.compiled = a.compiled /\ b.sit = a.sit /\ b.pack = a.pack

\* A task stays well formed while the tasks up to it change in nothing but their status.
LEMMA StaysWellFormed ==
  ASSUME NEW ts, NEW us, NEW t \in Nat \ {0}, WellFormed(ts, t),
         \A i \in 1..t : Alike(ts[i], us[i]),
         us[t].status \in Statuses,
         us[t].status = "awaiting_clarification" => us[t].compiled
  PROVE  WellFormed(us, t)
<1>1. Alike(ts[t], us[t]) OBVIOUS
<1>2. PICK p : p = ts[t].parent OBVIOUS
<1>3. p \in 0..(t - 1) /\ us[t].parent = p BY <1>1, <1>2 DEF WellFormed, Well, Tied, Alike
<1>4. p # 0 => Alike(ts[p], us[p]) BY <1>3
<1>5. PriorAt(us, us[t]) = PriorAt(ts, ts[t])
  <2>1. CASE p = 0 BY <1>2, <1>3, <2>1 DEF PriorAt
  <2>2. CASE p # 0
    <3>1. CaseContext(p, ts[p]) = CaseContext(p, us[p]) BY <1>4, <2>2, ContextOfSame DEF Alike
    <3> QED BY <1>2, <1>3, <2>2, <3>1 DEF PriorAt
  <2> QED BY <2>1, <2>2
<1>6. us[t].compiled =>
       /\ CompiledFrom(us[t].sit, us[t].msg, PriorAt(us, us[t]), us[t].answer, us[t].authority)
       /\ us[t].pack = IF us[t].kind = "delta" THEN OnlyAdded(BuildPack(us[t].sit, us[t].msg))
                       ELSE BuildPack(us[t].sit, us[t].msg)
       /\ us[t].question = IF us[t].kind = "delta" THEN ""
                           ELSE CriticalQuestion(us[t].sit, us[t].msg, us[t].answer)
  BY <1>1, <1>5 DEF WellFormed, Well, Tied, Alike
<1>7. /\ us[t].parent \in 0..(t - 1)
      /\ us[t].parent # 0 => us[us[t].parent].compiled
      /\ us[t].case = IF us[t].parent = 0 THEN t ELSE us[us[t].parent].case
  <2>1. ts[t].case = IF p = 0 THEN t ELSE ts[p].case
    BY <1>2 DEF WellFormed, Well, Tied
  <2>2. p # 0 => ts[p].compiled BY <1>2 DEF WellFormed, Well, Tied
  <2>3. us[t].case = ts[t].case BY <1>1 DEF Alike
  <2>4. p # 0 => us[p].case = ts[p].case /\ us[p].compiled = ts[p].compiled
    BY <1>4 DEF Alike
  <2> QED BY <1>3, <2>1, <2>2, <2>3, <2>4
<1>8. /\ DOMAIN us[t] = TaskFields /\ us[t].msg \in Messages /\ us[t].kind \in Kinds
      /\ us[t].question \in Questions /\ us[t].compiled \in BOOLEAN
      /\ us[t].answer.a = "no" => us[t].answer.q = "immediate_danger"
      /\ us[t].kind = "typed" => us[t].answer = NoAnswer
      /\ ~us[t].compiled => us[t].sit = NoSituation
  BY <1>1 DEF WellFormed, Well, Tied, Alike
<1> QED BY <1>6, <1>7, <1>8 DEF WellFormed, Well, Tied

\* An answer that says "no" is one to the question about the danger.
Fits(kind, answer) ==
  /\ answer.a = "no" => answer.q = "immediate_danger"
  /\ kind = "typed" => answer = NoAnswer

\* The situation of a well formed compiled task is one, and meets the floor.
LEMMA CompiledSituation ==
  ASSUME NEW ts, NEW t, WellFormed(ts, t), ts[t].compiled
  PROVE  IsSituation(ts[t].sit) /\ FloorMet(ts[t].sit)
BY DEF WellFormed, Well, CompiledFrom

\* A snapshot of it can be merged in.
LEMMA ContextIsPrior ==
  ASSUME NEW ts, NEW p, WellFormed(ts, p), ts[p].compiled
  PROVE  Prior(CaseContext(p, ts[p]))
<1>1. IsSituation(ts[p].sit) /\ FloorMet(ts[p].sit) BY CompiledSituation
<1> QED BY <1>1, ContextHolds DEF Prior, FloorMet

\* The record of a new task that is not compiled, and of one that is.
Opened(k, m, kind, bound, answer) ==
  /\ DOMAIN k = TaskFields /\ k.msg = m /\ k.kind = kind
  /\ k.parent = bound.parent /\ k.case = bound.case /\ k.answer = answer
  /\ k.compiled = FALSE /\ k.status = "governance"
  /\ k.question = "" /\ k.sit = NoSituation

\* The record k is the task the compiler opens, with its situation s in it.
CompiledInto(k, m, kind, bound, answer, authority, s) ==
  /\ DOMAIN k = TaskFields /\ k.msg = m /\ k.kind = kind
  /\ k.parent = bound.parent /\ k.case = bound.case /\ k.answer = answer
  /\ k.authority = authority /\ k.compiled = TRUE /\ k.sit = s
  /\ k.pack = IF kind = "delta" THEN OnlyAdded(BuildPack(s, m)) ELSE BuildPack(s, m)
  /\ k.question = IF kind = "delta" THEN "" ELSE CriticalQuestion(s, m, answer)
  /\ k.status \in {"governance", "awaiting_clarification"}

\* What an opened task holds.
LEMMA OpenedRecord ==
  ASSUME NEW m, NEW kind, NEW bound, NEW relation, NEW answer, NEW authority
  PROVE  Opened(Uncompiled(m, kind, bound, relation, answer, authority), m, kind, bound, answer)
BY DEF Uncompiled, TaskFields, Opened

\* What it holds once it is compiled.
LEMMA CompiledRecord ==
  ASSUME NEW m, NEW kind, NEW bound, NEW relation, NEW answer, NEW authority, NEW s
  PROVE  CompiledInto(Situation(Uncompiled(m, kind, bound, relation, answer, authority), s),
                      m, kind, bound, answer, authority, s)
<1> DEFINE task == Uncompiled(m, kind, bound, relation, answer, authority)
           k == Situation(task, s)
<1>1. /\ DOMAIN task = TaskFields /\ task.msg = m /\ task.kind = kind
      /\ task.parent = bound.parent /\ task.case = bound.case /\ task.answer = answer
      /\ task.authority = authority /\ task.status = "governance"
  BY DEF Uncompiled, TaskFields
<1> HIDE DEF task
<1>2. PICK whole : whole = BuildPack(s, m) OBVIOUS
<1>3. PICK mine : mine = IF kind = "delta" THEN OnlyAdded(whole) ELSE whole OBVIOUS
<1>4. PICK held : held = WithPack(task, s, whole) OBVIOUS
<1>5. held = [task EXCEPT !.sit = s, !.compiled = TRUE, !.pack = mine]
  BY <1>1, <1>3, <1>4 DEF WithPack
<1>6. PICK q : q = IF kind = "delta" THEN "" ELSE CriticalQuestion(s, m, answer) OBVIOUS
<1>7. k = WithQuestion(held, q)
  BY <1>1, <1>2, <1>4, <1>6 DEF Situation
<1>8. PICK st : st = IF q # "" /\ held.answer = NoAnswer
                     THEN "awaiting_clarification" ELSE held.status
  OBVIOUS
<1>9. k = [held EXCEPT !.question = q, !.status = st] BY <1>7, <1>8 DEF WithQuestion
<1>10. /\ DOMAIN held = TaskFields /\ held.msg = m /\ held.kind = kind
       /\ held.parent = bound.parent /\ held.case = bound.case /\ held.answer = answer
       /\ held.authority = authority /\ held.status = "governance"
       /\ held.sit = s /\ held.compiled = TRUE /\ held.pack = mine
  BY <1>1, <1>5 DEF TaskFields
<1>11. st \in {"governance", "awaiting_clarification"} BY <1>8, <1>10
<1> HIDE DEF k
<1>12. /\ DOMAIN k = TaskFields /\ k.msg = m /\ k.kind = kind
       /\ k.parent = bound.parent /\ k.case = bound.case /\ k.answer = answer
       /\ k.authority = authority /\ k.compiled = TRUE /\ k.sit = s
       /\ k.pack = mine /\ k.question = q /\ k.status = st
  BY <1>9, <1>10 DEF TaskFields
<1> USE DEF k, task
<1> QED BY <1>2, <1>3, <1>6, <1>11, <1>12 DEF CompiledInto

\* A human is asked one of the questions.
LEMMA QuestionsAsked ==
  ASSUME NEW s, NEW m, NEW answer PROVE CriticalQuestion(s, m, answer) \in Questions
BY DEF CriticalQuestion, Questions

\* What a new task may be compiled over: no case, or an earlier compiled task.
Candidate(ts, n, p, ctx) ==
  /\ p \in 0..n
  /\ p = 0 => ctx = NoCase
  /\ p # 0 => /\ ctx = CaseContext(p, ts[p]) /\ ts[p].compiled
              /\ WellFormed(ts, p) /\ ts[p].case \in 1..p

\* A task a handler starts is well formed.
LEMMA NewTaskIsWellFormed ==
  ASSUME NEW ts, NEW n \in Nat, Len(tasks) = n,
         NEW m \in Messages, NEW kind \in Kinds, NEW p, NEW ctx, Candidate(ts, n, p, ctx),
         NEW relation, NEW answer, Fits(kind, answer), NEW authority, NEW customs,
         ts[n + 1] = Compiled(m, kind, ctx, relation, answer, authority, customs)
  PROVE  WellFormed(ts, n + 1)
<1>1. /\ p \in 0..n
      /\ p = 0 => ctx = NoCase
      /\ p # 0 => /\ ctx = CaseContext(p, ts[p]) /\ ts[p].compiled
                  /\ WellFormed(ts, p) /\ ts[p].case \in 1..p
  BY DEF Candidate
<1>2. PICK k : k = ts[n + 1] OBVIOUS
<1>3. PICK bound : bound = ConfirmBinding(relation, ctx, n + 1) OBVIOUS
<1>4. p # 0 => /\ ctx.case = ts[p].case /\ ctx.source = p /\ Prior(ctx)
  BY <1>1, CompiledSituation, ContextHolds, ContextIsPrior
<1>5. /\ bound.parent \in {0, p}
      /\ bound.case = IF bound.parent = 0 THEN n + 1 ELSE ts[bound.parent].case
      /\ bound.prior = IF bound.parent = 0 THEN NoCase ELSE CaseContext(bound.parent, ts[bound.parent])
  <2>1. CASE relation = "follow_up" /\ ctx # NoCase
    <3>1. p # 0 BY <1>1, <2>1
    <3>2. bound.parent = p /\ bound.case = ts[p].case /\ bound.prior = ctx
      BY <1>3, <1>4, <2>1, <3>1 DEF ConfirmBinding
    <3> QED BY <1>1, <3>1, <3>2
  <2>2. CASE ~(relation = "follow_up" /\ ctx # NoCase)
    BY <1>3, <2>2 DEF ConfirmBinding
  <2> QED BY <2>1, <2>2
<1>6. Prior(bound.prior)
  <2>1. CASE bound.parent = 0 BY <1>5, <2>1 DEF Prior
  <2>2. CASE bound.parent # 0 BY <1>1, <1>4, <1>5, <2>2
  <2> QED BY <2>1, <2>2
<1>7. PICK task : task = Uncompiled(m, kind, bound, relation, answer, authority) OBVIOUS
<1>8. PICK s : s = CompileSituation(m, bound.prior, answer, authority, customs) OBVIOUS
<1>9. k = IF relation = "unrelated" \/ m.floor THEN task ELSE Situation(task, s)
  BY <1>3, <1>7, <1>8, <1>2 DEF Compiled
<1>10. /\ bound.parent \in 0..n
       /\ bound.parent # 0 => ts[bound.parent].compiled
  BY <1>1, <1>5
<1>11. CASE k = task
  <2>1. Opened(task, m, kind, bound, answer) BY <1>7, OpenedRecord
  <2>2. Opened(k, m, kind, bound, answer) BY <1>11, <2>1
  <2>3. k.parent = bound.parent /\ k.case = bound.case BY <2>2 DEF Opened
  <2>4. Tied(k, ts, n + 1) BY <1>5, <1>10, <2>3 DEF Tied
  <2>5. Well(k, ts, n + 1)
    BY <2>2, <2>4 DEF Well, Opened, Fits, Statuses, Questions
  <2> QED BY <1>2, <2>5 DEF WellFormed
<1>12. CASE k = Situation(task, s)
  <2>1. CompiledInto(Situation(task, s), m, kind, bound, answer, authority, s)
    BY <1>7, CompiledRecord
  <2>2. CompiledInto(k, m, kind, bound, answer, authority, s) BY <1>12, <2>1
  <2>3. CompiledFrom(s, m, bound.prior, answer, authority) BY <1>6, <1>8, CompileIsSound
  <2>4. PriorAt(ts, k) = bound.prior BY <1>5, <2>2 DEF PriorAt, CompiledInto
  <2>5. k.question \in Questions
    <3>1. k.question \in {"", CriticalQuestion(s, m, answer)} BY <2>2 DEF CompiledInto
    <3>2. CriticalQuestion(s, m, answer) \in Questions BY QuestionsAsked
    <3>3. "" \in Questions BY DEF Questions
    <3> QED BY <3>1, <3>2, <3>3
  <2>6. k.status \in Statuses BY <2>2 DEF Statuses, CompiledInto
  <2>7. k.parent = bound.parent /\ k.case = bound.case BY <2>2 DEF CompiledInto
  <2>8. Tied(k, ts, n + 1) BY <1>5, <1>10, <2>7 DEF Tied
  <2>9. /\ DOMAIN k = TaskFields /\ k.msg \in Messages /\ k.kind \in Kinds
        /\ k.compiled = TRUE /\ k.answer = answer /\ k.kind = kind
    BY <2>2 DEF CompiledInto
  <2>10. /\ CompiledFrom(k.sit, k.msg, PriorAt(ts, k), k.answer, k.authority)
         /\ k.pack = IF k.kind = "delta" THEN OnlyAdded(BuildPack(k.sit, k.msg))
                     ELSE BuildPack(k.sit, k.msg)
         /\ k.question = IF k.kind = "delta" THEN ""
                         ELSE CriticalQuestion(k.sit, k.msg, k.answer)
    BY <2>2, <2>3, <2>4 DEF CompiledInto
  <2>11. Well(k, ts, n + 1)
    BY <2>5, <2>6, <2>8, <2>9, <2>10 DEF Well, Fits
  <2> QED BY <1>2, <2>11 DEF WellFormed
<1> QED BY <1>9, <1>11, <1>12

\* Induction over the numbers of the tasks.
LEMMA ByNumber ==
  ASSUME NEW n \in Nat, NEW S, \A t \in 1..n : (\A u \in 1..(t - 1) : u \in S) => t \in S
  PROVE  \A t \in 1..n : t \in S
<1> DEFINE P == {i \in 0..n : \A t \in 1..i : t \in S}
<1>1. 0 \in P OBVIOUS
<1>2. ASSUME NEW i \in 1..n, i - 1 \in P PROVE i \in P
  <2>1. i \in S BY <1>2
  <2>2. \A t \in 1..i : t = i \/ t \in 1..(i - 1) OBVIOUS
  <2> QED BY <1>2, <2>1, <2>2
<1> HIDE DEF P
<1>3. \A i \in 0..n : i \in P BY <1>1, <1>2, Upward
<1>4. n \in P BY <1>3
<1> QED BY <1>4 DEF P

\* The tasks are numbered from 1.
LEMMA IdsOfSound ==
  ASSUME NEW ts, Sound(ts)
  PROVE  Len(ts) \in Nat /\ DOMAIN ts = 1..Len(ts)
BY DEF Sound

\* The number of a case is that of one of its tasks, the first.
LEMMA CasesAreEarlier ==
  ASSUME NEW ts, Sound(ts)
  PROVE  \A t \in DOMAIN ts : ts[t].case \in 1..t
<1> DEFINE S == {t \in DOMAIN ts : ts[t].case \in 1..t}
<1>1. Len(ts) \in Nat /\ DOMAIN ts = 1..Len(ts) BY IdsOfSound
<1>2. ASSUME NEW t \in 1..Len(ts), \A u \in 1..(t - 1) : u \in S PROVE t \in S
  <2>1. PICK p : p = ts[t].parent OBVIOUS
  <2>2. /\ p \in 0..(t - 1)
        /\ ts[t].case = IF p = 0 THEN t ELSE ts[p].case
    BY <1>1, <2>1 DEF Sound, WellFormed, Well, Tied
  <2>3. CASE p = 0 BY <1>1, <2>2, <2>3
  <2>4. CASE p # 0
    <3>1. ts[p].case \in 1..p BY <1>2, <2>2, <2>4
    <3> QED BY <1>1, <2>2, <2>4, <3>1
  <2> QED BY <2>3, <2>4
<1> HIDE DEF S
<1>3. \A t \in 1..Len(ts) : t \in S BY <1>1, <1>2, ByNumber
<1> QED BY <1>1, <1>3 DEF S

\* A handler that starts a task leaves every task well formed.
LEMMA GrowsByOne ==
  ASSUME CaseInv, NEW old, old \in Seq(Range(old)), Len(old) = Len(tasks),
         \A i \in Ids : /\ Alike(tasks[i], old[i]) /\ old[i].status \in Statuses
                        /\ old[i].status = "awaiting_clarification" => old[i].compiled,
         NEW m \in Messages, NEW kind \in Kinds,
         NEW p \in {0} \cup Ids, p # 0 => tasks[p].compiled,
         NEW ctx, ctx = IF p = 0 THEN NoCase ELSE CaseContext(p, tasks[p]),
         NEW relation, NEW answer, Fits(kind, answer), NEW authority, NEW customs,
         NEW ts, ts = Append(old, Compiled(m, kind, ctx, relation, answer, authority, customs))
  PROVE  Sound(ts)
<1>1. PICK k : k = Compiled(m, kind, ctx, relation, answer, authority, customs) OBVIOUS
<1>2. PICK n \in Nat : n = Len(tasks) BY IdsOfSound DEF CaseInv
<1>3. Ids = 1..n BY <1>2, IdsOfSound DEF CaseInv, Ids
<1>4. /\ ts \in Seq(Range(old) \cup {k}) /\ Len(ts) = n + 1
      /\ \A i \in 1..n : ts[i] = old[i]
      /\ ts[n + 1] = k
  BY <1>1, <1>2
<1>5. DOMAIN ts = 1..(n + 1) BY <1>2, <1>4
<1>6. ts \in Seq(Range(ts))
  <2>1. PICK f \in Seq(Range(old) \cup {k}) : f = ts BY <1>4
  <2>2. f \in Seq(Range(f)) BY DEF Range
  <2> QED BY <2>1, <2>2
<1>7. \A i \in 1..n : /\ WellFormed(tasks, i) /\ Alike(tasks[i], ts[i])
                      /\ ts[i].status \in Statuses
                      /\ ts[i].status = "awaiting_clarification" => ts[i].compiled
  BY <1>3, <1>4 DEF CaseInv, Sound, Ids
<1>8. ASSUME NEW t \in 1..n PROVE WellFormed(ts, t)
  <2>1. \A i \in 1..t : i \in 1..n BY <1>2
  <2>2. \A i \in 1..t : Alike(tasks[i], ts[i]) BY <1>7, <2>1
  <2>3. t \in Nat \ {0} OBVIOUS
  <2> QED BY <1>7, <2>2, <2>3, StaysWellFormed
<1>9. p \in 0..n BY <1>2, <1>3
<1>10. ASSUME p # 0
       PROVE  /\ ctx = CaseContext(p, ts[p]) /\ ts[p].compiled
              /\ WellFormed(ts, p) /\ ts[p].case \in 1..p
  <2>1. p \in 1..n BY <1>9, <1>10
  <2>2. Alike(tasks[p], ts[p]) /\ WellFormed(ts, p) BY <1>7, <1>8, <2>1
  <2>3. CaseContext(p, tasks[p]) = CaseContext(p, ts[p]) BY <2>2, ContextOfSame DEF Alike
  <2>4. tasks[p].case \in 1..p BY <1>3, <2>1, CasesAreEarlier DEF CaseInv, Ids
  <2> QED BY <1>10, <2>2, <2>3, <2>4 DEF Alike
<1>11. WellFormed(ts, n + 1)
  <2>1. Candidate(ts, n, p, ctx) BY <1>9, <1>10 DEF Candidate
  <2>2. ts[n + 1] = Compiled(m, kind, ctx, relation, answer, authority, customs)
    BY <1>1, <1>4
  <2> QED BY <1>2, <2>1, <2>2, NewTaskIsWellFormed
<1>12. \A t \in DOMAIN ts : t \in 1..n \/ t = n + 1 BY <1>2, <1>5
<1> QED BY <1>6, <1>8, <1>11, <1>12 DEF Sound

\* So does one that only moves a task on.
LEMMA MovesOn ==
  ASSUME CaseInv, NEW t \in Ids, NEW status \in Statuses \ {"awaiting_clarification"}
  PROVE  /\ [tasks EXCEPT ![t].status = status] \in Seq(Range([tasks EXCEPT ![t].status = status]))
         /\ Len([tasks EXCEPT ![t].status = status]) = Len(tasks)
         /\ \A i \in Ids :
              /\ Alike(tasks[i], [tasks EXCEPT ![t].status = status][i])
              /\ [tasks EXCEPT ![t].status = status][i].status \in Statuses
              /\ [tasks EXCEPT ![t].status = status][i].status = "awaiting_clarification"
                   => [tasks EXCEPT ![t].status = status][i].compiled
<1>1. PICK us : us = [tasks EXCEPT ![t].status = status] OBVIOUS
<1>2. PICK n \in Nat : n = Len(tasks) BY IdsOfSound DEF CaseInv
<1>3. Ids = 1..n /\ DOMAIN tasks = 1..n BY <1>2, IdsOfSound DEF CaseInv, Ids
<1>4. PICK k : k = [tasks[t] EXCEPT !.status = status] OBVIOUS
<1>5. us = [tasks EXCEPT ![t] = k] BY <1>1, <1>4
<1>6. DOMAIN us = 1..n /\ us = [i \in 1..n |-> us[i]] BY <1>3, <1>5
<1>7. us \in Seq(Range(us)) /\ Len(us) = n BY <1>6 DEF Range
<1>8. \A i \in 1..n : WellFormed(tasks, i) BY <1>3 DEF CaseInv, Sound
<1>9. us[t] = k /\ \A i \in 1..n : i # t => us[i] = tasks[i] BY <1>3, <1>5
<1>10. DOMAIN tasks[t] = TaskFields BY <1>3, <1>8 DEF WellFormed, Well
<1>11. Alike(tasks[t], k) /\ k.status = status BY <1>4, <1>10 DEF Alike, TaskFields
<1>12. ASSUME NEW i \in Ids
       PROVE  /\ Alike(tasks[i], us[i]) /\ us[i].status \in Statuses
              /\ us[i].status = "awaiting_clarification" => us[i].compiled
  <2>1. CASE i = t BY <1>9, <1>11, <2>1
  <2>2. CASE i # t
    <3>1. us[i] = tasks[i] /\ WellFormed(tasks, i) BY <1>3, <1>8, <1>9, <2>2
    <3> QED BY <3>1 DEF WellFormed, Well, Alike
  <2> QED BY <2>1, <2>2
<1> QED BY <1>1, <1>2, <1>7, <1>12

\* The statuses a run or a human leaves a task in wait for no answer.
LEMMA StatusesNamed ==
  {"governance", "done", "awaiting_approval", "error"} \subseteq Statuses \ {"awaiting_clarification"}
BY DEF Statuses

\* What holds of the tasks as they are, for a handler that only adds one.
LEMMA TasksAsTheyAre ==
  ASSUME CaseInv
  PROVE  /\ tasks \in Seq(Range(tasks))
         /\ \A i \in Ids : /\ Alike(tasks[i], tasks[i]) /\ tasks[i].status \in Statuses
                           /\ tasks[i].status = "awaiting_clarification" => tasks[i].compiled
                           /\ tasks[i].msg \in Messages
BY DEF CaseInv, Sound, Ids, WellFormed, Well, Alike

\* A typed request keeps the invariant: its task is compiled over its parent's snapshot.
LEMMA StartTaskKeeps ==
  ASSUME CaseInv, StartTask
  PROVE  CaseInv'
<1>1. PICK m \in Messages, p \in {0} \cup Ids, auth \in Authorities :
        /\ p # 0 => Ready(p)
        /\ tasks' = Append(tasks, Compiled(m, "typed", IF p = 0 THEN NoCase ELSE CaseContext(p, tasks[p]),
                     CaseAwareRelation(m, IF p = 0 THEN NoCase ELSE CaseContext(p, tasks[p])),
                     NoAnswer, auth, <<>>))
  BY DEF StartTask
<1>2. PICK ctx : ctx = IF p = 0 THEN NoCase ELSE CaseContext(p, tasks[p]) OBVIOUS
<1>3. PICK relation : relation = CaseAwareRelation(m, ctx) OBVIOUS
<1>4. tasks' = Append(tasks, Compiled(m, "typed", ctx, relation, NoAnswer, auth, <<>>))
  BY <1>1, <1>2, <1>3
<1>5. p # 0 => tasks[p].compiled BY <1>1 DEF Ready
<1>6. Fits("typed", NoAnswer) /\ "typed" \in Kinds BY DEF Fits, NoAnswer, Kinds
<1>7. PICK old : old = tasks OBVIOUS
<1>8. /\ old \in Seq(Range(old)) /\ Len(old) = Len(tasks)
      /\ \A i \in Ids : /\ Alike(tasks[i], old[i]) /\ old[i].status \in Statuses
                        /\ old[i].status = "awaiting_clarification" => old[i].compiled
  BY <1>7, TasksAsTheyAre
<1>9. PICK ts : ts = Append(old, Compiled(m, "typed", ctx, relation, NoAnswer, auth, <<>>)) OBVIOUS
<1>10. Sound(ts) BY <1>2, <1>5, <1>6, <1>8, <1>9, GrowsByOne
<1> QED BY <1>4, <1>7, <1>9, <1>10 DEF CaseInv

\* An answer keeps it: the asked task is done, and its continuation is tied to it.
LEMMA ConfirmKeeps ==
  ASSUME CaseInv, ConfirmResponsePack
  PROVE  CaseInv'
<1>1. PICK t \in Ids, a \in {"yes", "no", "unknown", "draft_only", "guardian"} :
        /\ tasks[t].status = "awaiting_clarification"
        /\ a \in IF tasks[t].question = "immediate_danger"
                 THEN {"yes", "no", "unknown"} ELSE {"draft_only", "guardian"}
        /\ tasks' = Append([tasks EXCEPT ![t].status = "done"],
                 Compiled(tasks[t].msg, "clarification", CaseContext(t, tasks[t]), "follow_up",
                          [q |-> tasks[t].question, a |-> a],
                          tasks[t].authority, <<>>))
  BY DEF ConfirmResponsePack
<1>2. PICK answer : answer = [q |-> tasks[t].question, a |-> a] OBVIOUS
<1>3. Fits("clarification", answer) /\ "clarification" \in Kinds BY <1>1, <1>2 DEF Fits, Kinds
<1>4. PICK old : old = [tasks EXCEPT ![t].status = "done"] OBVIOUS
<1>5. "done" \in Statuses \ {"awaiting_clarification"} BY StatusesNamed
<1>6. /\ old \in Seq(Range(old)) /\ Len(old) = Len(tasks)
      /\ \A i \in Ids : /\ Alike(tasks[i], old[i]) /\ old[i].status \in Statuses
                        /\ old[i].status = "awaiting_clarification" => old[i].compiled
  BY <1>4, <1>5, MovesOn
<1>7. tasks[t].msg \in Messages /\ tasks[t].compiled BY <1>1, TasksAsTheyAre
<1>8. PICK ctx : ctx = CaseContext(t, tasks[t]) OBVIOUS
<1>9. PICK auth : auth = tasks[t].authority OBVIOUS
<1>10. PICK m \in Messages : m = tasks[t].msg BY <1>7
<1>11. PICK ts : ts = Append(old, Compiled(m, "clarification", ctx, "follow_up", answer, auth, <<>>))
  OBVIOUS
<1>12. t # 0 BY IdsOfSound DEF CaseInv, Ids
<1>13. ctx = IF t = 0 THEN NoCase ELSE CaseContext(t, tasks[t]) BY <1>8, <1>12
<1>14. Sound(ts) BY <1>3, <1>6, <1>7, <1>11, <1>13, GrowsByOne
<1>15. tasks' = ts BY <1>1, <1>2, <1>4, <1>8, <1>9, <1>10, <1>11
<1> QED BY <1>14, <1>15 DEF CaseInv

\* Added deliverables keep it: the delta is tied to the task it adds to.
LEMMA AddDeliverablesKeeps ==
  ASSUME CaseInv, AddDeliverables
  PROVE  CaseInv'
<1>1. PICK t \in Ids, add \in Additions :
        /\ Ready(t)
        /\ tasks' = Append(tasks,
            Compiled(tasks[t].msg, "delta", CaseContext(t, tasks[t]), "follow_up",
                     NoAnswer, "", <<add>>))
  BY DEF AddDeliverables
<1>2. Fits("delta", NoAnswer) /\ "delta" \in Kinds BY DEF Fits, NoAnswer, Kinds
<1>3. PICK old : old = tasks OBVIOUS
<1>4. /\ old \in Seq(Range(old)) /\ Len(old) = Len(tasks)
      /\ \A i \in Ids : /\ Alike(tasks[i], old[i]) /\ old[i].status \in Statuses
                        /\ old[i].status = "awaiting_clarification" => old[i].compiled
  BY <1>3, TasksAsTheyAre
<1>5. tasks[t].msg \in Messages /\ tasks[t].compiled BY <1>1, TasksAsTheyAre DEF Ready
<1>6. PICK ctx : ctx = CaseContext(t, tasks[t]) OBVIOUS
<1>7. PICK m \in Messages : m = tasks[t].msg BY <1>5
<1>8. PICK ts : ts = Append(old, Compiled(m, "delta", ctx, "follow_up", NoAnswer, "", <<add>>))
  OBVIOUS
<1>9. t # 0 BY IdsOfSound DEF CaseInv, Ids
<1>10. ctx = IF t = 0 THEN NoCase ELSE CaseContext(t, tasks[t]) BY <1>6, <1>9
<1>11. Sound(ts) BY <1>2, <1>4, <1>5, <1>8, <1>10, GrowsByOne
<1>12. tasks' = ts BY <1>1, <1>3, <1>6, <1>7, <1>8
<1> QED BY <1>11, <1>12 DEF CaseInv

\* The end of a run and a decision keep it: they change a status.
LEMMA MovesOnKeeps ==
  ASSUME CaseInv, NEW t \in Ids, NEW status \in Statuses \ {"awaiting_clarification"},
         tasks' = [tasks EXCEPT ![t].status = status]
  PROVE  CaseInv'
<1>1. PICK us : us = [tasks EXCEPT ![t].status = status] OBVIOUS
<1>2. /\ us \in Seq(Range(us)) /\ Len(us) = Len(tasks)
      /\ \A i \in Ids : /\ Alike(tasks[i], us[i]) /\ us[i].status \in Statuses
                        /\ us[i].status = "awaiting_clarification" => us[i].compiled
  BY <1>1, MovesOn
<1>3. PICK n \in Nat : n = Len(tasks) BY IdsOfSound DEF CaseInv
<1>4. Ids = 1..n /\ DOMAIN us = 1..n BY <1>2, <1>3, IdsOfSound DEF CaseInv, Ids
<1>5. ASSUME NEW i \in 1..n PROVE WellFormed(us, i)
  <2>1. \A j \in 1..i : j \in 1..n BY <1>3
  <2>2. i \in Nat \ {0} OBVIOUS
  <2>3. WellFormed(tasks, i) BY <1>4 DEF CaseInv, Sound, Ids
  <2> QED BY <1>2, <1>4, <2>1, <2>2, <2>3, StaysWellFormed
<1>6. Sound(us) BY <1>2, <1>4, <1>5 DEF Sound
<1> QED BY <1>1, <1>6 DEF CaseInv

\* Every task of a reachable conversation is well formed.
THEOREM CasesAreWellFormed == CaseSpec => []CaseInv
<1>1. CaseInit => CaseInv
  <2>1. ASSUME tasks = <<>> PROVE Sound(tasks)
    <3>1. <<>> \in Seq(Range(<<>>)) /\ DOMAIN <<>> = {} OBVIOUS
    <3> QED BY <2>1, <3>1 DEF Sound
  <2> QED BY <2>1 DEF CaseInit, CaseInv
<1>2. ASSUME CaseInv, [CaseNext]_caseVars PROVE CaseInv'
  <2>1. CASE StartTask BY <1>2, <2>1, StartTaskKeeps
  <2>2. CASE ConfirmResponsePack BY <1>2, <2>2, ConfirmKeeps
  <2>3. CASE AddDeliverables BY <1>2, <2>3, AddDeliverablesKeeps
  <2>4. CASE Finish
    <3>1. PICK t \in Ids, status \in {"done", "awaiting_approval", "error"} :
            tasks' = [tasks EXCEPT ![t].status = status]
      BY <2>4 DEF Finish
    <3>2. status \in Statuses \ {"awaiting_clarification"} BY StatusesNamed
    <3> QED BY <1>2, <3>1, <3>2, MovesOnKeeps
  <2>5. CASE Decide
    <3>1. PICK t \in Ids : tasks' = [tasks EXCEPT ![t].status = "done"] BY <2>5 DEF Decide
    <3>2. "done" \in Statuses \ {"awaiting_clarification"} BY StatusesNamed
    <3> QED BY <1>2, <3>1, <3>2, MovesOnKeeps
  <2>6. CASE UNCHANGED caseVars BY <1>2, <2>6 DEF caseVars, CaseInv
  <2> QED BY <1>2, <2>1, <2>2, <2>3, <2>4, <2>5, <2>6 DEF CaseNext
<1> QED BY <1>1, <1>2, PTL DEF CaseSpec

\* What a task is a part of: itself, and what its parent is a part of.
LEMMA InOwnLineage ==
  ASSUME NEW t \in Ids
  PROVE  t \in Lineage(t)
BY DEF Lineage

\* The parent of a task is an earlier compiled task of the same case.
LEMMA ParentOf ==
  ASSUME CaseInv, NEW t \in Ids, tasks[t].parent # 0
  PROVE  /\ tasks[t].parent \in Ids /\ tasks[t].parent < t
         /\ tasks[tasks[t].parent].compiled
         /\ tasks[t].case = tasks[tasks[t].parent].case
<1>1. Len(tasks) \in Nat /\ DOMAIN tasks = 1..Len(tasks) BY IdsOfSound DEF CaseInv
<1>2. WellFormed(tasks, t) BY DEF CaseInv, Sound, Ids
<1>3. Tied(tasks[t], tasks, t) BY <1>2 DEF WellFormed, Well
<1>4. PICK p : p = tasks[t].parent OBVIOUS
<1>5. /\ p \in 0..(t - 1) /\ p # 0
      /\ tasks[p].compiled
      /\ tasks[t].case = tasks[p].case
  BY <1>3, <1>4 DEF Tied
<1>6. t \in 1..Len(tasks) BY <1>1 DEF Ids
<1> QED BY <1>1, <1>4, <1>5, <1>6 DEF Ids

\* A task inherits the lineage of its parent.
LEMMA ParentsLineage ==
  ASSUME CaseInv, NEW t \in Ids, tasks[t].parent # 0
  PROVE  Lineage(tasks[t].parent) \subseteq Lineage(t)
<1>1. PICK p \in Ids : p = tasks[t].parent BY ParentOf
<1>2. ASSUME NEW u \in Lineage(p), NEW S \in SUBSET Ids, t \in S, Closed(S) PROVE u \in S
  <2>1. p \in S BY <1>1, <1>2 DEF Closed
  <2> QED BY <1>2, <2>1 DEF Lineage
<1>3. Lineage(p) \subseteq Ids BY DEF Lineage
<1> QED BY <1>1, <1>2, <1>3 DEF Lineage

\* Nothing else is in it, and nothing that came later.
LEMMA LineageClosed ==
  ASSUME CaseInv, NEW t \in Ids
  PROVE  Lineage(t) \subseteq Ids /\ Closed(Lineage(t))
<1>1. Lineage(t) \subseteq Ids BY DEF Lineage
<1>2. ASSUME NEW u \in Lineage(t), tasks[u].parent # 0 PROVE tasks[u].parent \in Lineage(t)
  <2>1. u \in Ids BY <1>1
  <2>2. tasks[u].parent \in Ids BY <1>2, <2>1, ParentOf
  <2>3. ASSUME NEW S \in SUBSET Ids, t \in S, Closed(S) PROVE tasks[u].parent \in S
    <3>1. u \in S BY <1>2, <2>3 DEF Lineage
    <3> QED BY <1>2, <2>3, <3>1 DEF Closed
  <2> QED BY <2>2, <2>3 DEF Lineage
<1> QED BY <1>1, <1>2 DEF Closed

\* It has nothing beside that and itself.
LEMMA LineageSplits ==
  ASSUME CaseInv, NEW t \in Ids
  PROVE  /\ tasks[t].parent = 0 => Lineage(t) = {t}
         /\ tasks[t].parent # 0 => Lineage(t) \subseteq {t} \cup Lineage(tasks[t].parent)
<1>1. ASSUME tasks[t].parent = 0 PROVE Lineage(t) = {t}
  <2>1. Closed({t}) /\ {t} \in SUBSET Ids BY <1>1 DEF Closed
  <2>2. t \in Lineage(t) BY InOwnLineage
  <2> QED BY <2>1, <2>2 DEF Lineage
<1>2. ASSUME tasks[t].parent # 0
      PROVE  Lineage(t) \subseteq {t} \cup Lineage(tasks[t].parent)
  <2>1. PICK p \in Ids : p = tasks[t].parent BY <1>2, ParentOf
  <2>2. Lineage(p) \subseteq Ids /\ Closed(Lineage(p)) BY <2>1, LineageClosed
  <2>3. p \in Lineage(p) BY InOwnLineage
  <2>4. PICK S \in SUBSET Ids : S = {t} \cup Lineage(p) BY <2>2
  <2>5. Closed(S) /\ t \in S BY <2>1, <2>2, <2>3, <2>4 DEF Closed
  <2>6. Lineage(t) \subseteq S BY <2>5 DEF Lineage
  <2> QED BY <2>1, <2>4, <2>6
<1> QED BY <1>1, <1>2

\* Nothing in a lineage is later than the task.
LEMMA LineageIsEarlier ==
  ASSUME CaseInv, NEW t \in Ids, NEW u \in Lineage(t)
  PROVE  u \in Ids /\ u <= t
<1>1. Len(tasks) \in Nat /\ Ids = 1..Len(tasks) BY IdsOfSound DEF CaseInv, Ids
<1>2. PICK S \in SUBSET Ids : S = 1..t BY <1>1
<1>3. Closed(S)
  <2>1. ASSUME NEW v \in S, tasks[v].parent # 0 PROVE tasks[v].parent \in S
    <3>1. v \in Ids /\ v \in 1..t BY <1>2
    <3>2. tasks[v].parent \in Ids /\ tasks[v].parent < v BY <2>1, <3>1, ParentOf
    <3> QED BY <1>1, <1>2, <3>1, <3>2
  <2> QED BY <2>1 DEF Closed
<1>4. t \in S BY <1>1, <1>2
<1>5. u \in S BY <1>3, <1>4 DEF Lineage
<1> QED BY <1>1, <1>2, <1>5

\* What a compiled task was compiled from.
LEMMA CompiledTask ==
  ASSUME CaseInv, NEW t \in CompiledTasks
  PROVE  /\ t \in Ids /\ tasks[t].msg \in Messages
         /\ CompiledFrom(tasks[t].sit, tasks[t].msg, PriorAt(tasks, tasks[t]),
                         tasks[t].answer, tasks[t].authority)
         /\ tasks[t].kind = "typed" => tasks[t].answer = NoAnswer
         /\ tasks[t].answer.a = "no" => tasks[t].answer.q = "immediate_danger"
         /\ tasks[t].pack = IF tasks[t].kind = "delta"
                            THEN OnlyAdded(BuildPack(tasks[t].sit, tasks[t].msg))
                            ELSE BuildPack(tasks[t].sit, tasks[t].msg)
         /\ tasks[t].question = IF tasks[t].kind = "delta" THEN ""
                            ELSE CriticalQuestion(tasks[t].sit, tasks[t].msg, tasks[t].answer)
<1>1. t \in Ids /\ WellFormed(tasks, t) /\ tasks[t].compiled
  BY DEF CaseInv, Sound, Ids, CompiledTasks
<1> QED BY <1>1 DEF WellFormed, Well

\* What it took over from its parent.
LEMMA ParentsSituation ==
  ASSUME CaseInv, NEW t \in CompiledTasks, tasks[t].parent # 0,
         NEW p, p = tasks[t].parent
  PROVE  /\ p \in CompiledTasks /\ PriorAt(tasks, tasks[t]) # NoCase
         /\ PriorAt(tasks, tasks[t]).sit.facts = UnderName(p, tasks[p].sit.facts)
         /\ PriorAt(tasks, tasks[t]).sit.signals = tasks[p].sit.signals
         /\ PriorAt(tasks, tasks[t]).sit.severity = tasks[p].sit.severity
         /\ PriorAt(tasks, tasks[t]).sit.texts = tasks[p].sit.texts
         /\ \E files : PriorAt(tasks, tasks[t]).registry
                         = WithFiles(tasks[p].sit.registry, files)
<1>1. t \in Ids BY CompiledTask
<1>2. p \in CompiledTasks BY <1>1, ParentOf DEF CompiledTasks
<1>3. PICK k : k = tasks[p] OBVIOUS
<1>4. PriorAt(tasks, tasks[t]) = CaseContext(p, k) BY <1>3 DEF PriorAt
<1>5. IsSituation(k.sit) BY <1>2, <1>3, CompiledTask DEF CompiledFrom
<1>6. /\ CaseContext(p, k).case = k.case
      /\ CaseContext(p, k).sit.facts = UnderName(p, k.sit.facts)
      /\ CaseContext(p, k).sit.signals = k.sit.signals
      /\ CaseContext(p, k).sit.severity = k.sit.severity
      /\ CaseContext(p, k).sit.texts = k.sit.texts
      /\ \E files : CaseContext(p, k).registry = WithFiles(k.sit.registry, files)
  BY <1>5, ContextHolds
<1>7. k.case \in 1..p
  <2>1. p \in DOMAIN tasks BY <1>2 DEF CompiledTasks, Ids
  <2> QED BY <1>3, <2>1, CasesAreEarlier DEF CaseInv
<1>8. CaseContext(p, k) # NoCase BY <1>6, <1>7 DEF NoCase
<1> QED BY <1>2, <1>3, <1>4, <1>6, <1>8

\* Every fact of a task is said by the words of the task it is attributed to, itself or
\* one of its lineage and its case.
Attributed(t, f) ==
  /\ f.by = 0 => f.value \in tasks[t].msg.says
  /\ f.by # 0 => f.by \in Lineage(t) \cap Case(t) /\ f.value \in tasks[f.by].msg.says

\* The facts of a task are few, and all attributed.
FactsSound(t) ==
  tasks[t].compiled =>
    /\ tasks[t].sit.facts \in Seq(FactRecords) /\ Len(tasks[t].sit.facts) <= MaxFacts
    /\ \A i \in DOMAIN tasks[t].sit.facts : Attributed(t, tasks[t].sit.facts[i])

\* The facts under the name of the task that stated them.
LEMMA FactsUnderName ==
  ASSUME NEW facts \in Seq(FactRecords), NEW p \in Nat \ {0}
  PROVE  /\ UnderName(p, facts) \in Seq(FactRecords) /\ Len(UnderName(p, facts)) = Len(facts)
         /\ DOMAIN UnderName(p, facts) = DOMAIN facts
         /\ \A i \in DOMAIN facts :
              /\ UnderName(p, facts)[i].id = facts[i].id
              /\ UnderName(p, facts)[i].value = facts[i].value
              /\ UnderName(p, facts)[i].by = IF facts[i].by = 0 THEN p ELSE facts[i].by
<1>1. PICK n \in Nat : n = Len(facts) OBVIOUS
<1>2. DOMAIN facts = 1..n BY <1>1
<1>3. \A i \in 1..n : facts[i] \in FactRecords BY <1>1
<1>4. PICK g : g = UnderName(p, facts) OBVIOUS
<1>5. g = [i \in 1..n |-> IF facts[i].by = 0 THEN [facts[i] EXCEPT !.by = p] ELSE facts[i]]
  BY <1>2, <1>4 DEF UnderName
<1>6. ASSUME NEW i \in 1..n
      PROVE  /\ g[i] \in FactRecords /\ g[i].id = facts[i].id /\ g[i].value = facts[i].value
             /\ g[i].by = IF facts[i].by = 0 THEN p ELSE facts[i].by
  <2>1. PICK f \in FactRecords : f = facts[i] BY <1>3
  <2>2. g[i] = IF f.by = 0 THEN [f EXCEPT !.by = p] ELSE f BY <1>5, <2>1
  <2>3. CASE f.by = 0
    <3>1. g[i] = [f EXCEPT !.by = p] BY <2>2, <2>3
    <3>2. [f EXCEPT !.by = p] = [id |-> f.id, value |-> f.value, status |-> f.status, by |-> p]
      BY <2>1 DEF FactRecords
    <3> QED BY <2>1, <2>3, <3>1, <3>2 DEF FactRecords
  <2>4. CASE f.by # 0 BY <2>1, <2>2, <2>4
  <2> QED BY <2>3, <2>4
<1>7. DOMAIN g = 1..n /\ g \in [1..n -> FactRecords]
  <2>1. DOMAIN g = 1..n /\ g = [i \in 1..n |-> g[i]] BY <1>5
  <2> QED BY <1>6, <2>1
<1>8. g \in Seq(FactRecords) /\ Len(g) = n
  BY <1>1, <1>7
<1> QED BY <1>1, <1>2, <1>4, <1>6, <1>7, <1>8

\* So are those of every task of a conversation.
LEMMA FactsOfEveryTask ==
  ASSUME CaseInv
  PROVE  \A t \in Ids : FactsSound(t)
<1> DEFINE S == {t \in Ids : FactsSound(t)}
<1>1. Len(tasks) \in Nat /\ Ids = 1..Len(tasks) BY IdsOfSound DEF CaseInv, Ids
<1>2. ASSUME NEW t \in 1..Len(tasks), \A u \in 1..(t - 1) : u \in S, tasks[t].compiled
      PROVE  FactsSound(t)
  <2>1. t \in CompiledTasks /\ t \in Ids BY <1>1, <1>2 DEF CompiledTasks
  <2>2. PICK m \in Messages : m = tasks[t].msg BY <2>1, CompiledTask
  <2>3. PICK prior : prior = PriorAt(tasks, tasks[t]) OBVIOUS
  <2>4. CompiledFrom(tasks[t].sit, m, prior, tasks[t].answer, tasks[t].authority)
    BY <2>1, <2>2, <2>3, CompiledTask
  <2>5. PICK said : said = GroundedFacts(m) OBVIOUS
  <2>6. /\ said \in Seq(FactRecords) /\ Len(said) <= MaxFacts
        /\ \A i \in DOMAIN said : said[i].value \in m.says /\ said[i].by = 0
    BY <2>2, <2>5, GroundedFactsAreSaid
  <2>7. PICK facts : facts = tasks[t].sit.facts OBVIOUS
  <2>8. \A i \in DOMAIN said : Attributed(t, said[i]) BY <2>2, <2>6 DEF Attributed
  <2>9. CASE tasks[t].parent = 0
    <3>1. prior = NoCase BY <2>3, <2>9 DEF PriorAt
    <3>2. facts = said BY <2>4, <2>5, <2>7, <3>1 DEF CompiledFrom
    <3> QED BY <2>6, <2>7, <2>8, <3>2 DEF FactsSound
  <2>10. CASE tasks[t].parent # 0
    <3>1. PICK p : p = tasks[t].parent OBVIOUS
    <3>2. p \in CompiledTasks /\ prior # NoCase
          /\ prior.sit.facts = UnderName(p, tasks[p].sit.facts)
      BY <2>1, <2>3, <2>10, <3>1, ParentsSituation
    <3>3. p \in Ids /\ p < t /\ tasks[t].case = tasks[p].case
      BY <2>1, <2>10, <3>1, ParentOf
    <3>4. p \in 1..(t - 1) /\ p \in Nat \ {0} BY <1>1, <3>3
    <3>5. FactsSound(p) /\ tasks[p].compiled BY <1>2, <3>2, <3>4 DEF CompiledTasks
    <3>6. PICK old : old = tasks[p].sit.facts OBVIOUS
    <3>7. /\ old \in Seq(FactRecords) /\ Len(old) <= MaxFacts
          /\ \A i \in DOMAIN old : Attributed(p, old[i])
      BY <3>5, <3>6 DEF FactsSound
    <3>8. PICK named : named = UnderName(p, old) OBVIOUS
    <3>9. /\ named \in Seq(FactRecords) /\ Len(named) = Len(old) /\ DOMAIN named = DOMAIN old
          /\ \A i \in DOMAIN old :
              /\ named[i].value = old[i].value
              /\ named[i].by = IF old[i].by = 0 THEN p ELSE old[i].by
      BY <3>4, <3>7, <3>8, FactsUnderName
    <3>10. Lineage(p) \subseteq Lineage(t) BY <2>1, <2>10, <3>1, ParentsLineage
    <3>11. p \in Lineage(t) \cap Case(t) /\ Case(p) = Case(t)
      BY <3>3, <3>10, InOwnLineage DEF Case
    <3>12. ASSUME NEW i \in DOMAIN named PROVE Attributed(t, named[i])
      <4>1. Attributed(p, old[i]) BY <3>7, <3>9, <3>12
      <4>2. /\ named[i].value = old[i].value
            /\ named[i].by = IF old[i].by = 0 THEN p ELSE old[i].by
        BY <3>9, <3>12
      <4>3. CASE old[i].by = 0 BY <3>4, <3>11, <4>1, <4>2, <4>3 DEF Attributed
      <4>4. CASE old[i].by # 0 BY <3>10, <3>11, <4>1, <4>2, <4>4 DEF Attributed
      <4> QED BY <4>3, <4>4
    <3>13. facts = MergeFacts(named, said)
      BY <2>4, <2>5, <2>7, <3>2, <3>6, <3>8 DEF CompiledFrom
    <3>14. Len(named) <= MaxFacts BY <3>7, <3>9
    <3>15. /\ MergeFacts(named, said) \in Seq(FactRecords)
           /\ Len(MergeFacts(named, said)) <= MaxFacts
           /\ \A j \in DOMAIN MergeFacts(named, said) :
                \/ \E i \in DOMAIN named : MergeFacts(named, said)[j] = named[i]
                \/ \E i \in DOMAIN said : MergeFacts(named, said)[j] = said[i]
      BY <2>6, <3>9, <3>14, MergeFactsKeeps
    <3>16. \A j \in DOMAIN facts : Attributed(t, facts[j]) BY <2>8, <3>12, <3>13, <3>15
    <3> QED BY <2>7, <3>13, <3>15, <3>16 DEF FactsSound
  <2> QED BY <2>9, <2>10
<1>3. ASSUME NEW t \in 1..Len(tasks), \A u \in 1..(t - 1) : u \in S PROVE t \in S
  <2>1. FactsSound(t) BY <1>2, <1>3 DEF FactsSound
  <2> QED BY <1>1, <2>1
<1> HIDE DEF S
<1>4. \A t \in 1..Len(tasks) : t \in S BY <1>1, <1>3, ByNumber
<1> QED BY <1>1, <1>4 DEF S

\* The artifacts of a compiled task, asked for and on record, are sequences.
ListsSound(t) ==
  tasks[t].compiled => Listed(tasks[t].sit.outputs) /\ Listed(tasks[t].sit.registry)

\* So are those of every task of a conversation: what a task takes over from its parent
\* is the parent's registry with the files of its pack.
LEMMA ListsOfEveryTask ==
  ASSUME CaseInv
  PROVE  \A t \in Ids : ListsSound(t)
<1> DEFINE S == {t \in Ids : ListsSound(t)}
<1>1. Len(tasks) \in Nat /\ Ids = 1..Len(tasks) BY IdsOfSound DEF CaseInv, Ids
<1>2. ASSUME NEW t \in 1..Len(tasks), \A u \in 1..(t - 1) : u \in S, tasks[t].compiled
      PROVE  ListsSound(t)
  <2>1. t \in CompiledTasks /\ t \in Ids BY <1>1, <1>2 DEF CompiledTasks
  <2>2. PICK prior : prior = PriorAt(tasks, tasks[t]) OBVIOUS
  <2>3. prior = NoCase \/ Listed(prior.registry)
          => Listed(tasks[t].sit.outputs) /\ Listed(tasks[t].sit.registry)
    BY <2>1, <2>2, CompiledTask DEF CompiledFrom
  <2>4. CASE tasks[t].parent = 0
    <3>1. prior = NoCase BY <2>2, <2>4 DEF PriorAt
    <3> QED BY <2>3, <3>1 DEF ListsSound
  <2>5. CASE tasks[t].parent # 0
    <3>1. PICK p : p = tasks[t].parent OBVIOUS
    <3>2. PICK files : prior.registry = WithFiles(tasks[p].sit.registry, files)
      BY <2>1, <2>2, <2>5, <3>1, ParentsSituation
    <3>3. p \in CompiledTasks BY <2>1, <2>5, <3>1, ParentsSituation
    <3>4. p \in Ids /\ p < t BY <2>1, <2>5, <3>1, ParentOf
    <3>5. p \in 1..(t - 1) BY <1>1, <3>4
    <3>6. Listed(tasks[p].sit.registry) BY <1>2, <3>3, <3>5 DEF CompiledTasks, ListsSound
    <3>7. Listed(prior.registry) BY <3>2, <3>6, WithFilesListed
    <3> QED BY <2>3, <3>7 DEF ListsSound
  <2> QED BY <2>4, <2>5
<1>3. ASSUME NEW t \in 1..Len(tasks), \A u \in 1..(t - 1) : u \in S PROVE t \in S
  <2>1. ListsSound(t) BY <1>2, <1>3 DEF ListsSound
  <2> QED BY <1>1, <2>1
<1> HIDE DEF S
<1>4. \A t \in 1..Len(tasks) : t \in S BY <1>1, <1>3, ByNumber
<1> QED BY <1>1, <1>4 DEF S

\* No fact reaches another case.
LEMMA FactsStay ==
  ASSUME CaseInv
  PROVE  FactsStayInTheirCase
<1>1. ASSUME NEW t \in CompiledTasks, NEW f \in Facts(t)
      PROVE  LET by == IF f.by = 0 THEN t ELSE f.by
             IN by \in Lineage(t) \cap Case(t) /\ f.value \in tasks[by].msg.says
  <2>1. t \in Ids /\ tasks[t].compiled BY <1>1 DEF CompiledTasks
  <2>2. PICK facts : facts = tasks[t].sit.facts OBVIOUS
  <2>3. PICK i \in DOMAIN facts : f = facts[i] BY <1>1, <2>2 DEF Facts
  <2>4. Attributed(t, f) BY <2>1, <2>2, <2>3, FactsOfEveryTask DEF FactsSound
  <2>5. t \in Lineage(t) \cap Case(t) BY <2>1, InOwnLineage DEF Case
  <2>6. CASE f.by = 0 BY <2>4, <2>5, <2>6 DEF Attributed
  <2>7. CASE f.by # 0 BY <2>4, <2>7 DEF Attributed
  <2> QED BY <2>6, <2>7
<1> QED BY <1>1 DEF FactsStayInTheirCase

\* A follow-up keeps the severity and the facts of its parent.
LEMMA CaseKept ==
  ASSUME CaseInv
  PROVE  FollowUpKeepsTheCase
<1>1. ASSUME NEW t \in CompiledTasks, tasks[t].parent # 0, NEW p, p = tasks[t].parent
      PROVE  /\ SeverityRank(tasks[t].sit.severity) >= SeverityRank(tasks[p].sit.severity)
             /\ \A f \in Facts(p) : \E h \in Facts(p) :
                  /\ h.id = f.id \/ h.value = f.value
                  /\ \E g \in Facts(t) : g.id = h.id
  <2>1. t \in Ids /\ tasks[t].compiled BY <1>1 DEF CompiledTasks
  <2>2. PICK prior : prior = PriorAt(tasks, tasks[t]) OBVIOUS
  <2>3. /\ p \in CompiledTasks /\ prior # NoCase
        /\ prior.sit.facts = UnderName(p, tasks[p].sit.facts)
        /\ prior.sit.severity = tasks[p].sit.severity
    BY <1>1, <2>2, ParentsSituation
  <2>4. PICK m \in Messages : m = tasks[t].msg BY <1>1, CompiledTask
  <2>5. CompiledFrom(tasks[t].sit, m, prior, tasks[t].answer, tasks[t].authority)
    BY <1>1, <2>2, <2>4, CompiledTask
  <2>6. SeverityRank(tasks[t].sit.severity) >= SeverityRank(tasks[p].sit.severity)
    BY <2>3, <2>5 DEF CompiledFrom
  <2>7. PICK old : old = tasks[p].sit.facts OBVIOUS
  <2>8. p \in Ids /\ tasks[p].compiled BY <2>3 DEF CompiledTasks
  <2>9. old \in Seq(FactRecords) /\ Len(old) <= MaxFacts
    BY <2>7, <2>8, FactsOfEveryTask DEF FactsSound
  <2>10. p \in Nat \ {0} BY <2>8, IdsOfSound DEF CaseInv, Ids
  <2>11. PICK named : named = UnderName(p, old) OBVIOUS
  <2>12. /\ named \in Seq(FactRecords) /\ Len(named) = Len(old) /\ DOMAIN named = DOMAIN old
         /\ \A i \in DOMAIN old : named[i].id = old[i].id /\ named[i].value = old[i].value
    BY <2>9, <2>10, <2>11, FactsUnderName
  <2>13. PICK said \in Seq(FactRecords) : said = GroundedFacts(m) BY <2>4, GroundedFactsAreSaid
  <2>14. PICK facts : facts = tasks[t].sit.facts OBVIOUS
  <2>15. facts = MergeFacts(named, said) BY <2>3, <2>5, <2>7, <2>11, <2>13, <2>14 DEF CompiledFrom
  <2>16. Len(named) <= MaxFacts BY <2>9, <2>12
  <2>17. \A i \in DOMAIN named : \E h \in DOMAIN named :
              /\ named[h].id = named[i].id \/ named[h].value = named[i].value
              /\ \E j \in DOMAIN MergeFacts(named, said) :
                   MergeFacts(named, said)[j].id = named[h].id
    BY <2>12, <2>13, <2>16, MergeFactsKeeps
  <2>18. ASSUME NEW f \in Facts(p)
         PROVE  \E h \in Facts(p) : /\ h.id = f.id \/ h.value = f.value
                                    /\ \E g \in Facts(t) : g.id = h.id
    <3>1. PICK i \in DOMAIN old : f = old[i] BY <2>7, <2>18 DEF Facts
    <3>2. PICK h \in DOMAIN old :
            /\ named[h].id = named[i].id \/ named[h].value = named[i].value
            /\ \E j \in DOMAIN facts : facts[j].id = named[h].id
      BY <2>12, <2>15, <2>17, <3>1
    <3>3. old[h] \in Facts(p) BY <2>7 DEF Facts
    <3>4. PICK j \in DOMAIN facts : facts[j].id = named[h].id BY <3>2
    <3>5. facts[j] \in Facts(t) BY <2>14 DEF Facts
    <3>6. old[h].id = f.id \/ old[h].value = f.value BY <2>12, <3>1, <3>2
    <3>7. facts[j].id = old[h].id BY <2>12, <3>4
    <3> QED BY <3>3, <3>5, <3>6, <3>7
  <2> QED BY <2>6, <2>18
<1> QED BY <1>1 DEF FollowUpKeepsTheCase

\* A human or the words declared the danger of a task after every "no" of its lineage.
Declared(t) ==
  \E u \in Lineage(t) :
    /\ \/ Alarms(tasks[u].msg) /\ tasks[u].answer.a # "no"
       \/ tasks[u].answer.a = "yes"
    /\ \A v \in Lineage(t) : tasks[v].answer.a = "no" => v < u

\* A task in active danger has one that was declared.
DangerDeclared(t) ==
  tasks[t].compiled /\ "active_danger" \in tasks[t].sit.signals => Declared(t)

\* A task's own danger was declared in its own turn or in one its parent inherited from.
LEMMA DangerIsDeclared ==
  ASSUME CaseInv, NEW t \in Ids,
         tasks[t].parent # 0 => DangerDeclared(tasks[t].parent)
  PROVE  DangerDeclared(t)
<1> SUFFICES ASSUME tasks[t].compiled, "active_danger" \in tasks[t].sit.signals
             PROVE  Declared(t)
  BY DEF DangerDeclared
<1>1. t \in CompiledTasks BY DEF CompiledTasks
<1>2. PICK m \in Messages : m = tasks[t].msg BY <1>1, CompiledTask
<1>3. PICK prior : prior = PriorAt(tasks, tasks[t]) OBVIOUS
<1>4. CompiledFrom(tasks[t].sit, m, prior, tasks[t].answer, tasks[t].authority)
  BY <1>1, <1>2, <1>3, CompiledTask
<1>5. PICK answer : answer = tasks[t].answer OBVIOUS
<1>6. PICK a : a = Answered(answer, "immediate_danger") OBVIOUS
<1>7. /\ a # "no"
      /\ \/ a = "yes" \/ Alarms(m)
         \/ prior # NoCase /\ "active_danger" \in prior.sit.signals
  BY <1>4, <1>5, <1>6 DEF CompiledFrom
<1>8. answer.a # "no"
  <2>1. answer.a = "no" => answer.q = "immediate_danger" BY <1>1, <1>5, CompiledTask
  <2> QED BY <1>6, <1>7, <2>1 DEF Answered
<1>9. a = "yes" => answer.a = "yes" BY <1>6 DEF Answered
<1>10. t \in Lineage(t) BY InOwnLineage
<1>11. Len(tasks) \in Nat /\ Ids = 1..Len(tasks) BY IdsOfSound DEF CaseInv, Ids
<1>12. CASE a = "yes" \/ Alarms(m)
  <2>1. ASSUME NEW v \in Lineage(t), tasks[v].answer.a = "no" PROVE v < t
    <3>1. v \in Ids /\ v <= t BY <2>1, LineageIsEarlier
    <3>2. v # t BY <1>5, <1>8, <2>1
    <3> QED BY <1>11, <3>1, <3>2
  <2> QED BY <1>2, <1>5, <1>8, <1>9, <1>10, <1>12, <2>1 DEF Declared
<1>13. CASE ~(a = "yes" \/ Alarms(m))
  <2>1. prior # NoCase /\ "active_danger" \in prior.sit.signals BY <1>7, <1>13
  <2>2. tasks[t].parent # 0 BY <1>3, <2>1 DEF PriorAt
  <2>3. PICK p : p = tasks[t].parent OBVIOUS
  <2>4. p \in CompiledTasks /\ prior.sit.signals = tasks[p].sit.signals
    BY <1>1, <1>3, <2>2, <2>3, ParentsSituation
  <2>5. tasks[p].compiled BY <2>4 DEF CompiledTasks
  <2>6. Declared(p) BY <2>1, <2>2, <2>3, <2>4, <2>5 DEF DangerDeclared
  <2>7. PICK u \in Lineage(p) :
          /\ \/ Alarms(tasks[u].msg) /\ tasks[u].answer.a # "no"
             \/ tasks[u].answer.a = "yes"
          /\ \A v \in Lineage(p) : tasks[v].answer.a = "no" => v < u
    BY <2>6 DEF Declared
  <2>8. Lineage(p) \subseteq Lineage(t) BY <2>2, <2>3, ParentsLineage
  <2>9. Lineage(t) \subseteq {t} \cup Lineage(p) BY <2>2, <2>3, LineageSplits
  <2>10. ASSUME NEW v \in Lineage(t), tasks[v].answer.a = "no" PROVE v < u
    <3>1. v # t BY <1>5, <1>8, <2>10
    <3>2. v \in Lineage(p) BY <2>9, <3>1
    <3> QED BY <2>7, <2>10, <3>2
  <2> QED BY <2>7, <2>8, <2>10 DEF Declared
<1> QED BY <1>12, <1>13

\* So has every task of a conversation.
LEMMA DangerOfEveryTask ==
  ASSUME CaseInv
  PROVE  \A t \in Ids : DangerDeclared(t)
<1> DEFINE S == {t \in Ids : DangerDeclared(t)}
<1>1. Len(tasks) \in Nat /\ Ids = 1..Len(tasks) BY IdsOfSound DEF CaseInv, Ids
<1>2. ASSUME NEW t \in 1..Len(tasks), \A u \in 1..(t - 1) : u \in S PROVE t \in S
  <2>1. t \in Ids BY <1>1
  <2>2. ASSUME tasks[t].parent # 0 PROVE DangerDeclared(tasks[t].parent)
    <3>1. PICK p : p = tasks[t].parent OBVIOUS
    <3>2. p \in Ids /\ p < t BY <2>1, <2>2, <3>1, ParentOf
    <3>3. p \in 1..(t - 1) BY <1>1, <3>2
    <3> QED BY <1>2, <3>1, <3>3
  <2>3. DangerDeclared(t) BY <2>1, <2>2, DangerIsDeclared
  <2> QED BY <2>1, <2>3
<1> HIDE DEF S
<1>3. \A t \in 1..Len(tasks) : t \in S BY <1>1, <1>2, ByNumber
<1> QED BY <1>1, <1>3 DEF S

\* A declared end of a danger stands.
LEMMA NoStands ==
  ASSUME CaseInv
  PROVE  AnsweredNoStands
<1>1. ASSUME NEW t \in CompiledTasks, "active_danger" \in tasks[t].sit.signals
      PROVE  Declared(t)
  <2>1. t \in Ids /\ tasks[t].compiled BY DEF CompiledTasks
  <2> QED BY <1>1, <2>1, DangerOfEveryTask DEF DangerDeclared
<1> QED BY <1>1 DEF AnsweredNoStands, Declared

\* A reported danger reaches the situation, and is asked about.
LEMMA DangerIsHeard ==
  ASSUME CaseInv
  PROVE  WordedDangerIsHeard
<1> SUFFICES ASSUME NEW t \in CompiledTasks, Typed(t), Reported(tasks[t].msg)
    PROVE  /\ "active_danger" \in tasks[t].sit.signals
           /\ \/ tasks[t].question = "immediate_danger"
              \/ \E x \in tasks[t].sit.texts : x.settled = "hazard"
              \/ ~tasks[t].msg.checked /\ "active" \notin tasks[t].msg.reads
  BY DEF WordedDangerIsHeard
<1>1. PICK m \in Messages : m = tasks[t].msg BY CompiledTask
<1>2. PICK s : s = tasks[t].sit OBVIOUS
<1>3. PICK prior : prior = PriorAt(tasks, tasks[t]) OBVIOUS
<1>4. tasks[t].answer = NoAnswer BY CompiledTask DEF Typed
<1>5. CompiledFrom(s, m, prior, NoAnswer, tasks[t].authority)
  BY <1>1, <1>2, <1>3, <1>4, CompiledTask
<1>6. Answered(NoAnswer, "immediate_danger") = "" BY DEF Answered, NoAnswer
<1>7. "active_danger" \in s.signals BY <1>1, <1>5, <1>6 DEF CompiledFrom
<1>8. s.severity = "critical" BY <1>5, <1>7 DEF CompiledFrom, FloorMet
<1>9. s.severity \in Grave
  <2>1. Severities[5] = "critical" BY DEF Severities
  <2> QED BY <1>8, <2>1 DEF Grave, OfRank
<1>10. m \in s.texts BY <1>5 DEF CompiledFrom
<1>11. tasks[t].question = CriticalQuestion(s, m, NoAnswer)
  BY <1>1, <1>2, <1>4, CompiledTask DEF Typed
<1>12. ASSUME ~(\E x \in s.texts : x.settled = "hazard"), m.checked \/ "active" \in m.reads
       PROVE  tasks[t].question = "immediate_danger"
  <2>1. PICK settled : settled = {x.settled : x \in s.texts} OBVIOUS
  <2>2. "hazard" \notin settled BY <1>12, <2>1
  <2>3. \/ \E x \in s.texts : ReadsAny(x, {"active", "physical", "safeguarding", "missing"})
        \/ m.checked /\ s.signals \cap {"active_danger",
                      "injury_or_illness", "person_missing", "safeguarding_concern",
                      "external_help_may_be_required"} # {}
    <3>1. CASE m.checked BY <1>7, <3>1
    <3>2. CASE "active" \in m.reads
      <4>1. ReadsAny(m, {"active", "physical", "safeguarding", "missing"})
        BY <3>2 DEF ReadsAny
      <4> QED BY <1>10, <4>1
    <3> QED BY <1>12, <3>1, <3>2
  <2>4. NoAnswer.q # "immediate_danger" BY DEF NoAnswer
  <2> QED BY <1>7, <1>9, <1>11, <2>1, <2>2, <2>3, <2>4 DEF CriticalQuestion
<1> QED BY <1>1, <1>2, <1>7, <1>12

\* The fields of an item of a pack.
ItemFields == {"id", "role", "kind", "audience", "to", "private", "selected", "added",
               "custom", "link"}

\* Every item of a pack has the fields of one, and a gate that no custom deliverable
\* brought with it is for a recipient of the release.
LEMMA ItemsOfPack ==
  ASSUME NEW s, NEW m, NEW d \in BuildPack(s, m).items
  PROVE  /\ DOMAIN d = ItemFields
         /\ d.kind = "gate" /\ ~d.custom => d.to \in s.release
<1>1. PICK entries : entries = Entries(s, m) OBVIOUS
<1> DEFINE artifacts == {EntryItem(entries[r], s) : r \in DOMAIN entries}
           customs   == UNION {CustomItems(s.customs[i]) : i \in DOMAIN s.customs}
           gates     == {GateItem(r, entries) : r \in Releases(s, m)}
           official  == IF m.official THEN {SystemItem("official_record_change_gate")} ELSE {}
           publish   == IF m.repository THEN {SystemItem("internal_repository_publish_gate")}
                        ELSE {}
<1>2. d \in Items(entries, s, m) BY <1>1 DEF BuildPack
<1>3. CASE d \in artifacts
  <2>1. PICK r \in DOMAIN entries : d = EntryItem(entries[r], s) BY <1>3
  <2> QED BY <2>1 DEF EntryItem, ItemFields
<1>4. CASE d \in customs
  <2>1. PICK c : d \in CustomItems(c) BY <1>4
  <2>2. PICK item : item = [id |-> c.id, role |-> c.role, kind |-> "artifact",
               audience |-> c.audience, to |-> c.to, private |-> FALSE,
               selected |-> TRUE, added |-> ~c.explicit, custom |-> TRUE,
               link |-> ""]
    OBVIOUS
  <2>3. d = item \/ d = [item EXCEPT !.kind = "gate", !.added = TRUE, !.link = c.id]
    <3>1. CustomItems(c) \subseteq {item} \cup
            {[item EXCEPT !.kind = "gate", !.added = TRUE, !.link = c.id]}
      BY <2>2 DEF CustomItems
    <3> QED BY <2>1, <3>1
  <2>4. DOMAIN item = ItemFields /\ item.custom = TRUE BY <2>2 DEF ItemFields
  <2>5. CASE d = item BY <2>4, <2>5
  <2>6. CASE d = [item EXCEPT !.kind = "gate", !.added = TRUE, !.link = c.id]
    <3>1. DOMAIN d = DOMAIN item BY <2>6
    <3>2. d.custom = item.custom BY <2>4, <2>6 DEF ItemFields
    <3> QED BY <2>4, <3>1, <3>2
  <2> QED BY <2>3, <2>5, <2>6
<1>5. CASE d \in gates
  <2>1. PICK r \in Releases(s, m) : d = GateItem(r, entries) BY <1>5
  <2>2. r \in s.release BY <2>1 DEF Releases
  <2> QED BY <2>1, <2>2 DEF GateItem, ItemFields
<1>6. CASE d \in official \/ d \in publish
  <2>1. PICK role : d = SystemItem(role) BY <1>6
  <2>2. d.kind = "system" /\ DOMAIN d = ItemFields BY <2>1 DEF SystemItem, ItemFields
  <2>3. "system" # "gate" OBVIOUS
  <2> QED BY <2>2, <2>3
<1>7. Items(entries, s, m) = artifacts \cup customs \cup gates \cup official \cup publish
  BY DEF Items
<1> HIDE DEF artifacts, customs, gates, official, publish
<1> QED BY <1>2, <1>3, <1>4, <1>5, <1>6, <1>7

\* What a delta leaves of an item.
LEMMA OnlyAddedItems ==
  ASSUME NEW s, NEW m
  PROVE  /\ OnlyAdded(BuildPack(s, m)).items =
              {[d EXCEPT !.selected = @ /\ d.added] : d \in BuildPack(s, m).items}
         /\ OnlyAdded(BuildPack(s, m)).decision = BuildPack(s, m).decision
BY DEF OnlyAdded, BuildPack

\* The items of a task's pack: those of its situation, their selection apart.
LEMMA ItemsOfTask ==
  ASSUME CaseInv, NEW t \in CompiledTasks, NEW d \in tasks[t].pack.items
  PROVE  d.kind = "gate" /\ ~d.custom => d.to \in tasks[t].sit.release
<1>1. PICK s : s = tasks[t].sit OBVIOUS
<1>2. PICK m : m = tasks[t].msg OBVIOUS
<1>3. CASE tasks[t].kind = "delta"
  <2>1. d \in OnlyAdded(BuildPack(s, m)).items BY <1>1, <1>2, <1>3, CompiledTask
  <2>2. PICK e \in BuildPack(s, m).items : d = [e EXCEPT !.selected = @ /\ e.added]
    BY <2>1, OnlyAddedItems
  <2>3. DOMAIN e = ItemFields /\ (e.kind = "gate" /\ ~e.custom => e.to \in s.release)
    BY ItemsOfPack
  <2>4. d.kind = e.kind /\ d.custom = e.custom /\ d.to = e.to BY <2>2, <2>3 DEF ItemFields
  <2> QED BY <1>1, <2>3, <2>4
<1>4. CASE tasks[t].kind # "delta"
  <2>1. d \in BuildPack(s, m).items BY <1>1, <1>2, <1>4, CompiledTask
  <2> QED BY <1>1, <2>1, ItemsOfPack
<1> QED BY <1>3, <1>4

\* Every gate of the compiler is for a release that was commanded.
LEMMA ReleasesAreCommanded ==
  ASSUME CaseInv
  PROVE  ReleaseWasCommanded
<1>1. ASSUME NEW t \in CompiledTasks, NEW d \in tasks[t].pack.items,
             d.kind = "gate", ~d.custom
      PROVE  \/ tasks[t].answer.q = "external_recipient" /\ d.to = tasks[t].answer.a
             \/ /\ tasks[t].authority # "draft_only"
                /\ tasks[t].msg.release = "commanded"
                /\ d.to \notin tasks[t].msg.refuses
  <2>1. d.to \in tasks[t].sit.release BY <1>1, ItemsOfTask
  <2>2. MayRelease(d.to, tasks[t].msg, tasks[t].answer, tasks[t].authority)
    BY <2>1, CompiledTask DEF CompiledFrom
  <2> QED BY <2>2 DEF MayRelease
<1> QED BY <1>1 DEF ReleaseWasCommanded

\* An entry of the pack that is required and that nothing leaves out.
ContractFields == {"role", "private", "id", "audience", "to", "req", "origin", "dflt"}

\* The origins of what was asked for or is owed.
FirmOrigins == {"policy_required", "explicit_request", "safe_substitution"}

\* The entry of a role is required, and nothing that is recommended.
Firm(entries, r) ==
  /\ r \in DOMAIN entries /\ DOMAIN entries[r] = ContractFields
  /\ entries[r].role = r /\ entries[r].req = "required" /\ entries[r].origin \in FirmOrigins

\* The strongest of some origins is firm when one of them is.
LEMMA StrongestIsFirm ==
  ASSUME NEW origins, NEW o \in origins, o \in FirmOrigins
  PROVE  Strongest(origins) \in FirmOrigins
BY DEF Strongest, FirmOrigins

\* The entry of a role after some contracts of it were joined to one.
LEMMA JoinedFields ==
  ASSUME NEW r, NEW e, NEW same
  PROVE  /\ DOMAIN Joined(r, e, same) = ContractFields /\ Joined(r, e, same).role = r
         /\ e.req = "required" \/ (\E c \in same : c.req = "required")
              => Joined(r, e, same).req = "required"
         /\ Joined(r, e, same).origin = Strongest({e.origin} \cup {c.origin : c \in same})
<1>1. PICK req : req = IF \E c \in same : c.req = "required" THEN "required" ELSE e.req OBVIOUS
<1>2. PICK origin : origin = Strongest({e.origin} \cup {c.origin : c \in same}) OBVIOUS
<1>3. PICK dflt : dflt = IF \A c \in same : c.dflt = "" THEN e.dflt
                         ELSE (CHOOSE c \in same : c.dflt # "").dflt
  OBVIOUS
<1>4. Joined(r, e, same) = [role |-> r, private |-> e.private, id |-> e.id,
                            audience |-> e.audience, to |-> e.to, req |-> req,
                            origin |-> origin, dflt |-> dflt]
  BY <1>1, <1>2, <1>3 DEF Joined
<1> QED BY <1>1, <1>2, <1>4 DEF ContractFields

\* A required contract makes its entry firm, and no other contract takes that away.
LEMMA AddAllMakesFirm ==
  ASSUME NEW entries, NEW contracts, NEW c \in contracts,
         c.req = "required", c.origin \in FirmOrigins
  PROVE  Firm(AddAll(entries, contracts), c.role)
<1>1. PICK r : r = c.role OBVIOUS
<1>2. PICK same : same = {k \in contracts : k.role = r} OBVIOUS
<1>3. c \in same BY <1>1, <1>2
<1>4. PICK e : e = IF r \in DOMAIN entries THEN entries[r] ELSE CHOOSE k \in same : TRUE
  OBVIOUS
<1>5. PICK es : es = AddAll(entries, contracts) OBVIOUS
<1>6. r \in DOMAIN es /\ es[r] = Joined(r, e, same) BY <1>1, <1>2, <1>4, <1>5 DEF AddAll
<1>7. PICK origins : origins = {e.origin} \cup {k.origin : k \in same} OBVIOUS
<1>8. Strongest(origins) \in FirmOrigins BY <1>3, <1>7, StrongestIsFirm
<1>9. /\ DOMAIN Joined(r, e, same) = ContractFields /\ Joined(r, e, same).role = r
      /\ Joined(r, e, same).req = "required"
      /\ Joined(r, e, same).origin = Strongest(origins)
  <2>1. \E k \in same : k.req = "required" BY <1>3
  <2>2. Joined(r, e, same).req = "required" BY <2>1, Zenon DEF Joined
  <2> QED BY <1>7, <2>2, JoinedFields
<1> QED BY <1>1, <1>5, <1>6, <1>8, <1>9 DEF Firm

\* Nor does adding others.
LEMMA AddAllKeepsFirm ==
  ASSUME NEW entries, NEW contracts, NEW r, Firm(entries, r)
  PROVE  Firm(AddAll(entries, contracts), r)
<1>1. PICK same : same = {k \in contracts : k.role = r} OBVIOUS
<1>2. PICK e : e = entries[r] OBVIOUS
<1>3. e.req = "required" /\ e.origin \in FirmOrigins /\ r \in DOMAIN entries
  BY <1>2 DEF Firm
<1>4. PICK es : es = AddAll(entries, contracts) OBVIOUS
<1>5. r \in DOMAIN es /\ es[r] = Joined(r, e, same) BY <1>1, <1>2, <1>3, <1>4 DEF AddAll
<1>6. PICK origins : origins = {e.origin} \cup {k.origin : k \in same} OBVIOUS
<1>7. Strongest(origins) \in FirmOrigins BY <1>3, <1>6, StrongestIsFirm
<1>8. /\ DOMAIN Joined(r, e, same) = ContractFields /\ Joined(r, e, same).role = r
      /\ Joined(r, e, same).req = "required"
      /\ Joined(r, e, same).origin = Strongest(origins)
  BY <1>3, <1>6, JoinedFields
<1> QED BY <1>4, <1>5, <1>7, <1>8 DEF Firm

\* The audiences that are broad.
Wide == {"school_community", "public"}

\* Contracts a broad audience sees under the privacy contract only.
Guarded(contracts) == \A c \in contracts : c.audience \in Wide => c.private

\* The same of the entries of a pack, each under its own role.
Shielded(entries) ==
  \A r \in DOMAIN entries :
    /\ DOMAIN entries[r] = ContractFields /\ entries[r].role = r
    /\ entries[r].audience \in Wide => entries[r].private

\* An entry to which contracts are joined keeps its audience and its privacy.
LEMMA JoinedHandsOver ==
  ASSUME NEW r, NEW e, NEW same
  PROVE  Joined(r, e, same).private = e.private /\ Joined(r, e, same).audience = e.audience
<1>1. PICK req : req = IF \E c \in same : c.req = "required" THEN "required" ELSE e.req OBVIOUS
<1>2. PICK origin : origin = Strongest({e.origin} \cup {c.origin : c \in same}) OBVIOUS
<1>3. PICK dflt : dflt = IF \A c \in same : c.dflt = "" THEN e.dflt
                         ELSE (CHOOSE c \in same : c.dflt # "").dflt
  OBVIOUS
<1>4. Joined(r, e, same) = [role |-> r, private |-> e.private, id |-> e.id,
                            audience |-> e.audience, to |-> e.to, req |-> req,
                            origin |-> origin, dflt |-> dflt]
  BY <1>1, <1>2, <1>3 DEF Joined
<1> QED BY <1>4

\* Guarded contracts shield the entries they are added to.
LEMMA AddAllShielded ==
  ASSUME NEW entries, Shielded(entries), NEW contracts, Guarded(contracts)
  PROVE  Shielded(AddAll(entries, contracts))
<1>1. PICK es : es = AddAll(entries, contracts) OBVIOUS
<1>2. DOMAIN es = DOMAIN entries \cup {c.role : c \in contracts} BY <1>1 DEF AddAll
<1>3. ASSUME NEW r \in DOMAIN es
      PROVE  /\ DOMAIN es[r] = ContractFields /\ es[r].role = r
             /\ es[r].audience \in Wide => es[r].private
  <2>1. PICK same : same = {c \in contracts : c.role = r} OBVIOUS
  <2>2. PICK e : e = IF r \in DOMAIN entries THEN entries[r] ELSE CHOOSE c \in same : TRUE
    OBVIOUS
  <2>3. es[r] = Joined(r, e, same) BY <1>1, <1>2, <2>1, <2>2 DEF AddAll
  <2>4. e.audience \in Wide => e.private
    <3>1. CASE r \in DOMAIN entries BY <2>2, <3>1 DEF Shielded
    <3>2. CASE r \notin DOMAIN entries
      <4>1. e \in same BY <1>2, <2>1, <2>2, <3>2
      <4> QED BY <2>1, <4>1 DEF Guarded
    <3> QED BY <3>1, <3>2
  <2>5. PICK d : d = Joined(r, e, same) OBVIOUS
  <2>6. DOMAIN d = ContractFields /\ d.role = r BY <2>5, JoinedFields
  <2>7. d.private = e.private /\ d.audience = e.audience BY <2>5, JoinedHandsOver
  <2>8. es[r] = d BY <2>3, <2>5
  <2> QED BY <2>4, <2>6, <2>7, <2>8
<1> QED BY <1>1, <1>3 DEF Shielded

\* The contracts of the rules are internal.
Inside(contracts) == \A c \in contracts : c.audience = "internal"

\* So they are guarded.
LEMMA InsideIsGuarded ==
  ASSUME NEW contracts, Inside(contracts)
  PROVE  Guarded(contracts)
BY DEF Inside, Guarded, Wide

\* A contract of a rule is internal.
LEMMA ContractIsInside ==
  ASSUME NEW role, NEW req, NEW origin
  PROVE  /\ "audience" \in DOMAIN Contract(role, req, origin)
         /\ Contract(role, req, origin).audience = "internal"
<1>1. PICK c : c = Contract(role, req, origin) OBVIOUS
<1>2. "audience" \in DOMAIN c /\ c.audience = "internal" BY <1>1 DEF Contract
<1> QED BY <1>1, <1>2

\* What the rules add of each kind is internal.
LEMMA RulesAreInside ==
  /\ \A roles : Inside(Must(roles)) /\ Inside(May(roles))
  /\ \A role, dflt : Inside(Hint(role, dflt))
  /\ Inside({})
  /\ \A a, b : Inside(a) /\ Inside(b) => Inside(a \cup b)
<1>1. ASSUME NEW roles PROVE Inside(Must(roles)) /\ Inside(May(roles))
  BY ContractIsInside DEF Inside, Must, May
<1>2. ASSUME NEW role, NEW dflt PROVE Inside(Hint(role, dflt))
  <2>1. PICK c : c = Contract(role, "recommended", "system_recommendation") OBVIOUS
  <2>2. "audience" \in DOMAIN c /\ c.audience = "internal" BY <2>1, ContractIsInside
  <2>3. [c EXCEPT !.dflt = dflt].audience = "internal" BY <2>2
  <2> QED BY <2>1, <2>3 DEF Inside, Hint
<1>3. Inside({}) BY DEF Inside
<1>4. \A a, b : Inside(a) /\ Inside(b) => Inside(a \cup b) BY DEF Inside
<1> QED BY <1>1, <1>2, <1>3, <1>4

\* So is what the signals make necessary.
LEMMA SignalsAreInside ==
  ASSUME NEW entries, NEW s, NEW m
  PROVE  /\ Inside(InjuryContracts(s, m)) /\ Inside(DangerContracts(s))
         /\ Inside(MissingContracts(s)) /\ Inside(WelfareContracts(s, m))
         /\ Inside(FacilityContracts(s, m)) /\ Inside(TransportContracts(s, m))
         /\ Inside(FoodContracts(s)) /\ Inside(GuardianContracts(entries, s, m))
         /\ Inside(AccountabilityContracts(s, m)) /\ Inside(RecordContracts(s, m))
<1>1. Inside(InjuryContracts(s, m))
  <2>1. PICK hint : hint = {[c EXCEPT !.req = IF s.severity = "high" /\ ~DangerOver(s, m)
                                     THEN "required" ELSE @] :
                     c \in Hint("medical_handover_script", "no")}
    OBVIOUS
  <2>2. Inside(hint)
    <3>1. ASSUME NEW d \in hint PROVE d.audience = "internal"
      <4>1. PICK c \in Hint("medical_handover_script", "no") : \E req : d = [c EXCEPT !.req = req]
        BY <2>1
      <4>2. c.audience = "internal" BY RulesAreInside DEF Inside
      <4>3. "audience" \in DOMAIN c
        <5>1. PICK h : h = Contract("medical_handover_script", "recommended",
                                    "system_recommendation")
          OBVIOUS
        <5>2. "audience" \in DOMAIN h BY <5>1, ContractIsInside
        <5>3. c = [h EXCEPT !.dflt = "no"] BY <5>1 DEF Hint
        <5> QED BY <5>2, <5>3
      <4> QED BY <4>1, <4>2, <4>3
    <3> QED BY <3>1 DEF Inside
  <2>3. PICK script : script = IF s.severity = "critical" THEN Must({"medical_handover_script"})
             ELSE IF AsksForWork(s) THEN {} ELSE hint
    OBVIOUS
  <2>4. Inside(script) BY <2>2, <2>3, RulesAreInside
  <2>5. PICK notice : notice = IF Pupils(s) THEN Must({"private_parent_notice"}) ELSE {} OBVIOUS
  <2>6. Inside(notice) BY <2>5, RulesAreInside
  <2>7. InjuryContracts(s, m) = IF ~On(s, {"injury_or_illness"}) THEN {}
          ELSE Must({"internal_incident_report"}) \cup notice \cup script
    BY <2>1, <2>3, <2>5 DEF InjuryContracts
  <2> QED BY <2>4, <2>6, <2>7, RulesAreInside
<1>2. Inside(DangerContracts(s)) BY RulesAreInside DEF DangerContracts
<1>3. Inside(MissingContracts(s)) BY RulesAreInside DEF MissingContracts
<1>4. Inside(WelfareContracts(s, m)) BY RulesAreInside DEF WelfareContracts
<1>5. Inside(FacilityContracts(s, m)) BY RulesAreInside DEF FacilityContracts
<1>6. Inside(TransportContracts(s, m)) BY RulesAreInside DEF TransportContracts
<1>7. Inside(FoodContracts(s)) BY RulesAreInside DEF FoodContracts
<1>8. Inside(GuardianContracts(entries, s, m)) BY RulesAreInside DEF GuardianContracts
<1>9. Inside(AccountabilityContracts(s, m))
  <2>1. PICK event : event = {[c EXCEPT !.origin = "system_recommendation"] :
           c \in Must({"event_action_plan", "external_stakeholder_message"})}
    OBVIOUS
  <2>2. Inside(event)
    <3>1. ASSUME NEW c \in Must({"event_action_plan", "external_stakeholder_message"})
          PROVE  [c EXCEPT !.origin = "system_recommendation"].audience = "internal"
      <4>1. c.audience = "internal" BY RulesAreInside DEF Inside
      <4>2. "audience" \in DOMAIN c BY ContractIsInside DEF Must
      <4> QED BY <4>1, <4>2
    <3> QED BY <2>1, <3>1 DEF Inside
  <2>3. PICK pupils : pupils =
        IF /\ On(s, {"evacuation_accountability", "active_danger"})
           /\ ~Reads(m, {"no_students"})
           /\ Pupils(s) \/ s.people = {} \/ "unknown" \in s.people
        THEN Must({"student_accountability_checklist"}) ELSE {}
    OBVIOUS
  <2>4. Inside(pupils) BY <2>3, RulesAreInside
  <2>5. AccountabilityContracts(s, m)
          = (IF On(s, {"event_operation"}) /\ ~AsksForWork(s) THEN event ELSE {}) \cup pupils
    BY <2>1, <2>3 DEF AccountabilityContracts
  <2> QED BY <2>2, <2>4, <2>5, RulesAreInside
<1>10. Inside(RecordContracts(s, m)) BY RulesAreInside DEF RecordContracts
<1> QED BY <1>1, <1>2, <1>3, <1>4, <1>5, <1>6, <1>7, <1>8, <1>9, <1>10

\* A requested artifact of a broad audience carries the privacy contract.
LEMMA RequestIsGuarded ==
  ASSUME NEW o, NEW s, NEW m, "broadcast" \in m.unsafe
  PROVE  RequestedContract(o, s, m).audience \in Wide => RequestedContract(o, s, m).private
<1> DEFINE toStaff == /\ "broadcast" \in m.unsafe /\ "staff" \in m.broad
                      /\ o.role \in BroadRoles \cup {"user_titled_document", "staff_internal_notice"}
           toMany  == /\ "broadcast" \in m.unsafe /\ ~toStaff
                      /\ \/ o.role \in BroadRoles
                         \/ o.audience \in {"school_community", "public"}
<1>1. PICK c : c = RequestedContract(o, s, m) OBVIOUS
<1>2. /\ c.private = (toStaff \/ toMany)
      /\ c.audience = IF toStaff THEN "internal" ELSE o.audience
  BY <1>1 DEF RequestedContract
<1> QED BY <1>1, <1>2 DEF Wide

\* So does every contract of what was requested, one for each of some numbers.
LEMMA RequestsAreGuarded ==
  ASSUME NEW s, Listed(s.outputs), NEW m, "broadcast" \in m.unsafe
  PROVE  \E n \in Nat : /\ DOMAIN RequestedContracts(s, m) = 1..n
                        /\ Guarded({RequestedContracts(s, m)[i] : i \in 1..n})
<1>1. PICK outputs : outputs = DefaultOutputs(s, m) OBVIOUS
<1>2. Listed(outputs)
  <2>1. \A x : Listed(<<x>>)
    <3> TAKE x
    <3>1. <<x>> \in Seq({x}) OBVIOUS
    <3> QED BY <3>1, ListedFrom
  <2>2. <<>> \in Seq({}) OBVIOUS
  <2>3. Listed(<<>>) BY <2>2, ListedFrom
  <2>4. \/ outputs = Wanted(s, m) \/ outputs = <<>> \/ \E x : outputs = <<x>>
    BY <1>1 DEF DefaultOutputs
  <2>5. Listed(Structured(s, m)) BY FilteredListed DEF Structured
  <2>6. Listed(Wanted(s, m)) BY <2>5, FilteredListed DEF Wanted
  <2> QED BY <2>1, <2>3, <2>4, <2>6
<1>3. PICK n \in Nat : Len(outputs) = n /\ DOMAIN outputs = 1..n BY <1>2, ListedHas
<1>4. PICK cs : cs = RequestedContracts(s, m) OBVIOUS
<1>5. CASE "metric" \in m.unsafe /\ "finance" \notin m.unsafe
  <2>1. cs = [i \in 1..(2 * n) |->
          IF i % 2 = 1
          THEN [Contract("evidence_status_report", "required", "safe_substitution")
                  EXCEPT !.id = outputs[(i + 1) \div 2].id]
          ELSE Contract("measurement_plan", "required", "safe_substitution")]
    BY <1>1, <1>3, <1>4, <1>5 DEF RequestedContracts
  <2>2. DOMAIN cs = 1..(2 * n) /\ 2 * n \in Nat BY <2>1
  <2>3. ASSUME NEW i \in 1..(2 * n) PROVE cs[i].audience = "internal"
    <3>1. PICK c : c = Contract("evidence_status_report", "required", "safe_substitution")
      OBVIOUS
    <3>2. "audience" \in DOMAIN c /\ c.audience = "internal" BY <3>1 DEF Contract
    <3>3. PICK id : id = outputs[(i + 1) \div 2].id OBVIOUS
    <3>4. [c EXCEPT !.id = id].audience = "internal" BY <3>2
    <3>5. Contract("measurement_plan", "required", "safe_substitution").audience = "internal"
      BY DEF Contract
    <3>6. cs[i] = IF i % 2 = 1 THEN [c EXCEPT !.id = id]
                  ELSE Contract("measurement_plan", "required", "safe_substitution")
      BY <2>1, <3>1, <3>3, Zenon
    <3> QED BY <3>4, <3>5, <3>6
  <2>4. Guarded({cs[i] : i \in 1..(2 * n)}) BY <2>3 DEF Guarded, Wide
  <2> QED BY <1>4, <2>2, <2>4
<1>6. CASE ~("metric" \in m.unsafe /\ "finance" \notin m.unsafe)
  <2>1. cs = [i \in DOMAIN outputs |-> RequestedContract(Narrowed(outputs[i], s, m), s, m)]
    BY <1>1, <1>4, <1>6 DEF RequestedContracts
  <2>2. DOMAIN cs = 1..n BY <1>3, <2>1
  <2>3. \A i \in 1..n : cs[i].audience \in Wide => cs[i].private
    BY <1>3, <2>1, RequestIsGuarded
  <2>4. Guarded({cs[i] : i \in 1..n}) BY <2>3 DEF Guarded
  <2> QED BY <1>4, <2>2, <2>4
<1> QED BY <1>5, <1>6

\* The entries of what was requested are shielded.
LEMMA RequestedIsShielded ==
  ASSUME NEW s, Listed(s.outputs), NEW m, "broadcast" \in m.unsafe
  PROVE  Shielded(Requested(s, m))
<1>1. PICK cs : cs = RequestedContracts(s, m) OBVIOUS
<1>2. PICK n \in Nat : DOMAIN cs = 1..n /\ Guarded({cs[i] : i \in 1..n})
  BY <1>1, RequestsAreGuarded
<1>3. PICK added : added = {i \in DOMAIN cs : Allowed(m, cs[i])} OBVIOUS
<1>4. PICK es : es = Requested(s, m) OBVIOUS
<1> DEFINE adding(r) == {i \in added : cs[i].role = r}
           same(r) == {cs[i] : i \in adding(r)}
           joined(r) == [Joined(r, cs[Max(adding(r))], same(r))
                           EXCEPT !.private = \E c \in same(r) : c.private]
<1>5. es = [r \in {cs[i].role : i \in added} |-> joined(r)]
  BY <1>1, <1>3, <1>4 DEF Requested
<1>6. ASSUME NEW r \in DOMAIN es
      PROVE  /\ DOMAIN es[r] = ContractFields /\ es[r].role = r
             /\ es[r].audience \in Wide => es[r].private
  <2>1. PICK S : S = adding(r) OBVIOUS
  <2>2. S \subseteq 0..n /\ S # {} BY <1>2, <1>3, <1>5, <2>1
  <2>3. PICK k : k = Max(S) OBVIOUS
  <2>4. k \in S BY <2>2, <2>3, MaxIn
  <2>5. PICK e : e = Joined(r, cs[k], same(r)) OBVIOUS
  <2>6. DOMAIN e = ContractFields /\ e.role = r /\ e.audience = cs[k].audience
    <3>1. DOMAIN e = ContractFields /\ e.role = r BY <2>5, JoinedFields
    <3>2. e.audience = cs[k].audience BY <2>5, JoinedHandsOver
    <3> QED BY <3>1, <3>2
  <2>7. PICK private : private = \E c \in same(r) : c.private OBVIOUS
  <2>8. es[r] = [e EXCEPT !.private = private] BY <1>5, <2>1, <2>3, <2>5, <2>7
  <2>9. cs[k] \in same(r) /\ k \in 1..n BY <1>2, <1>3, <2>1, <2>4
  <2>10. cs[k].audience \in Wide => cs[k].private BY <1>2, <2>9 DEF Guarded
  <2>11. cs[k].private => private BY <2>7, <2>9
  <2> HIDE DEF same, adding, joined
  <2>12. /\ DOMAIN es[r] = ContractFields /\ es[r].role = e.role
         /\ es[r].audience = e.audience /\ es[r].private = private
    BY <2>6, <2>8 DEF ContractFields
  <2> QED BY <2>6, <2>10, <2>11, <2>12
<1> QED BY <1>4, <1>6 DEF Shielded

\* Nor do the signals and the releases open what is shielded, and in the end every broad
\* role carries the privacy contract.
LEMMA EntriesAreShielded ==
  ASSUME NEW s, Listed(s.outputs), NEW m, "broadcast" \in m.unsafe
  PROVE  /\ Shielded(Entries(s, m))
         /\ \A r \in DOMAIN Entries(s, m) \cap BroadRoles : Entries(s, m)[r].private
<1> DEFINE ok(cs) == {c \in cs : Allowed(m, c)}
<1>1. ASSUME NEW entries, Shielded(entries), NEW cs, Inside(cs)
      PROVE  Shielded(AddAll(entries, ok(cs))) /\ Shielded(AddAll(entries, cs))
  <2>1. Inside(ok(cs)) BY <1>1 DEF Inside
  <2> HIDE DEF ok
  <2> QED BY <1>1, <2>1, InsideIsGuarded, AddAllShielded
<1>2. PICK requested : requested = Requested(s, m) OBVIOUS
<1>3. Shielded(requested) BY <1>2, RequestedIsShielded
<1>4. PICK injured : injured = AddAll(requested, ok(InjuryContracts(s, m))) OBVIOUS
<1>5. Shielded(injured) BY <1>1, <1>3, <1>4, SignalsAreInside
<1>6. PICK pared : pared = IF ~StaffConflict(s, m) \/ Reads(m, {"discipline_report"}) THEN injured
                 ELSE [x \in DOMAIN injured \ {"discipline_investigation_report"}
                         |-> injured[x]]
  OBVIOUS
<1>7. Shielded(pared) BY <1>5, <1>6 DEF Shielded
<1>8. PICK owed : owed = (IF StaffConflict(s, m) THEN Must({"internal_incident_report"}) ELSE {})
                   \cup DangerContracts(s) \cup MissingContracts(s)
                   \cup WelfareContracts(s, m) \cup FacilityContracts(s, m)
                   \cup TransportContracts(s, m) \cup FoodContracts(s)
  OBVIOUS
<1>9. Inside(owed)
  <2>1. PICK report : report = IF StaffConflict(s, m) THEN Must({"internal_incident_report"})
                               ELSE {}
    OBVIOUS
  <2>2. Inside(report) BY <2>1, RulesAreInside
  <2> QED BY <1>8, <2>1, <2>2, SignalsAreInside, RulesAreInside
<1>10. PICK care : care = AddAll(pared, ok(owed)) OBVIOUS
<1>11. Shielded(care) BY <1>1, <1>7, <1>9, <1>10
<1>12. PICK told : told = AddAll(care, ok(GuardianContracts(care, s, m))) OBVIOUS
<1>13. Shielded(told) BY <1>1, <1>11, <1>12, SignalsAreInside
<1>14. PICK signalled : signalled = Signalled(requested, s, m) OBVIOUS
<1>15. signalled = AddAll(told, ok(AccountabilityContracts(s, m) \cup RecordContracts(s, m)))
  BY <1>4, <1>6, <1>8, <1>10, <1>12, <1>14 DEF Signalled
<1>16. Shielded(signalled)
  <2>1. Inside(AccountabilityContracts(s, m) \cup RecordContracts(s, m))
    BY SignalsAreInside, RulesAreInside
  <2> QED BY <1>1, <1>13, <1>15, <2>1
<1>17. PICK core : core = WithCore(signalled, s, m) OBVIOUS
<1>18. Shielded(core)
  <2>1. PICK c : c = Contract(Head(FamilyPack(s.family)), "required", "policy_required") OBVIOUS
  <2>2. Inside({c}) BY <2>1, ContractIsInside DEF Inside
  <2>3. core \in {signalled, AddAll(signalled, {c})} BY <1>17, <2>1 DEF WithCore
  <2> QED BY <1>1, <1>16, <2>2, <2>3
<1>19. PICK drafts : drafts = WithDrafts(core, s, m) OBVIOUS
<1>20. Shielded(drafts)
  <2>1. PICK cs : cs = {Contract(DraftRole(r), "required", "policy_required") :
                             r \in {x \in Releases(s, m) : /\ ~HasDraft(x, core)
                                                           /\ "metric" \notin m.unsafe}}
    OBVIOUS
  <2>2. Inside(cs) BY <2>1, ContractIsInside DEF Inside
  <2>3. drafts = AddAll(core, ok(cs)) BY <1>19, <2>1 DEF WithDrafts
  <2> QED BY <1>1, <1>18, <2>2, <2>3
<1>21. PICK written : written = Rewritten(drafts, m) OBVIOUS
<1>22. Shielded(written) /\ \A r \in DOMAIN written \cap BroadRoles : written[r].private
  <2>1. DOMAIN written = DOMAIN drafts BY <1>21 DEF Rewritten
  <2>2. ASSUME NEW r \in DOMAIN drafts
        PROVE  /\ DOMAIN written[r] = ContractFields /\ written[r].role = r
               /\ written[r].audience \in Wide => written[r].private
               /\ r \in BroadRoles => written[r].private
    <3>1. PICK e : e = drafts[r] OBVIOUS
    <3>2. /\ DOMAIN e = ContractFields /\ e.role = r
          /\ e.audience \in Wide => e.private
      BY <1>20, <3>1 DEF Shielded
    <3>3. written[r] = IF r \in BroadRoles THEN [e EXCEPT !.private = TRUE] ELSE e
      BY <1>21, <3>1 DEF Rewritten
    <3>4. CASE r \in BroadRoles
      <4>1. written[r] = [e EXCEPT !.private = TRUE] BY <3>3, <3>4
      <4>2. DOMAIN written[r] = ContractFields /\ written[r].role = r /\ written[r].private = TRUE
        BY <3>2, <4>1 DEF ContractFields
      <4> QED BY <4>2
    <3>5. CASE r \notin BroadRoles BY <3>2, <3>3, <3>5
    <3> QED BY <3>4, <3>5
  <2> QED BY <2>1, <2>2 DEF Shielded
<1>23. PICK entries : entries = WithoutRepeat(written, s, m) OBVIOUS
<1>24. DOMAIN entries \subseteq DOMAIN written /\ \A r \in DOMAIN entries : entries[r] = written[r]
  BY <1>23 DEF WithoutRepeat
<1>25. Shielded(entries) /\ \A r \in DOMAIN entries \cap BroadRoles : entries[r].private
  BY <1>22, <1>24 DEF Shielded
<1>26. Entries(s, m) = entries BY <1>2, <1>14, <1>17, <1>19, <1>21, <1>23 DEF Entries
<1> QED BY <1>25, <1>26

\* The documents an active danger owes.
DangerRoles == {"site_safety_checklist", "emergency_contact_script"}

\* The two documents of an active danger are in the entries, from the signals on.
LEMMA SignalledIsFirm ==
  ASSUME NEW requested, NEW s, NEW m, "active_danger" \in s.signals,
         NEW r \in DangerRoles, r \notin m.notRoles
  PROVE  Firm(Signalled(requested, s, m), r)
<1> DEFINE ok(cs) == {c \in cs : Allowed(m, c)}
           quarrel == StaffConflict(s, m)
           injured == AddAll(requested, ok(InjuryContracts(s, m)))
           pared == IF ~quarrel \/ Reads(m, {"discipline_report"}) THEN injured
                 ELSE [x \in DOMAIN injured \ {"discipline_investigation_report"}
                         |-> injured[x]]
           owed    == (IF quarrel THEN Must({"internal_incident_report"}) ELSE {})
                   \cup DangerContracts(s) \cup MissingContracts(s)
                   \cup WelfareContracts(s, m) \cup FacilityContracts(s, m)
                   \cup TransportContracts(s, m) \cup FoodContracts(s)
           care    == AddAll(pared, ok(owed))
           told    == AddAll(care, ok(GuardianContracts(care, s, m)))
<1>1. Signalled(requested, s, m)
        = AddAll(told, ok(AccountabilityContracts(s, m) \cup RecordContracts(s, m)))
  BY DEF Signalled
<1>2. PICK c : c = Contract(r, "required", "policy_required") OBVIOUS
<1>3. c.role = r /\ c.req = "required" /\ c.origin \in FirmOrigins
  BY <1>2 DEF Contract, FirmOrigins
<1>4. c \in DangerContracts(s)
  <2>1. On(s, {"active_danger"}) BY DEF On
  <2>2. r \in {"internal_incident_report", "site_safety_checklist", "emergency_contact_script"}
    BY DEF DangerRoles
  <2>3. c \in Must({"internal_incident_report", "site_safety_checklist",
                    "emergency_contact_script"})
    BY <1>2, <2>2 DEF Must
  <2> QED BY <2>1, <2>3 DEF DangerContracts
<1>5. c \in ok(owed)
  <2>1. Allowed(m, c) BY <1>3 DEF Allowed
  <2> QED BY <1>4, <2>1
<1> HIDE DEF ok, owed, pared, quarrel, injured
<1>6. Firm(care, r) BY <1>3, <1>5, AddAllMakesFirm
<1> HIDE DEF care
<1>7. Firm(told, r) BY <1>6, AddAllKeepsFirm
<1> HIDE DEF told
<1> QED BY <1>1, <1>7, AddAllKeepsFirm

\* They are still there when the entries are complete.
LEMMA EntriesAreFirm ==
  ASSUME NEW s, NEW m, "active_danger" \in s.signals,
         NEW r \in DangerRoles, r \notin m.notRoles
  PROVE  Firm(Entries(s, m), r)
<1>1. PICK signalled : signalled = Signalled(Requested(s, m), s, m) OBVIOUS
<1>2. Firm(signalled, r) BY <1>1, SignalledIsFirm
<1>3. PICK core : core = WithCore(signalled, s, m) OBVIOUS
<1>4. Firm(core, r) BY <1>2, <1>3, AddAllKeepsFirm DEF WithCore
<1>5. PICK drafts : drafts = WithDrafts(core, s, m) OBVIOUS
<1>6. Firm(drafts, r) BY <1>4, <1>5, AddAllKeepsFirm DEF WithDrafts
<1>7. PICK written : written = Rewritten(drafts, m) OBVIOUS
<1>8. Firm(written, r)
  <2>1. r \notin BroadRoles BY DEF DangerRoles, BroadRoles
  <2>2. r \in DOMAIN written /\ written[r] = drafts[r] BY <1>6, <1>7, <2>1 DEF Rewritten, Firm
  <2> QED BY <1>6, <2>2 DEF Firm
<1>9. PICK entries : entries = WithoutRepeat(written, s, m) OBVIOUS
<1>10. Firm(entries, r)
  <2>1. r # "user_titled_document" BY DEF DangerRoles
  <2>2. r \in DOMAIN entries /\ entries[r] = written[r]
    BY <1>8, <1>9, <2>1 DEF WithoutRepeat, Firm
  <2> QED BY <1>8, <2>2 DEF Firm
<1>11. Entries(s, m) = entries BY <1>1, <1>3, <1>5, <1>7, <1>9 DEF Entries
<1> QED BY <1>10, <1>11

\* A firm entry is a selected item.
LEMMA FirmIsSelected ==
  ASSUME NEW s, NEW m, NEW r, Firm(Entries(s, m), r)
  PROVE  \E d \in BuildPack(s, m).items : d.role = r /\ d.selected
<1>1. PICK entries : entries = Entries(s, m) OBVIOUS
<1>2. PICK c : c = entries[r] OBVIOUS
<1>3. /\ r \in DOMAIN entries /\ c.role = r /\ c.req = "required"
      /\ c.origin # "system_recommendation"
  BY <1>1, <1>2 DEF Firm, FirmOrigins
<1>4. SelectedEntry(c, s) BY <1>3 DEF SelectedEntry
<1>5. PICK d : d = EntryItem(c, s) OBVIOUS
<1>6. d.role = r /\ d.selected BY <1>3, <1>4, <1>5 DEF EntryItem
<1>7. d \in Items(entries, s, m) BY <1>2, <1>3, <1>5 DEF Items
<1> QED BY <1>1, <1>6, <1>7 DEF BuildPack

\* An active danger keeps its floor in every task.
LEMMA DangerKeepsFloor ==
  ASSUME CaseInv
  PROVE  DangerKeepsItsFloor
<1> SUFFICES ASSUME NEW t \in CompiledTasks, "active_danger" \in tasks[t].sit.signals
    PROVE  /\ tasks[t].sit.severity = "critical"
           /\ EmergencyNumber \in tasks[t].sit.stakeholders
           /\ \A r \in {"site_safety_checklist", "emergency_contact_script"}
                    \ tasks[t].msg.notRoles :
              \E d \in tasks[t].pack.items :
                d.role = r /\ (d.selected \/ tasks[t].kind = "delta")
  BY DEF DangerKeepsItsFloor
<1>1. FloorMet(tasks[t].sit) BY CompiledTask DEF CompiledFrom
<1>2. PICK s : s = tasks[t].sit OBVIOUS
<1>3. PICK m : m = tasks[t].msg OBVIOUS
<1>4. ASSUME NEW r \in DangerRoles \ m.notRoles
      PROVE  \E d \in tasks[t].pack.items : d.role = r /\ (d.selected \/ tasks[t].kind = "delta")
  <2>1. PICK d \in BuildPack(s, m).items : d.role = r /\ d.selected
    <3>1. "active_danger" \in s.signals BY <1>2
    <3>2. Firm(Entries(s, m), r) BY <1>4, <3>1, EntriesAreFirm
    <3> QED BY <3>2, FirmIsSelected
  <2>2. CASE tasks[t].kind = "delta"
    <3>1. PICK e : e = [d EXCEPT !.selected = @ /\ d.added] OBVIOUS
    <3>2. e \in OnlyAdded(BuildPack(s, m)).items BY <3>1, OnlyAddedItems
    <3>3. e.role = r
      <4>1. DOMAIN d = ItemFields BY ItemsOfPack
      <4> QED BY <2>1, <3>1, <4>1 DEF ItemFields
    <3>4. e \in tasks[t].pack.items BY <1>2, <1>3, <2>2, <3>2, CompiledTask
    <3> QED BY <2>2, <3>3, <3>4
  <2>3. CASE tasks[t].kind # "delta"
    <3>1. d \in tasks[t].pack.items BY <1>2, <1>3, <2>3, CompiledTask
    <3> QED BY <2>1, <3>1
  <2> QED BY <2>2, <2>3
<1> QED BY <1>1, <1>3, <1>4 DEF FloorMet, DangerRoles

\* An item the compiler itself writes for a broad audience, or under a broad role, has
\* the privacy contract when a broad use is unsafe.
LEMMA BroadItemsArePrivate ==
  ASSUME NEW s, Listed(s.outputs), NEW m, "broadcast" \in m.unsafe,
         NEW d \in BuildPack(s, m).items, d.kind = "artifact", ~d.custom,
         d.role \in BroadRoles \/ d.audience \in Wide
  PROVE  d.private
<1>1. PICK entries : entries = Entries(s, m) OBVIOUS
<1> DEFINE artifacts == {EntryItem(entries[r], s) : r \in DOMAIN entries}
           customs   == UNION {CustomItems(s.customs[i]) : i \in DOMAIN s.customs}
           gates     == {GateItem(r, entries) : r \in Releases(s, m)}
           official  == IF m.official THEN {SystemItem("official_record_change_gate")} ELSE {}
           publish   == IF m.repository THEN {SystemItem("internal_repository_publish_gate")}
                        ELSE {}
<1>2. d \in Items(entries, s, m) BY <1>1 DEF BuildPack
<1>3. CASE d \in artifacts
  <2>1. PICK r \in DOMAIN entries : d = EntryItem(entries[r], s) BY <1>3
  <2>2. PICK c : c = entries[r] OBVIOUS
  <2>3. d = EntryItem(c, s) BY <2>1, <2>2
  <2>4. d.role = c.role /\ d.audience = c.audience /\ d.private = c.private
    BY <2>3 DEF EntryItem
  <2>5. /\ c.role = r /\ (c.audience \in Wide => c.private)
        /\ r \in BroadRoles => c.private
    BY <1>1, <2>1, <2>2, EntriesAreShielded DEF Shielded
  <2> QED BY <2>4, <2>5
<1>4. CASE d \in customs
  <2>1. PICK c : d \in CustomItems(c) BY <1>4
  <2>2. PICK item : item = [id |-> c.id, role |-> c.role, kind |-> "artifact",
               audience |-> c.audience, to |-> c.to, private |-> FALSE,
               selected |-> TRUE, added |-> ~c.explicit, custom |-> TRUE,
               link |-> ""]
    OBVIOUS
  <2>3. CustomItems(c) \subseteq {item} \cup
            {[item EXCEPT !.kind = "gate", !.added = TRUE, !.link = c.id]}
    BY <2>2 DEF CustomItems
  <2>4. DOMAIN item = ItemFields /\ item.custom = TRUE BY <2>2 DEF ItemFields
  <2>5. [item EXCEPT !.kind = "gate", !.added = TRUE, !.link = c.id].custom = TRUE
    BY <2>4 DEF ItemFields
  <2>6. d.custom = TRUE BY <2>1, <2>3, <2>4, <2>5
  <2> QED BY <2>6
<1>5. CASE d \in gates
  <2>1. PICK r \in Releases(s, m) : d = GateItem(r, entries) BY <1>5
  <2>2. d.kind = "gate" BY <2>1 DEF GateItem
  <2> QED BY <2>2
<1>6. CASE d \in official \/ d \in publish
  <2>1. PICK role : d = SystemItem(role) BY <1>6
  <2>2. d.kind = "system" BY <2>1 DEF SystemItem
  <2> QED BY <2>2
<1>7. Items(entries, s, m) = artifacts \cup customs \cup gates \cup official \cup publish
  BY DEF Items
<1> HIDE DEF artifacts, customs, gates, official, publish
<1> QED BY <1>2, <1>3, <1>4, <1>5, <1>6, <1>7

\* A broad use that is unsafe is on record, and what is chosen for many is private.
LEMMA BroadcastsAreRewritten ==
  ASSUME CaseInv
  PROVE  BroadcastIsRewritten
<1> SUFFICES ASSUME NEW t \in CompiledTasks, "broadcast" \in tasks[t].msg.unsafe
    PROVE  /\ tasks[t].pack.decision # "NO_OVERRIDE"
           /\ \A d \in Chosen(t) :
                (d.kind = "artifact" /\ ~d.custom
                 /\ (d.role \in BroadRoles \/ d.audience \in {"school_community", "public"}))
                => d.private
  BY DEF BroadcastIsRewritten
<1>1. PICK s : s = tasks[t].sit OBVIOUS
<1>2. PICK m : m = tasks[t].msg OBVIOUS
<1>3. tasks[t].pack = IF tasks[t].kind = "delta" THEN OnlyAdded(BuildPack(s, m))
                      ELSE BuildPack(s, m)
  BY <1>1, <1>2, CompiledTask
<1>4. Listed(s.outputs)
  <2>1. ListsSound(t) BY CompiledTask, ListsOfEveryTask
  <2> QED BY <1>1, <2>1 DEF ListsSound, CompiledTasks
<1>5. tasks[t].pack.decision # "NO_OVERRIDE"
  <2>1. BuildPack(s, m).decision = InputDecision(m.unsafe) BY DEF BuildPack
  <2>2. InputDecision(m.unsafe) # "NO_OVERRIDE" BY <1>2 DEF InputDecision
  <2>3. tasks[t].pack.decision = BuildPack(s, m).decision BY <1>3, OnlyAddedItems
  <2> QED BY <2>1, <2>2, <2>3
<1>6. ASSUME NEW d \in Chosen(t), d.kind = "artifact", ~d.custom,
             d.role \in BroadRoles \/ d.audience \in Wide
      PROVE  d.private
  <2>1. d \in tasks[t].pack.items BY DEF Chosen
  <2>2. CASE tasks[t].kind = "delta"
    <3>1. d \in OnlyAdded(BuildPack(s, m)).items BY <1>3, <2>1, <2>2
    <3>2. PICK e \in BuildPack(s, m).items : d = [e EXCEPT !.selected = @ /\ e.added]
      BY <3>1, OnlyAddedItems
    <3>3. DOMAIN e = ItemFields BY ItemsOfPack
    <3>4. /\ d.kind = e.kind /\ d.custom = e.custom /\ d.role = e.role
          /\ d.audience = e.audience /\ d.private = e.private
      BY <3>2, <3>3 DEF ItemFields
    <3> QED BY <1>2, <1>4, <1>6, <3>4, BroadItemsArePrivate
  <2>3. CASE tasks[t].kind # "delta"
    <3>1. d \in BuildPack(s, m).items BY <1>3, <2>1, <2>3
    <3> QED BY <1>2, <1>4, <1>6, <3>1, BroadItemsArePrivate
  <2> QED BY <2>2, <2>3
<1> QED BY <1>5, <1>6 DEF Wide

\* Every field of every task has its type.
LEMMA CasesAreTyped ==
  ASSUME CaseInv
  PROVE  CaseTypeOK
<1>1. ASSUME NEW t \in Ids
      PROVE  /\ tasks[t].status \in {"governance", "awaiting_clarification", "done",
                            "awaiting_approval", "error"}
             /\ tasks[t].parent \in 0..(t - 1) /\ tasks[t].case \in 1..t
             /\ tasks[t].question \in {"", "immediate_danger", "external_recipient"}
             /\ Len(tasks[t].sit.facts) <= MaxFacts
  <2>1. WellFormed(tasks, t) BY DEF CaseInv, Sound, Ids
  <2>2. /\ tasks[t].status \in Statuses /\ tasks[t].question \in Questions
        /\ tasks[t].parent \in 0..(t - 1)
        /\ ~tasks[t].compiled => tasks[t].sit = NoSituation
    BY <2>1 DEF WellFormed, Well, Tied
  <2>3. tasks[t].case \in 1..t BY CasesAreEarlier DEF CaseInv, Ids
  <2>4. Len(tasks[t].sit.facts) <= MaxFacts
    <3>1. CASE tasks[t].compiled BY <3>1, FactsOfEveryTask DEF FactsSound
    <3>2. CASE ~tasks[t].compiled
      <4>1. tasks[t].sit.facts = <<>> BY <2>2, <3>2 DEF NoSituation
      <4>2. 0 <= MaxFacts BY LimitsAssumption
      <4> QED BY <4>1, <4>2
    <3> QED BY <3>1, <3>2
  <2> QED BY <2>2, <2>3, <2>4 DEF Statuses, Questions
<1> QED BY <1>1 DEF CaseTypeOK

\* Every task of every reachable conversation is typed, its parent earlier and its facts
\* few (start_task, confirm_response_pack, add_deliverables).
THEOREM CaseTypeCorrect == CaseSpec => []CaseTypeOK
<1>1. CaseInv => CaseTypeOK BY CasesAreTyped
<1> QED BY <1>1, CasesAreWellFormed, PTL

\* Facts of one case never reach another, through any chain of follow-ups.
THEOREM FactsNeverLeak == CaseSpec => []FactsStayInTheirCase
<1>1. CaseInv => FactsStayInTheirCase BY FactsStay
<1> QED BY <1>1, CasesAreWellFormed, PTL

\* A danger a human declared over is not back unless somebody reported it since.
THEOREM DeclaredEndStands == CaseSpec => []AnsweredNoStands
<1>1. CaseInv => AnsweredNoStands BY NoStands
<1> QED BY <1>1, CasesAreWellFormed, PTL

\* An active danger is critical, has the emergency number and its two documents.
THEOREM FloorIsKept == CaseSpec => []DangerKeepsItsFloor
<1>1. CaseInv => DangerKeepsItsFloor BY DangerKeepsFloor
<1> QED BY <1>1, CasesAreWellFormed, PTL

\* A danger the words report reaches the case, and a human is asked about it.
THEOREM WordsAreHeard == CaseSpec => []WordedDangerIsHeard
<1>1. CaseInv => WordedDangerIsHeard BY DangerIsHeard
<1> QED BY <1>1, CasesAreWellFormed, PTL

\* Going on with a case lowers no severity and loses no fact.
THEOREM CaseIsKept == CaseSpec => []FollowUpKeepsTheCase
<1>1. CaseInv => FollowUpKeepsTheCase BY CaseKept
<1> QED BY <1>1, CasesAreWellFormed, PTL

\* No gate of the compiler is for a release nobody commanded.
THEOREM NoUncommandedRelease == CaseSpec => []ReleaseWasCommanded
<1>1. CaseInv => ReleaseWasCommanded BY ReleasesAreCommanded
<1> QED BY <1>1, CasesAreWellFormed, PTL

\* Where a broadcast is unsafe the request is on record, and every broad artifact the
\* compiler adds, by whichever rule, carries the privacy contract.
THEOREM BroadcastsStayPrivate == CaseSpec => []BroadcastIsRewritten
<1>1. CaseInv => BroadcastIsRewritten BY BroadcastsAreRewritten
<1> QED BY <1>1, CasesAreWellFormed, PTL
=============================================================================
