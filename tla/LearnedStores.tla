---------------------------- MODULE LearnedStores ----------------------------
(***************************************************************************)
(* What task runs read and write of the two stores that shape later plans:  *)
(* the skill index (SkillManager) and the notebooks (UserMemory, written by *)
(* the reflector 109).                                                      *)
(*                                                                          *)
(* Every runtime has managers of its own, so their locks exclude nobody     *)
(* else.  The index is append-only and the latest record of a skill wins; a *)
(* change copies the record as some earlier read found it.  A notebook is   *)
(* read whole and written back whole.  Ranking, texts and embeddings are    *)
(* left out; a day is long or short only where a threshold says so.         *)
(***************************************************************************)
EXTENDS Naturals, FiniteSets

CONSTANTS Workers,        \* runs, each with managers of its own
          MaxSkills,      \* skills are numbered in the order of their creation
          Shape,          \* Shape[s]: its (source_category, source_shape)
          Notes,          \* notes a reflection may come up with
          Forbidden,      \* those a forbidden pattern or topic matches
          CaseFacts,      \* those that only an open school case can suggest
          NoteLimit,      \* entries the character limit leaves room for
          DeltaCap,       \* entries one reflection may add
          Updates,        \* updates <<old, new>> a reflection may propose, where NoEntry
                          \* is no entry: <<NoEntry, n>> adds, <<n, NoEntry>> removes
          MaxUpdates,     \* bound on the updates one reflection proposes
          MaxRuns         \* bound on the runs started

Skills == 1..MaxSkills
NoEntry == "none"
ASSUME SizesAssumption == MaxSkills \in Nat /\ NoteLimit \in Nat /\ DeltaCap \in Nat /\ MaxUpdates \in Nat /\ MaxRuns \in Nat
ASSUME NotesAssumption ==
    Updates \subseteq (Notes \cup {NoEntry}) \X (Notes \cup {NoEntry}) /\ Forbidden \subseteq Notes /\ CaseFacts \subseteq Notes

VARIABLES
    index,      \* index[s]: the latest record of skill s
    proposals,  \* supersede and archive proposals of a sweep, undecided
    notes,      \* the notebook
    pc,         \* pc[w]: where the run is
    copy,       \* copy[w]: what it is about to append: skill, record read, change
    used,       \* used[w]: the skills its brief was given
    page,       \* page[w]: the notebook as it was read
    updates,    \* updates[w]: the reflection's updates still to apply
    edit,       \* edit[w]: the one being written
    delta,      \* delta[w]: what the reflection has added so far
    uses, wins, \* how often a skill was really retrieved, and really helped
    asked,      \* skills a human or a governed action took out of retrieval
    runs        \* the runs started
store == <<index, proposals>>
book == <<notes, page, updates, edit, delta>>
truth == <<uses, wins, asked>>
storesVars == <<store, book, pc, copy, used, truth, runs>>

NoRecord == [status |-> "absent", used |-> 0, won |-> 0, recent |-> FALSE, by |-> 0]
NoCopy == [skill |-> 0, rec |-> NoRecord, change |-> "none"]
Retrievable == {"active", "stale"}
Existing == {s \in Skills : index[s] # NoRecord}

StoresInit ==
    /\ index = [s \in Skills |-> NoRecord]
    /\ proposals = {} /\ notes = {}
    /\ pc = [w \in Workers |-> "idle"]
    /\ copy = [w \in Workers |-> NoCopy]
    /\ used = [w \in Workers |-> {}]
    /\ page = [w \in Workers |-> {}]
    /\ updates = [w \in Workers |-> {}]
    /\ edit = [w \in Workers |-> <<>>]
    /\ delta = [w \in Workers |-> 0]
    /\ uses = [s \in Skills |-> 0] /\ wins = [s \in Skills |-> 0]
    /\ asked = {} /\ runs = 0

Stands(w, label) == pc[w] = label
GoesTo(w, label) == pc' = [pc EXCEPT ![w] = label]

(***************************************************************************)
(* The index.                                                               *)
(***************************************************************************)
\* An approved draft, or the skill tool, past its policy gates and below the cap.
CreateSkill ==
    /\ \E s \in Skills \ Existing :
           /\ \A r \in 1..(s - 1) : r \in Existing
           /\ index' = [index EXCEPT ![s] = [NoRecord EXCEPT !.status = "active", !.recent = TRUE]]
    /\ UNCHANGED <<proposals, book, pc, copy, used, truth, runs>>

\* The pool of a brief: active and stale, the newest of those that look alike.
Newest(ss) == {s \in ss : \A r \in ss : Shape[r] = Shape[s] => r <= s}
Pool == Newest({s \in Existing : index[s].status \in Retrievable})

Retrieve(w, s) ==
    /\ Stands(w, "idle") /\ runs < MaxRuns
    /\ s \in Pool
    /\ runs' = runs + 1
    /\ copy' = [copy EXCEPT ![w] = [skill |-> s, rec |-> index[s], change |-> "use"]]
    /\ used' = [used EXCEPT ![w] = {s}]
    /\ uses' = [uses EXCEPT ![s] = @ + 1]
    /\ GoesTo(w, "append")
    /\ UNCHANGED <<store, book, wins, asked>>

\* A verified success credits the skills of the brief.
BumpUsageSuccess(w) ==
    /\ Stands(w, "done")
    /\ \E s \in used[w] :
           /\ copy' = [copy EXCEPT ![w] = [skill |-> s, rec |-> index[s], change |-> "win"]]
           /\ wins' = [wins EXCEPT ![s] = @ + 1]
    /\ used' = [used EXCEPT ![w] = {}]
    /\ GoesTo(w, "append")
    /\ UNCHANGED <<store, book, uses, asked, runs>>

\* A curator's proposal that was approved, or the archive operation of the skill tool.
ArchiveSkill(w, s) ==
    /\ Stands(w, "idle") /\ runs < MaxRuns
    /\ s \in Existing /\ index[s].status # "archived"
    /\ runs' = runs + 1
    /\ copy' = [copy EXCEPT ![w] = [skill |-> s, rec |-> index[s], change |-> "archived"]]
    /\ asked' = asked \cup {s}
    /\ GoesTo(w, "append")
    /\ UNCHANGED <<store, book, used, uses, wins>>

\* The supersede proposals of a sweep: for each shape, the newest active skill wins.
Actives == {s \in Existing : index[s].status = "active"}
SupersedeByOldest ==
    {[kind |-> "superseded", skill |-> s, by |-> r] :
        s, r \in {x \in Actives : \E y \in Actives : x # y /\ Shape[x] = Shape[y]}}
SupersedeCandidates ==
    {p \in [kind : {"superseded"}, skill : Actives, by : Newest(Actives)] :
        p.skill # p.by /\ Shape[p.skill] = Shape[p.by]}
StaleToArchive ==
    {[kind |-> "archived", skill |-> s, by |-> 0] :
        s \in {x \in Existing : index[x].status = "stale" /\ ~index[x].recent}}

ArchivesAtOnce(w, s) ==
    /\ Stands(w, "idle") /\ runs < MaxRuns
    /\ s \in Actives /\ ~index[s].recent
    /\ runs' = runs + 1
    /\ copy' = [copy EXCEPT ![w] = [skill |-> s, rec |-> index[s], change |-> "archived"]]
    /\ GoesTo(w, "append")
    /\ UNCHANGED <<store, book, used, truth>>
\* The sweep ages what was long unused at once, and proposes the rest.
MarkStale(w, s) ==
    /\ Stands(w, "idle") /\ runs < MaxRuns
    /\ s \in Actives /\ ~index[s].recent
    /\ runs' = runs + 1
    /\ copy' = [copy EXCEPT ![w] = [skill |-> s, rec |-> index[s], change |-> "stale"]]
    /\ GoesTo(w, "append")
    /\ UNCHANGED <<store, book, used, truth>>
SweepProposes ==
    /\ proposals' = proposals \cup SupersedeCandidates \cup StaleToArchive
    /\ UNCHANGED <<index, book, pc, copy, used, truth, runs>>

\* An approved proposal of the sweep: the transition is checked on the record read now.
LegalFrom(change) == IF change = "superseded" THEN Retrievable ELSE {"active", "stale", "superseded"}
ApproveProposal(w, p) ==
    /\ Stands(w, "idle") /\ runs < MaxRuns
    /\ p \in proposals
    /\ runs' = runs + 1
    /\ proposals' = proposals \ {p}
    /\ asked' = asked \cup {p.skill}
    /\ IF index[p.skill].status \in LegalFrom(p.kind)
         THEN /\ copy' = [copy EXCEPT ![w] =
                            [skill |-> p.skill, change |-> p.kind,
                             rec |-> [index[p.skill] EXCEPT !.by = p.by]]]
              /\ GoesTo(w, "append")
         ELSE UNCHANGED <<copy, pc>>
    /\ UNCHANGED <<index, book, used, uses, wins>>

UseAlsoWins(c) ==
    CASE c.change = "use" -> [c.rec EXCEPT !.used = @ + 1, !.won = @ + 1]
      [] c.change = "win" -> [c.rec EXCEPT !.won = @ + 1, !.recent = TRUE]
      [] OTHER            -> [c.rec EXCEPT !.status = c.change, !.recent = TRUE]
\* The record read, with the change: counters and status are those of the read.
Changed(c) ==
    CASE c.change = "use" -> [c.rec EXCEPT !.used = @ + 1, !.recent = TRUE]
      [] c.change = "win" -> [c.rec EXCEPT !.won = @ + 1, !.recent = TRUE]
      [] OTHER            -> [c.rec EXCEPT !.status = c.change, !.recent = TRUE]
AppendIndex(w) ==
    /\ Stands(w, "append")
    /\ index' = [index EXCEPT ![copy[w].skill] = Changed(copy[w])]
    /\ copy' = [copy EXCEPT ![w] = NoCopy]
    /\ GoesTo(w, CASE copy[w].change = "use" -> "running"
                 [] copy[w].change = "win" -> "reflect"
                 [] OTHER                  -> "idle")
    /\ UNCHANGED <<proposals, book, used, truth, runs>>

\* The thresholds pass: ninety days for an active skill, half a year for a stale one.
LongUnused(s) ==
    /\ s \in Existing /\ index[s].recent
    /\ index' = [index EXCEPT ![s].recent = FALSE]
    /\ UNCHANGED <<proposals, book, pc, copy, used, truth, runs>>

(***************************************************************************)
(* The end of a run: its outcome is recorded, then the reflection.          *)
(***************************************************************************)
RunEnds(w) ==
    /\ Stands(w, "running")
    /\ \E success \in BOOLEAN :
           /\ used' = IF success THEN used ELSE [used EXCEPT ![w] = {}]
           /\ GoesTo(w, IF success THEN "done" ELSE "reflect")
    /\ UNCHANGED <<store, book, copy, truth, runs>>

Adds(u) == u[2] # NoEntry
Vetoed(us) == \E u \in us : u[2] \in Forbidden

ConfidenceBeforeVeto(openCase, us, confidence) ==
    IF openCase \/ (confidence # "high" /\ Vetoed(us)) THEN {} ELSE us
\* What comes of a proposal: the case boundary first, then the veto, then the
\* model's confidence; below the threshold it is only kept with the task.
Reflection(openCase, us, confidence) ==
    IF openCase \/ Vetoed(us) \/ confidence # "high" THEN {} ELSE us
Reflect(w) ==
    /\ Stands(w, "reflect")
    /\ \E openCase \in BOOLEAN, us \in {x \in SUBSET Updates : Cardinality(x) <= MaxUpdates} :
           /\ openCase \/ \A u \in us : u[2] \notin CaseFacts
           /\ \E confidence \in {"high", "medium", "low"} :
                  updates' = [updates EXCEPT ![w] = Reflection(openCase, us, confidence)]
    /\ delta' = [delta EXCEPT ![w] = 0]
    /\ GoesTo(w, IF updates'[w] = {} THEN "idle" ELSE "apply")
    /\ UNCHANGED <<store, notes, page, edit, copy, used, truth, runs>>

\* The entries of the page after an update; a page too long is not written.
Edited(entries, u) == (entries \ {u[1]}) \cup ({u[2]} \ {NoEntry})
Applicable(entries, u) ==
    /\ u[1] # NoEntry => u[1] \in entries
    /\ Adds(u) => Cardinality(Edited(entries, u)) <= NoteLimit
ReadNotebook(w) ==
    /\ Stands(w, "apply")
    /\ \E u \in updates[w] :
           /\ updates' = [updates EXCEPT ![w] = @ \ {u}]
           /\ IF (Adds(u) => delta[w] < DeltaCap) /\ Applicable(notes, u)
                THEN /\ page' = [page EXCEPT ![w] = notes]
                     /\ edit' = [edit EXCEPT ![w] = u]
                     /\ GoesTo(w, "write")
                ELSE UNCHANGED <<page, edit>> /\ GoesTo(w, IF updates'[w] = {} THEN "idle" ELSE "apply")
    /\ UNCHANGED <<store, notes, delta, copy, used, truth, runs>>
WriteNotebook(w) ==
    /\ Stands(w, "write")
    /\ notes' = Edited(page[w], edit[w])
    /\ delta' = [delta EXCEPT ![w] = IF Adds(edit[w]) THEN @ + 1 ELSE @]
    /\ page' = [page EXCEPT ![w] = {}]
    /\ edit' = [edit EXCEPT ![w] = <<>>]
    /\ GoesTo(w, IF updates[w] = {} THEN "idle" ELSE "apply")
    /\ UNCHANGED <<store, updates, copy, used, truth, runs>>

StoresNext ==
    \/ CreateSkill \/ SweepProposes
    \/ \E s \in Skills : LongUnused(s)
    \/ \E w \in Workers :
           \/ \E s \in Skills : Retrieve(w, s) \/ ArchiveSkill(w, s) \/ MarkStale(w, s)
           \/ \E p \in proposals : ApproveProposal(w, p)
           \/ AppendIndex(w) \/ RunEnds(w) \/ BumpUsageSuccess(w)
           \/ Reflect(w) \/ ReadNotebook(w) \/ WriteNotebook(w)
StoresSpec == StoresInit /\ [][StoresNext]_storesVars

(***************************************************************************)
(* Properties.                                                              *)
(***************************************************************************)
\* Concurrent runs may lose a count, they never invent one: the counters that
\* rank and credit a skill stay within what really happened.
CountersNeverOvercount ==
    \A s \in Skills : index[s].used <= uses[s] /\ index[s].won <= wins[s]

\* No sweep and no stale copy takes a skill out of retrieval: somebody asked.
OutOfRetrievalWasAsked ==
    \A s \in Existing : index[s].status \in {"superseded", "archived"} => s \in asked

\* A superseded skill names a newer one for the same kind of request, whatever
\* was created, aged or archived between the sweep and its approval.
SupersededByNewer ==
    \A s \in Existing : index[s].status = "superseded" =>
        index[s].by > s /\ index[s].by \in Existing /\ Shape[index[s].by] = Shape[s]

\* What is forbidden, or known only from an open school case, is never in the
\* notebook that every later plan reads.
NotesKeepTheBoundary == notes \cap (Forbidden \cup CaseFacts) = {}

\* What an owner archived stays archived (it does not: a run that read the skill
\* before appends its usage record after, with the old status).
ArchivedIsNotRevived ==
    [][\A s \in Skills : index[s].status = "archived" => index'[s].status = "archived"]_storesVars
\* A reflection keeps the entries its update does not name (it does not: the
\* page it writes back is the one it read).
EntriesAreNotLost ==
    [][\A w \in Workers : Stands(w, "write") /\ pc'[w] # "write" => notes \ {edit[w][1]} \subseteq notes']_storesVars
=============================================================================
