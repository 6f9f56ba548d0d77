------------------------- MODULE RoutingChecks_proofs -------------------------
(***************************************************************************)
(* What TLAPS proves of the routing of one action: for every action, every  *)
(* data use, every integer a learned adjustment can be, and every set of    *)
(* labels a model can answer with, the five properties RoutingChecks        *)
(* states.  The runs try 4 adjustments and 9 of the 19 weighted traits.     *)
(***************************************************************************)
EXTENDS RoutingChecks, TLAPS

Blocked == {"RED", "INFEASIBLE"}
Verdict == {"NO_OVERRIDE", "GREEN", "RED", "INFEASIBLE"}

(***************************************************************************)
(* The routes and their order.                                              *)
(***************************************************************************)

\* The order of the routes, entry by entry, in both directions.
LEMMA RankFacts ==
    /\ RouteOrder["BLUE"] = 0 /\ RouteOrder["GREEN"] = 1
    /\ RouteOrder["INFEASIBLE"] = 2 /\ RouteOrder["RED"] = 3
    /\ RouteByRank[0] = "BLUE" /\ RouteByRank[1] = "GREEN"
    /\ RouteByRank[2] = "INFEASIBLE" /\ RouteByRank[3] = "RED"
<1>1. /\ RouteOrder["BLUE"] = 0 /\ RouteOrder["GREEN"] = 1
      /\ RouteOrder["INFEASIBLE"] = 2 /\ RouteOrder["RED"] = 3
  BY DEF RouteOrder
<1>2. ASSUME NEW n \in 0..3, NEW r \in Route, RouteOrder[r] = n
      PROVE  RouteByRank[n] = r
  <2>1. \A q \in Route : RouteOrder[q] = n => q = r
    BY <1>1, <1>2 DEF Route
  <2>2. (CHOOSE q \in Route : RouteOrder[q] = n) = r
    BY <1>2, <2>1
  <2>. QED  BY <2>2 DEF RouteByRank
<1>. QED  BY <1>1, <1>2 DEF Route

\* Atleast never lowers a route and reaches the floor.
LEMMA AtleastFacts ==
    ASSUME NEW r \in Route, NEW f \in Route
    PROVE  /\ Atleast(r, f) \in {r, f}
           /\ RouteOrder[Atleast(r, f)] >= RouteOrder[r]
           /\ RouteOrder[Atleast(r, f)] >= RouteOrder[f]
BY RankFacts DEF Atleast, Route

\* A learned relaxation takes off at least one tier.
LEMMA TiersFacts ==
    ASSUME NEW a \in Int
    PROVE  Tiers(a) \in Int /\ Tiers(a) >= 1
BY DEF Tiers

\* A relaxation holds: the action was approved often and no cap forbids it.
Relaxed(i) == i.adj < 0 /\ ~ViolatesDowngradeCap(i)

\* What learning makes of a route: a relaxation takes it down by a tier or
\* more, everything else leaves it or asks for a silent action.
LEMMA LearnedFacts ==
    ASSUME NEW i \in Input, NEW r \in Route
    PROVE  /\ Learned(i, r) \in Route
           /\ ~Relaxed(i) => RouteOrder[Learned(i, r)] >= RouteOrder[r]
           /\ r = "RED" => (Learned(i, r) = "RED" <=> ~Relaxed(i))
           /\ r # "RED" => Learned(i, r) # "RED"
<1>1. i.adj \in Int
  BY DEF Input
<1>2. CASE Relaxed(i)
  <2>. DEFINE rank == RouteOrder[r] - Tiers(i.adj)
  <2>1. Tiers(i.adj) \in Int /\ Tiers(i.adj) >= 1
    BY <1>1, TiersFacts
  <2>2. rank \in Int /\ rank <= 2 /\ (IF rank < 0 THEN 0 ELSE rank) \in 0..2
    BY <2>1, RankFacts DEF Route
  <2>3. Learned(i, r) = RouteByRank[IF rank < 0 THEN 0 ELSE rank]
    BY <1>2 DEF Relaxed, Learned
  <2>. HIDE DEF rank
  <2>4. Learned(i, r) \in {"BLUE", "GREEN", "INFEASIBLE"}
    BY <2>2, <2>3, RankFacts
  <2>. QED  BY <1>2, <2>4 DEF Route
<1>3. CASE ~Relaxed(i)
  <2>1. Learned(i, r) = IF i.adj > 0 /\ r = "BLUE" THEN "GREEN" ELSE r
    BY <1>3 DEF Relaxed, Learned
  <2>. QED  BY <1>3, <2>1, RankFacts DEF Route
<1>. QED  BY <1>2, <1>3

(***************************************************************************)
(* The score of 101B.                                                       *)
(***************************************************************************)

\* A weight counts when its feature is there.
Counted(f, F) == IF f \in F THEN Weights[f] ELSE 0

\* The score is a number, the sum of what counts.
LEMMA ScoreFacts ==
    ASSUME NEW F
    PROVE  /\ Score(F) \in Int
           /\ Score(F) = Counted("destructive", F) + Counted("irreversible", F)
                + Counted("external_facing", F) + Counted("source_code", F)
                + Counted("high_value_asset", F) + Counted("sensitive_path", F)
                + Counted("credential_path", F) + Counted("out_of_workspace", F)
                + Counted("bulk_operation", F) + Counted("backup_unknown", F)
                + Counted("generated_output", F) + Counted("temp_or_cache", F)
                + Counted("repeated_approved_pattern", F)
                + Counted("repeated_rejected_pattern", F)
                + Counted("preview_safe_operation", F) + Counted("shell_operation", F)
                + Counted("gui_automation", F) + Counted("gui_keyboard", F)
                + Counted("subject_confident", F)
BY DEF Score, Counted, Weights

\* Which scores give which recommendation.
LEMMA RouteForFacts ==
    ASSUME NEW n \in Int
    PROVE  /\ RouteFor(n) \in {"BLUE", "GREEN", "RED"}
           /\ RouteFor(n) = "BLUE" <=> n <= 4
           /\ RouteFor(n) = "RED" <=> n > 14
<1>1. CASE n <= 4
  <2>1. RouteFor(n) = "BLUE"
    BY <1>1 DEF RouteFor
  <2>. QED  BY <1>1, <2>1
<1>2. CASE n > 4 /\ n <= 14
  <2>1. ~(n <= 4)
    BY <1>2
  <2>2. RouteFor(n) = "GREEN"
    BY <1>2, <2>1 DEF RouteFor
  <2>. QED  BY <1>2, <2>2
<1>3. CASE n > 14
  <2>1. ~(n <= 4) /\ ~(n <= 14)
    BY <1>3
  <2>2. RouteFor(n) = "RED"
    BY <2>1 DEF RouteFor
  <2>. QED  BY <1>3, <2>2
<1>. QED  BY <1>1, <1>2, <1>3

\* The decision j is i before habit: nothing learned, no confident subject.
BeforeHabit(i, j) ==
    /\ j.adj = 0 /\ ~j.confident
    /\ j.pre = i.pre /\ j.traits = i.traits /\ j.backup = i.backup
    /\ j.draft = i.draft /\ j.sensitive = i.sensitive

Habit == {"repeated_approved_pattern", "repeated_rejected_pattern", "subject_confident"}

\* Habit adds and removes no feature but its own three.
LEMMA HabitFeatures ==
    ASSUME NEW i \in Input, NEW j \in Input, BeforeHabit(i, j)
    PROVE  /\ \A f : f \notin Habit => (f \in Features(i) <=> f \in Features(j))
           /\ \A f \in Habit : f \notin Features(j)
<1>1. \A f \in Habit : f \notin j.traits
  BY DEF Input, Trait, Habit
<1>. QED  BY <1>1 DEF Features, BeforeHabit, Habit

\* Habit discounts a score by 8 at most.
LEMMA HabitDiscount ==
    ASSUME NEW i \in Input, NEW j \in Input, BeforeHabit(i, j)
    PROVE  Score(Features(i)) >= Score(Features(j)) - 8
<1>. DEFINE F == Features(i)
            G == Features(j)
<1>1. \A f : f \notin Habit => Counted(f, F) = Counted(f, G)
  BY HabitFeatures DEF Counted
<1>2. /\ Counted("repeated_approved_pattern", F) >= -4
      /\ Counted("repeated_rejected_pattern", F) >= 0
      /\ Counted("subject_confident", F) >= -4
  BY DEF Counted, Weights
<1>3. \A f \in Habit : Counted(f, G) = 0
  BY HabitFeatures DEF Counted
<1>. DEFINE Rest(S) ==
         Counted("destructive", S) + Counted("irreversible", S)
         + Counted("external_facing", S) + Counted("source_code", S)
         + Counted("high_value_asset", S) + Counted("sensitive_path", S)
         + Counted("credential_path", S) + Counted("out_of_workspace", S)
         + Counted("bulk_operation", S) + Counted("backup_unknown", S)
         + Counted("generated_output", S) + Counted("temp_or_cache", S)
         + Counted("preview_safe_operation", S) + Counted("shell_operation", S)
         + Counted("gui_automation", S) + Counted("gui_keyboard", S)
<1>. DEFINE Names ==
         {"destructive", "irreversible", "external_facing", "source_code", "high_value_asset",
          "sensitive_path", "credential_path", "out_of_workspace", "bulk_operation",
          "backup_unknown", "generated_output", "temp_or_cache", "preview_safe_operation",
          "shell_operation", "gui_automation", "gui_keyboard"} \union Habit
<1>4. \A f \in Names : Counted(f, F) \in Int /\ Counted(f, G) \in Int
  BY DEF Counted, Weights, Habit
<1>. HIDE DEF F, G
<1>5. Rest(F) = Rest(G)
  BY <1>1 DEF Habit
<1>6. /\ Rest(F) \in Int
      /\ \A f \in Habit : Counted(f, F) \in Int
  BY <1>4 DEF Habit
<1>7. /\ Score(F) = Rest(F) + Counted("repeated_approved_pattern", F)
                     + Counted("repeated_rejected_pattern", F) + Counted("subject_confident", F)
      /\ Score(G) = Rest(G) + Counted("repeated_approved_pattern", G)
                     + Counted("repeated_rejected_pattern", G) + Counted("subject_confident", G)
  BY <1>4, ScoreFacts DEF Habit
<1>. HIDE DEF Rest
<1>. QED  BY <1>2, <1>3, <1>5, <1>6, <1>7 DEF Habit, F, G

\* Without habit, a score that blocks an action which is neither hard-blocked
\* nor up for approval needs a high-value asset: destruction outside the
\* workspace is hard-blocked and unverified destruction is up for approval, so
\* what is left adds up to 14.
LEMMA RedNeedsAnAsset ==
    ASSUME NEW i \in Input, i.adj = 0, ~i.confident,
           ~Matches(HardBlockActions, Features(i)),
           ~Matches(ApprovalRequiredActions, Features(i)),
           Score(Features(i)) > 14
    PROVE  "high_value_asset" \in Features(i)
<1>. DEFINE F == Features(i)
<1>1. /\ "credential_path" \notin F
      /\ ~("destructive" \in F /\ "out_of_workspace" \in F)
  BY DEF Matches, HardBlockActions
<1>2. /\ "source_code" \notin F /\ "external_facing" \notin F
      /\ "shell_operation" \notin F /\ "gui_automation" \notin F
      /\ "gui_keyboard" \notin F
      /\ ~("destructive" \in F /\ "backup_unknown" \in F)
  BY DEF Matches, ApprovalRequiredActions
<1>3. "backup_unknown" \notin F
  <2>1. "backup_unknown" \notin i.traits
    BY DEF Input, Trait
  <2>2. "backup_unknown" \in F => "destructive" \in i.traits \/ "external_facing" \in i.traits
    BY <2>1 DEF Features
  <2>3. \A f \in {"destructive", "external_facing"} : f \in i.traits => f \in F
    BY DEF Features
  <2>. QED  BY <1>2, <2>2, <2>3
<1>4. "repeated_rejected_pattern" \notin F
  <2>1. "repeated_rejected_pattern" \notin i.traits
    BY DEF Input, Trait
  <2>. QED  BY <2>1 DEF Features
<1>. HIDE DEF F
<1>5. SUFFICES ASSUME "high_value_asset" \notin F
               PROVE  Score(F) <= 14
  BY ScoreFacts DEF F
<1>6. /\ Counted("high_value_asset", F) = 0 /\ Counted("credential_path", F) = 0
      /\ Counted("source_code", F) = 0 /\ Counted("external_facing", F) = 0
      /\ Counted("shell_operation", F) = 0 /\ Counted("gui_automation", F) = 0
      /\ Counted("gui_keyboard", F) = 0 /\ Counted("backup_unknown", F) = 0
      /\ Counted("repeated_rejected_pattern", F) = 0
  BY <1>1, <1>2, <1>3, <1>4, <1>5 DEF Counted
<1>7. /\ Counted("destructive", F) \in {0, 4} /\ Counted("irreversible", F) \in {0, 3}
      /\ Counted("sensitive_path", F) \in {0, 3} /\ Counted("out_of_workspace", F) \in {0, 6}
      /\ Counted("bulk_operation", F) \in {0, 2} /\ Counted("generated_output", F) \in {0, -3}
      /\ Counted("temp_or_cache", F) \in {0, -3}
      /\ Counted("repeated_approved_pattern", F) \in {0, -4}
      /\ Counted("preview_safe_operation", F) \in {0, -5}
      /\ Counted("subject_confident", F) \in {0, -4}
      /\ Counted("destructive", F) = 0 \/ Counted("out_of_workspace", F) = 0
  BY <1>1 DEF Counted, Weights
<1>. QED  BY <1>6, <1>7, ScoreFacts

(***************************************************************************)
(* The decision of 103.                                                     *)
(***************************************************************************)

\* What the arbitration arrives at.  It blocks exactly when the score blocks
\* and learning does not relax it, and a policy floor keeps it from silence.
LEMMA ArbitratedFacts ==
    ASSUME NEW i \in Input
    PROVE  /\ Recommended(i) \in Route /\ Arbitrated(i) \in Route
           /\ Arbitrated(i) = "BLUE" => PolicyFloor(i) = "BLUE"
           /\ Arbitrated(i) = "BLUE" => Learned(i, Recommended(i)) = "BLUE"
           /\ Arbitrated(i) = "RED" <=> Score(Features(i)) > 14 /\ ~Relaxed(i)
<1>. DEFINE byScore == RouteFor(Score(Features(i)))
            asked == IF MandatoryApproval(i)
                     THEN Atleast(Recommended(i), "GREEN") ELSE Recommended(i)
            learned == Learned(i, asked)
            floored == Atleast(learned, PolicyFloor(i))
<1>1. byScore \in {"BLUE", "GREEN", "RED"} /\ (byScore = "RED" <=> Score(Features(i)) > 14)
  BY ScoreFacts, RouteForFacts
<1>. HIDE DEF byScore
<1>2. Recommended(i) \in {"BLUE", "GREEN", "RED"} /\ (Recommended(i) = "RED" <=> byScore = "RED")
  <2>1. Recommended(i) = IF i.dataUse = "GREEN" THEN Atleast(byScore, "GREEN") ELSE byScore
    BY DEF Recommended, byScore
  <2>. QED  BY <1>1, <2>1, RankFacts DEF Atleast
<1>3. asked \in {"BLUE", "GREEN", "RED"} /\ (asked = "RED" <=> byScore = "RED")
  BY <1>2, RankFacts DEF Atleast
<1>4. ~MandatoryApproval(i) => asked = Recommended(i)
  OBVIOUS
<1>5. PolicyFloor(i) \in {"BLUE", "GREEN"} /\ (MandatoryApproval(i) => PolicyFloor(i) = "GREEN")
  BY DEF PolicyFloor
<1>6. Arbitrated(i) = IF floored = "BLUE" /\ i.sensitive /\ ~i.draft THEN "GREEN" ELSE floored
  BY DEF Arbitrated
<1>. HIDE DEF asked
<1>7. learned \in Route /\ (learned = "RED" <=> asked = "RED" /\ ~Relaxed(i))
  BY <1>3, LearnedFacts DEF Route
<1>. HIDE DEF learned
<1>8. /\ floored \in Route
      /\ floored = "RED" <=> learned = "RED"
      /\ floored = "BLUE" => learned = "BLUE" /\ PolicyFloor(i) = "BLUE"
  BY <1>5, <1>7, RankFacts DEF Atleast, Route
<1>. HIDE DEF floored
<1>9. Arbitrated(i) \in Route /\ (Arbitrated(i) = "RED" <=> floored = "RED")
      /\ (Arbitrated(i) = "BLUE" => floored = "BLUE")
  BY <1>6, <1>8 DEF Route
<1>10. floored = "BLUE" => Learned(i, Recommended(i)) = "BLUE"
  BY <1>4, <1>5, <1>8 DEF learned
<1>. QED  BY <1>1, <1>2, <1>3, <1>7, <1>8, <1>9, <1>10 DEF Route

\* What 103 answers, in terms of the arbitration.
LEMMA DecideFacts ==
    ASSUME NEW i \in Input
    PROVE  /\ Decide(i) \in Route
           /\ Decide(i) = "INFEASIBLE" <=> i.pre = "infeasible"
           /\ Decide(i) = "RED" <=> \/ i.pre \in {"hard", "category"}
                                   \/ /\ i.pre = "clear"
                                      /\ \/ Matches(HardBlockActions, Features(i))
                                         \/ Arbitrated(i) = "RED"
           /\ Decide(i) = "BLUE" <=> /\ i.pre = "clear" /\ Arbitrated(i) = "BLUE"
                                    /\ ~Matches(HardBlockActions, Features(i))
<1>1. i.pre \in {"clear", "infeasible", "hard", "category"}
  BY DEF Input
<1>2. Arbitrated(i) \in Route
  BY ArbitratedFacts
<1>3. CASE i.pre = "infeasible"
  <2>1. Decide(i) = "INFEASIBLE"
    BY <1>3 DEF Decide
  <2>. QED  BY <1>3, <2>1 DEF Route
<1>4. CASE i.pre \in {"hard", "category"}
  <2>1. i.pre # "infeasible" /\ i.pre # "clear"
    BY <1>4
  <2>2. Decide(i) = "RED"
    BY <1>4, <2>1 DEF Decide
  <2>. QED  BY <1>4, <2>1, <2>2 DEF Route
<1>5. CASE i.pre = "clear" /\ Matches(HardBlockActions, Features(i))
  <2>1. i.pre # "infeasible" /\ i.pre \notin {"hard", "category"}
    BY <1>5
  <2>2. Decide(i) = "RED"
    BY <1>5, <2>1 DEF Decide
  <2>. QED  BY <1>5, <2>1, <2>2 DEF Route
<1>6. CASE i.pre = "clear" /\ ~Matches(HardBlockActions, Features(i))
  <2>1. i.pre # "infeasible" /\ i.pre \notin {"hard", "category"}
    BY <1>6
  <2>2. Decide(i) = IF Arbitrated(i) = "INFEASIBLE" THEN "GREEN" ELSE Arbitrated(i)
    BY <1>6, <2>1 DEF Decide
  <2>. QED  BY <1>2, <1>6, <2>1, <2>2 DEF Route
<1>. QED  BY <1>1, <1>3, <1>4, <1>5, <1>6

\* Two decisions that differ in the verdict of the data-use guard alone.
AlikeButUse(i, j) ==
    /\ j.pre = i.pre /\ j.traits = i.traits /\ j.backup = i.backup
    /\ j.confident = i.confident /\ j.adj = i.adj
    /\ j.draft = i.draft /\ j.sensitive = i.sensitive

\* The verdict touches neither the features nor what is read off them.
LEMMA AlikeFacts ==
    ASSUME NEW i, NEW j, AlikeButUse(i, j)
    PROVE  /\ Features(j) = Features(i)
           /\ MandatoryApproval(j) = MandatoryApproval(i)
           /\ ViolatesDowngradeCap(j) = ViolatesDowngradeCap(i)
           /\ Relaxed(j) = Relaxed(i)
<1>1. Features(j) = Features(i)
  BY DEF Features, AlikeButUse
<1>2. ViolatesDowngradeCap(j) = ViolatesDowngradeCap(i)
  BY <1>1 DEF ViolatesDowngradeCap, AlikeButUse
<1>. QED  BY <1>1, <1>2 DEF MandatoryApproval, Relaxed, AlikeButUse

\* A GREEN verdict makes 103 no milder.
LEMMA GreenTightens ==
    ASSUME NEW i \in Input, NEW j \in Input, AlikeButUse(i, j), j.dataUse = "GREEN"
    PROVE  Strictness[Decide(j)] >= Strictness[Decide(i)]
<1>1. /\ Features(j) = Features(i) /\ Relaxed(j) = Relaxed(i) /\ j.pre = i.pre
  BY AlikeFacts DEF AlikeButUse
<1>2. Arbitrated(j) # "BLUE" /\ (Arbitrated(j) = "RED" <=> Arbitrated(i) = "RED")
  BY <1>1, ArbitratedFacts DEF PolicyFloor
<1>3. /\ Decide(i) \in Route /\ Decide(j) \in Route /\ Decide(j) # "BLUE"
      /\ Decide(i) = "RED" <=> Decide(j) = "RED"
      /\ Decide(i) = "INFEASIBLE" <=> Decide(j) = "INFEASIBLE"
  BY <1>1, <1>2, DecideFacts
<1>. QED  BY <1>3 DEF Strictness, Route

(***************************************************************************)
(* The decision of one action.                                              *)
(***************************************************************************)

\* The case c with its learned adjustment at 0 and no confident subject, and
\* the input 103 gets once the guard has spoken, are inputs.
LEMMA CaseFacts ==
    ASSUME NEW c \in Cases
    PROVE  /\ c.in \in Input /\ c.use \in Use /\ c.task.given \subseteq Label
           /\ Unlearned(c).use = c.use
           /\ Unlearned(c).in = [c.in EXCEPT !.adj = 0, !.confident = FALSE]
           /\ Unlearned(c).in \in Input
<1>. DEFINE Tasks == [checked : BOOLEAN, live : BOOLEAN, given : SUBSET Label]
<1>1. c \in [in : Input, use : Use, task : Tasks]
  BY CasesAssumption
<1>2. c.task.given \subseteq Label
  BY <1>1
<1>. HIDE DEF Tasks
<1>3. c.in \in Input /\ c.use \in Use
  BY <1>1
<1>4. /\ Unlearned(c).use = c.use
      /\ Unlearned(c).in = [c.in EXCEPT !.adj = 0, !.confident = FALSE]
  BY <1>1 DEF Unlearned
<1>5. [c.in EXCEPT !.adj = 0, !.confident = FALSE] \in Input
  <2>1. \A i \in Input : [i EXCEPT !.adj = 0] \in Input
    BY DEF Input
  <2>2. \A i \in Input : [i EXCEPT !.confident = FALSE] \in Input
    BY DEF Input
  <2>3. [c.in EXCEPT !.adj = 0, !.confident = FALSE]
        = [[c.in EXCEPT !.adj = 0] EXCEPT !.confident = FALSE]
    BY <1>3 DEF Input
  <2>. QED  BY <1>3, <2>1, <2>2, <2>3
<1>. QED  BY <1>2, <1>3, <1>4, <1>5

\* 103 gets the case's input with the verdict of the guard.
LEMMA JudgedFacts ==
    ASSUME NEW i \in Input, NEW v \in {"NO_OVERRIDE", "GREEN"}
    PROVE  /\ [i EXCEPT !.dataUse = v] \in Input
           /\ [i EXCEPT !.dataUse = v].dataUse = v
           /\ AlikeButUse(i, [i EXCEPT !.dataUse = v])
BY DEF Input, AlikeButUse

\* Every verdict of the guard is one of four, and a text that it must not pass
\* is told by what 101D reads in it.
LEMMA AssessFacts ==
    ASSUME NEW u, NEW ls
    PROVE  /\ Assess(u, ls) \in Verdict
           /\ Assess(u, ls) = "RED" <=> /\ ~u.companion /\ ~Inert(u, Concepts(u, ls))
                                        /\ Forbidden(u, Concepts(u, ls))
BY DEF Assess, Verdict

\* The route of a case is a route, and the guard's block is the last word.
LEMMA GovernedFacts ==
    ASSUME NEW c \in Cases, NEW ls
    PROVE  /\ Governed(c, ls) \in Route
           /\ Assess(c.use, ls) \in Blocked => Governed(c, ls) = Assess(c.use, ls)
           /\ Assess(c.use, ls) \notin Blocked =>
                  /\ Assess(c.use, ls) \in {"NO_OVERRIDE", "GREEN"}
                  /\ Governed(c, ls) = Decide([c.in EXCEPT !.dataUse = Assess(c.use, ls)])
<1>1. Assess(c.use, ls) \in Verdict
  BY AssessFacts
<1>2. Assess(c.use, ls) \in Blocked => Governed(c, ls) = Assess(c.use, ls)
  BY DEF Governed, Blocked
<1>3. Assess(c.use, ls) \notin Blocked =>
          /\ Assess(c.use, ls) \in {"NO_OVERRIDE", "GREEN"}
          /\ Governed(c, ls) = Decide([c.in EXCEPT !.dataUse = Assess(c.use, ls)])
  BY <1>1 DEF Governed, Blocked, Verdict
<1>4. Assess(c.use, ls) \notin Blocked => Governed(c, ls) \in Route
  BY <1>3, CaseFacts, JudgedFacts, DecideFacts
<1>. QED  BY <1>2, <1>3, <1>4 DEF Blocked, Route

\* The decision is of the case under study and of labels from the closed list,
\* and once it is made it is the route those two determine.
RoutingInv ==
    /\ case \in Cases
    /\ labels \subseteq Label
    /\ out \in {"unread", "undecided"} \/ out = Governed(case, labels)

\* It holds of every reachable state.
THEOREM RoutingIsDecided == Spec => []RoutingInv
<1>1. Init => RoutingInv
  BY DEF Init, RoutingInv
<1>2. RoutingInv /\ [Next]_vars => RoutingInv'
  <2>. SUFFICES ASSUME RoutingInv, [Next]_vars
                PROVE  RoutingInv'
    OBVIOUS
  <2>1. CASE Understand
    <3>1. case.task.given \subseteq Label
      BY CaseFacts DEF RoutingInv
    <3>2. labels' \subseteq Label
      BY <2>1, <3>1, LabelsAssumption DEF Understand, Understood
    <3>. QED  BY <2>1, <3>2 DEF Understand, RoutingInv
  <2>2. CASE Govern
    BY <2>2 DEF Govern, RoutingInv
  <2>3. CASE UNCHANGED vars
    BY <2>3 DEF vars, RoutingInv, Governed
  <2>. QED  BY <2>1, <2>2, <2>3 DEF Next
<1>. QED  BY <1>1, <1>2, PTL DEF Spec

\* What a decided state is.
LEMMA DecidedFacts ==
    ASSUME RoutingInv, Decided
    PROVE  /\ case \in Cases /\ labels \subseteq Label
           /\ out = Governed(case, labels)
BY DEF RoutingInv, Decided, Route

\* A gate that the profile or the data-use guard imposes is never learned away,
\* whatever the adjustment and however confident the subject
\* (module_103_governance.py, the policy floor).
THEOREM GatesAreNotLearnedAway == Spec => []MandatoryGateNeverLearnedAway
<1>1. RoutingInv => MandatoryGateNeverLearnedAway
  <2>. DEFINE v == Assess(use, labels)
              j == [in EXCEPT !.dataUse = v]
  <2>. SUFFICES ASSUME RoutingInv, Decided, MandatoryApproval(in) \/ v = "GREEN"
                PROVE  out # "BLUE"
    BY DEF MandatoryGateNeverLearnedAway
  <2>1. case \in Cases /\ out = Governed(case, labels) /\ in \in Input
    BY DecidedFacts, CaseFacts DEF in
  <2>2. CASE v \in Blocked
    <3>1. out = v
      BY <2>1, <2>2, GovernedFacts DEF use
    <3>. QED  BY <2>2, <3>1 DEF Blocked
  <2>3. CASE v \notin Blocked
    <3>1. out = Decide(j) /\ v \in {"NO_OVERRIDE", "GREEN"}
      BY <2>1, <2>3, GovernedFacts DEF use, in
    <3>2. j \in Input /\ j.dataUse = v /\ MandatoryApproval(j) = MandatoryApproval(in)
      BY <2>1, <3>1, JudgedFacts, AlikeFacts
    <3>3. PolicyFloor(j) = "GREEN"
      BY <3>2 DEF PolicyFloor
    <3>. QED  BY <3>1, <3>2, <3>3, ArbitratedFacts, DecideFacts
  <2>. QED  BY <2>2, <2>3
<1>. QED  BY <1>1, RoutingIsDecided, PTL

\* A decision that is blocked before habit is not silent after it: it was
\* hard-blocked, or some gate was mandatory, or the score needed a high-value
\* asset, whose cap of 0 forbids the learned tier while the two discounts leave
\* the score above the silent range (module_101b_action_risk.py and the
\* downgrade caps of module_103_governance.py).
LEMMA HabitNeverSilencesABlock ==
    ASSUME NEW i \in Input, NEW j \in Input, BeforeHabit(i, j), ~i.draft,
           i.dataUse = j.dataUse, Decide(j) = "RED"
    PROVE  Decide(i) # "BLUE"
<1>. SUFFICES ASSUME Decide(i) = "BLUE"  PROVE FALSE
  OBVIOUS
<1>1. /\ i.pre = "clear" /\ Arbitrated(i) = "BLUE"
      /\ ~Matches(HardBlockActions, Features(i))
  BY DecideFacts
<1>2. \A f : f \notin Habit => (f \in Features(i) <=> f \in Features(j))
  BY HabitFeatures
<1>3. /\ Matches(HardBlockActions, Features(j)) <=> Matches(HardBlockActions, Features(i))
      /\ Matches(ApprovalRequiredActions, Features(j))
            <=> Matches(ApprovalRequiredActions, Features(i))
  <2>1. \A required \in HardBlockActions \union ApprovalRequiredActions :
           required \intersect Habit = {}
    BY DEF HardBlockActions, ApprovalRequiredActions, Habit
  <2>2. \A required \in HardBlockActions \union ApprovalRequiredActions :
           required \subseteq Features(j) <=> required \subseteq Features(i)
    BY <1>2, <2>1
  <2>. QED  BY <2>2 DEF Matches
<1>4. /\ Arbitrated(j) = "RED" /\ Score(Features(j)) > 14
  BY <1>1, <1>3, DecideFacts, ArbitratedFacts DEF BeforeHabit
<1>5. PolicyFloor(i) = "BLUE" /\ Learned(i, Recommended(i)) = "BLUE"
  BY <1>1, ArbitratedFacts
<1>6. ~Matches(ApprovalRequiredActions, Features(i)) /\ i.dataUse # "GREEN"
  BY <1>5 DEF PolicyFloor, MandatoryApproval
<1>7. "high_value_asset" \in Features(j)
  BY <1>1, <1>3, <1>4, <1>6, RedNeedsAnAsset DEF BeforeHabit
<1>8. "high_value_asset" \in Features(i)
  BY <1>2, <1>7 DEF Habit
<1>9. i.adj < 0 => ViolatesDowngradeCap(i)
  <2>1. i.adj \in Int
    BY DEF Input
  <2>2. "high_value_asset" \in DOMAIN MaxAutoDowngrade
        /\ MaxAutoDowngrade["high_value_asset"] = 0
    BY DEF MaxAutoDowngrade
  <2>. QED  BY <1>8, <2>1, <2>2 DEF ViolatesDowngradeCap
<1>10. Recommended(i) = "BLUE"
  <2>1. RouteOrder[Learned(i, Recommended(i))] >= RouteOrder[Recommended(i)]
    BY <1>9, ArbitratedFacts, LearnedFacts DEF Relaxed
  <2>. QED  BY <1>5, <2>1, ArbitratedFacts, RankFacts DEF Route
<1>11. RouteFor(Score(Features(i))) = "BLUE"
  BY <1>6, <1>10 DEF Recommended
<1>12. Score(Features(i)) <= 4
  BY <1>11, ScoreFacts, RouteForFacts
<1>. QED  BY <1>4, <1>12, HabitDiscount, ScoreFacts

\* Habit and learning never make an action run silently that 103 would have
\* blocked without them.
THEOREM HabitIsBounded == Spec => []BlockedWorkIsNeverSilent
<1>1. RoutingInv => BlockedWorkIsNeverSilent
  <2>. DEFINE v == Assess(use, labels)
              bare == Unlearned(case).in
              i == [in EXCEPT !.dataUse = v]
              j == [bare EXCEPT !.dataUse = v]
  <2>. SUFFICES ASSUME RoutingInv, Decided, ~in.draft,
                       Governed(Unlearned(case), labels) = "RED"
                PROVE  out # "BLUE"
    BY DEF BlockedWorkIsNeverSilent
  <2>1. /\ case \in Cases /\ out = Governed(case, labels) /\ in \in Input
        /\ bare \in Input /\ Unlearned(case).use = use
        /\ bare = [in EXCEPT !.adj = 0, !.confident = FALSE]
    BY DecidedFacts, CaseFacts DEF in, use
  <2>2. CASE v \in Blocked
    <3>1. out = v
      BY <2>1, <2>2, GovernedFacts DEF use
    <3>. QED  BY <2>2, <3>1 DEF Blocked
  <2>3. CASE v \notin Blocked
    <3>1. out = Decide(i) /\ v \in {"NO_OVERRIDE", "GREEN"}
      BY <2>1, <2>3, GovernedFacts DEF use, in
    <3>2. Decide(j) = "RED"
      BY <2>1, <2>3 DEF Governed, Blocked
    <3>3. i \in Input /\ j \in Input /\ AlikeButUse(in, i) /\ AlikeButUse(bare, j)
          /\ i.dataUse = v /\ j.dataUse = v
      BY <2>1, <3>1, JudgedFacts
    <3>4. BeforeHabit(in, bare)
      BY <2>1 DEF BeforeHabit, Input
    <3>5. BeforeHabit(i, j) /\ ~i.draft
      BY <3>3, <3>4 DEF BeforeHabit, AlikeButUse
    <3>. QED  BY <3>1, <3>2, <3>3, <3>5, HabitNeverSilencesABlock
  <2>. QED  BY <2>2, <2>3
<1>. QED  BY <1>1, RoutingIsDecided, PTL

\* The labels of a task only add to what the term lists say: what the guard
\* blocks or sends to a human without them, it still does with them.
LEMMA LabelsAddToAVerdict ==
    ASSUME NEW u, NEW ls
    PROVE  /\ Assess(u, {}) \in Blocked => Assess(u, ls) \in Blocked
           /\ Assess(u, {}) = "GREEN" => Assess(u, ls) \in Blocked \union {"GREEN"}
<1>. DEFINE ds == Concepts(u, {})
            cs == Concepts(u, ls)
<1>1. ds \subseteq cs
  BY DEF Concepts
<1>. HIDE DEF ds, cs
<1>2. Inert(u, cs) => Inert(u, ds)
  BY <1>1 DEF Inert
<1>3. Forbidden(u, ds) => Forbidden(u, cs)
  <2>1. /\ Personal(u, ds) => Personal(u, cs)
        /\ Health(u, ds) => Health(u, cs)
        /\ Student(u, ds) => Student(u, cs)
        /\ Public(u, ds) => Public(u, cs)
        /\ Asserts(u, ds, "socio", "socioeconomic_data")
              => Asserts(u, cs, "socio", "socioeconomic_data")
        /\ Asserts(u, ds, "differential", "differential_treatment")
              => Asserts(u, cs, "differential", "differential_treatment")
    BY <1>1 DEF Personal, Health, Student, Public, Asserts
  <2>. QED  BY <1>1, <2>1 DEF Forbidden
<1>4. Verified(u, ds) => Verified(u, cs)
  BY <1>1 DEF Verified
<1>5. "unsupported_fact_invention" \in ds => "unsupported_fact_invention" \in cs
  BY <1>1
<1>6. /\ Assess(u, {}) = IF u.companion \/ Inert(u, ds) THEN "NO_OVERRIDE"
                         ELSE IF Forbidden(u, ds) THEN "RED"
                         ELSE IF "unsupported_fact_invention" \in ds THEN "INFEASIBLE"
                         ELSE IF Verified(u, ds) THEN "GREEN"
                         ELSE "NO_OVERRIDE"
      /\ Assess(u, ls) = IF u.companion \/ Inert(u, cs) THEN "NO_OVERRIDE"
                         ELSE IF Forbidden(u, cs) THEN "RED"
                         ELSE IF "unsupported_fact_invention" \in cs THEN "INFEASIBLE"
                         ELSE IF Verified(u, cs) THEN "GREEN"
                         ELSE "NO_OVERRIDE"
  BY DEF Assess, ds, cs
<1>. QED  BY <1>2, <1>3, <1>4, <1>5, <1>6 DEF Blocked

\* The labels of a model never overrule the term lists: an action is decided at
\* least as strictly as without them (runtime.py, _understand_data_use).
THEOREM LabelsNeverRelax == Spec => []LabelsOnlyTighten
<1>1. RoutingInv => LabelsOnlyTighten
  <2>. DEFINE v == Assess(use, labels)
              w == Assess(use, {})
              j == [in EXCEPT !.dataUse = v]
              i == [in EXCEPT !.dataUse = w]
  <2>. SUFFICES ASSUME RoutingInv, Decided
                PROVE  Strictness[out] >= Strictness[Governed(case, {})]
    BY DEF LabelsOnlyTighten
  <2>1. case \in Cases /\ out = Governed(case, labels) /\ in \in Input
    BY DecidedFacts, CaseFacts DEF in
  <2>2. \A r \in Route : Strictness[r] \in 0..2
    BY DEF Strictness, Route
  <2>3. CASE v \in Blocked
    <3>1. out = v
      BY <2>1, <2>3, GovernedFacts DEF use
    <3>2. Strictness[out] = 2
      BY <2>3, <3>1 DEF Blocked, Strictness
    <3>3. Governed(case, {}) \in Route
      BY <2>1, GovernedFacts
    <3>. QED  BY <2>2, <3>2, <3>3
  <2>4. CASE v \notin Blocked /\ w = v
    <3>1. Governed(case, {}) = out
      BY <2>1, <2>4 DEF Governed, Blocked, use
    <3>2. out \in Route
      BY <2>1, GovernedFacts
    <3>. QED  BY <2>2, <3>1, <3>2
  <2>5. CASE v \notin Blocked /\ w # v
    <3>1. /\ v \in {"NO_OVERRIDE", "GREEN"} /\ out = Decide(j)
      BY <2>1, <2>5, GovernedFacts DEF use, in
    <3>2. w \notin Blocked /\ w # "GREEN"
      BY <2>5, LabelsAddToAVerdict
    <3>3. w = "NO_OVERRIDE" /\ Governed(case, {}) = Decide(i)
      BY <2>1, <3>2, GovernedFacts DEF use, in
    <3>4. v = "GREEN"
      BY <2>5, <3>1, <3>3
    <3>5. /\ i \in Input /\ j \in Input /\ j.dataUse = "GREEN"
          /\ AlikeButUse(in, i) /\ AlikeButUse(in, j)
      BY <2>1, <3>1, <3>3, <3>4, JudgedFacts
    <3>6. AlikeButUse(i, j)
      BY <3>5 DEF AlikeButUse
    <3>. QED  BY <3>1, <3>3, <3>5, <3>6, GreenTightens
  <2>. QED  BY <2>3, <2>4, <2>5
<1>. QED  BY <1>1, RoutingIsDecided, PTL

\* A number that is somebody's, written into a text the public reads, blocks
\* the action, whatever labels the task got and whatever was learned
\* (module_101d_data_use_guard.py).
THEOREM NumbersAreNotPublished == Spec => []PersonalValuesAreNeverPublished
<1>1. RoutingInv => PersonalValuesAreNeverPublished
  <2>. DEFINE cs == Concepts(use, labels)
  <2>. SUFFICES ASSUME RoutingInv, Decided, Tagged(use), ~use.companion,
                       use.scope \in {"public", "public_draft"} \/ use.audience = "public",
                       use.body \intersect Value # {}
                PROVE  out \in {"RED", "INFEASIBLE"}
    BY DEF PersonalValuesAreNeverPublished
  <2>1. case \in Cases /\ out = Governed(case, labels)
    BY DecidedFacts
  <2>2. ~Inert(use, cs)
    BY DEF Inert
  <2>3. Personal(use, cs) /\ Public(use, cs)
    BY DEF Personal, Public, Own
  <2>4. Forbidden(use, cs)
    BY <2>3 DEF Forbidden
  <2>5. Assess(use, labels) = "RED"
    BY <2>2, <2>4, AssessFacts
  <2>. QED  BY <2>1, <2>5, GovernedFacts DEF use, Blocked
<1>. QED  BY <1>1, RoutingIsDecided, PTL

\* What a guardian is sent about the own child goes to a human: the guard asks
\* and does not block, and 103 blocks it exactly when it would have anyway
\* (module_101d_data_use_guard.py).
THEOREM PrivateDeliveryGoesToAHuman == Spec => []PrivateDeliveryIsAsked
<1>1. RoutingInv => PrivateDeliveryIsAsked
  <2>. DEFINE cs == Concepts(use, labels)
              j == [in EXCEPT !.dataUse = "GREEN"]
  <2>. SUFFICES ASSUME RoutingInv, Decided, in.pre = "clear",
                       Private(use), use.verb = "send", ~use.draftOnly,
                       use.tool = "email", use.scope = "guardian", ~use.companion,
                       Own(use) \subseteq {"health", "student"},
                       Text(use) \subseteq {"health", "student"},
                       cs \subseteq {"health_or_discipline", "student_sensitive_data"}
                PROVE  out = (IF Decide(in) = "RED" THEN "RED" ELSE "GREEN")
    BY DEF PrivateDeliveryIsAsked
  <2>1. case \in Cases /\ out = Governed(case, labels) /\ in \in Input
    BY DecidedFacts, CaseFacts DEF in
  <2>2. ~Inert(use, cs)
    BY DEF Inert, Tagged
  <2>3. ~Forbidden(use, cs)
    <3>1. ~Public(use, cs) /\ ~Broad(use)
      BY DEF Public, Broad, Private, Publishes
    <3>2. ~Asserts(use, cs, "socio", "socioeconomic_data")
      BY DEF Asserts
    <3>3. "persistent_sensitive_learning" \notin cs
      OBVIOUS
    <3>. QED  BY <3>1, <3>2, <3>3 DEF Forbidden
  <2>4. "unsupported_fact_invention" \notin cs
    OBVIOUS
  <2>5. Verified(use, cs)
    BY DEF Verified, External, Delivers
  <2>6. Assess(use, labels) = "GREEN"
    BY <2>2, <2>3, <2>4, <2>5 DEF Assess
  <2>7. out = Decide(j) /\ j \in Input /\ j.dataUse = "GREEN" /\ AlikeButUse(in, j)
    BY <2>1, <2>6, GovernedFacts, JudgedFacts DEF use, in, Blocked
  <2>8. /\ Features(j) = Features(in) /\ Relaxed(j) = Relaxed(in) /\ j.pre = "clear"
    BY <2>7, AlikeFacts DEF AlikeButUse
  <2>9. Arbitrated(j) # "BLUE" /\ (Arbitrated(j) = "RED" <=> Arbitrated(in) = "RED")
    BY <2>1, <2>7, <2>8, ArbitratedFacts DEF PolicyFloor
  <2>. QED  BY <2>1, <2>7, <2>8, <2>9, DecideFacts DEF Route
<1>. QED  BY <1>1, RoutingIsDecided, PTL

=============================================================================
