------------------------------ MODULE ScorerProofs ------------------------------
(***************************************************************************)
(* Theorems about Scorer, for any tests, result words and length of reports. *)
(***************************************************************************)
EXTENDS Scorer, Integers, FiniteSetTheorems, SequenceTheorems,
        WellFoundedInduction, TLAPS

(***************************************************************************)
(* Reports and readings.                                                    *)
(***************************************************************************)
Results == {"PASSED", "FAILED", "SKIPPED"}

\* What parse_test_output returns: a finite reading.
IsReading(m) ==
  /\ IsFiniteSet(DOMAIN m)
  /\ \A t \in DOMAIN m : m[t] \in Results

\* The numbers are well-founded, as WFMin wants it.
LEMMA NatOrder == IsWellFoundedOn({ss \in Nat \X Nat : ss[1] < ss[2]}, Nat)
BY NatLessThanWellFounded DEF OpToRel

\* Among some lines of a report there is a last one.
LEMMA LastLine ==
  ASSUME NEW n \in Nat, NEW S \in SUBSET (1 .. n), S # {}
  PROVE  Max(S) \in S
<1> DEFINE T == {n - i : i \in S}
           R == {ss \in Nat \X Nat : ss[1] < ss[2]}
<1>0. \A i \in S : i \in Nat /\ i <= n /\ n - i \in Nat
  OBVIOUS
<1>1. T \subseteq Nat /\ T # {}
  BY <1>0
<1>2. \E x \in T : \A y \in T : <<y, x>> \notin R
  <2>1. IsWellFoundedOn(R, Nat)
    BY NatOrder
  <2> HIDE DEF T, R
  <2>2. QED  BY <1>1, <2>1, WFMin
<1>3. PICK x \in T : \A y \in T : ~(y < x)
  BY <1>1, <1>2
<1>4. PICK j \in S : x = n - j
  BY <1>3
<1>5. \A i \in S : j >= i
  BY <1>0, <1>3, <1>4
<1>6. QED  BY <1>5 DEF Max

\* Every result word stands for one of three results.
LEMMA WordMeans ==
  \A w \in DOMAIN StatusOf : StatusOf[w] \in Results
BY DEF StatusOf, Results

\* Of a report, the tests that some line speaks of are finitely many.
LEMMA FewTests ==
  ASSUME NEW out \in Seq(Line)
  PROVE  /\ IsFiniteSet({out[i].test : i \in DOMAIN out})
         /\ DOMAIN out = 1 .. Len(out) /\ Len(out) \in Nat
<1> DEFINE f == [i \in DOMAIN out |-> out[i].test]
           T == {out[i].test : i \in DOMAIN out}
<1>1. DOMAIN out = 1 .. Len(out) /\ Len(out) \in Nat
  BY LenProperties
<1>2. IsFiniteSet(DOMAIN out)
  BY <1>1, FS_Interval
<1>3. f \in Surjection(DOMAIN out, T)
  BY DEF Surjection
<1>4. IsFiniteSet(T)
  BY <1>2, <1>3, FS_Surjection
<1>5. QED  BY <1>1, <1>4

\* parse_test_output reads a passed, a failed or a skipped test.
LEMMA ParseReads ==
  ASSUME NEW out \in Seq(Line)
  PROVE  IsReading(parse_test_output(out))
<1> DEFINE passed == Named(out, {"PASSED"})
           failed == Named(out, {"FAILED", "ERROR"})
           lined == {t \in Tests : ResultsOf(out, t) # {}}
           found == lined \cup passed \cup failed
<1>1. /\ DOMAIN out = 1 .. Len(out) /\ Len(out) \in Nat
      /\ IsFiniteSet({out[i].test : i \in DOMAIN out})
  BY FewTests
<1>2. CASE found = {}
  <2>1. parse_test_output(out) = SuiteFallback(out)
    BY <1>2 DEF parse_test_output
  <2>2. IsFiniteSet({"suite_overall"}) /\ IsFiniteSet({})
    BY FS_Singleton, FS_EmptySet
  <2>3. QED  BY <2>1, <2>2 DEF SuiteFallback, IsReading, Results
<1>3. CASE found # {}
  <2>1. parse_test_output(out) =
          [t \in found |-> IF t \in failed THEN "FAILED"
                           ELSE IF t \in passed THEN "PASSED"
                           ELSE LineStatus(out, t)]
    BY <1>3 DEF parse_test_output
  <2>2. found \subseteq {out[i].test : i \in DOMAIN out}
    BY <1>1 DEF Named, ResultsOf
  <2>3. IsFiniteSet(found)
    BY <1>1, <2>2, FS_Subset
  <2>4. ASSUME NEW t \in lined PROVE LineStatus(out, t) \in Results
    <3>1. /\ ResultsOf(out, t) \in SUBSET (1 .. Len(out))
          /\ ResultsOf(out, t) # {}
      BY <1>1 DEF ResultsOf
    <3>2. PICK i \in ResultsOf(out, t) : i = Max(ResultsOf(out, t))
      BY <1>1, <3>1, LastLine
    <3>3. out[i] \in Line /\ out[i].kind = "result"
      BY <1>1, <3>1, ElementOfSeq DEF ResultsOf
    <3>4. out[i].word \in DOMAIN StatusOf
      BY <3>3, ScorerAssumption DEF Line, ResultLine, SummaryLine, TextLine
    <3>5. QED  BY <3>2, <3>4, WordMeans DEF LineStatus
  <2>5. QED  BY <2>1, <2>3, <2>4 DEF IsReading, Results
<1>4. QED  BY <1>2, <1>3

(***************************************************************************)
(* compute_metrics.                                                         *)
(***************************************************************************)
\* What a reading has of a test it does not name.
LEMMA AtReads ==
  ASSUME NEW m, IsReading(m), NEW t
  PROVE  /\ At(m, t) \in Results \cup {"absent"}
         /\ At(m, t) = "absent" <=> t \notin DOMAIN m
         /\ t \in DOMAIN m => At(m, t) = m[t]
BY DEF At, IsReading, Results

\* The four lists of tests are finite and have no test in common.
LEMMA ListsApart ==
  ASSUME NEW base, NEW patched, IsReading(base), IsReading(patched),
         NEW bexit, NEW pexit, NEW m, m = Transitions(base, patched, bexit, pexit)
  PROVE  /\ IsFiniteSet(m.fail_to_pass) /\ IsFiniteSet(m.pass_to_pass)
         /\ IsFiniteSet(m.fail_to_fail) /\ IsFiniteSet(m.pass_to_fail)
         /\ m.fail_to_pass \cap m.pass_to_pass = {}
         /\ (m.fail_to_pass \cup m.pass_to_pass) \cap m.fail_to_fail = {}
         /\ (m.fail_to_pass \cup m.pass_to_pass \cup m.fail_to_fail)
              \cap m.pass_to_fail = {}
<1>1. CASE DOMAIN base \cup DOMAIN patched = {}
  <2>1. IsFiniteSet({}) /\ IsFiniteSet({"suite_execution"})
    BY FS_EmptySet, FS_Singleton
  <2>2. QED  BY <1>1, <2>1 DEF Transitions
<1>2. CASE DOMAIN base \cup DOMAIN patched # {}
  <2>1. /\ m.fail_to_pass = Move(base, patched, {"FAILED", "absent"}, {"PASSED"})
        /\ m.pass_to_pass = Move(base, patched, {"PASSED"}, {"PASSED"})
        /\ m.fail_to_fail = Move(base, patched, {"FAILED"}, {"FAILED"}) \cup
                            Move(base, patched, {"absent"}, {"FAILED", "SKIPPED"})
        /\ m.pass_to_fail = Move(base, patched, {"PASSED"}, {"FAILED", "absent"})
    BY <1>2 DEF Transitions, Broken
  <2>2. IsFiniteSet(DOMAIN base \cup DOMAIN patched)
    BY FS_Union DEF IsReading
  <2>3. \A from, to : /\ Move(base, patched, from, to)
                           \subseteq DOMAIN base \cup DOMAIN patched
                      /\ IsFiniteSet(Move(base, patched, from, to))
    <3>1. \A from, to : Move(base, patched, from, to)
                          \subseteq DOMAIN base \cup DOMAIN patched
      BY DEF Move
    <3>2. QED  BY <2>2, <3>1, FS_Subset
  <2>4. PICK f, g : /\ f = Move(base, patched, {"FAILED"}, {"FAILED"})
                    /\ g = Move(base, patched, {"absent"}, {"FAILED", "SKIPPED"})
    OBVIOUS
  <2>5. m.fail_to_fail = f \cup g /\ IsFiniteSet(f) /\ IsFiniteSet(g)
    BY <2>1, <2>3, <2>4
  <2>6. IsFiniteSet(m.fail_to_fail)
    BY <2>5, FS_Union
  <2>7. /\ m.fail_to_pass \cap m.pass_to_pass = {}
        /\ (m.fail_to_pass \cup m.pass_to_pass) \cap m.fail_to_fail = {}
    BY <2>1 DEF Move
  <2>8. (m.fail_to_pass \cup m.pass_to_pass \cup m.fail_to_fail)
          \cap m.pass_to_fail = {}
    BY <2>1 DEF Move
  <2>9. QED  BY <2>1, <2>3, <2>6, <2>7, <2>8
<1>3. QED  BY <1>1, <1>2

\* Sets that have nothing in common have the sum of their sizes.
LEMMA SizeOfTwo ==
  ASSUME NEW A, NEW B, IsFiniteSet(A), IsFiniteSet(B), A \cap B = {}
  PROVE  /\ IsFiniteSet(A \cup B)
         /\ Cardinality(A) \in Nat /\ Cardinality(B) \in Nat
         /\ Cardinality(A \cup B) = Cardinality(A) + Cardinality(B)
<1>1. Cardinality(A) \in Nat /\ Cardinality(B) \in Nat
  BY FS_CardinalityType
<1>2. Cardinality(A \cap B) = 0
  BY FS_EmptySet
<1>3. /\ IsFiniteSet(A \cup B)
      /\ Cardinality(A \cup B)
           = Cardinality(A) + Cardinality(B) - Cardinality(A \cap B)
  BY FS_Union
<1>4. QED  BY <1>1, <1>2, <1>3

\* Four sets that do not overlap: the size of all is the sum of their sizes.
LEMMA SizeOfParts ==
  ASSUME NEW A, NEW B, NEW C, NEW D, IsFiniteSet(A), IsFiniteSet(B),
         IsFiniteSet(C), IsFiniteSet(D), A \cap B = {},
         (A \cup B) \cap C = {}, (A \cup B \cup C) \cap D = {}
  PROVE  /\ Cardinality(A) \in Nat /\ Cardinality(B) \in Nat
         /\ Cardinality(C) \in Nat /\ Cardinality(D) \in Nat
         /\ Cardinality(A \cup B \cup C \cup D)
              = Cardinality(A) + Cardinality(B) + Cardinality(C) + Cardinality(D)
<1> DEFINE AB == A \cup B
           ABC == AB \cup C
<1>1. /\ IsFiniteSet(AB) /\ Cardinality(A) \in Nat /\ Cardinality(B) \in Nat
      /\ Cardinality(AB) = Cardinality(A) + Cardinality(B)
  BY SizeOfTwo
<1>2. AB \cap C = {} /\ ABC \cap D = {}
  OBVIOUS
<1> HIDE DEF AB
<1>3. /\ IsFiniteSet(ABC) /\ Cardinality(C) \in Nat
      /\ Cardinality(ABC) = Cardinality(AB) + Cardinality(C)
  BY <1>1, <1>2, SizeOfTwo
<1> HIDE DEF ABC
<1>4. /\ Cardinality(D) \in Nat
      /\ Cardinality(ABC \cup D) = Cardinality(ABC) + Cardinality(D)
  BY <1>2, <1>3, SizeOfTwo
<1>5. Cardinality(ABC \cup D)
        = Cardinality(A) + Cardinality(B) + Cardinality(C) + Cardinality(D)
  BY <1>1, <1>3, <1>4
<1>6. QED  BY <1>1, <1>3, <1>4, <1>5 DEF AB, ABC

(***************************************************************************)
(* The metrics are those of the two reports.                                *)
(***************************************************************************)
Before == parse_test_output(baseOutput)
After == parse_test_output(patchedOutput)

ScoreInv ==
  /\ baseOutput \in Seq(Line) /\ patchedOutput \in Seq(Line)
  /\ stage = "scored" =>
       metrics = compute_metrics(Before, After, baseExit, patchedExit)

\* Both reports are read once they are complete.
LEMMA ScoreInvariant == Spec => []ScoreInv
<1>1. Init => ScoreInv
  BY DEF Init, ScoreInv
<1>2. ScoreInv /\ [Next]_vars => ScoreInv'
  <2> SUFFICES ASSUME ScoreInv, [Next]_vars PROVE ScoreInv'
    OBVIOUS
  <2>1. ASSUME NEW line \in Line, PrintBase(line) PROVE ScoreInv'
    BY <2>1, AppendProperties DEF PrintBase, ScoreInv
  <2>2. ASSUME NEW line \in Line, PrintPatched(line) PROVE ScoreInv'
    BY <2>2, AppendProperties DEF PrintPatched, ScoreInv
  <2>3. CASE BaseEnds
    BY <2>3 DEF BaseEnds, ScoreInv
  <2>4. CASE Score
    BY <2>4 DEF Score, ScoreInv, Before, After
  <2>5. CASE UNCHANGED vars
    BY <2>5 DEF vars, ScoreInv, Before, After
  <2>6. QED  BY <2>1, <2>2, <2>3, <2>4, <2>5 DEF Next
<1>3. QED  BY <1>1, <1>2, PTL DEF Spec

\* What the invariant says of a scored evaluation.
LEMMA Scored ==
  ASSUME ScoreInv, stage = "scored"
  PROVE  /\ IsReading(Before) /\ IsReading(After)
         /\ \E m : /\ m = Transitions(Before, After, baseExit, patchedExit)
                   /\ metrics.lists = m
                   /\ metrics.resolved = IsResolved(m, baseExit, patchedExit)
                   /\ metrics.passed = Cardinality(m.fail_to_pass)
                                         + Cardinality(m.pass_to_pass)
                   /\ metrics.total_tests_evaluated
                        = Cardinality(m.fail_to_pass) + Cardinality(m.pass_to_pass)
                          + Cardinality(m.fail_to_fail) + Cardinality(m.pass_to_fail)
<1>1. IsReading(Before) /\ IsReading(After)
  BY ParseReads DEF ScoreInv, Before, After
<1>2. QED  BY <1>1 DEF ScoreInv, compute_metrics

(***************************************************************************)
(* The theorems.                                                            *)
(***************************************************************************)
\* Every test gets the status its last result line shows, in a report whose
\* lines cannot be mistaken for one another.
THEOREM ParsesFaithfully == Spec => []ParseFaithful
<1>1. ASSUME NEW out \in Seq(Line), NEW t \in Tests, ResultsOf(out, t) # {},
             \A i \in DOMAIN out :
               /\ out[i].kind = "result" => out[i].tail
               /\ out[i].kind = "summary" =>
                    StatusOf[out[i].word] = LineStatus(out, out[i].test)
      PROVE  At(parse_test_output(out), t) = LineStatus(out, t)
  <2> DEFINE passed == Named(out, {"PASSED"})
             failed == Named(out, {"FAILED", "ERROR"})
             lined == {u \in Tests : ResultsOf(out, u) # {}}
             found == lined \cup passed \cup failed
  <2>1. t \in found
    BY <1>1
  <2>2. parse_test_output(out) =
          [u \in found |-> IF u \in failed THEN "FAILED"
                           ELSE IF u \in passed THEN "PASSED"
                           ELSE LineStatus(out, u)]
    BY <2>1 DEF parse_test_output
  <2>3. \A words : t \in Named(out, words) =>
          \E i \in DOMAIN out : /\ out[i].kind = "summary" /\ out[i].test = t
                                /\ out[i].word \in words
    <3> SUFFICES ASSUME NEW words, t \in Named(out, words)
                 PROVE  \E i \in DOMAIN out :
                          /\ out[i].kind = "summary" /\ out[i].test = t
                          /\ out[i].word \in words
      OBVIOUS
    <3>1. 1 .. Len(out) - 1 \subseteq DOMAIN out
      BY LenProperties
    <3>2. \A j \in 1 .. Len(out) - 1 : out[j].kind = "result" => out[j].tail
      BY <1>1, <3>1
    <3>3. QED  BY <3>2 DEF Named
  <2>4. t \in failed => LineStatus(out, t) = "FAILED"
    BY <1>1, <2>3 DEF StatusOf
  <2>5. t \in passed => LineStatus(out, t) = "PASSED"
    BY <1>1, <2>3 DEF StatusOf
  <2>6. QED  BY <2>1, <2>2, <2>4, <2>5 DEF At
<1>2. ScoreInv => ParseFaithful
  BY <1>1 DEF ScoreInv, ParseFaithful, LineStatus
<1>3. QED  BY <1>2, ScoreInvariant, PTL

\* A resolved evaluation left nothing broken.
THEOREM ResolvedMeansClean == Spec => []ResolvedIsClean
<1>1. ScoreInv => ResolvedIsClean
  <2> SUFFICES ASSUME ScoreInv, stage = "scored", metrics.resolved
               PROVE  /\ patchedExit = 0
                      /\ \A t \in DOMAIN Before : Before[t] = "PASSED" =>
                           At(After, t) \in {"PASSED", "SKIPPED"}
                      /\ \A t \in DOMAIN After : After[t] = "FAILED" =>
                           At(Before, t) = "SKIPPED"
                      /\ metrics.passed > 0
                      /\ metrics.passed = metrics.total_tests_evaluated
    BY DEF ResolvedIsClean, Before, After
  <2>1. PICK m :
          /\ m = Transitions(Before, After, baseExit, patchedExit)
          /\ metrics.resolved = IsResolved(m, baseExit, patchedExit)
          /\ metrics.passed = Cardinality(m.fail_to_pass)
                                + Cardinality(m.pass_to_pass)
          /\ metrics.total_tests_evaluated
               = Cardinality(m.fail_to_pass) + Cardinality(m.pass_to_pass)
                 + Cardinality(m.fail_to_fail) + Cardinality(m.pass_to_fail)
    BY Scored
  <2>2. /\ m.pass_to_fail = {} /\ m.fail_to_fail = {} /\ patchedExit = 0
        /\ m.fail_to_pass # {} \/ m.pass_to_pass # {}
    BY <2>1 DEF IsResolved, HasFixes
  <2>3. IsReading(Before) /\ IsReading(After)
    BY Scored
  <2>4. /\ IsFiniteSet(m.fail_to_pass) /\ IsFiniteSet(m.pass_to_pass)
        /\ Cardinality(m.fail_to_pass) \in Nat
        /\ Cardinality(m.pass_to_pass) \in Nat
    BY <2>1, <2>3, ListsApart, FS_CardinalityType
  <2>5. /\ Cardinality({}) = 0
        /\ Cardinality(m.fail_to_pass) = 0 => m.fail_to_pass = {}
        /\ Cardinality(m.pass_to_pass) = 0 => m.pass_to_pass = {}
    BY <2>4, FS_EmptySet
  <2>6. metrics.passed > 0 /\ metrics.passed = metrics.total_tests_evaluated
    BY <2>1, <2>2, <2>4, <2>5
  <2>7. ASSUME DOMAIN Before \cup DOMAIN After # {}
        PROVE  /\ Move(Before, After, {"PASSED"}, {"FAILED", "absent"}) = {}
               /\ Move(Before, After, {"FAILED"}, {"FAILED"}) = {}
               /\ Move(Before, After, {"absent"}, {"FAILED", "SKIPPED"}) = {}
    BY <2>1, <2>2, <2>7 DEF Transitions, Broken
  <2>8. ASSUME NEW t \in DOMAIN Before, Before[t] = "PASSED"
        PROVE  At(After, t) \in {"PASSED", "SKIPPED"}
    BY <2>3, <2>7, <2>8, AtReads DEF Move, Results
  <2>9. ASSUME NEW t \in DOMAIN After, After[t] = "FAILED"
        PROVE  At(Before, t) = "SKIPPED"
    BY <2>3, <2>7, <2>9, AtReads DEF Move, Results
  <2>10. QED  BY <2>2, <2>6, <2>8, <2>9
<1>2. QED  BY <1>1, ScoreInvariant, PTL

\* More passing tests never turn a resolved evaluation into an unresolved one.
THEOREM PassesNeverHurt == Spec => []MorePassesNeverHurt
<1>1. ScoreInv => MorePassesNeverHurt
  <2> SUFFICES ASSUME ScoreInv, stage = "scored", metrics.resolved,
                      NEW T \in SUBSET (Tests \cup DOMAIN After),
                      NEW more, more = [t \in DOMAIN After \cup T |->
                                          IF t \in T THEN "PASSED" ELSE After[t]]
               PROVE  compute_metrics(Before, more, baseExit, patchedExit).resolved
    BY DEF MorePassesNeverHurt, Before, After
  <2>1. PICK m :
          /\ m = Transitions(Before, After, baseExit, patchedExit)
          /\ IsResolved(m, baseExit, patchedExit)
    BY Scored
  <2>2. PICK n : n = Transitions(Before, more, baseExit, patchedExit)
    OBVIOUS
  <2>3. \A t : At(more, t) = IF t \in T THEN "PASSED" ELSE At(After, t)
    BY DEF At
  <2>4. DOMAIN more = DOMAIN After \cup T
    OBVIOUS
  <2>5. CASE DOMAIN Before \cup DOMAIN more = {}
    <3>1. n = m
      BY <2>1, <2>2, <2>4, <2>5 DEF Transitions
    <3>2. QED  BY <2>1, <2>2, <3>1 DEF compute_metrics
  <2>6. CASE DOMAIN Before \cup DOMAIN After # {}
    <3>1. /\ m.fail_to_pass = Move(Before, After, {"FAILED", "absent"}, {"PASSED"})
          /\ m.pass_to_pass = Move(Before, After, {"PASSED"}, {"PASSED"})
          /\ m.fail_to_fail = Move(Before, After, {"FAILED"}, {"FAILED"}) \cup
                         Move(Before, After, {"absent"}, {"FAILED", "SKIPPED"})
          /\ m.pass_to_fail = Move(Before, After, {"PASSED"}, {"FAILED", "absent"})
      BY <2>1, <2>6 DEF Transitions, Broken
    <3>2. /\ n.fail_to_pass = Move(Before, more, {"FAILED", "absent"}, {"PASSED"})
          /\ n.pass_to_pass = Move(Before, more, {"PASSED"}, {"PASSED"})
          /\ n.fail_to_fail = Move(Before, more, {"FAILED"}, {"FAILED"}) \cup
                         Move(Before, more, {"absent"}, {"FAILED", "SKIPPED"})
          /\ n.pass_to_fail = Move(Before, more, {"PASSED"}, {"FAILED", "absent"})
      BY <2>2, <2>4, <2>6 DEF Transitions, Broken
    <3>3. \A from, to :
            /\ "PASSED" \notin to =>
                 Move(Before, more, from, to) \subseteq Move(Before, After, from, to)
            /\ "PASSED" \in to =>
                 Move(Before, After, from, to) \subseteq Move(Before, more, from, to)
      BY <2>3, <2>4 DEF Move
    <3>4. /\ m.fail_to_pass \subseteq n.fail_to_pass
          /\ m.pass_to_pass \subseteq n.pass_to_pass
          /\ n.fail_to_fail \subseteq m.fail_to_fail
          /\ n.pass_to_fail \subseteq m.pass_to_fail
      BY <3>1, <3>2, <3>3
    <3>5. IsResolved(n, baseExit, patchedExit)
      BY <2>1, <3>4 DEF IsResolved, HasFixes
    <3>6. QED  BY <2>2, <3>5 DEF compute_metrics
  <2>7. CASE DOMAIN Before \cup DOMAIN After = {} /\ T # {}
    <3>1. baseExit # 0 /\ patchedExit = 0
      BY <2>1, <2>7 DEF Transitions, IsResolved, HasFixes
    <3>2. /\ \A t \in T : At(Before, t) = "absent" /\ At(more, t) = "PASSED"
          /\ DOMAIN Before \cup DOMAIN more = T
      BY <2>3, <2>4, <2>7 DEF At
    <3>3. \A from, to : Move(Before, more, from, to) =
                          IF "absent" \in from /\ "PASSED" \in to THEN T ELSE {}
      BY <3>2 DEF Move
    <3>4. n.fail_to_pass = T /\ n.fail_to_fail = {} /\ n.pass_to_fail = {}
      BY <2>2, <2>7, <3>2, <3>3 DEF Transitions, Broken
    <3>5. IsResolved(n, baseExit, patchedExit)
      BY <2>7, <3>1, <3>4 DEF IsResolved, HasFixes
    <3>6. QED  BY <2>2, <3>5 DEF compute_metrics
  <2>8. QED  BY <2>4, <2>5, <2>6, <2>7
<1>2. QED  BY <1>1, ScoreInvariant, PTL

\* Every test is counted in one list, or was skipped, or failed and disappeared.
THEOREM EveryTestListed == Spec => []OneListEach
<1>1. ScoreInv => OneListEach
  <2> SUFFICES ASSUME ScoreInv, stage = "scored",
                      NEW listed, listed = UNION {metrics.lists[l] :
                                                    l \in DOMAIN metrics.lists}
               PROVE  /\ Cardinality(listed) = metrics.total_tests_evaluated
                      /\ \A t \in (DOMAIN Before \cup DOMAIN After) \ listed :
                           \/ "SKIPPED" \in {At(Before, t), At(After, t)}
                           \/ At(Before, t) = "FAILED" /\ At(After, t) = "absent"
    BY DEF OneListEach, Before, After
  <2>1. PICK m :
          /\ m = Transitions(Before, After, baseExit, patchedExit)
          /\ metrics.lists = m
          /\ metrics.total_tests_evaluated
               = Cardinality(m.fail_to_pass) + Cardinality(m.pass_to_pass)
                 + Cardinality(m.fail_to_fail) + Cardinality(m.pass_to_fail)
    BY Scored
  <2>2. IsReading(Before) /\ IsReading(After)
    BY Scored
  <2>3. DOMAIN m = {"fail_to_pass", "pass_to_pass", "fail_to_fail", "pass_to_fail"}
    BY <2>1 DEF Transitions
  <2>4. listed = m.fail_to_pass \cup m.pass_to_pass \cup m.fail_to_fail
                   \cup m.pass_to_fail
    BY <2>1, <2>3
  <2>5. Cardinality(listed) = metrics.total_tests_evaluated
    BY <2>1, <2>2, <2>4, ListsApart, SizeOfParts
  <2>6. ASSUME NEW t \in (DOMAIN Before \cup DOMAIN After) \ listed
        PROVE  \/ "SKIPPED" \in {At(Before, t), At(After, t)}
               \/ At(Before, t) = "FAILED" /\ At(After, t) = "absent"
    <3>1. /\ m.fail_to_pass = Move(Before, After, {"FAILED", "absent"}, {"PASSED"})
          /\ m.pass_to_pass = Move(Before, After, {"PASSED"}, {"PASSED"})
          /\ m.fail_to_fail = Move(Before, After, {"FAILED"}, {"FAILED"}) \cup
                         Move(Before, After, {"absent"}, {"FAILED", "SKIPPED"})
          /\ m.pass_to_fail = Move(Before, After, {"PASSED"}, {"FAILED", "absent"})
      BY <2>1, <2>6 DEF Transitions, Broken
    <3>2. /\ At(Before, t) \in Results \cup {"absent"}
          /\ At(After, t) \in Results \cup {"absent"}
          /\ ~ (At(Before, t) = "absent" /\ At(After, t) = "absent")
      BY <2>2, <2>6, AtReads
    <3>3. QED  BY <2>4, <2>6, <3>1, <3>2 DEF Move, Results
  <2>7. QED  BY <2>5, <2>6
<1>2. QED  BY <1>1, ScoreInvariant, PTL
================================================================================
