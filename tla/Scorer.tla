------------------------------- MODULE Scorer -------------------------------
(***************************************************************************)
(* Scoring: app/core/scorer.py.  Two runs of a test command print reports;  *)
(* parse_test_output reads a status for each test out of a report, and      *)
(* compute_metrics compares the two readings.                               *)
(*                                                                          *)
(* A report is a sequence of lines.  All that the regular expressions tell  *)
(* apart is which test and which result word a line names, in which order,  *)
(* and whether anything follows the word before the line ends.  The lines   *)
(* of unittest, Jest and cargo are result lines with a tail.                *)
(***************************************************************************)
EXTENDS Naturals, Sequences, FiniteSetsExt

CONSTANTS
  Tests,     \* test names a report may contain
  Words,     \* result words the report's framework uses
  MaxLines   \* bound: lines of one report

\* The status each result word stands for.
StatusOf ==
  [PASSED |-> "PASSED", XPASS |-> "PASSED", FAILED |-> "FAILED",
   ERROR |-> "FAILED", SKIPPED |-> "SKIPPED", XFAIL |-> "SKIPPED"]

ASSUME ScorerAssumption ==
  /\ Words \subseteq DOMAIN StatusOf
  /\ MaxLines \in Nat
  /\ Tests \cap {"suite_overall", "suite_execution"} = {}

VARIABLES
  stage,          \* base, patched or scored
  baseOutput,     \* what the streamed baseline run printed
  patchedOutput,  \* what the streamed patched run printed
  baseExit,       \* exit codes, of the second execution of each command
  patchedExit,
  metrics         \* what compute_metrics returned

vars == <<stage, baseOutput, patchedOutput, baseExit, patchedExit, metrics>>

\* "a.py::t PASSED [50%]": tail says whether anything follows the word.
ResultLine ==
  [kind : {"result"}, test : Tests, word : Words, tail : BOOLEAN]

\* "FAILED a.py::t - reason", as in pytest's short summary.
SummaryLine ==
  [kind : {"summary"}, test : Tests,
   word : Words \cap {"PASSED", "FAILED", "ERROR"}]

\* Any other line, of which only the phrases of the fallback matter.
TextLine == [kind : {"text"}, says : {"passed", "failed"}]

Line == ResultLine \cup SummaryLine \cup TextLine
-----------------------------------------------------------------------------
(***************************************************************************)
(* parse_test_output.                                                       *)
(***************************************************************************)
ResultsOf(out, t) ==
  {i \in DOMAIN out : out[i].kind = "result" /\ out[i].test = t}

\* The last result line of a test overwrites the earlier ones.
LineStatus(out, t) == StatusOf[out[Max(ResultsOf(out, t))].word]

NamedThroughTail(out, words) ==
  {out[i].test : i \in {j \in DOMAIN out : /\ out[j].kind = "summary"
                                           /\ out[j].word \in words}}
  \cup
  {out[i + 1].test : i \in {j \in 1 .. Len(out) - 1 :
                              /\ out[j].kind = "result"
                              /\ out[j].word \in words
                              /\ out[j + 1].kind = "result"}}

\* The tests that follow one of the words.  White space between the two may be
\* a line break, so a result word that ends its line also speaks of the test
\* that begins the next one.
Named(out, words) ==
  {out[i].test : i \in {j \in DOMAIN out : /\ out[j].kind = "summary"
                                           /\ out[j].word \in words}}
  \cup
  {out[i + 1].test : i \in {j \in 1 .. Len(out) - 1 :
                              /\ out[j].kind = "result" /\ ~out[j].tail
                              /\ out[j].word \in words
                              /\ out[j + 1].kind = "result"}}

Says(out, phrase) ==
  \E i \in DOMAIN out : out[i].kind = "text" /\ out[i].says = phrase

\* Without a single test the phrases decide for the suite as a whole.
SuiteFallback(out) ==
  IF Says(out, "passed") THEN [t \in {"suite_overall"} |-> "PASSED"]
  ELSE IF Says(out, "failed") THEN [t \in {"suite_overall"} |-> "FAILED"]
  ELSE [t \in {} |-> "PASSED"]

\* Result lines first, then the PASSED summaries, then the FAILED ones, each
\* overwriting what was there.
parse_test_output(out) ==
  LET passed == Named(out, {"PASSED"})
      failed == Named(out, {"FAILED", "ERROR"})
      lined  == {t \in Tests : ResultsOf(out, t) # {}}
      found  == lined \cup passed \cup failed IN
  IF found = {} THEN SuiteFallback(out)
  ELSE [t \in found |-> IF t \in failed THEN "FAILED"
                        ELSE IF t \in passed THEN "PASSED"
                        ELSE LineStatus(out, t)]
-----------------------------------------------------------------------------
(***************************************************************************)
(* compute_metrics, of two readings and two exit codes.                     *)
(***************************************************************************)
\* dict.get
At(reading, t) == IF t \in DOMAIN reading THEN reading[t] ELSE "absent"

Move(base, patched, from, to) ==
  {t \in DOMAIN base \cup DOMAIN patched :
     At(base, t) \in from /\ At(patched, t) \in to}

RemovedForgotten(base, patched) == Move(base, patched, {"PASSED"}, {"FAILED"})

\* A passing test that disappears counts as broken.
Broken(base, patched) ==
  Move(base, patched, {"PASSED"}, {"FAILED", "absent"})

\* The four lists.  A test the patch adds counts as fixed or as still failing;
\* one that was or becomes skipped, or failed and disappeared, is in none.
Transitions(base, patched, bexit, pexit) ==
  IF DOMAIN base \cup DOMAIN patched = {}
  THEN LET suite(b, p) == IF (bexit = 0) = b /\ (pexit = 0) = p
                          THEN {"suite_execution"} ELSE {} IN
       [fail_to_pass |-> suite(FALSE, TRUE), pass_to_pass |-> suite(TRUE, TRUE),
        fail_to_fail |-> suite(FALSE, FALSE), pass_to_fail |-> suite(TRUE, FALSE)]
  ELSE [fail_to_pass |-> Move(base, patched, {"FAILED", "absent"}, {"PASSED"}),
        pass_to_pass |-> Move(base, patched, {"PASSED"}, {"PASSED"}),
        fail_to_fail |-> Move(base, patched, {"FAILED"}, {"FAILED"}) \cup
                         Move(base, patched, {"absent"}, {"FAILED", "SKIPPED"}),
        pass_to_fail |-> Broken(base, patched)]

HasFixes(m, bexit) ==
  \/ m.fail_to_pass # {}
  \/ m.pass_to_pass # {} /\ m.fail_to_fail = {} /\ bexit # 0

ResolvedDespiteExit(m, bexit, pexit) ==
  HasFixes(m, bexit) /\ m.pass_to_fail = {} /\ m.fail_to_fail = {}

ResolvedByCount(m, bexit, pexit) ==
  /\ Cardinality(m.fail_to_pass) > Cardinality(m.pass_to_pass)
  /\ m.pass_to_fail = {} /\ m.fail_to_fail = {}
  /\ pexit = 0

IsResolved(m, bexit, pexit) ==
  /\ HasFixes(m, bexit)
  /\ m.pass_to_fail = {} /\ m.fail_to_fail = {}
  /\ pexit = 0

ResolutionStatus(m, resolved, pexit) ==
  IF resolved THEN "FULLY_RESOLVED"
  ELSE IF m.pass_to_fail # {} THEN "REGRESSION_INTRODUCED"
  ELSE IF m.fail_to_pass # {} /\ m.fail_to_fail # {} THEN "PARTIAL_FIX"
  ELSE IF m.fail_to_pass = {} /\ m.pass_to_pass # {} /\ pexit = 0
       THEN "NO_TARGET_FAILURES_DETECTED"
  ELSE "UNRESOLVED"

compute_metrics(base, patched, bexit, pexit) ==
  LET m == Transitions(base, patched, bexit, pexit)
      resolved == IsResolved(m, bexit, pexit) IN
  [lists |-> m, resolved |-> resolved,
   passed |-> Cardinality(m.fail_to_pass) + Cardinality(m.pass_to_pass),
   total_tests_evaluated |->
     Cardinality(m.fail_to_pass) + Cardinality(m.pass_to_pass) +
     Cardinality(m.fail_to_fail) + Cardinality(m.pass_to_fail),
   resolution_status |-> ResolutionStatus(m, resolved, pexit)]
-----------------------------------------------------------------------------
(***************************************************************************)
(* The two runs.  The exit code comes from an execution of its own, so it   *)
(* need not agree with the report.                                          *)
(***************************************************************************)
NoMetrics == [resolved |-> FALSE]

Init ==
  /\ stage = "base"
  /\ baseOutput = <<>> /\ patchedOutput = <<>>
  /\ baseExit = 1 /\ patchedExit = 1
  /\ metrics = NoMetrics

PrintBase(line) ==
  /\ stage = "base" /\ Len(baseOutput) < MaxLines
  /\ baseOutput' = Append(baseOutput, line)
  /\ UNCHANGED <<stage, patchedOutput, baseExit, patchedExit, metrics>>

BaseEnds ==
  /\ stage = "base"
  /\ stage' = "patched"
  /\ \E code \in {0, 1} : baseExit' = code
  /\ UNCHANGED <<baseOutput, patchedOutput, patchedExit, metrics>>

PrintPatched(line) ==
  /\ stage = "patched" /\ Len(patchedOutput) < MaxLines
  /\ patchedOutput' = Append(patchedOutput, line)
  /\ UNCHANGED <<stage, baseOutput, baseExit, patchedExit, metrics>>

Score ==
  /\ stage = "patched"
  /\ stage' = "scored"
  /\ \E code \in {0, 1} : patchedExit' = code
  /\ metrics' = compute_metrics(parse_test_output(baseOutput),
                                parse_test_output(patchedOutput),
                                baseExit, patchedExit')
  /\ UNCHANGED <<baseOutput, patchedOutput, baseExit>>

Next ==
  \/ \E line \in Line : PrintBase(line) \/ PrintPatched(line)
  \/ BaseEnds \/ Score

Spec == Init /\ [][Next]_vars
-----------------------------------------------------------------------------
(***************************************************************************)
(* Properties.                                                              *)
(***************************************************************************)
\* In a report whose result lines all have a tail and whose summary repeats the
\* last result of each test, every test gets the status its last result line
\* shows: no verdict comes from a neighbour or from an earlier attempt.
ParseFaithful ==
  LET Plain(out) == \A i \in DOMAIN out :
        /\ out[i].kind = "result" => out[i].tail
        /\ out[i].kind = "summary" =>
             /\ ResultsOf(out, out[i].test) # {}
             /\ StatusOf[out[i].word] =
                  StatusOf[out[Max(ResultsOf(out, out[i].test))].word]
      Shown(out, t) == StatusOf[out[Max(ResultsOf(out, t))].word] IN
  \A out \in {baseOutput, patchedOutput} :
    Plain(out) =>
      \A t \in Tests : ResultsOf(out, t) # {} =>
        At(parse_test_output(out), t) = Shown(out, t)

\* What the code's rule means for the reports: a resolved patch left nothing
\* broken.  The patched command succeeded, no test that passed before is missing
\* or fails, no test that ran before or is new fails, something passes now, and
\* the pass rate is full.  That no test may go on failing is stricter than the
\* documented rule (ResolvedAsDocumented).
ResolvedIsClean ==
  stage = "scored" /\ metrics.resolved =>
    LET before == parse_test_output(baseOutput)
        after == parse_test_output(patchedOutput) IN
    /\ patchedExit = 0
    /\ \A t \in DOMAIN before :
         before[t] = "PASSED" => At(after, t) \in {"PASSED", "SKIPPED"}
    /\ \A t \in DOMAIN after :
         after[t] = "FAILED" => At(before, t) = "SKIPPED"
    /\ metrics.passed > 0 /\ metrics.passed = metrics.total_tests_evaluated

\* More passing tests never turn a resolved patch into an unresolved one.
MorePassesNeverHurt ==
  stage = "scored" /\ metrics.resolved =>
    LET before == parse_test_output(baseOutput)
        after == parse_test_output(patchedOutput) IN
    \A T \in SUBSET (Tests \cup DOMAIN after) :
      compute_metrics(before,
                      [t \in DOMAIN after \cup T |->
                         IF t \in T THEN "PASSED" ELSE after[t]],
                      baseExit, patchedExit).resolved

\* Every test in a list is in one list only, and a test is in no list only if
\* it was skipped in a run or failed in the baseline and disappeared.
OneListEach ==
  stage = "scored" =>
    LET before == parse_test_output(baseOutput)
        after == parse_test_output(patchedOutput)
        m == metrics.lists
        listed == UNION {m[l] : l \in DOMAIN m} IN
    /\ Cardinality(listed) = metrics.total_tests_evaluated
    /\ \A t \in (DOMAIN before \cup DOMAIN after) \ listed :
         \/ "SKIPPED" \in {At(before, t), At(after, t)}
         \/ At(before, t) = "FAILED" /\ At(after, t) = "absent"
-----------------------------------------------------------------------------
\* The rule of BENCHMARKS.md:54-55, repeated at scorer.py:166-169: a fixed test, no
\* regression and the exit code 0 make a patch resolved.
ResolvedAsDocumented ==
  LET m == metrics.lists IN
  stage = "scored" /\ m.fail_to_pass # {} /\ m.pass_to_fail = {} /\ patchedExit = 0
    => metrics.resolved

\* What the docstring of parse_test_output (scorer.py:40) promises: where each
\* test has one result line, and no summary line speaks of it, it gets the
\* status of that line.
ParsedAsPrinted ==
  \A out \in {baseOutput, patchedOutput} :
    (\A i \in DOMAIN out : out[i].kind # "summary") =>
      \A i \in DOMAIN out :
        out[i].kind = "result" /\ ResultsOf(out, out[i].test) = {i} =>
          At(parse_test_output(out), out[i].test) = StatusOf[out[i].word]
=============================================================================
