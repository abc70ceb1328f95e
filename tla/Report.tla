-------------------------------- MODULE Report --------------------------------
(***************************************************************************)
(* The report of a test run, tester/rt/report.py: one object that the      *)
(* threads of all tests start and end their test in, and that the main     *)
(* thread logs a finished test from.  Each of its operations holds the     *)
(* report's lock from beginning to end, so each is one step here.          *)
(*                                                                         *)
(* The output of a test is what the banners of end() tell apart: BEGIN and *)
(* END OF TEST, FATAL, TIMEOUT, TEST TOO LONG, TEST STATE and the header   *)
(* values VERSION, BUILD and TOOLS.                                        *)
(***************************************************************************)
EXTENDS Naturals, FiniteSets

CONSTANTS
  Names,          (* the names of the executables                            *)
  MinimumNames,   (* those in test_fail_excludes                             *)
  Values,         (* what a VERSION, BUILD or TOOLS banner may say           *)
  LogMode         (* --log-mode: "failures", "all" or "none"                 *)

VARIABLES
  results,        \* per name: "absent", "started" or the result of the test
  output,         \* per name: the output stored with the result
  config,         \* the header values of the first test that had them
  count,          \* the counters of the score card
  shown           \* names of the tests whose output was logged

report == <<results, output, config, count, shown>>

None == "none"
Attrs == {"version", "build", "tools"}

\* The results that are counted, fatal-error is counted as failed
Counters == {"passed", "failed", "user-input", "expected-fail", "indeterminate",
             "benchmark", "timeout", "test-too-long", "invalid",
             "wrong-version", "wrong-build", "wrong-tools", "wrong-header"}
Results == Counters \cup {"fatal-error"}

States == {None, "EXPECTED_PASS", "EXPECTED_FAIL", "USER_INPUT",
           "INDETERMINATE", "BENCHMARK", "UNKNOWN"}
Output == [begin : BOOLEAN, end : BOOLEAN, fatal : BOOLEAN, timeout : BOOLEAN,
           tooLong : BOOLEAN, state : States,
           header : [Attrs -> Values \cup {None}]]
NoOutput == [begin |-> FALSE, end |-> FALSE, fatal |-> FALSE, timeout |-> FALSE,
             tooLong |-> FALSE, state |-> None, header |-> [a \in Attrs |-> None]]

ASSUME ReportAssumption ==
  /\ MinimumNames \subseteq Names
  /\ None \notin Values
  /\ LogMode \in {"failures", "all", "none"}

-----------------------------------------------------------------------------
\* The states whose header values are not compared
Unchecked == {None, "BENCHMARK", "EXPECTED_FAIL", "INDETERMINATE", "USER_INPUT"}

Wrong(o) == {a \in Attrs : o.header[a] # None /\ config[a] # None
                             /\ o.header[a] # config[a]}

\* Mutant: the latest test with a header value is the reference
RecordedLatest(o) ==
  [a \in Attrs |-> IF o.header[a] # None /\ o.state \notin Unchecked
                     THEN o.header[a] ELSE config[a]]
Recorded(o) ==
  [a \in Attrs |-> IF config[a] = None /\ o.state \notin Unchecked
                     THEN o.header[a] ELSE config[a]]

\* The state of a test after the comparison: the last wrong value counts
Compared(o) ==
  IF o.state \in Unchecked \/ Wrong(o) = {} THEN o.state
  ELSE IF "tools" \in Wrong(o) THEN "WRONG_TOOLS"
  ELSE IF "build" \in Wrong(o) THEN "WRONG_BUILD"
  ELSE "WRONG_VERSION"

\* Mutant: END OF TEST is not needed for a test that passes
PlainHasty(n, o) == IF o.begin /\ ~o.fatal THEN "passed" ELSE "failed"
\* The result of a test that says nothing else than that it should pass
Plain(n, o) ==
  IF o.begin /\ o.end THEN "passed"
  ELSE IF o.fatal THEN "fatal-error"
  ELSE IF o.timeout THEN "timeout"
  ELSE IF o.tooLong THEN "test-too-long"
  ELSE IF o.begin THEN "failed"
  ELSE IF n \in MinimumNames THEN "passed"
  ELSE "invalid"

StatedResult ==
  [EXPECTED_FAIL |-> "expected-fail", USER_INPUT |-> "user-input",
   INDETERMINATE |-> "indeterminate", BENCHMARK |-> "benchmark",
   WRONG_VERSION |-> "wrong-version", WRONG_BUILD |-> "wrong-build",
   WRONG_TOOLS |-> "wrong-tools", UNKNOWN |-> "wrong-header"]

Result(n, o) ==
  LET state == Compared(o)
  IN IF state \in {None, "EXPECTED_PASS"} THEN Plain(n, o)
     ELSE IF state \in {"EXPECTED_FAIL", "INDETERMINATE"} /\ o.begin /\ o.end
       THEN "passed"
     ELSE StatedResult[state]

\* Mutant: a fatal error is not counted, there is no counter of that name
CounterForgets(r) == r
Counter(r) == IF r = "fatal-error" THEN "failed" ELSE r

-----------------------------------------------------------------------------
ReportInit ==
  /\ results = [n \in Names |-> "absent"]
  /\ output = [n \in Names |-> NoOutput]
  /\ config = [a \in Attrs |-> None]
  /\ count = [k \in Counters |-> 0]
  /\ shown = {}

\* start(): a name that is started already is an error of the caller
ReportStart(n) ==
  /\ results[n] = "absent"
  /\ results' = [results EXCEPT ![n] = "started"]
  /\ UNCHANGED <<output, config, count, shown>>

\* end()
ReportEnd(n, o) ==
  /\ results[n] = "started"
  /\ results' = [results EXCEPT ![n] = Result(n, o)]
  /\ output' = [output EXCEPT ![n] = o]
  /\ config' = Recorded(o)
  /\ count' = [count EXCEPT ![Counter(Result(n, o))] = @ + 1]
  /\ UNCHANGED shown

(* log() of a test that ended.  A failed test is shown in the failures     *)
(* mode if show_failed_output is set, which is the comparison of a string  *)
(* with True (config.py:80): it never is.                                  *)
ShowFailedOutput == FALSE
StatusFails == {"failed", "timeout", "test-too-long", "invalid", "wrong-version",
                "wrong-build", "wrong-tools", "wrong-header"}
ReportLog(n) ==
  /\ shown' = IF \/ LogMode = "all"
                 \/ /\ LogMode = "failures"
                    /\ results[n] \in StatusFails /\ ShowFailedOutput
                THEN shown \cup {n} ELSE shown
  /\ UNCHANGED <<results, output, config, count>>

-----------------------------------------------------------------------------
(* Types of the report.                                                    *)
ReportTypeOK ==
  /\ results \in [Names -> {"absent", "started"} \cup Results]
  /\ output \in [Names -> Output]
  /\ config \in [Attrs -> Values \cup {None}]
  /\ count \in [Counters -> Nat]
  /\ shown \subseteq Names

Ended == {n \in Names : results[n] \in Results}

(* The score card is the results, counted: a fatal error among the failed  *)
(* tests, every ended test in one counter only (end(), score_card()).      *)
CountersMatchResults ==
  \A k \in Counters :
    count[k] = Cardinality({n \in Ended :
                 \/ results[n] = k
                 \/ k = "failed" /\ results[n] = "fatal-error"})

(* No test that was cut off passes: its output has the banner of the begin *)
(* and of the end, or it is one that prints none (test_fail_excludes).     *)
PassedIsEarned ==
  \A n \in Names : results[n] = "passed" =>
    \/ output[n].begin /\ output[n].end
    \/ n \in MinimumNames /\ ~output[n].begin

(* Whatever the order in which parallel tests end, those with a compared   *)
(* state that are not reported as wrong were built from the same version,  *)
(* build and tools.                                                        *)
Compares(n, a) == /\ n \in Ended /\ output[n].state \notin Unchecked
                  /\ output[n].header[a] # None
                  /\ results[n] \notin {"wrong-version", "wrong-build",
                                        "wrong-tools"}
OneHeader ==
  \A m, n \in Names : \A a \in Attrs :
    Compares(m, a) /\ Compares(n, a) =>
      output[m].header[a] = output[n].header[a]

(* The score card of a run can be believed: it counts the results, the     *)
(* passed tests earned it, and what was compared is of one version.        *)
ScoreCard == CountersMatchResults /\ PassedIsEarned /\ OneHeader
=============================================================================
