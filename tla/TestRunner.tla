------------------------------ MODULE TestRunner ------------------------------
(***************************************************************************)
(* The parallel test runner, the main loop of tester/rt/test.py.  The main *)
(* thread creates at most Jobs test threads, collects those that are no    *)
(* longer alive and logs the finished tests in the order of their numbers. *)
(* A test thread runs one executable: it starts its test in the report,    *)
(* and ends it there with the output of the run, or it raises an error.    *)
(*                                                                         *)
(* The time a run takes is not modelled: its timeouts end it.              *)
(***************************************************************************)
EXTENDS Report

CONSTANTS
  Total,          (* the number of executables                               *)
  Jobs,           (* opts.jobs(): the threads that may run at a time         *)
  exeName,        (* the names of the executables 1 .. Total                 *)
  Outputs         (* the outputs a run may have                              *)

VARIABLES
  main,           \* where the main thread is
  exe,            \* how many test threads were created
  tests,          \* those that it has not seen dead yet
  finished,       \* those that are not logged yet
  reporting,      \* the number of the next test to log
  thread,         \* per test: "none", "new", "started", "ended" or "dead"
  raised          \* the tests whose thread ended with an error

vars == <<report, main, exe, tests, finished, reporting, thread, raised>>

Test == 1 .. Total

ASSUME RunnerAssumption ==
  /\ Total \in Nat \ {0} /\ Jobs \in Nat
  /\ exeName \in [Test -> Names]
  /\ Outputs \subseteq Output

\* The jobs of the loop: not more than there are executables
MaxJobs == IF Jobs > Total THEN Total ELSE Jobs

Over == {"done", "exit"}

-----------------------------------------------------------------------------
\* A test thread (test_run.runner); daemon threads end with the main thread
Start(i) ==
  /\ main \notin Over /\ thread[i] = "new"
  /\ ReportStart(exeName[i])
  /\ thread' = [thread EXCEPT ![i] = "started"]
  /\ UNCHANGED <<main, exe, tests, finished, reporting, raised>>

End(i) ==
  /\ main \notin Over /\ thread[i] = "started"
  /\ \E o \in Outputs : ReportEnd(exeName[i], o)
  /\ thread' = [thread EXCEPT ![i] = "ended"]
  /\ UNCHANGED <<main, exe, tests, finished, reporting, raised>>

Return(i) ==
  /\ main \notin Over /\ thread[i] = "ended"
  /\ thread' = [thread EXCEPT ![i] = "dead"]
  /\ UNCHANGED <<report, main, exe, tests, finished, reporting, raised>>

(* An error: no executable, a duplicate name, a command that cannot be     *)
(* run, before or after the test has a result in the report.               *)
Raise(i) ==
  /\ main \notin Over /\ thread[i] \in {"new", "started", "ended"}
  /\ thread' = [thread EXCEPT ![i] = "dead"]
  /\ raised' = raised \cup {i}
  /\ UNCHANGED <<report, main, exe, tests, finished, reporting>>

Thread(i) == Start(i) \/ End(i) \/ Return(i) \/ Raise(i)

-----------------------------------------------------------------------------
\* The main thread
\* Mutants: one test too many, and one too few
CanCreateMore == exe <= Total /\ Cardinality(tests) <= MaxJobs
CanCreateShort == exe < Total - 1 /\ Cardinality(tests) < MaxJobs
CanCreate == exe < Total /\ Cardinality(tests) < MaxJobs

Create ==
  /\ main = "loop" /\ CanCreate
  /\ exe' = exe + 1
  /\ tests' = tests \cup {exe + 1}
  /\ thread' = [thread EXCEPT ![exe + 1] = "new"]
  /\ UNCHANGED <<report, main, finished, reporting, raised>>

(* The dead threads are finished.  The first that raised an error raises   *)
(* it again in the main thread and ends the program.                       *)
Dead == {i \in tests : thread[i] = "dead"}
Collect ==
  /\ main = "loop" /\ ~CanCreate
  /\ exe < Total \/ tests # {}
  /\ tests' = tests \ Dead
  /\ \/ /\ Dead \cap raised = {}
        /\ finished' = finished \cup Dead
        /\ main' = IF finished' = {} THEN "loop" ELSE "report"
     \/ \E i \in Dead \cap raised :
          /\ \A j \in Dead \cap raised : i <= j
          /\ finished' = finished \cup {j \in Dead : j <= i}
          /\ main' = "exit"
  /\ UNCHANGED <<report, exe, reporting, thread, raised>>

\* Mutant: a finished test is logged whatever its number
ReportableAny == finished
Reportable == finished \cap {reporting}

\* Mutant: report_finished() does not look again after it logged a test
AfterLogOnce == IF main = "report" THEN "loop" ELSE "done"
AfterLog == main

\* One report of report_finished(), which goes on while there is a next one
LogTest ==
  /\ main \in {"report", "final"}
  /\ \E i \in Reportable :
       /\ ReportLog(exeName[i])
       /\ finished' = finished \ {i}
  /\ reporting' = reporting + 1
  /\ main' = AfterLog
  /\ UNCHANGED <<exe, tests, thread, raised>>

LogDone ==
  /\ main = "report" /\ Reportable = {}
  /\ main' = "loop"
  /\ UNCHANGED <<report, exe, tests, finished, reporting, thread, raised>>

LoopDone ==
  /\ main = "loop" /\ exe = Total /\ tests = {}
  /\ main' = "final"
  /\ UNCHANGED <<report, exe, tests, finished, reporting, thread, raised>>

(* The summary.  The tests left over if reporting < Total are not modelled *)
(* for there are none: AllLogged.                                          *)
Summary ==
  /\ main = "final" /\ Reportable = {}
  /\ main' = "done"
  /\ UNCHANGED <<report, exe, tests, finished, reporting, thread, raised>>

Main == Create \/ Collect \/ LogTest \/ LogDone \/ LoopDone \/ Summary

\* The user hits Ctrl-C: the processes of all tests are killed
Interrupt ==
  /\ main \notin Over
  /\ main' = "exit"
  /\ UNCHANGED <<report, exe, tests, finished, reporting, thread, raised>>

-----------------------------------------------------------------------------
Init ==
  /\ ReportInit
  /\ main = "loop" /\ exe = 0 /\ tests = {} /\ finished = {}
  /\ reporting = 1
  /\ thread = [i \in Test |-> "none"] /\ raised = {}

Next == Main \/ Interrupt \/ \E i \in Test : Thread(i)

(* The main thread goes on, and every run ends: it has a timeout.          *)
Spec == Init /\ [][Next]_vars /\ WF_vars(Main)
             /\ \A i \in Test : WF_vars(Thread(i))

-----------------------------------------------------------------------------
(* Types of the runner and of the report it shares with its threads.       *)
TypeOK ==
  /\ ReportTypeOK
  /\ main \in {"loop", "report", "final"} \cup Over
  /\ exe \in 0 .. Total
  /\ tests \subseteq Test /\ finished \subseteq Test /\ raised \subseteq Test
  /\ reporting \in 1 .. Total + 1
  /\ thread \in [Test -> {"none", "new", "started", "ended", "dead"}]

(* Not more threads than jobs use the target or the host's processors: a   *)
(* slot is free only when the thread in it is seen dead.                   *)
JobsBound ==
  /\ TypeOK
  /\ Cardinality({i \in Test : thread[i] \in {"new", "started", "ended"}})
       <= MaxJobs

(* Every test is somewhere: created tests run, wait to be logged, or were  *)
(* logged, and the loop never rests on a test that it could log.           *)
Placed ==
  main # "exit" =>
    /\ 1 .. exe = tests \cup finished \cup 1 .. reporting - 1
    /\ tests \cap finished = {}
    /\ (tests \cup finished) \cap 1 .. reporting - 1 = {}
    /\ \A i \in 1 .. exe : i \notin tests =>
         thread[i] = "dead" /\ i \notin raised
    /\ main # "report" => reporting \notin finished
    /\ main \in {"final", "done"} => exe = Total /\ tests = {}

(* A test that ended without an error has its result in the report, the    *)
(* one log() reads.                                                        *)
Reported ==
  \A i \in Test :
    /\ thread[i] = "started" => results[exeName[i]] = "started"
    /\ thread[i] = "ended" \/ (thread[i] = "dead" /\ i \notin raised) =>
         results[exeName[i]] \in Results

(* A run that gets to its summary has logged every test: the check for     *)
(* reporting < total finds nothing left over.                              *)
AllLogged == main = "done" => reporting = Total + 1 /\ finished = {}

(* The log of the run is in order and complete, and only of tests that     *)
(* have a result (report_finished()).                                      *)
Log == INSTANCE OrderedLog WITH
         ended <- {i \in Test : thread[i] \in {"ended", "dead"}
                                  /\ results[exeName[i]] \in Results},
         logged <- reporting - 1
LogsInOrder == Log!Spec

(* The runner ends, with a summary or an error.                            *)
EventuallyOver == <>(main \in Over)
=============================================================================
