-------------------------- MODULE TestRunner_proofs --------------------------
(***************************************************************************)
(* Proofs about the parallel test runner: for every number of tests and    *)
(* jobs, every order in which the tests end and whatever their output, the *)
(* runner implements the ordered log and leaves no test out.               *)
(***************************************************************************)
EXTENDS TestRunner, FiniteSetTheorems, TLAPS

(* A name is started by one thread at a time: start() refuses a second.    *)
StartedOnce ==
  \A i, j \in Test :
    thread[i] = "started" /\ thread[j] = "started" /\ exeName[i] = exeName[j]
      => i = j

(* The slots: the threads that are alive are in tests, at most MaxJobs.    *)
Alive == {i \in Test : thread[i] \in {"new", "started", "ended"}}
Slots ==
  /\ IsFiniteSet(tests) /\ Cardinality(tests) <= MaxJobs
  /\ Alive \subseteq tests
  /\ \A i \in Test : i > exe <=> thread[i] = "none"

IInv == TypeOK /\ StartedOnce /\ Slots /\ Placed /\ Reported

-----------------------------------------------------------------------------
\* What end() makes of an output is one of the results, and is counted.
LEMMA ResultType ==
  ASSUME NEW n \in Names, NEW o \in Output
  PROVE  Result(n, o) \in Results /\ Counter(Result(n, o)) \in Counters
<1>1. o.state \in States
  BY DEF Output
<1>2. Plain(n, o) \in Results
  BY DEF Plain, Results, Counters
<1>3. Compared(o) \in States \cup {"WRONG_VERSION", "WRONG_BUILD", "WRONG_TOOLS"}
  BY <1>1 DEF Compared
<1>4. Compared(o) \notin {None, "EXPECTED_PASS"} =>
        StatedResult[Compared(o)] \in Results
  BY <1>3 DEF States, StatedResult, Results, Counters
<1>5. "passed" \in Results
  BY DEF Results, Counters
<1>6. Result(n, o) \in Results
  BY <1>2, <1>4, <1>5 DEF Result
<1> QED BY <1>6 DEF Counter, Results, Counters

LEMMA ReportSteps ==
  ASSUME ReportTypeOK, NEW n \in Names
  PROVE  /\ ReportStart(n) => ReportTypeOK'
         /\ \A o \in Output : ReportEnd(n, o) => ReportTypeOK'
         /\ ReportLog(n) => ReportTypeOK'
<1>1. ReportStart(n) => ReportTypeOK'
  BY DEF ReportStart, ReportTypeOK
<1>2. ASSUME NEW o \in Output, ReportEnd(n, o) PROVE ReportTypeOK'
  <2>1. /\ Result(n, o) \in Results /\ Counter(Result(n, o)) \in Counters
    BY ResultType
  <2>2. results' \in [Names -> {"absent", "started"} \cup Results]
    BY <1>2, <2>1 DEF ReportEnd, ReportTypeOK
  <2>3. output' \in [Names -> Output]
    BY <1>2 DEF ReportEnd, ReportTypeOK
  <2>4. config' \in [Attrs -> Values \cup {None}]
    BY <1>2 DEF ReportEnd, ReportTypeOK, Recorded, Output
  <2>5. count' \in [Counters -> Nat]
    BY <1>2, <2>1 DEF ReportEnd, ReportTypeOK
  <2>6. shown' \subseteq Names
    BY <1>2 DEF ReportEnd, ReportTypeOK
  <2> QED BY <2>2, <2>3, <2>4, <2>5, <2>6 DEF ReportTypeOK
<1>3. ReportLog(n) => ReportTypeOK'
  BY DEF ReportLog, ReportTypeOK
<1> QED BY <1>1, <1>2, <1>3

\* The results of other names and those that are there already stay.
LEMMA ResultsStay ==
  ASSUME ReportTypeOK, NEW n \in Names, NEW o \in Output,
         ReportStart(n) \/ ReportEnd(n, o)
  PROVE  /\ \A m \in Names : m # n => results'[m] = results[m]
         /\ \A m \in Names : results[m] \in Results => results'[m] = results[m]
         /\ results[n] \in {"absent", "started"}
         /\ ReportStart(n) => results[n] = "absent" /\ results'[n] = "started"
         /\ ReportEnd(n, o) => results[n] = "started" /\ results'[n] \in Results
<1>1. Result(n, o) \in Results /\ "absent" \notin Results /\ "started" \notin Results
  BY ResultType DEF Results, Counters
<1> QED BY <1>1 DEF ReportStart, ReportEnd, ReportTypeOK

LEMMA NamesOfTests == ASSUME NEW i \in Test PROVE exeName[i] \in Names
  BY RunnerAssumption

-----------------------------------------------------------------------------
(* The threads of the tests.                                               *)
LEMMA StartInv == ASSUME IInv, NEW i \in Test, Start(i) PROVE IInv'
<1> DEFINE n == exeName[i]
<1>1. /\ n \in Names /\ ReportTypeOK /\ NoOutput.begin = FALSE
      /\ thread \in [Test -> {"none", "new", "started", "ended", "dead"}]
  BY NamesOfTests DEF IInv, TypeOK, NoOutput
<1>2. /\ ReportStart(n) /\ thread[i] = "new"
      /\ thread' = [thread EXCEPT ![i] = "started"]
      /\ UNCHANGED <<main, exe, tests, finished, reporting, raised>>
  BY DEF Start
<1>3. /\ \A m \in Names : m # n => results'[m] = results[m]
      /\ results[n] = "absent" /\ results'[n] = "started"
  BY <1>1, <1>2 DEF ReportStart, ReportTypeOK
<1>4. \A j \in Test : thread'[j] = IF j = i THEN "started" ELSE thread[j]
  BY <1>1, <1>2
<1> HIDE DEF n
<1>5. TypeOK'
  BY <1>1, <1>2, ReportSteps DEF IInv, TypeOK
<1>6. \A j \in Test : thread[j] = "started" => exeName[j] # n
  BY <1>3 DEF IInv, Reported
<1>7. StartedOnce'
  BY <1>4, <1>6 DEF IInv, StartedOnce, n
<1>8. Slots'
  BY <1>2, <1>4 DEF IInv, Slots, Alive
<1>9. Placed'
  BY <1>2, <1>4 DEF IInv, Placed, TypeOK, Test
<1>10. Reported'
  <2> SUFFICES ASSUME NEW j \in Test
               PROVE  /\ thread'[j] = "started" => results'[exeName[j]] = "started"
                      /\ thread'[j] = "ended" \/ (thread'[j] = "dead" /\ j \notin raised')
                           => results'[exeName[j]] \in Results
    BY DEF Reported
  <2>1. exeName[j] \in Names
    BY NamesOfTests
  <2>2. results[exeName[j]] \in Results => exeName[j] # n
    BY <1>3 DEF Results, Counters
  <2> QED BY <2>1, <2>2, <1>2, <1>3, <1>4, <1>6 DEF IInv, Reported, n
<1> QED BY <1>5, <1>7, <1>8, <1>9, <1>10 DEF IInv

LEMMA EndInv == ASSUME IInv, NEW i \in Test, End(i) PROVE IInv'
<1> DEFINE n == exeName[i]
<1>1. /\ n \in Names /\ ReportTypeOK
      /\ thread \in [Test -> {"none", "new", "started", "ended", "dead"}]
  BY NamesOfTests DEF IInv, TypeOK
<1>2. /\ thread[i] = "started" /\ thread' = [thread EXCEPT ![i] = "ended"]
      /\ UNCHANGED <<main, exe, tests, finished, reporting, raised>>
  BY DEF End
<1>3. PICK o \in Output : ReportEnd(n, o)
  BY RunnerAssumption DEF End
<1>4. /\ \A m \in Names : m # n => results'[m] = results[m]
      /\ results[n] = "started" /\ results'[n] \in Results
  BY <1>1, <1>3, ResultsStay
<1>5. \A j \in Test : thread'[j] = IF j = i THEN "ended" ELSE thread[j]
  BY <1>1, <1>2
<1> HIDE DEF n
<1>6. TypeOK'
  BY <1>1, <1>2, <1>3, ReportSteps DEF IInv, TypeOK
<1>7. StartedOnce'
  BY <1>5 DEF IInv, StartedOnce
<1>8. Slots'
  BY <1>2, <1>5 DEF IInv, Slots, Alive
<1>9. Placed'
  BY <1>2, <1>5 DEF IInv, Placed, TypeOK, Test
<1>10. Reported'
  <2> SUFFICES ASSUME NEW j \in Test
               PROVE  /\ thread'[j] = "started" => results'[exeName[j]] = "started"
                      /\ thread'[j] = "ended" \/ (thread'[j] = "dead" /\ j \notin raised')
                           => results'[exeName[j]] \in Results
    BY DEF Reported
  <2>1. exeName[j] \in Names
    BY NamesOfTests
  <2>2. thread'[j] = "started" => thread[j] = "started" /\ exeName[j] # n
    BY <1>2, <1>5 DEF IInv, StartedOnce, n
  <2> QED BY <2>1, <2>2, <1>2, <1>4, <1>5 DEF IInv, Reported, n
<1> QED BY <1>6, <1>7, <1>8, <1>9, <1>10 DEF IInv

LEMMA ReturnInv ==
  ASSUME IInv, NEW i \in Test, Return(i) \/ Raise(i) PROVE IInv'
<1>1. /\ thread[i] \in {"new", "started", "ended"}
      /\ thread' = [thread EXCEPT ![i] = "dead"]
      /\ (raised' = raised /\ thread[i] = "ended") \/ raised' = raised \cup {i}
      /\ UNCHANGED <<report, main, exe, tests, finished, reporting>>
  BY DEF Return, Raise
<1>2. \A j \in Test : thread'[j] = IF j = i THEN "dead" ELSE thread[j]
  BY <1>1 DEF IInv, TypeOK
<1>3. results' = results /\ UNCHANGED <<main, exe, tests, finished, reporting>>
  BY <1>1 DEF report
<1>4. TypeOK'
  BY <1>1 DEF IInv, TypeOK, ReportTypeOK, report
<1>5. StartedOnce'
  BY <1>2 DEF IInv, StartedOnce
<1>6. Slots'
  BY <1>1, <1>2, <1>3 DEF IInv, Slots, Alive
<1>7. Placed'
  <2>1. i \in tests
    BY <1>1 DEF IInv, Slots, Alive
  <2> QED BY <1>1, <1>2, <1>3, <2>1 DEF IInv, Placed, TypeOK, Test
<1>8. Reported'
  BY <1>1, <1>2, <1>3 DEF IInv, Reported
<1> QED BY <1>4, <1>5, <1>6, <1>7, <1>8 DEF IInv

-----------------------------------------------------------------------------
(* The main thread.                                                        *)
LEMMA CreateInv == ASSUME IInv, Create PROVE IInv'
<1>1. /\ exe \in Nat /\ Total \in Nat /\ exe < Total /\ exe + 1 \in Test
      /\ thread \in [Test -> {"none", "new", "started", "ended", "dead"}]
  BY RunnerAssumption DEF IInv, TypeOK, Create, CanCreate, Test
<1>2. /\ exe' = exe + 1 /\ tests' = tests \cup {exe + 1} /\ main = "loop"
      /\ thread' = [thread EXCEPT ![exe + 1] = "new"]
      /\ UNCHANGED <<report, main, finished, reporting, raised>>
  BY DEF Create
<1>3. \A j \in Test : thread'[j] = IF j = exe + 1 THEN "new" ELSE thread[j]
  BY <1>1, <1>2
<1>4. TypeOK'
  BY <1>1, <1>2 DEF IInv, TypeOK, ReportTypeOK, report
<1>5. StartedOnce'
  BY <1>3 DEF IInv, StartedOnce
<1>6. Slots'
  <2>1. IsFiniteSet(tests') /\ Cardinality(tests') <= MaxJobs
    <3>1. Cardinality(tests) \in Nat /\ MaxJobs \in Nat
      BY FS_CardinalityType, RunnerAssumption DEF IInv, Slots, MaxJobs
    <3>2. IsFiniteSet(tests) /\ Cardinality(tests) < MaxJobs
      BY DEF IInv, Slots, Create, CanCreate
    <3>3. /\ IsFiniteSet(tests \cup {exe + 1})
          /\ Cardinality(tests \cup {exe + 1}) \in
               {Cardinality(tests), Cardinality(tests) + 1}
      BY <3>2, FS_AddElement
    <3>4. MaxJobs' = MaxJobs
      BY DEF MaxJobs
    <3> QED BY <3>1, <3>2, <3>3, <3>4, <1>2
  <2>2. Alive' \subseteq tests'
    BY <1>2, <1>3 DEF IInv, Slots, Alive
  <2>3. \A i \in Test : i > exe' <=> thread'[i] = "none"
    BY <1>1, <1>2, <1>3 DEF IInv, Slots, Test
  <2> QED BY <2>1, <2>2, <2>3 DEF Slots
<1>7. Placed'
  <2>1. reporting \in Nat /\ 1 .. exe' = 1 .. exe \cup {exe + 1}
    BY <1>1, <1>2 DEF IInv, TypeOK
  <2>2. exe + 1 \notin finished \cup 1 .. reporting - 1
    BY <1>1, <1>2 DEF IInv, Placed
  <2> QED BY <1>1, <1>2, <1>3, <2>1, <2>2 DEF IInv, Placed, Test
<1>8. Reported'
  BY <1>2, <1>3 DEF IInv, Reported, report
<1> QED BY <1>4, <1>5, <1>6, <1>7, <1>8 DEF IInv

\* Steps that leave the threads and the results alone
LEMMA ThreadsAlone ==
  ASSUME IInv, UNCHANGED <<thread, raised, results, exe>>,
         tests' \subseteq tests, Alive \subseteq tests'
  PROVE  StartedOnce' /\ Slots' /\ Reported'
<1>1. StartedOnce' /\ Reported'
  BY DEF IInv, StartedOnce, Reported
<1>2. IsFiniteSet(tests') /\ Cardinality(tests') <= MaxJobs
  <2>1. IsFiniteSet(tests') /\ Cardinality(tests') <= Cardinality(tests)
    BY FS_Subset DEF IInv, Slots
  <2>2. /\ Cardinality(tests) \in Nat /\ Cardinality(tests') \in Nat
        /\ MaxJobs \in Nat
    BY <2>1, FS_CardinalityType, RunnerAssumption DEF IInv, Slots, MaxJobs
  <2> QED BY <2>1, <2>2 DEF IInv, Slots
<1> QED BY <1>1, <1>2 DEF IInv, Slots, Alive

LEMMA CollectInv == ASSUME IInv, Collect PROVE IInv'
<1>1. /\ tests' = tests \ Dead /\ UNCHANGED <<report, exe, reporting, thread, raised>>
      /\ main = "loop" /\ results' = results
      /\ tests \subseteq Test /\ finished \subseteq Test
  BY DEF Collect, report, IInv, TypeOK
<1>2. StartedOnce' /\ Slots' /\ Reported'
  <2>1. Alive \subseteq tests'
    BY <1>1 DEF IInv, Slots, Alive, Dead
  <2> QED BY <1>1, <2>1, ThreadsAlone
<1>3. CASE /\ Dead \cap raised = {} /\ finished' = finished \cup Dead
           /\ main' = IF finished' = {} THEN "loop" ELSE "report"
  <2>1. TypeOK'
    BY <1>1, <1>3 DEF IInv, TypeOK, ReportTypeOK, report, Dead
  <2>2. Placed'
    BY <1>1, <1>3 DEF IInv, Placed, Dead
  <2> QED BY <1>2, <2>1, <2>2 DEF IInv
<1>4. CASE /\ \E i \in Dead : finished' = finished \cup {j \in Dead : j <= i}
           /\ main' = "exit"
  <2>1. TypeOK'
    BY <1>1, <1>4 DEF IInv, TypeOK, ReportTypeOK, report, Dead, Over
  <2>2. Placed'
    BY <1>4 DEF Placed
  <2> QED BY <1>2, <2>1, <2>2 DEF IInv
<1> QED BY <1>3, <1>4 DEF Collect

LEMMA LogTestInv == ASSUME IInv, LogTest PROVE IInv'
<1>1. /\ reporting \in finished /\ finished' = finished \ {reporting}
      /\ reporting' = reporting + 1 /\ main' = main
      /\ main \in {"report", "final"}
      /\ UNCHANGED <<exe, tests, thread, raised>>
      /\ ReportLog(exeName[reporting])
  BY DEF LogTest, Reportable, AfterLog
<1>2. reporting \in Test /\ Total \in Nat /\ reporting \in Nat \ {0}
  BY <1>1, RunnerAssumption DEF IInv, TypeOK, Test
<1>3. ReportTypeOK' /\ results' = results
  BY <1>1, <1>2, NamesOfTests, ReportSteps DEF IInv, TypeOK, ReportLog
<1>4. TypeOK'
  BY <1>1, <1>2, <1>3 DEF IInv, TypeOK, Test
<1>5. StartedOnce' /\ Slots' /\ Reported'
  BY <1>1, <1>3, ThreadsAlone DEF IInv, Slots
<1>6. main = "report"
  BY <1>1 DEF IInv, Placed
<1>7. Placed'
  <2>1. 1 .. reporting' - 1 = 1 .. reporting - 1 \cup {reporting}
    BY <1>1, <1>2
  <2> DEFINE before == 1 .. reporting - 1
             upTo == 1 .. reporting' - 1
             all == 1 .. exe
  <2>2. /\ all = tests \cup finished \cup before
        /\ tests \cap finished = {}
        /\ (tests \cup finished) \cap before = {}
        /\ \A i \in all : i \notin tests => thread[i] = "dead" /\ i \notin raised
    BY <1>6 DEF IInv, Placed
  <2>3. upTo = before \cup {reporting}
    BY <2>1
  <2>4. all' = all
    BY <1>1
  <2> HIDE DEF before, upTo, all
  <2>5. /\ all = tests' \cup finished' \cup upTo
        /\ tests' \cap finished' = {}
        /\ (tests' \cup finished') \cap upTo = {}
        /\ \A i \in all : i \notin tests' => thread'[i] = "dead" /\ i \notin raised'
    BY <1>1, <2>2, <2>3
  <2> QED BY <1>1, <1>6, <2>4, <2>5 DEF Placed, all, upTo
<1> QED BY <1>4, <1>5, <1>7 DEF IInv

LEMMA OtherInv ==
  ASSUME IInv, LogDone \/ LoopDone \/ Summary \/ Interrupt PROVE IInv'
<1>1. /\ UNCHANGED <<report, exe, tests, finished, reporting, thread, raised>>
      /\ main' \in {"loop", "final"} \cup Over
  BY DEF LogDone, LoopDone, Summary, Interrupt, Over
<1>2. TypeOK'
  BY <1>1 DEF IInv, TypeOK, ReportTypeOK, report
<1>3. StartedOnce' /\ Slots' /\ Reported'
  BY <1>1, ThreadsAlone DEF IInv, Slots, report
<1>4. Placed'
  <2>1. CASE LogDone
    <3>1. reporting \notin finished
      BY <2>1 DEF LogDone, Reportable
    <3> QED BY <2>1, <3>1, <1>1 DEF IInv, Placed, LogDone
  <2>2. CASE LoopDone
    BY <2>2, <1>1 DEF IInv, Placed, LoopDone
  <2>3. CASE Summary
    BY <2>3, <1>1 DEF IInv, Placed, Summary
  <2>4. CASE Interrupt
    BY <2>4 DEF Placed, Interrupt
  <2> QED BY <2>1, <2>2, <2>3, <2>4
<1> QED BY <1>2, <1>3, <1>4 DEF IInv

LEMMA InitInv == Init => IInv
<1> SUFFICES ASSUME Init PROVE IInv
  OBVIOUS
<1>1. TypeOK
  <2>1. NoOutput \in Output
    BY DEF NoOutput, Output, States
  <2> QED BY <2>1, RunnerAssumption
          DEF Init, TypeOK, ReportInit, ReportTypeOK, Test
<1>2. StartedOnce /\ Reported /\ Placed
  BY DEF Init, StartedOnce, Reported, Placed
<1>3. Slots
  BY FS_EmptySet, RunnerAssumption DEF Init, Slots, Alive, MaxJobs, Test
<1> QED BY <1>1, <1>2, <1>3 DEF IInv

LEMMA StepInv == ASSUME IInv, [Next]_vars PROVE IInv'
<1>1. CASE Main
  BY <1>1, CreateInv, CollectInv, LogTestInv, OtherInv DEF Main
<1>2. CASE Interrupt
  BY <1>2, OtherInv
<1>3. CASE \E i \in Test : Thread(i)
  BY <1>3, StartInv, EndInv, ReturnInv DEF Thread
<1>4. CASE UNCHANGED vars
  <2>1. /\ UNCHANGED <<main, exe, tests, finished, reporting, thread, raised>>
        /\ UNCHANGED <<results, output, config, count, shown>>
    BY <1>4 DEF vars, report
  <2>2. TypeOK'
    BY <2>1 DEF IInv, TypeOK, ReportTypeOK
  <2>3. StartedOnce' /\ Slots' /\ Reported'
    BY <2>1, ThreadsAlone DEF IInv, Slots
  <2>4. Placed'
    BY <2>1 DEF IInv, Placed
  <2> QED BY <2>2, <2>3, <2>4 DEF IInv
<1> QED BY <1>1, <1>2, <1>3, <1>4 DEF Next

-----------------------------------------------------------------------------
\* The inductive invariant of the runner: every test has its place.
THEOREM Invariant == Spec => []IInv
<1> QED BY InitInv, StepInv, PTL DEF Spec

\* The variables of the runner and the report keep their types.
THEOREM TypeCorrect == Spec => []TypeOK
<1>1. IInv => TypeOK
  BY DEF IInv
<1> QED BY Invariant, <1>1, PTL

\* No more threads are alive than jobs are given.
THEOREM JobsAreBounded == Spec => []JobsBound
<1>1. IInv => JobsBound
  <2> SUFFICES ASSUME IInv PROVE JobsBound
    OBVIOUS
  <2>1. IsFiniteSet(Alive) /\ Cardinality(Alive) <= Cardinality(tests)
    BY FS_Subset DEF IInv, Slots
  <2>2. /\ Cardinality(tests) \in Nat /\ Cardinality(Alive) \in Nat
        /\ MaxJobs \in Nat /\ Cardinality(tests) <= MaxJobs
    BY <2>1, FS_CardinalityType, RunnerAssumption DEF IInv, Slots, MaxJobs
  <2>3. Cardinality(Alive) <= MaxJobs
    BY <2>1, <2>2
  <2> QED BY <2>3 DEF JobsBound, Alive, IInv
<1> QED BY Invariant, <1>1, PTL

\* A run that comes to its summary has logged all of its tests: what
\* test.py does for reporting < total is never needed.
THEOREM EveryTestLogged == Spec => []AllLogged
<1>1. IInv => AllLogged
  <2> SUFFICES ASSUME IInv, main = "done"
               PROVE  reporting = Total + 1 /\ finished = {}
    BY DEF AllLogged
  <2>1. /\ exe = Total /\ tests = {} /\ reporting \notin finished
        /\ 1 .. exe = tests \cup finished \cup 1 .. reporting - 1
        /\ (tests \cup finished) \cap 1 .. reporting - 1 = {}
    BY DEF IInv, Placed
  <2>2. reporting \in 1 .. Total + 1 /\ Total \in Nat
    BY RunnerAssumption DEF IInv, TypeOK
  <2>3. reporting \notin 1 .. Total
    BY <2>1, <2>2
  <2>4. reporting = Total + 1
    BY <2>2, <2>3
  <2> QED BY <2>1, <2>2, <2>4
<1> QED BY Invariant, <1>1, PTL

-----------------------------------------------------------------------------
(* The refinement.  A step of a thread can only add results, and a step of *)
(* the main thread logs the next test or stutters.                         *)
LogEnded == {i \in Test : thread[i] \in {"ended", "dead"}
                            /\ results[exeName[i]] \in Results}

LEMMA EndedGrows == ASSUME IInv, NEW i \in Test, Thread(i)
                    PROVE  LogEnded \subseteq LogEnded' /\ reporting' = reporting
<1>1. /\ exeName[i] \in Names /\ ReportTypeOK
      /\ thread \in [Test -> {"none", "new", "started", "ended", "dead"}]
  BY NamesOfTests DEF IInv, TypeOK
<1>2. CASE Start(i) \/ End(i)
  <2>1. PICK o \in Output : ReportStart(exeName[i]) \/ ReportEnd(exeName[i], o)
    <3>1. NoOutput \in Output
      BY DEF NoOutput, Output, States
    <3> QED BY <1>2, <3>1, RunnerAssumption DEF Start, End
  <2>2. \A m \in Names : results[m] \in Results => results'[m] = results[m]
    BY <1>1, <2>1, ResultsStay
  <2>3. /\ \A j \in Test : j # i => thread'[j] = thread[j]
        /\ thread[i] \in {"new", "started"} /\ reporting' = reporting
    BY <1>1, <1>2 DEF Start, End
  <2> QED BY <2>2, <2>3, NamesOfTests DEF LogEnded
<1>3. CASE Return(i) \/ Raise(i)
  <2>1. /\ thread' = [thread EXCEPT ![i] = "dead"]
        /\ results' = results /\ reporting' = reporting
    BY <1>3 DEF Return, Raise, report
  <2> QED BY <1>1, <2>1 DEF LogEnded
<1> QED BY <1>2, <1>3 DEF Thread

LEMMA LogStep == ASSUME IInv, [Next]_vars
                 PROVE  [Log!Next]_<<LogEnded, reporting - 1>>
<1>1. /\ LogEnded \subseteq Test /\ LogEnded' \subseteq Test
      /\ Total \in Nat /\ reporting \in Nat \ {0}
  BY RunnerAssumption DEF LogEnded, IInv, TypeOK
<1>2. CASE \E i \in Test : Thread(i)
  <2>1. LogEnded \subseteq LogEnded' /\ reporting' = reporting
    BY <1>2, EndedGrows
  <2>2. LogEnded' = LogEnded \cup LogEnded'
    BY <2>1
  <2>3. \E S \in SUBSET (1 .. Total) : Log!End(S)
    BY <1>1, <2>1, <2>2 DEF Log!End, Test, LogEnded
  <2> QED BY <2>3 DEF Log!Next
<1>3. CASE LogTest
  <2>1. /\ reporting \in finished /\ reporting' = reporting + 1
        /\ UNCHANGED <<thread, results>> /\ main \in {"report", "final"}
    BY <1>3 DEF LogTest, Reportable, ReportLog
  <2>2. /\ reporting \in Test /\ reporting \in 1 .. exe
        /\ reporting \notin tests
    BY <2>1 DEF IInv, Placed, TypeOK
  <2>3. thread[reporting] = "dead" /\ reporting \notin raised
    BY <2>1, <2>2 DEF IInv, Placed
  <2>4. reporting \in LogEnded
    BY <2>2, <2>3 DEF IInv, Reported, LogEnded
  <2>5. LogEnded' = LogEnded
    BY <2>1 DEF LogEnded
  <2>6. (reporting - 1) + 1 = reporting /\ reporting' - 1 = (reporting - 1) + 1
    BY <1>1, <2>1
  <2>7. Log!Log
    BY <2>4, <2>5, <2>6 DEF Log!Log, LogEnded
  <2> QED BY <2>7 DEF Log!Next
<1>4. CASE \/ Create \/ Collect \/ LogDone \/ LoopDone \/ Summary
           \/ Interrupt \/ UNCHANGED vars
  <2>1. UNCHANGED <<results, reporting>>
    BY <1>4 DEF Create, Collect, LogDone, LoopDone, Summary, Interrupt, vars, report
  <2>2. LogEnded' = LogEnded
    <3>1. CASE Create
      <4>1. exe + 1 \in Test /\ thread[exe + 1] = "none"
        BY <3>1, RunnerAssumption
           DEF IInv, TypeOK, Slots, Create, CanCreate, Test
      <4> QED BY <2>1, <3>1, <4>1 DEF Create, LogEnded, IInv, TypeOK
    <3>2. CASE ~Create
      BY <1>4, <2>1, <3>2 DEF Collect, LogDone, LoopDone, Summary, Interrupt,
                              vars, LogEnded
    <3> QED BY <3>1, <3>2
  <2> QED BY <2>1, <2>2
<1> QED BY <1>2, <1>3, <1>4 DEF Next, Main

\* The runner implements the ordered log: tests are logged one by one, in
\* the order of their numbers, and only when they have a result.
THEOREM RunnerImplementsLog == Spec => LogsInOrder
<1>1. Init => LogEnded = {} /\ reporting - 1 = 0
  BY DEF Init, LogEnded
<1>2. Init => Log!Init
  BY <1>1 DEF Log!Init, LogEnded
<1>3. IInv /\ [Next]_vars => [Log!Next]_<<LogEnded, reporting - 1>>
  BY LogStep
<1> QED BY <1>2, <1>3, Invariant, PTL DEF Spec, LogsInOrder, Log!Spec, LogEnded

-----------------------------------------------------------------------------
(* The score card.  The first test with a header value is the reference,   *)
(* and every test that was compared and is not reported as wrong has it.   *)
Reference ==
  \A n \in Names, a \in Attrs :
    Compares(n, a) => config[a] # None /\ output[n].header[a] = config[a]

Counted(k) == {n \in Ended : results[n] = k \/ (k = "failed" /\ results[n] = "fatal-error")}

CardInv ==
  /\ IsFiniteSet(Ended) /\ \A k \in Counters : count[k] = Cardinality(Counted(k))
  /\ PassedIsEarned /\ Reference

LEMMA NamesOfResults ==
  /\ "absent" \notin Results /\ "started" \notin Results
  /\ "passed" \in Results /\ "fatal-error" \in Results /\ "fatal-error" \notin Counters
  /\ "failed" \in Counters /\ Counters \subseteq Results
BY DEF Results, Counters

\* A test passes only with its banners, and with a wrong value it is wrong
LEMMA ResultEarned ==
  ASSUME NEW n \in Names, NEW o \in Output
  PROVE  /\ Result(n, o) = "passed" =>
              \/ o.begin /\ o.end
              \/ n \in MinimumNames /\ ~o.begin
         /\ o.state \notin Unchecked /\ Wrong(o) # {} =>
              Result(n, o) \in {"wrong-version", "wrong-build", "wrong-tools"}
<1>1. o.state \in States /\ o.begin \in BOOLEAN /\ o.end \in BOOLEAN
  BY DEF Output
<1>2. Compared(o) \in States \cup {"WRONG_VERSION", "WRONG_BUILD", "WRONG_TOOLS"}
  BY <1>1 DEF Compared
<1>3. Compared(o) \notin {None, "EXPECTED_PASS"} => StatedResult[Compared(o)] # "passed"
  BY <1>2 DEF States, StatedResult
<1>4. Plain(n, o) = "passed" => (o.begin /\ o.end) \/ (n \in MinimumNames /\ ~o.begin)
  BY <1>1 DEF Plain
<1>5. ASSUME Result(n, o) = "passed"
      PROVE  (o.begin /\ o.end) \/ (n \in MinimumNames /\ ~o.begin)
  BY <1>3, <1>4, <1>5 DEF Result
<1>6. ASSUME o.state \notin Unchecked, Wrong(o) # {}
      PROVE  Result(n, o) \in {"wrong-version", "wrong-build", "wrong-tools"}
  <2>1. Compared(o) \in {"WRONG_VERSION", "WRONG_BUILD", "WRONG_TOOLS"}
    BY <1>6 DEF Compared
  <2>2. StatedResult[Compared(o)] \in {"wrong-version", "wrong-build", "wrong-tools"}
    BY <2>1 DEF StatedResult
  <2>3. Result(n, o) = StatedResult[Compared(o)]
    BY <2>1 DEF Result, None
  <2> QED BY <2>2, <2>3
<1> QED BY <1>5, <1>6

LEMMA EndCard ==
  ASSUME ReportTypeOK, CardInv, NEW n \in Names, NEW o \in Output, ReportEnd(n, o)
  PROVE  CardInv'
<1> DEFINE r == Result(n, o)
<1>1. r \in Results /\ Counter(r) \in Counters
  BY ResultType
<1>2. /\ results[n] = "started" /\ results' = [results EXCEPT ![n] = r]
      /\ output' = [output EXCEPT ![n] = o] /\ config' = Recorded(o)
      /\ count' = [count EXCEPT ![Counter(r)] = count[Counter(r)] + 1]
  BY DEF ReportEnd
<1>3. /\ r = "passed" => (o.begin /\ o.end) \/ (n \in MinimumNames /\ ~o.begin)
      /\ o.state \notin Unchecked /\ Wrong(o) # {} =>
           r \in {"wrong-version", "wrong-build", "wrong-tools"}
  BY ResultEarned
<1>4. Counter(r) = IF r = "fatal-error" THEN "failed" ELSE r
  BY DEF Counter
<1> HIDE DEF r
<1>5. /\ results'[n] = r /\ output'[n] = o
      /\ \A m \in Names : m # n => results'[m] = results[m] /\ output'[m] = output[m]
      /\ \A k \in Counters : count'[k] = IF k = Counter(r) THEN count[k] + 1 ELSE count[k]
  BY <1>1, <1>2 DEF ReportTypeOK
<1>6. Ended' = Ended \cup {n} /\ n \notin Ended
  BY <1>1, <1>2, <1>5, NamesOfResults DEF Ended
<1>7. IsFiniteSet(Ended')
  BY <1>6, FS_AddElement DEF CardInv
<1>8. ASSUME NEW k \in Counters PROVE count'[k] = Cardinality(Counted(k)')
  <2>1. IsFiniteSet(Counted(k)) /\ n \notin Counted(k) /\ count[k] = Cardinality(Counted(k))
    <3>1. Counted(k) \subseteq Ended
      BY DEF Counted
    <3> QED BY <1>6, <3>1, FS_Subset DEF CardInv
  <2>2. CASE k = Counter(r)
    <3>1. Counted(k)' = Counted(k) \cup {n}
      BY <1>4, <1>5, <1>6, <2>2 DEF Counted, Ended
    <3>2. Cardinality(Counted(k) \cup {n}) = Cardinality(Counted(k)) + 1
      BY <2>1, FS_AddElement
    <3> QED BY <1>5, <2>1, <2>2, <3>1, <3>2
  <2>3. CASE k # Counter(r)
    <3>1. ~(r = k \/ (k = "failed" /\ r = "fatal-error"))
      BY <1>4, <2>3, NamesOfResults
    <3>2. Counted(k)' = Counted(k)
      BY <1>5, <1>6, <3>1 DEF Counted, Ended
    <3> QED BY <1>5, <2>1, <2>3, <3>2
  <2> QED BY <2>2, <2>3
<1>9. PassedIsEarned'
  BY <1>3, <1>5 DEF CardInv, PassedIsEarned
<1>10. Reference'
  <2> SUFFICES ASSUME NEW m \in Names, NEW a \in Attrs, Compares(m, a)'
               PROVE  config'[a] # None /\ output'[m].header[a] = config'[a]
    BY DEF Reference
  <2>1. config'[a] = IF config[a] = None /\ o.state \notin Unchecked
                       THEN o.header[a] ELSE config[a]
    BY <1>2 DEF Recorded
  <2>2. CASE m = n
    <3>1. o.state \notin Unchecked /\ o.header[a] # None /\ Wrong(o) = {}
      BY <1>3, <1>5, <2>2 DEF Compares
    <3> QED BY <1>5, <2>1, <2>2, <3>1 DEF Wrong
  <2>3. CASE m # n
    <3>1. Compares(m, a)
      BY <1>5, <2>3 DEF Compares, Ended
    <3> QED BY <1>5, <2>1, <2>3, <3>1 DEF CardInv, Reference
  <2> QED BY <2>2, <2>3
<1> QED BY <1>7, <1>8, <1>9, <1>10 DEF CardInv

\* The other steps give no test a result
LEMMA SameCard ==
  ASSUME CardInv, UNCHANGED <<output, config, count>>, Ended' = Ended,
         \A m \in Names : m \in Ended => results'[m] = results[m]
  PROVE  CardInv'
<1>1. \A k \in Counters : Counted(k)' = Counted(k)
  BY DEF Counted, Ended
<1>2. \A m \in Names : results'[m] = "passed" => m \in Ended
  BY NamesOfResults DEF Ended
<1>3. PassedIsEarned'
  BY <1>2 DEF CardInv, PassedIsEarned
<1>4. Reference'
  BY DEF CardInv, Reference, Compares, Ended
<1> QED BY <1>1, <1>3, <1>4 DEF CardInv

LEMMA CardStep == ASSUME IInv, CardInv, [Next]_vars PROVE CardInv'
<1>1. CASE \E i \in Test : Start(i)
  <2>1. PICK i \in Test : ReportStart(exeName[i])
    BY <1>1 DEF Start
  <2>2. exeName[i] \in Names /\ ReportTypeOK
    BY NamesOfTests DEF IInv, TypeOK
  <2>3. /\ UNCHANGED <<output, config, count>>
        /\ \A m \in Names : results'[m] = IF m = exeName[i] THEN "started" ELSE results[m]
        /\ results[exeName[i]] = "absent"
    BY <2>1, <2>2 DEF ReportStart, ReportTypeOK
  <2>4. Ended' = Ended /\ \A m \in Names : m \in Ended => results'[m] = results[m]
    BY <2>3, NamesOfResults DEF Ended
  <2> QED BY <2>3, <2>4, SameCard
<1>2. CASE \E i \in Test : End(i)
  BY <1>2, EndCard, NamesOfTests, RunnerAssumption DEF End, IInv, TypeOK
<1>3. CASE ~\E i \in Test : Start(i) \/ End(i)
  <2>1. UNCHANGED <<results, output, config, count>>
    BY <1>3 DEF Next, Main, Create, Collect, LogTest, LogDone, LoopDone, Summary,
                Interrupt, Thread, Return, Raise, ReportLog, vars, report
  <2>2. Ended' = Ended
    BY <2>1 DEF Ended
  <2> QED BY <2>1, <2>2, SameCard
<1> QED BY <1>1, <1>2, <1>3

(* The score card counts the results, no test passes that was cut off, and *)
(* what was compared is of one version, build and tools, for every number  *)
(* of tests, whatever they print and in whatever order they end.           *)
THEOREM ScoreCardIsTrue == Spec => []ScoreCard
<1>1. Init => CardInv
  <2> SUFFICES ASSUME Init PROVE CardInv
    OBVIOUS
  <2>1. \A n \in Names : results[n] = "absent"
    BY DEF Init, ReportInit
  <2>2. Ended = {}
    BY <2>1, NamesOfResults DEF Ended
  <2>3. \A k \in Counters : Counted(k) = {} /\ count[k] = 0
    BY <2>2 DEF Counted, Init, ReportInit
  <2>4. IsFiniteSet({}) /\ Cardinality({}) = 0
    BY FS_EmptySet
  <2>5. PassedIsEarned /\ Reference
    BY <2>1, <2>2 DEF PassedIsEarned, Reference, Compares
  <2> QED BY <2>2, <2>3, <2>4, <2>5 DEF CardInv
<1>2. IInv /\ CardInv /\ [Next]_vars => CardInv'
  BY CardStep
<1>3. CardInv => ScoreCard
  <2> SUFFICES ASSUME CardInv PROVE ScoreCard
    OBVIOUS
  <2>1. CountersMatchResults
    BY DEF CardInv, CountersMatchResults, Counted
  <2>2. OneHeader
    BY DEF CardInv, OneHeader, Reference
  <2> QED BY <2>1, <2>2 DEF CardInv, ScoreCard
<1> QED BY <1>1, <1>2, <1>3, Invariant, PTL DEF Spec
===============================================================================
