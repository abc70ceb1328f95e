---------------------------- MODULE TesterExe_proofs ----------------------------
(***************************************************************************)
(* Proofs about the %execute runner: for every time-out, every simulator,  *)
(* whatever it prints and however its threads and a Ctrl-C interleave, a   *)
(* test is reported with its output, whole unless some was given up, a     *)
(* killed simulator is dead, and a time-out was waited for.                *)
(***************************************************************************)
EXTENDS TesterExe, SequenceTheorems, TLAPS

(* Where the execute thread is says whether there is a simulator, and a    *)
(* reader of its output: exe.process.open() joins the reader, or gives up. *)
Threads ==
  /\ test = "off" <=> exec = "off"
  /\ test = "off" => ~process /\ ~stopped
  /\ handle <=> exec = "wait"
  /\ raised => exec = "dead"
  /\ child = "running" => exec \in {"spawned", "wait"}
  /\ exec \in {"off", "start", "spawn", "dead"} => child = "no"
  /\ child = "no" <=> reader = "off"
  /\ reader = "ended" => child # "running" \/ cut
  /\ exec \in {"finish", "done"} => reader \in {"off", "ended"} \/ cut

(* The runner gives up its process only when the execute thread is done or *)
(* it was killed; after that there is no simulator, and none is started,   *)
(* unless the kill came while it was being started.                        *)
Ending ==
  /\ test \in {"late", "after"} => ~process
  /\ test = "late" => stopped
  /\ test = "over" => ~process \/ raised
  /\ test # "off" /\ ~process => stopped \/ exec = "done"
  /\ test # "off" /\ ~process /\ ~missed =>
       child # "running" /\ exec \notin {"spawn", "spawned"}

(* What was captured is what was printed and read, line by line.           *)
Captured == IF reader = "line" THEN read - 1 ELSE read
Copying ==
  /\ child = "no" => written = <<>> /\ read = 0
  /\ reader = "ended" => read = Len(written) \/ cut
  /\ reader = "line" => read > 0 /\ written[read] # Garbled
  /\ ~stopped /\ test \notin {"off", "over"} =>
       /\ output \in Seq(Lines) /\ Len(output) = Captured
       /\ \A i \in 1 .. Captured : output[i] = written[i]
  /\ test = "over" /\ ~stopped /\ ~raised =>
       /\ reported \in Seq(Lines) /\ Len(reported) <= Len(written)
       /\ \A i \in 1 .. Len(reported) : reported[i] = written[i]
       /\ ~cut => Len(reported) = Len(written)

(* The time-outs count down what the history counts up; the monitor knows  *)
(* of the silence up to its last look only.                                *)
Clock ==
  /\ test = "off" => quiet = 0 /\ age = 0 /\ ~fresh
  /\ test # "off" => seconds + age = Steps(TestPeriod)
  /\ test = "sleep" => age > 0
  /\ test \in {"loop", "sleep"} =>
       IF age = 0 THEN period = Steps(Timeout) /\ quiet = 0
       ELSE /\ period + looked + 1 = Steps(Timeout)
            /\ quiet = IF fresh THEN 0
                       ELSE IF test = "sleep" THEN looked ELSE looked + 1
  /\ test = "late" => late.what \in {"TIMEOUT", "TEST_TOO_LONG"}
  /\ LateIsEarned

IInv == TypeOK /\ Threads /\ Ending /\ Copying /\ Clock

-----------------------------------------------------------------------------
LEMMA StepsType ==
  /\ Steps(Timeout) \in Nat \ {0} /\ Steps(TestPeriod) \in Nat \ {0}
  /\ Steps(Timeout) >= Timeout * StepsPerSecond
  /\ Steps(TestPeriod) >= TestPeriod * StepsPerSecond
<1>1. ASSUME NEW a \in Nat \ {0}, NEW b \in Nat \ {0}
      PROVE  a * b \in Nat \ {0} /\ a * b >= a
  BY <1>1
<1>2. ASSUME NEW time \in Nat \ {0}
      PROVE  Steps(time) \in Nat \ {0} /\ Steps(time) >= time * StepsPerSecond
  BY <1>1, <1>2, ExeAssumption DEF Steps
<1> QED BY <1>2, ExeAssumption

\* A line more is captured, unless the test does not run
LEMMA CaptureLines ==
  ASSUME NEW line \in Lines, Capture(line), restarts \in Nat, started \in BOOLEAN,
         output = NoOutput \/ output \in Seq(Lines)
  PROVE  /\ started' \in BOOLEAN /\ restarts' \in Nat
         /\ output' = NoOutput \/ output' \in Seq(Lines)
         /\ output \in Seq(Lines) =>
              /\ output' \in Seq(Lines) /\ Len(output') = Len(output) + 1
              /\ \A i \in 1 .. Len(output) : output'[i] = output[i]
              /\ output'[Len(output) + 1] = line
<1>1. NoOutput \notin Seq(Lines)
  <2> SUFFICES ASSUME NoOutput \in Seq(Lines) PROVE FALSE
    OBVIOUS
  <2>1. NoOutput[1] \in Lines
    BY DEF NoOutput
  <2> QED BY <2>1 DEF NoOutput, Lines
<1>2. started' \in BOOLEAN /\ restarts' \in Nat
  BY DEF Capture, Started
<1>3. output \in Seq(Lines) => output' = Append(output, line)
  BY <1>1 DEF Capture
<1>4. output = NoOutput => output' = NoOutput
  BY DEF Capture
<1> QED BY <1>2, <1>3, <1>4, AppendProperties

-----------------------------------------------------------------------------
(* The test thread.                                                        *)
LEMMA OpenInv == ASSUME IInv, Open PROVE IInv'
<1> USE DEF IInv, TypeOK, Open
<1>1. TypeOK'
  BY StepsType
<1>2. Threads' /\ Ending'
  BY DEF Threads, Ending
<1>3. Copying'
  BY DEF Copying, Captured, Threads
<1>4. Clock'
  BY StepsType DEF Clock, LateIsEarned, monitor
<1> QED BY <1>1, <1>2, <1>3, <1>4

LEMMA MonitorInv == ASSUME IInv, Poll \/ Wake \/ Raise PROVE IInv'
<1> USE DEF IInv, TypeOK, monitor, execute, capture
<1>1. CASE Poll
  <2>0. period' \in 0 .. Steps(Timeout) /\ seconds' \in 0 .. Steps(TestPeriod)
    BY StepsType, <1>1 DEF Poll, Looping, Renewed
  <2>b. fresh' \in BOOLEAN
    BY <1>1 DEF Poll
  <2>1. TypeOK'
    BY <1>1, <2>0, <2>b DEF Poll
  <2>2. Threads' /\ Ending'
    BY <1>1 DEF Poll, Looping, Renewed, Threads, Ending
  <2>3. Copying'
    BY <1>1 DEF Poll, Looping, Renewed, Copying, Captured, Threads, Ending
  <2>4. Clock'
    <3>1. /\ period \in Nat /\ quiet \in Nat /\ looked \in Nat /\ age \in Nat
          /\ Steps(Timeout) \in Nat /\ seconds \in Nat
      BY StepsType
    <3>2. /\ period' = Renewed - 1 /\ looked' = quiet /\ quiet' = quiet
          /\ age' = age + 1 /\ test' = "sleep" /\ ~fresh'
          /\ test = "loop"
      BY <1>1 DEF Poll
    <3>3. Renewed = IF fresh THEN Steps(Timeout) ELSE period
      BY DEF Renewed
    <3>4. /\ period' + looked' + 1 = Steps(Timeout)
          /\ age' > 0 /\ quiet' = looked'
      BY <3>1, <3>2, <3>3 DEF Clock
    <3>5. seconds' + age' = Steps(TestPeriod)
      BY <1>1, StepsType, <3>1 DEF Poll, Clock
    <3>6. LateIsEarned'
      BY <1>1 DEF Poll, Clock, LateIsEarned
    <3> QED BY <3>2, <3>4, <3>5, <3>6 DEF Clock
  <2> QED BY <2>1, <2>2, <2>3, <2>4
<1>2. CASE Wake
  <2>1. TypeOK'
    BY <1>2 DEF Wake
  <2>2. Threads' /\ Ending'
    BY <1>2 DEF Wake, Threads, Ending
  <2>3. Copying'
    BY <1>2 DEF Wake, Copying, Captured, Threads, Ending
  <2>4. Clock'
    BY StepsType, <1>2 DEF Wake, Clock, LateIsEarned
  <2> QED BY <2>1, <2>2, <2>3, <2>4
<1>3. CASE Raise
  <2>1. TypeOK'
    BY <1>3 DEF Raise, Looping
  <2>2. Threads' /\ Ending'
    BY <1>3 DEF Raise, Looping, Threads, Ending
  <2>3. Copying'
    BY <1>3 DEF Raise, Looping, Copying, Captured, Threads, Ending
  <2>4. Clock'
    BY StepsType, <1>3 DEF Raise, Looping, Clock, LateIsEarned
  <2> QED BY <2>1, <2>2, <2>3, <2>4
<1> QED BY <1>1, <1>2, <1>3

LEMMA KillInv == ASSUME IInv, TimeOut \/ OkKill \/ Interrupt PROVE IInv'
<1> USE DEF IInv, TypeOK, monitor, execute, capture
<1>1. CASE TimeOut
  <2>b. /\ process' \in BOOLEAN /\ stopped' \in BOOLEAN /\ missed' \in BOOLEAN
        /\ child' \in {"no", "running", "exited", "killed"}
    BY <1>1 DEF TimeOut, Kill
  <2>1. TypeOK'
    BY <1>1, <2>b DEF TimeOut
  <2>2. Threads' /\ Ending'
    BY <1>1 DEF TimeOut, Kill, Threads, Ending
  <2>3. Copying'
    BY <1>1 DEF TimeOut, Kill, Copying, Captured, Threads, Ending
  <2>4. Clock'
    BY StepsType, <1>1 DEF TimeOut, Kill, Clock, LateIsEarned
  <2> QED BY <2>1, <2>2, <2>3, <2>4
<1>2. CASE OkKill
  <2>b. /\ process' \in BOOLEAN /\ stopped' \in BOOLEAN /\ missed' \in BOOLEAN
        /\ child' \in {"no", "running", "exited", "killed"}
    <3>1. CASE test = "over"
      BY <1>2, <3>1 DEF OkKill
    <3>2. CASE test # "over" /\ Kill
      BY <3>2 DEF Kill
    <3> QED BY <1>2, <3>1, <3>2 DEF OkKill
  <2>1. TypeOK'
    BY <1>2, <2>b DEF OkKill
  <2>2. Threads' /\ Ending'
    BY <1>2 DEF OkKill, Kill, LockFree, Threads, Ending
  <2>3. Copying'
    BY <1>2 DEF OkKill, Kill, LockFree, Copying, Captured, Threads, Ending
  <2>4. Clock'
    BY StepsType, <1>2 DEF OkKill, Kill, LockFree, Clock, LateIsEarned
  <2> QED BY <2>1, <2>2, <2>3, <2>4
<1>3. CASE Interrupt
  <2>b. /\ process' \in BOOLEAN /\ stopped' \in BOOLEAN /\ missed' \in BOOLEAN
        /\ child' \in {"no", "running", "exited", "killed"}
    BY <1>3 DEF Interrupt, Kill
  <2>1. TypeOK'
    BY <1>3, <2>b DEF Interrupt, LockFree
  <2>2. Threads' /\ Ending'
    BY <1>3 DEF Interrupt, Kill, LockFree, Threads, Ending
  <2>3. Copying'
    BY <1>3 DEF Interrupt, Kill, LockFree, Copying, Captured, Threads, Ending
  <2>4. Clock'
    BY StepsType, <1>3 DEF Interrupt, Kill, LockFree, Clock, LateIsEarned
  <2> QED BY <2>1, <2>2, <2>3, <2>4
<1> QED BY <1>1, <1>2, <1>3

LEMMA LateInv == ASSUME IInv, TellLate \/ Return \/ End PROVE IInv'
<1> USE DEF IInv, TypeOK, monitor, execute, capture
<1>1. CASE TellLate
  <2>0. late.what \in Lines /\ Capture(late.what)
    BY <1>1 DEF TellLate, Clock, Lines
  <2>1. TypeOK'
    BY <1>1, <2>0, CaptureLines DEF TellLate
  <2>2. Threads' /\ Ending'
    BY <1>1 DEF TellLate, Threads, Ending
  <2>3. Copying'
    BY <1>1, <2>0 DEF TellLate, Copying, Captured, Threads, Ending
  <2>4. Clock'
    BY StepsType, <1>1 DEF TellLate, Clock, LateIsEarned
  <2> QED BY <2>1, <2>2, <2>3, <2>4
<1>2. CASE Return
  <2>1. TypeOK'
    BY <1>2 DEF Return
  <2>2. Threads' /\ Ending'
    BY <1>2 DEF Return, Threads, Ending
  <2>3. Copying'
    BY <1>2 DEF Return, Copying, Captured, Threads, Ending
  <2>4. Clock'
    BY StepsType, <1>2 DEF Return, Clock, LateIsEarned
  <2> QED BY <2>1, <2>2, <2>3, <2>4
<1>3. CASE End
  <2>1. TypeOK'
    BY <1>3 DEF End
  <2>2. Threads' /\ Ending'
    BY <1>3 DEF End, Threads, Ending
  <2>3. Copying'
    BY <1>3 DEF End, Copying, Captured, Threads, Ending
  <2>4. Clock'
    BY StepsType, <1>3 DEF End, Clock, LateIsEarned
  <2> QED BY <2>1, <2>2, <2>3, <2>4
<1> QED BY <1>1, <1>2, <1>3

-----------------------------------------------------------------------------
(* The execute thread.                                                     *)
LEMMA ExecInv == ASSUME IInv, Spawn \/ Spawned \/ SetHandle \/ Waited \/ Join \/ Finish PROVE IInv'
<1> USE DEF IInv, TypeOK, monitor, execute, capture
<1>1. CASE Spawn
  <2>1. TypeOK'
    BY <1>1 DEF Spawn
  <2>2. Threads' /\ Ending'
    BY <1>1 DEF Spawn, Threads, Ending
  <2>3. Copying'
    BY <1>1 DEF Spawn, Copying, Captured, Threads, Ending
  <2>4. Clock'
    BY StepsType, <1>1 DEF Spawn, Clock, LateIsEarned
  <2> QED BY <2>1, <2>2, <2>3, <2>4
<1>2. CASE Spawned
  <2>b. raised' \in BOOLEAN
    BY <1>2 DEF Spawned
  <2>1. TypeOK'
    BY <1>2, <2>b DEF Spawned
  <2>2. Threads' /\ Ending'
    BY <1>2 DEF Spawned, Threads, Ending
  <2>3. Copying'
    BY <1>2 DEF Spawned, Copying, Captured, Threads, Ending
  <2>4. Clock'
    BY StepsType, <1>2 DEF Spawned, Clock, LateIsEarned
  <2> QED BY <2>1, <2>2, <2>3, <2>4
<1>3. CASE SetHandle
  <2>1. TypeOK'
    BY <1>3 DEF SetHandle
  <2>2. Threads' /\ Ending'
    BY <1>3 DEF SetHandle, Threads, Ending
  <2>3. Copying'
    BY <1>3 DEF SetHandle, Copying, Captured, Threads, Ending
  <2>4. Clock'
    BY StepsType, <1>3 DEF SetHandle, Clock, LateIsEarned
  <2> QED BY <2>1, <2>2, <2>3, <2>4
<1>4. CASE Waited
  <2>b. handle' \in BOOLEAN
    BY <1>4 DEF Waited, AfterWait
  <2>1. TypeOK'
    BY <1>4, <2>b DEF Waited, AfterWait
  <2>2. Threads' /\ Ending'
    BY <1>4 DEF Waited, AfterWait, Threads, Ending
  <2>3. Copying'
    BY <1>4 DEF Waited, AfterWait, Copying, Captured, Threads, Ending
  <2>4. Clock'
    BY StepsType, <1>4 DEF Waited, AfterWait, Clock, LateIsEarned
  <2> QED BY <2>1, <2>2, <2>3, <2>4
<1>5. CASE Join
  <2>1. TypeOK'
    BY <1>5 DEF Join
  <2>2. Threads' /\ Ending'
    BY <1>5 DEF Join, Threads, Ending
  <2>3. Copying'
    BY <1>5 DEF Join, Copying, Captured, Threads, Ending
  <2>4. Clock'
    BY StepsType, <1>5 DEF Join, Clock, LateIsEarned
  <2> QED BY <2>1, <2>2, <2>3, <2>4
<1>6. CASE Finish
  <2>b. process' \in BOOLEAN
    BY <1>6 DEF Finish
  <2>1. TypeOK'
    BY <1>6, <2>b DEF Finish
  <2>2. Threads' /\ Ending'
    BY <1>6 DEF Finish, LockFree, Threads, Ending
  <2>3. Copying'
    BY <1>6 DEF Finish, LockFree, Copying, Captured, Threads, Ending
  <2>4. Clock'
    BY StepsType, <1>6 DEF Finish, LockFree, Clock, LateIsEarned
  <2> QED BY <2>1, <2>2, <2>3, <2>4
<1> QED BY <1>1, <1>2, <1>3, <1>4, <1>5, <1>6

-----------------------------------------------------------------------------
(* The simulator and the reader of its output.                             *)
LEMMA ReaderInv == ASSUME IInv, WriteLine \/ Exit \/ TakeLine \/ CaptureLine \/ EndOfFile \/ BreakOff PROVE IInv'
<1> USE DEF IInv, TypeOK, monitor, execute, capture
<1>6. CASE BreakOff
  <2>1. TypeOK'
    BY <1>6 DEF BreakOff
  <2>2. Threads' /\ Ending'
    BY <1>6 DEF BreakOff, Threads, Ending
  <2>3. Copying'
    BY <1>6 DEF BreakOff, Copying, Captured, Threads, Ending
  <2>4. Clock'
    BY StepsType, <1>6 DEF BreakOff, Clock, LateIsEarned
  <2> QED BY <2>1, <2>2, <2>3, <2>4
<1>1. CASE WriteLine
  <2>1. TypeOK'
    BY <1>1 DEF WriteLine
  <2>2. Threads' /\ Ending'
    BY <1>1 DEF WriteLine, Threads, Ending
  <2>3. Copying'
    BY <1>1 DEF WriteLine, Copying, Captured, Threads, Ending
  <2>4. Clock'
    BY StepsType, <1>1 DEF WriteLine, Clock, LateIsEarned
  <2> QED BY <2>1, <2>2, <2>3, <2>4
<1>2. CASE Exit
  <2>1. TypeOK'
    BY <1>2 DEF Exit
  <2>2. Threads' /\ Ending'
    BY <1>2 DEF Exit, Threads, Ending
  <2>3. Copying'
    BY <1>2 DEF Exit, Copying, Captured, Threads, Ending
  <2>4. Clock'
    BY StepsType, <1>2 DEF Exit, Clock, LateIsEarned
  <2> QED BY <2>1, <2>2, <2>3, <2>4
<1>3. CASE TakeLine
  <2>1. TypeOK'
    BY <1>3 DEF TakeLine, LockFree
  <2>2. Threads' /\ Ending'
    BY <1>3 DEF TakeLine, LockFree, Threads, Ending
  <2>3. Copying'
    BY <1>3 DEF TakeLine, LockFree, Copying, Captured, Threads, Ending
  <2>4. Clock'
    BY StepsType, <1>3 DEF TakeLine, LockFree, Clock, LateIsEarned, Threads
  <2> QED BY <2>1, <2>2, <2>3, <2>4
<1>4. CASE CaptureLine
  <2>0. /\ written[read] \in Lines /\ Capture(written[read])
        /\ reader' \in {"kill", "idle"} /\ read \in 1 .. Len(written)
    BY <1>4, ExeAssumption DEF CaptureLine, Copying
  <2>1. TypeOK'
    BY <1>4, <2>0, CaptureLines DEF CaptureLine
  <2>2. Threads' /\ Ending'
    BY <1>4, <2>0 DEF CaptureLine, Threads, Ending
  <2>3. Copying'
    BY <1>4, <2>0, CaptureLines DEF CaptureLine, Copying, Captured, Threads, Ending
  <2>4. Clock'
    BY StepsType, <1>4 DEF CaptureLine, Clock, LateIsEarned
  <2> QED BY <2>1, <2>2, <2>3, <2>4
<1>5. CASE EndOfFile
  <2>1. TypeOK'
    BY <1>5 DEF EndOfFile
  <2>2. Threads' /\ Ending'
    BY <1>5 DEF EndOfFile, Threads, Ending
  <2>3. Copying'
    BY <1>5 DEF EndOfFile, Copying, Captured, Threads, Ending
  <2>4. Clock'
    BY StepsType, <1>5 DEF EndOfFile, Clock, LateIsEarned
  <2> QED BY <2>1, <2>2, <2>3, <2>4
<1> QED BY <1>1, <1>2, <1>3, <1>4, <1>5, <1>6

-----------------------------------------------------------------------------
LEMMA InitInv == Init => IInv
<1> SUFFICES ASSUME Init PROVE IInv
  OBVIOUS
<1> USE DEF Init, CaptureInit
<1>1. 0 \in 0 .. Steps(Timeout) /\ 0 \in 0 .. Steps(TestPeriod)
  BY StepsType
<1>2. TypeOK
  <2>1. written \in Seq(Printed) /\ read \in 0 .. Len(written) /\ restarts \in Nat
    OBVIOUS
  <2>2. /\ process \in BOOLEAN /\ fresh \in BOOLEAN /\ raised \in BOOLEAN
        /\ handle \in BOOLEAN /\ stopped \in BOOLEAN /\ missed \in BOOLEAN
        /\ started \in BOOLEAN
    OBVIOUS
  <2> QED BY <1>1, <2>1, <2>2 DEF TypeOK
<1>3. Threads /\ Ending
  BY DEF Threads, Ending
<1>4. Copying
  BY DEF Copying, Captured
<1>5. Clock
  BY DEF Clock, LateIsEarned, NotLate
<1> QED BY <1>2, <1>3, <1>4, <1>5 DEF IInv

LEMMA StepInv == IInv /\ [Next]_vars => IInv'
<1> SUFFICES ASSUME IInv, [Next]_vars PROVE IInv'
  OBVIOUS
<1>1. CASE TestThread
  BY <1>1, OpenInv, MonitorInv, KillInv, LateInv DEF TestThread
<1>2. CASE ExecuteThread
  BY <1>2, ExecInv DEF ExecuteThread
<1>3. CASE WriteLine \/ Exit \/ ReaderThread
  BY <1>3, ReaderInv, KillInv DEF ReaderThread
<1>4. CASE Interrupt
  BY <1>4, KillInv
<1>5. CASE UNCHANGED vars
  <2> USE DEF vars, monitor, execute, capture
  <2>1. TypeOK'
    BY <1>5 DEF IInv, TypeOK
  <2>2. Threads' /\ Ending'
    BY <1>5 DEF IInv, Threads, Ending
  <2>3. Copying'
    BY <1>5 DEF IInv, Copying, Captured
  <2>4. Clock'
    BY <1>5 DEF IInv, Clock, LateIsEarned
  <2> QED BY <2>1, <2>2, <2>3, <2>4 DEF IInv
<1> QED BY <1>1, <1>2, <1>3, <1>4, <1>5 DEF Next

(* Where each thread of the runner is, what was captured of what was       *)
(* printed, and what is left of the time-outs, in every state.             *)
THEOREM Invariant == Spec => []IInv
BY InitInv, StepInv, PTL DEF Spec

(* report.end() gets the lines a simulator printed that ended by itself,   *)
(* and all of them unless the reader met one it could not decode or was    *)
(* still at work after two seconds: _execute() resets exe.process only     *)
(* after execute.open() waited for the reader.                             *)
THEOREM OutputIsWhole == Spec => []WholeOutput
<1>1. IInv => WholeOutput
  BY DEF IInv, Copying, WholeOutput
<1> QED BY <1>1, Invariant, PTL

(* A test that ended, by itself, by a time-out, by a line of its output or *)
(* by a Ctrl-C, leaves no simulator running, unless it was killed between  *)
(* Popen() and the assignment of execute.proc.                             *)
THEOREM NoneLivesOn == Spec => []KilledDies
<1>1. IInv => KilledDies
  BY DEF IInv, Threads, Ending, KilledDies
<1> QED BY <1>1, Invariant, PTL

(* _monitor() calls _timeout() only after %{timeout} seconds without a     *)
(* line, the last of its sleeps apart, in which one may have come, and     *)
(* _test_too_long() only after %{max_test_period} seconds.                 *)
THEOREM TimeOutsEarned == Spec => []LateIsEarned
<1>1. IInv => LateIsEarned
  BY DEF IInv, Clock
<1> QED BY <1>1, Invariant, PTL
================================================================================
