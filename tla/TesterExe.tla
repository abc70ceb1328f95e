------------------------------- MODULE TesterExe -------------------------------
(***************************************************************************)
(* The %execute runner of the tester, tester/rt/exe.py, which runs a test  *)
(* in a simulator: the test thread opens the runner and monitors it, an    *)
(* execute thread starts the simulator and waits for it (capture() of      *)
(* rtemstoolkit/execute.py), a reader hands its output to capture() of     *)
(* tester/rt/config.py, and the main thread may kill the test.             *)
(*                                                                         *)
(* The test thread holds the lock of the runner except when it sleeps, so  *)
(* what it does between two sleeps is one step to those who need the lock. *)
(* Time is counted in sleeps.  Standard output and error are one pipe.     *)
(***************************************************************************)
EXTENDS Integers, Sequences, TestCapture

CONSTANTS
  StepsPerSecond, (* sleeps in a second: 4, a step is 0.25 s                 *)
  Timeout,        (* %{timeout}, in seconds                                  *)
  TestPeriod,     (* %{max_test_period}, in seconds                          *)
  Printed,        (* what a simulator may print, in lines                    *)
  MaxLines,       (* bound: how many                                         *)
  MayInterrupt    (* may the main thread kill the test (Ctrl-C)?             *)

VARIABLES
  test,           \* the test thread
  process,        \* is exe.process set?
  period, seconds,\* what is left of the time-outs, in steps
  fresh,          \* was there output since the monitor looked?
  raised,         \* did the execute thread end with an exception?
  exec,           \* the execute thread
  handle,         \* is execute.proc set?
  child,          \* the simulator
  written,        \* the lines it printed
  read,           \* how many of them the reader took
  reader,         \* the reader: off, idle, at a line, about to kill, ended
  killer,         \* the main thread: idle, killing, done
  reported,       \* the output that report.end() got
  cut,            \* history: was output given up, unread?
  quiet, age,     \* history: sleeps without a line up to now, all sleeps
  looked,         \* history: quiet when the monitor looked for output last
  late,           \* history: a time-out, and that quiet and the age
  stopped,        \* history: the runner was killed
  missed          \* history: ... while the simulator was being started

monitor == <<test, period, seconds, age, looked, late>>
execute == <<exec, handle>>
vars == <<monitor, process, fresh, raised, execute, child, written, read, reader,
          killer, reported, cut, quiet, stopped, missed, capture>>

\* A line with bytes that are no text in the encoding of sys.stdout
Garbled == "GARBLED"

ASSUME ExeAssumption ==
  /\ StepsPerSecond \in Nat \ {0}
  /\ Timeout \in Nat \ {0} /\ TestPeriod \in Nat \ {0}
  /\ Printed \subseteq (Lines \ {"TIMEOUT", "TEST_TOO_LONG"}) \cup {Garbled}
  /\ MaxLines \in Nat
  /\ MayInterrupt \in BOOLEAN
  /\ ~KillOnEnd

NotLate == [what |-> "no", quiet |-> 0, age |-> 0]
\* The states of the test thread in which it does not hold the runner's lock
LockFree == test \in {"off", "sleep", "after", "over"}

(* _monitor() divides the time-outs by the step of 0.25 seconds and then   *)
(* subtracts the step from them for every step.                            *)
Steps(time) == time * StepsPerSecond * StepsPerSecond
-----------------------------------------------------------------------------
Init ==
  /\ CaptureInit
  /\ test = "off" /\ process = FALSE /\ period = 0 /\ seconds = 0
  /\ fresh = FALSE /\ raised = FALSE
  /\ exec = "off" /\ handle = FALSE /\ child = "no"
  /\ written = <<>> /\ read = 0 /\ reader = "off" /\ killer = "idle"
  /\ reported = NoOutput
  /\ cut = FALSE /\ quiet = 0 /\ age = 0 /\ looked = 0 /\ late = NotLate
  /\ stopped = FALSE /\ missed = FALSE

\* Mutant: the runner forgets its simulator without killing it
KillForgets == process' = FALSE /\ stopped' = TRUE /\ UNCHANGED <<child, missed>>
(* _kill(): a simulator that execute.kill() does not know yet lives on.    *)
Kill ==
  /\ process' = FALSE
  /\ child' = IF process /\ handle /\ child = "running" THEN "killed" ELSE child
  /\ stopped' = TRUE
  /\ missed' = (missed \/ (process /\ ~handle /\ exec \in {"spawn", "spawned"}))

\* The test directive starts the output, open() the execute thread
Open ==
  /\ test = "off"
  /\ test' = "loop" /\ process' = TRUE /\ exec' = "start"
  /\ output' = <<>>
  /\ period' = Steps(Timeout) /\ seconds' = Steps(TestPeriod)
  /\ UNCHANGED <<fresh, raised, handle, child, written, read, reader, killer,
                 reported, cut, quiet, age, looked, late, stopped, missed,
                 started, restarts>>

Looping == process /\ period > 0 /\ seconds > 0

\* Mutant: output does not start the period again
RenewedNever == period
Renewed == IF fresh THEN Steps(Timeout) ELSE period

\* One turn of the loop of _monitor() up to its sleep
Poll ==
  /\ test = "loop" /\ Looping /\ ~raised
  /\ period' = Renewed - 1 /\ seconds' = seconds - 1
  /\ looked' = quiet /\ age' = age + 1
  /\ fresh' = FALSE
  /\ test' = "sleep"
  /\ UNCHANGED <<process, raised, execute, child, written, read, reader, killer,
                 reported, cut, quiet, late, stopped, missed, capture>>

Wake ==
  /\ test = "sleep" /\ test' = "loop"
  /\ quiet' = IF fresh THEN quiet ELSE quiet + 1
  /\ UNCHANGED <<process, period, seconds, fresh, raised, execute, child,
                 written, read, reader, killer, reported, cut, age, looked, late,
                 stopped, missed, capture>>

\* The exception of the execute thread is raised again and ends the test
Raise ==
  /\ test = "loop" /\ Looping /\ raised
  /\ test' = "over"
  /\ UNCHANGED <<process, period, seconds, fresh, raised, execute, child,
                 written, read, reader, killer, reported, cut, quiet, age,
                 looked, late, stopped, missed, capture>>

(* After the loop: _timeout() or _test_too_long() kill the simulator.  A   *)
(* line that came in the last sleep is not looked at any more ...          *)
TimeOut ==
  /\ test = "loop" /\ process /\ (period = 0 \/ seconds = 0)
  /\ Kill
  /\ test' = "late"
  /\ late' = [what |-> IF period = 0 THEN "TIMEOUT" ELSE "TEST_TOO_LONG",
              quiet |-> looked, age |-> age]
  /\ UNCHANGED <<period, seconds, fresh, raised, execute, written, read, reader,
                 killer, reported, cut, quiet, age, looked, capture>>

\* ... and say so in the output
TellLate ==
  /\ test = "late" /\ test' = "after"
  /\ Capture(late.what)
  /\ UNCHANGED <<process, period, seconds, fresh, raised, execute, child,
                 written, read, reader, killer, reported, cut, quiet, age,
                 looked, late, stopped, missed>>

\* Mutant: open() waits for the execute thread
ReturnJoined ==
  /\ test = "loop" /\ ~process /\ exec = "done" /\ test' = "after"
  /\ UNCHANGED <<process, period, seconds, fresh, raised, execute, child,
                 written, read, reader, killer, reported, cut, quiet, age,
                 looked, late, stopped, missed, capture>>
Return ==
  /\ test = "loop" /\ ~process /\ test' = "after"
  /\ UNCHANGED <<process, period, seconds, fresh, raised, execute, child,
                 written, read, reader, killer, reported, cut, quiet, age,
                 looked, late, stopped, missed, capture>>

\* The end of the directive: report.end() gets the output
End ==
  /\ test = "after" /\ test' = "over"
  /\ reported' = output /\ output' = NoOutput
  /\ UNCHANGED <<process, period, seconds, fresh, raised, execute, child,
                 written, read, reader, killer, cut, quiet, age, looked, late,
                 stopped, missed, started, restarts>>

TestThread == Open \/ Poll \/ Wake \/ Raise \/ TimeOut \/ TellLate \/ Return \/ End

-----------------------------------------------------------------------------
\* _execute() looks up exe.process, which may be gone
Spawn ==
  /\ exec = "start"
  /\ exec' = IF process THEN "spawn" ELSE "dead"
  /\ raised' = (raised \/ ~process)
  /\ UNCHANGED <<monitor, process, fresh, handle, child, written, read, reader,
                 killer, reported, cut, quiet, stopped, missed, capture>>

\* Popen() and the reader of its output, an OSError or another exception
Spawned ==
  /\ exec = "spawn"
  /\ \/ /\ exec' = "spawned" /\ child' = "running" /\ reader' = "idle"
        /\ UNCHANGED raised
     \/ exec' = "finish" /\ UNCHANGED <<child, reader, raised>>
     \/ exec' = "dead" /\ raised' = TRUE /\ UNCHANGED <<child, reader>>
  /\ UNCHANGED <<monitor, process, fresh, handle, written, read, killer, reported,
                 cut, quiet, stopped, missed, capture>>

SetHandle ==
  /\ exec = "spawned" /\ exec' = "wait" /\ handle' = TRUE
  /\ UNCHANGED <<monitor, process, fresh, raised, child, written, read, reader,
                 killer, reported, cut, quiet, stopped, missed, capture>>

\* Mutant: the reader is not joined
AfterWaitNoJoin == "finish"
AfterWait == "join"
Waited ==
  /\ exec = "wait" /\ child # "running"
  /\ exec' = AfterWait /\ handle' = FALSE
  /\ UNCHANGED <<monitor, process, fresh, raised, child, written, read, reader,
                 killer, reported, cut, quiet, stopped, missed, capture>>

\* The reader is joined, or given up after two seconds: it then reads on
Join ==
  /\ exec = "join" /\ exec' = "finish"
  /\ cut' = (cut \/ reader # "ended")
  /\ UNCHANGED <<monitor, process, fresh, raised, handle, child, written, read,
                 reader, killer, reported, quiet, stopped, missed, capture>>

Finish ==
  /\ exec = "finish" /\ LockFree
  /\ exec' = "done" /\ process' = FALSE
  /\ UNCHANGED <<monitor, fresh, raised, handle, child, written, read, reader,
                 killer, reported, cut, quiet, stopped, missed, capture>>

ExecuteThread == Spawn \/ Spawned \/ SetHandle \/ Waited \/ Join \/ Finish

-----------------------------------------------------------------------------
\* The simulator (external) prints a line or exits, or it hangs
WriteLine ==
  /\ child = "running" /\ Len(written) < MaxLines
  /\ \E line \in Printed : written' = Append(written, line)
  /\ UNCHANGED <<monitor, process, fresh, raised, execute, child, read, reader,
                 killer, reported, cut, quiet, stopped, missed, capture>>

Exit ==
  /\ child = "running" /\ child' = "exited"
  /\ UNCHANGED <<monitor, process, fresh, raised, execute, written, read, reader,
                 killer, reported, cut, quiet, stopped, missed, capture>>

(* _readthread() gives a line to exe._capture(), which counts it with the  *)
(* lock held ...                                                           *)
TakeLine ==
  /\ reader = "idle" /\ read < Len(written) /\ LockFree
  /\ written[read + 1] # Garbled
  /\ reader' = "line" /\ read' = read + 1 /\ fresh' = TRUE /\ quiet' = 0
  /\ UNCHANGED <<monitor, process, raised, execute, child, written, killer,
                 reported, cut, stopped, missed, capture>>

\* ... and then to capture(), which may find that the test has to be killed
CaptureLine ==
  LET line == written[read]
  IN /\ reader = "line"
     /\ Capture(line)
     /\ reader' = IF OkToKill(line) THEN "kill" ELSE "idle"
     /\ UNCHANGED <<monitor, process, fresh, raised, execute, child, written,
                    read, killer, reported, cut, quiet, stopped, missed>>

OkKill ==
  /\ reader = "kill" /\ LockFree
  /\ reader' = "idle"
  /\ IF test = "over" THEN UNCHANGED <<process, child, stopped, missed>> ELSE Kill
  /\ UNCHANGED <<monitor, fresh, raised, execute, written, read, killer,
                 reported, cut, quiet, capture>>

EndOfFile ==
  /\ reader = "idle" /\ read = Len(written) /\ child # "running"
  /\ reader' = "ended"
  /\ UNCHANGED <<monitor, process, fresh, raised, execute, child, written, read,
                 killer, reported, cut, quiet, stopped, missed, capture>>

(* A chunk that cannot be decoded ends the thread with an exception: it is *)
(* lost with the lines before the bad one and all that comes after it.     *)
BreakOff ==
  /\ reader = "idle"
  /\ \E n \in read + 1 .. Len(written) : written[n] = Garbled
  /\ reader' = "ended" /\ cut' = TRUE
  /\ UNCHANGED <<monitor, process, fresh, raised, execute, child, written, read,
                 killer, reported, quiet, stopped, missed, capture>>

ReaderThread == TakeLine \/ CaptureLine \/ OkKill \/ EndOfFile \/ BreakOff

\* Ctrl-C: killall() of the main thread kills a test that runs
Interrupt ==
  /\ MayInterrupt /\ killer = "idle"
  /\ test \notin {"off", "over"} /\ LockFree
  /\ killer' = "done"
  /\ Kill
  /\ UNCHANGED <<monitor, fresh, raised, execute, written, read, reader,
                 reported, cut, quiet, capture>>

Next == TestThread \/ ExecuteThread \/ WriteLine \/ Exit \/ ReaderThread \/ Interrupt

Spec == Init /\ [][Next]_vars

(* The threads are scheduled; the simulator owes nothing.                  *)
FairSpec ==
  Spec /\ WF_vars(TestThread) /\ WF_vars(ExecuteThread) /\ WF_vars(ReaderThread)

-----------------------------------------------------------------------------
(* Types of the runner and its threads.                                    *)
TypeOK ==
  /\ test \in {"off", "loop", "sleep", "late", "after", "over"}
  /\ exec \in {"off", "start", "spawn", "spawned", "wait", "join", "finish",
               "done", "dead"}
  /\ child \in {"no", "running", "exited", "killed"}
  /\ reader \in {"off", "idle", "line", "kill", "ended"}
  /\ killer \in {"idle", "done"}
  /\ process \in BOOLEAN /\ fresh \in BOOLEAN /\ raised \in BOOLEAN
  /\ handle \in BOOLEAN /\ stopped \in BOOLEAN /\ missed \in BOOLEAN
  /\ started \in BOOLEAN /\ restarts \in Nat
  /\ period \in 0 .. Steps(Timeout) /\ seconds \in 0 .. Steps(TestPeriod)
  /\ written \in Seq(Printed) /\ read \in 0 .. Len(written)
  /\ \A s \in {output, reported} : s = NoOutput \/ s \in Seq(Lines)
  /\ cut \in BOOLEAN /\ quiet \in Nat /\ looked \in Nat /\ age \in Nat

(* A simulator that ends by itself is reported with what it printed, in    *)
(* order and without a gap, and with every line of it unless the runner    *)
(* gave some up: the test ends only after the reader was waited for.       *)
WholeOutput ==
  /\ TypeOK
  /\ test = "over" /\ ~stopped /\ ~raised =>
       /\ Len(reported) <= Len(written)
       /\ \A i \in 1 .. Len(reported) : reported[i] = written[i]
       /\ ~cut => Len(reported) = Len(written)

(* Killing the runner kills its simulator, unless execute.kill() came too  *)
(* early to know it: no test that ended leaves one running.                *)
KilledDies == test = "over" /\ ~missed => child # "running"

(* A test is timed out only if no line was read for the time-out up to the *)
(* last sleep of the monitor, which does not look whether one was read in  *)
(* it, and is too long only after its time: a line that is looked at       *)
(* starts the period again.                                                *)
LateIsEarned ==
  /\ late.what = "TIMEOUT" => late.quiet + 1 >= Timeout * StepsPerSecond
  /\ late.what = "TEST_TOO_LONG" => late.age >= TestPeriod * StepsPerSecond

(* The test ends, even if the simulator hangs.                             *)
TestEnds == <>(test = "over")

(* options.py:76, "Set the test timeout in seconds (default 180 seconds)": *)
(* a test does not go on for longer without output.                        *)
TimesOutInTime == quiet <= Timeout * StepsPerSecond
=============================================================================
