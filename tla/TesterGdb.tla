-------------------------------- MODULE TesterGdb -------------------------------
(***************************************************************************)
(* The %gdb runner of the tester, tester/rt/gdb.py.  The test thread opens *)
(* the runner and monitors it; an execute thread starts GDB and waits for  *)
(* it; a reader takes GDB's records, feeds it the script at its prompts    *)
(* and hands the target's output to capture() of tester/rt/config.py; a    *)
(* writer sends the commands; and another thread may kill the test.        *)
(*                                                                         *)
(* The lock of the runner is re-entrant.  A step is what a thread does     *)
(* from taking the lock to its release, or to a sleep with the lock held.  *)
(***************************************************************************)
EXTENDS Integers, Sequences, TestCapture

CONSTANTS
  ScriptLines,    (* how many lines the GDB script of the BSP has            *)
  Timeout,        (* %{timeout}, in steps of _monitor()                      *)
  TestPeriod,     (* %{max_test_period}, in steps of _monitor()              *)
  Grace,          (* how often _stop() sleeps before it kills GDB            *)
  Streamed,       (* the lines the target may print through GDB              *)
  States,         (* the records on GDB's own state, and undecodable ones    *)
  MaxRecords,     (* bound: the records that GDB prints, by their weight     *)
  MaxPipe         (* bound: how many of them wait in its pipe                *)

VARIABLES
  test,           \* the test thread
  process,        \* is gdb.process set?
  period, seconds,\* what is left of the time-outs, in steps
  fresh,          \* did output_length change since the monitor looked?
  ecode,          \* gdb.ecode: none, ok, or an error
  lock,           \* the thread that holds the lock and how often it took it
  stop,           \* the threads in _stop(): the sleeps they have left
  exec,           \* the execute thread
  handle,         \* is execute.proc set?
  child,          \* GDB
  pipe,           \* the records the reader has not taken
  running,        \* gdb.running: GDB said that the target runs
  commands, input,\* the two queues of commands
  scriptLine,     \* gdb.script_line
  reader, writer,
  killer,         \* the main thread or a serial console: idle, stopping, done
  reported,       \* the output that report.end() got
  sent,           \* history: what the writer sent
  written,        \* history: the target's lines that GDB printed
  records,        \* history: the weight of those it printed
  cut,            \* history: were records given up, unread?
  stopped,        \* history: _stop() was called
  missed          \* history: GDB was killed while it was being started

queues == <<commands, input, scriptLine>>
monitor == <<test, period, seconds>>
execution == <<exec, handle>>
target == <<pipe, written, records>>
log == <<sent, reported>>
vars == <<monitor, process, fresh, ecode, lock, stop, execution, child, target,
          running, queues, reader, writer, killer, log, cut, stopped, missed,
          capture>>

\* A record with bytes that are no text in the encoding of sys.stdout
Garbled == "garbled"

ASSUME GdbAssumption ==
  /\ KillOnEnd
  /\ ScriptLines \in Nat \ {0}
  /\ {Timeout, TestPeriod, Grace} \subseteq Nat \ {0}
  /\ Streamed \subseteq Lines \ {"TIMEOUT", "TEST_TOO_LONG"}
  /\ States \subseteq {"prompt", "running", "stopped", "error", Garbled}
  /\ {MaxRecords, MaxPipe} \subseteq Nat

Stoppers == {"test", "reader", "main"}
Free == [owner |-> "nobody", depth |-> 0]
CanLock(t) == lock.owner \in {"nobody", t}
Holding(t, depth) == IF depth = 0 THEN Free ELSE [owner |-> t, depth |-> depth]
\* How often a thread that is in _stop() took the lock: _reader() and kill()
Levels(t) == IF t = "reader" THEN 2 ELSE 1
Awake == -1

(* A command is the number of a line of the script, before which GDB is    *)
(* told not to ask for confirmation, or one of these.                      *)
Confirm == 0
None == -1
Empty == -2
Backtrace == -3
Disconnect == -4
Quit == -5
Commands == Quit .. ScriptLines
Endings == {Backtrace, Disconnect, Quit}
-----------------------------------------------------------------------------
Init ==
  /\ CaptureInit
  /\ test = "off" /\ process = FALSE /\ period = 0 /\ seconds = 0
  /\ fresh = FALSE /\ ecode = "none"
  /\ lock = Free /\ stop = [t \in Stoppers |-> Awake]
  /\ exec = "off" /\ handle = FALSE /\ child = "no"
  /\ pipe = <<>> /\ running = FALSE
  /\ commands = <<>> /\ input = <<>> /\ scriptLine = 0
  /\ reader = "off" /\ writer = "off" /\ killer = "idle"
  /\ reported = NoOutput
  /\ sent = <<>> /\ written = <<>> /\ records = 0 /\ cut = FALSE
  /\ stopped = FALSE /\ missed = FALSE

\* Mutant: GDB is told to quit, and the script goes on
SkippedNone == scriptLine
Skipped == ScriptLines
(* _gdb_quit() signals GDB, which owes no answer, and queues the commands   *)
(* that end it; nothing takes them from the queue but a prompt.            *)
GdbQuit(backtrace) ==
  /\ commands' = commands \o (IF backtrace THEN <<Backtrace, Disconnect, Quit>>
                                          ELSE <<Disconnect, Quit>>)
  /\ scriptLine' = Skipped
  /\ UNCHANGED input

(* The beginning of _stop() up to its first sleep, which gives back one    *)
(* level of the lock.  Without a process _gdb_quit() raises an exception;  *)
(* those who call kill() swallow it.                                       *)
BeginStop(t) ==
  /\ process
  /\ GdbQuit(TRUE)
  /\ stop' = [stop EXCEPT ![t] = Grace - 1]
  /\ lock' = Holding(t, Levels(t) - 1)
  /\ stopped' = TRUE

\* Mutant: _kill() forgets GDB without killing it
KillForgets == process' = FALSE /\ UNCHANGED <<child, missed>>
(* _kill(): a GDB that execute.kill() does not know yet lives on.          *)
Kill ==
  /\ process' = FALSE
  /\ child' = IF process /\ handle /\ child = "running" THEN "killed" ELSE child
  /\ missed' = (missed \/ (process /\ ~handle /\ exec \in {"spawn", "spawned"}))

\* A turn of the loop of _stop(): still waiting for the end of GDB
Doze(t) ==
  /\ stop[t] > 0 /\ CanLock(t) /\ process
  /\ stop' = [stop EXCEPT ![t] = @ - 1]
  /\ UNCHANGED <<monitor, process, fresh, ecode, lock, execution, child,
                 target, running, queues, reader, writer, killer, log, cut,
                 stopped, missed, capture>>

\* _stop() is over: GDB ended, or it is killed; its caller goes on
EndStop(t) ==
  /\ stop[t] # Awake /\ CanLock(t)
  /\ process => stop[t] = 0
  /\ Kill
  /\ stop' = [stop EXCEPT ![t] = Awake]
  /\ lock' = IF t = "test" THEN Holding(t, 1) ELSE Free
  /\ test' = IF t = "test" THEN "late" ELSE test
  /\ reader' = IF t = "reader" THEN "idle" ELSE reader
  /\ killer' = IF t = "main" THEN "done" ELSE killer
  /\ UNCHANGED <<period, seconds, fresh, ecode, execution, target, running,
                 queues, writer, log, cut, stopped, capture>>

StopThread(t) == Doze(t) \/ EndStop(t)

-----------------------------------------------------------------------------
\* The test directive starts the output and the console, open() the
\* execute thread; _monitor() goes to its first sleep
Open ==
  /\ test = "off"
  /\ test' = "sleep" /\ process' = TRUE /\ exec' = "start"
  /\ output' = <<>>
  /\ period' = Timeout - 1 /\ seconds' = TestPeriod - 1
  /\ UNCHANGED <<fresh, ecode, lock, stop, handle, child, target, running,
                 queues, reader, writer, killer, log, cut, stopped, missed,
                 started, restarts>>

InTime == period > 0 /\ seconds > 0

\* A turn of the loop of _monitor(), from one sleep to the next
Monitor ==
  /\ test = "sleep" /\ stop["test"] = Awake /\ CanLock("test")
  /\ process /\ InTime
  /\ period' = (IF fresh THEN Timeout ELSE period) - 1
  /\ seconds' = seconds - 1
  /\ fresh' = FALSE
  /\ UNCHANGED <<test, process, ecode, lock, stop, execution, child, target,
                 running, queues, reader, writer, killer, log, cut, stopped,
                 missed, capture>>

\* _timeout() or _test_too_long() stop GDB ...
TimeOut ==
  /\ test = "sleep" /\ stop["test"] = Awake /\ CanLock("test")
  /\ ~InTime
  /\ BeginStop("test")
  /\ UNCHANGED <<monitor, process, fresh, ecode, execution, child, target,
                 running, reader, writer, killer, log, cut, missed, capture>>

\* ... and say so in the output; the kill this leads to finds no process
TellLate ==
  /\ test = "late"
  /\ Capture(IF period = 0 THEN "TIMEOUT" ELSE "TEST_TOO_LONG")
  /\ test' = "after" /\ lock' = Free
  /\ UNCHANGED <<period, seconds, process, fresh, ecode, stop, execution,
                 child, target, running, queues, reader, writer, killer, log,
                 cut, stopped, missed>>

Failed == ecode = "error"

\* Mutant: open() waits for the execute thread
ReturnJoined ==
  /\ test = "sleep" /\ stop["test"] = Awake /\ CanLock("test") /\ exec = "done"
  /\ test' = IF Failed THEN "over" ELSE "after"
  /\ UNCHANGED <<period, seconds, process, fresh, ecode, lock, stop, execution,
                 child, target, running, queues, reader, writer, killer, log,
                 cut, stopped, missed, capture>>
\* open() returns, or raises an exception for the exit code of GDB
Return ==
  /\ test = "sleep" /\ stop["test"] = Awake /\ CanLock("test") /\ ~process
  /\ test' = IF Failed THEN "over" ELSE "after"
  /\ UNCHANGED <<period, seconds, process, fresh, ecode, lock, stop, execution,
                 child, target, running, queues, reader, writer, killer, log,
                 cut, stopped, missed, capture>>

\* The console is closed and report.end() gets the output
End ==
  /\ test = "after" /\ test' = "over"
  /\ reported' = output /\ output' = NoOutput
  /\ UNCHANGED <<period, seconds, process, fresh, ecode, lock, stop, execution,
                 child, target, running, queues, reader, writer, killer, sent,
                 cut, stopped, missed, started, restarts>>

TestThread == Open \/ Monitor \/ TimeOut \/ TellLate \/ Return \/ End

-----------------------------------------------------------------------------
\* _execute_gdb() looks up gdb.process, which may be gone
Spawn ==
  /\ exec = "start"
  /\ exec' = IF process THEN "spawn" ELSE "dead"
  /\ UNCHANGED <<monitor, process, fresh, ecode, lock, stop, handle, child,
                 target, running, queues, reader, writer, killer, log, cut,
                 stopped, missed, capture>>

\* Popen() and the threads for its pipes; or an OSError, whose number is the
\* exit code; or another exception, which ends the thread
Spawned ==
  /\ exec = "spawn"
  /\ \/ exec' = "spawned" /\ child' = "running" /\ reader' = "idle" /\ writer' = "on"
     \/ exec' = "finish" /\ child' = "failed" /\ UNCHANGED <<reader, writer>>
     \/ exec' = "dead" /\ UNCHANGED <<child, reader, writer>>
  /\ UNCHANGED <<monitor, process, fresh, ecode, lock, stop, handle, target,
                 running, queues, killer, log, cut, stopped, missed, capture>>

SetHandle ==
  /\ exec = "spawned" /\ exec' = "wait" /\ handle' = TRUE
  /\ UNCHANGED <<monitor, process, fresh, ecode, lock, stop, child, target,
                 running, queues, reader, writer, killer, log, cut, stopped,
                 missed, capture>>

Waited ==
  /\ exec = "wait" /\ child # "running"
  /\ exec' = "cleanup" /\ handle' = FALSE
  /\ UNCHANGED <<monitor, process, fresh, ecode, lock, stop, child, target,
                 running, queues, reader, writer, killer, log, cut, stopped,
                 missed, capture>>

\* Mutant: the reader is not joined
AfterCleanupNoJoin == "finish"
AfterCleanup == "join"
\* The None of _cleanup() waits for a prompt like any other command
Cleanup ==
  /\ exec = "cleanup" /\ CanLock("exec")
  /\ exec' = AfterCleanup /\ commands' = Append(commands, None)
  /\ UNCHANGED <<monitor, process, fresh, ecode, lock, stop, handle, child,
                 target, running, input, scriptLine, reader, writer, killer,
                 log, cut, stopped, missed, capture>>

(* The reader is joined, or given up after two seconds: it then reads on.  *)
(* The writer is waited for in vain: it ends when the process is gone.     *)
Join ==
  /\ exec = "join" /\ exec' = "finish"
  /\ cut' = (cut \/ reader # "ended")
  /\ UNCHANGED <<monitor, process, fresh, ecode, lock, stop, handle, child,
                 target, running, queues, reader, writer, killer, log, stopped,
                 missed, capture>>

Finish ==
  /\ exec = "finish" /\ CanLock("exec")
  /\ exec' = "done" /\ process' = FALSE /\ running' = FALSE
  /\ ecode' = IF child = "failed" THEN "error" ELSE "ok"
  /\ UNCHANGED <<monitor, fresh, lock, stop, handle, child, target, queues,
                 reader, writer, killer, log, cut, stopped, missed, capture>>

ExecThread == Spawn \/ Spawned \/ SetHandle \/ Waited \/ Cleanup \/ Join \/ Finish

-----------------------------------------------------------------------------
\* What a record takes of the bound: prompts the least, they move the script
Weight(r) == IF r = "prompt" THEN 1 ELSE IF r \in Streamed THEN 2 ELSE 3

\* GDB (external) prints a record while the test is on, exits well or not,
\* or hangs
PrintRecord ==
  /\ child = "running" /\ test # "over"
  /\ Len(pipe) < MaxPipe
  /\ \E r \in States \cup Streamed :
       /\ records + Weight(r) <= MaxRecords /\ records' = records + Weight(r)
       /\ pipe' = Append(pipe, r)
       /\ written' = IF r \in Streamed THEN Append(written, r) ELSE written
  /\ UNCHANGED <<monitor, process, fresh, ecode, lock, stop, execution, child,
                 running, queues, reader, writer, killer, log, cut, stopped,
                 missed, capture>>

Exit ==
  /\ child = "running" /\ child' \in {"exited", "failed"}
  /\ UNCHANGED <<monitor, process, fresh, ecode, lock, stop, execution, target,
                 running, queues, reader, writer, killer, log, cut, stopped,
                 missed, capture>>

\* gdb_expect() puts the next line of the script, or None when there is none
Expects == process /\ ~running
GoesOn == Expects /\ scriptLine < ScriptLines
Expected ==
  IF GoesOn THEN IF scriptLine = 0 THEN <<Confirm, 1>> ELSE <<scriptLine + 1>>
  ELSE IF Expects THEN <<None>> ELSE <<>>

Moves(q) == q # <<>> /\ input = <<>>

(* A prompt moves one command to the writer, if it sent the last one; with *)
(* none left the script goes on.                                           *)
Prompt ==
  LET put == IF commands = <<>> THEN Expected ELSE <<>>
      all == commands \o put
  IN /\ commands' = IF Moves(all) THEN Tail(all) ELSE all
     /\ input' = IF Moves(all) THEN Append(input, Head(all)) ELSE input
     /\ scriptLine' = IF commands = <<>> /\ GoesOn THEN scriptLine + 1 ELSE scriptLine

(* _reader() has a record for GDB's own state.  One for an error that      *)
(* comes when the process is gone is handed to capture() as it stands.     *)
TakeState ==
  LET r == pipe[1]
  IN /\ reader = "idle" /\ pipe # <<>> /\ CanLock("reader")
     /\ pipe' = Tail(pipe)
     /\ \/ r = "prompt" /\ Prompt /\ UNCHANGED <<running, capture>>
        \/ /\ r \in {"running", "stopped"}
           /\ running' = (r = "running")
           /\ commands' = IF running' THEN Append(commands, Empty) ELSE commands
           /\ UNCHANGED <<input, scriptLine, capture>>
        \/ r = "error" /\ process /\ GdbQuit(FALSE) /\ UNCHANGED <<running, capture>>
        \/ r = "error" /\ ~process /\ Capture("TEXT") /\ UNCHANGED <<running, queues>>
     /\ UNCHANGED <<monitor, process, fresh, ecode, lock, stop, execution,
                    child, written, records, reader, writer, killer, sent,
                    reported, cut, stopped, missed>>

(* _reader() has a line of the target.  It captures the line with the lock *)
(* held; when the test is over _ok_kill() takes it again and stops GDB.    *)
TakeLine ==
  LET line == pipe[1]
  IN /\ reader = "idle" /\ pipe # <<>> /\ CanLock("reader") /\ line \in Streamed
     /\ pipe' = Tail(pipe)
     /\ fresh' = TRUE
     /\ Capture(line)
     /\ IF OkToKill(line) /\ process
          THEN BeginStop("reader") /\ reader' = "stopping"
          ELSE UNCHANGED <<queues, stop, lock, stopped, reader>>
     /\ UNCHANGED <<monitor, process, ecode, execution, child, written,
                    records, running, writer, killer, log, cut, missed>>

EndOfFile ==
  /\ reader = "idle" /\ pipe = <<>> /\ child # "running"
  /\ reader' = "ended"
  /\ UNCHANGED <<monitor, process, fresh, ecode, lock, stop, execution, child,
                 target, running, queues, writer, killer, log, cut, stopped,
                 missed, capture>>

(* A chunk that cannot be decoded ends the thread with an exception: it is *)
(* lost with the records before the bad one and all that comes after it.   *)
BreakOff ==
  /\ reader = "idle" /\ \E n \in 1 .. Len(pipe) : pipe[n] = Garbled
  /\ reader' = "ended" /\ cut' = TRUE
  /\ UNCHANGED <<monitor, process, fresh, ecode, lock, stop, execution, child,
                 target, running, queues, writer, killer, log, stopped, missed,
                 capture>>

ReaderThread ==
  TakeState \/ TakeLine \/ EndOfFile \/ BreakOff \/ StopThread("reader")

-----------------------------------------------------------------------------
\* _writer() looks for a process before it waits for a command; without one
\* the thread ends
Leave ==
  /\ writer = "on" /\ CanLock("writer") /\ ~process
  /\ writer' = "ended"
  /\ UNCHANGED <<monitor, process, fresh, ecode, lock, stop, execution, child,
                 target, running, queues, reader, killer, log, cut, stopped,
                 missed, capture>>

\* None ends the thread, as does a pipe that GDB has left
Send ==
  /\ writer = "on" /\ input # <<>>
  /\ input' = Tail(input)
  /\ IF input[1] # None /\ child = "running"
       THEN sent' = Append(sent, input[1]) /\ UNCHANGED writer
       ELSE writer' = "ended" /\ UNCHANGED sent
  /\ UNCHANGED <<monitor, process, fresh, ecode, lock, stop, execution, child,
                 target, running, commands, scriptLine, reader, killer,
                 reported, cut, stopped, missed, capture>>

WriterThread == Leave \/ Send

-----------------------------------------------------------------------------
(* A thread that does not hold the lock kills the test: the main thread in *)
(* killall(), or the thread of a serial console that saw its end.          *)
Interrupt ==
  /\ killer = "idle" /\ test \notin {"off", "over"} /\ CanLock("main")
  /\ BeginStop("main") /\ killer' = "stopping"
  /\ UNCHANGED <<monitor, process, fresh, ecode, execution, child, target,
                 running, reader, writer, log, cut, missed, capture>>

Next ==
  \/ TestThread \/ StopThread("test") \/ ExecThread \/ PrintRecord \/ Exit
  \/ ReaderThread \/ WriterThread \/ Interrupt \/ StopThread("main")

Spec == Init /\ [][Next]_vars

(* The threads are scheduled; GDB, the target and the user owe nothing.    *)
FairSpec ==
  /\ Spec
  /\ WF_vars(TestThread \/ StopThread("test")) /\ WF_vars(ExecThread)
  /\ WF_vars(ReaderThread) /\ WF_vars(WriterThread) /\ WF_vars(StopThread("main"))
-----------------------------------------------------------------------------
(* Types of the runner and its threads; the lock is only held across steps *)
(* by a reader that stops GDB and by the test that reports a time-out.     *)
TypeOK ==
  /\ test \in {"off", "sleep", "late", "after", "over"}
  /\ period \in 0 .. Timeout /\ seconds \in 0 .. TestPeriod
  /\ process \in BOOLEAN /\ fresh \in BOOLEAN /\ handle \in BOOLEAN
  /\ running \in BOOLEAN /\ stopped \in BOOLEAN /\ missed \in BOOLEAN
  /\ cut \in BOOLEAN
  /\ ecode \in {"none", "ok", "error"}
  /\ stop \in [Stoppers -> Awake .. Grace - 1]
  /\ exec \in {"off", "start", "spawn", "spawned", "wait", "cleanup", "join",
               "finish", "done", "dead"}
  /\ child \in {"no", "running", "exited", "failed", "killed"}
  /\ reader \in {"off", "idle", "stopping", "ended"}
  /\ writer \in {"off", "on", "ended"}
  /\ killer \in {"idle", "stopping", "done"}
  /\ sent \in Seq(Commands) /\ input \in Seq(Commands)
  /\ commands \in Seq(Commands) /\ scriptLine \in 0 .. ScriptLines
  /\ pipe \in Seq(States \cup Streamed) /\ written \in Seq(Streamed)
  /\ \A s \in {output, reported} : s = NoOutput \/ s \in Seq(Lines)
  /\ lock \in {Free, Holding("reader", 1), Holding("test", 1)}
  /\ lock.owner = "reader" <=> reader = "stopping"
  /\ lock.owner = "test" <=> test = "late"

(* The script is sent line by line and in order, a line only for a prompt, *)
(* and once GDB is told to quit nothing of it follows, whoever told it.    *)
ScriptInOrder ==
  /\ \A i \in 1 .. Len(sent) :
       sent[i] > Confirm => \E j \in 1 .. i - 1 : sent[j] = sent[i] - 1
  /\ \A j \in 1 .. Len(sent), i \in 1 .. Len(sent) :
       i < j /\ sent[j] >= Confirm => sent[i] < sent[j] /\ sent[i] \notin Endings
  /\ Len(input) <= 1

(* A test that nobody stopped is reported with every line that GDB passed  *)
(* on, unless the runner gave some up, and only if GDB ended well.         *)
WholeOutput ==
  /\ TypeOK
  /\ reported # NoOutput /\ ~stopped =>
       /\ ~cut => reported = written
       /\ child # "failed"

(* No test that ended leaves a GDB running, unless _kill() came before     *)
(* execute.kill() could know it.                                           *)
KilledDies == test = "over" /\ ~missed => child # "running"

(* The test ends: GDB may hang, several threads may stop it at once, and   *)
(* the reader keeps the lock while it does.                                *)
TestEnds == <>(test = "over")
=============================================================================
