------------------------------ MODULE TesterTftp ------------------------------
(***************************************************************************)
(* The %tftp runner of the tester, tester/rt/tftp.py, for a board which    *)
(* loads its test from a TFTP server.  The test thread opens the runner    *)
(* and monitors it, the listener thread runs the server, and the console   *)
(* thread hands what the board prints to capture() of tester/rt/config.py, *)
(* which calls the runner back.  Runner and configuration have a lock      *)
(* each; the former is taken before the latter in open(), the latter       *)
(* before the former in capture().                                         *)
(*                                                                         *)
(* The server is what its callers see of TftpServer: stop() waits for a    *)
(* session that runs.  Time is abstract: a time-out may come at any turn.  *)
(***************************************************************************)
EXTENDS Naturals, Sequences, TestCapture

CONSTANTS
  Printed,        (* the lines the board may print                           *)
  MaxLines,       (* bound: how many                                         *)
  Lates,          (* the time-outs of the test: TIMEOUT, TEST_TOO_LONG       *)
  MayRaise        (* may the server not get its port?                        *)

VARIABLES
  test, listener, console,  \* where the threads are
  lock,           \* the owner of the lock of the runner
  config,         \* is the lock of the configuration taken?
  opened, running, finished, caught,  \* of the runner
  state,          \* target_state
  known,          \* is tftp.server set?
  server,         \* the server: none, made, up or down
  session,        \* of the board with the server: none, busy or done
  retry,          \* of the listener: the runs of the server without a session
  lines,          \* how many lines the board printed
  line,           \* the one the console thread has
  closed,         \* is the console closed?
  late,           \* the time-out that ended the test
  reported,       \* the output that report.end() got
  cause           \* history: a line or too many retries ended the test

runner == <<opened, running, finished, caught>>
board == <<lines, line, closed>>
vars == <<test, listener, console, lock, config, runner, state, known, server,
          session, retry, board, late, reported, cause, capture>>

ASSUME TftpRunnerAssumption ==
  /\ Printed \subseteq Lines \ {"TIMEOUT", "TEST_TOO_LONG"}
  /\ MaxLines \in Nat
  /\ Lates \subseteq {"TIMEOUT", "TEST_TOO_LONG"}
  /\ MayRaise \in BOOLEAN
  /\ KillOnEnd

Over == {"over", "raised"}
States == {"reset", "booting", "running", "shutdown", "finished", "timeout"}
EndStates == {"shutdown", "finished", "timeout"}
-----------------------------------------------------------------------------
Init ==
  /\ started = FALSE /\ restarts = 0 /\ output = <<>>
  /\ test = "off" /\ listener = "none" /\ console = "read"
  /\ lock = "none" /\ config = FALSE
  /\ opened = FALSE /\ running = FALSE /\ finished = FALSE /\ caught = FALSE
  /\ state = "reset" /\ known = FALSE /\ server = "none" /\ session = "none"
  /\ retry = 0
  /\ lines = 0 /\ line = "TEXT" /\ closed = FALSE
  /\ late = "no" /\ reported = NoOutput /\ cause = FALSE

Acquire(p) == lock = "none" /\ lock' = p
Release(p) == lock = p /\ lock' = "none"
Keep(p) == lock = p /\ UNCHANGED lock

\* server.stop(): one that was not started yet is not stopped
StopServer ==
  IF known /\ server = "up" THEN session # "busy" /\ server' = "down"
                            ELSE UNCHANGED server

(* ... and one that its run() is just stopping, after its session or       *)
(* without one in time, may raise                                          *)
StopRaises ==
  known /\ server = "up" /\ listener = "run" /\ session # "busy"
    /\ server' = "down"

\* _stop() in the given state: an exception of server.stop() is dropped
Stop(before) ==
  /\ UNCHANGED <<opened, running, caught>>
  /\ \/ StopServer /\ finished' = TRUE /\ state' = "finished"
     \/ StopRaises /\ state' = before /\ UNCHANGED finished

\* Mutant: _run_finished() does not wait for the listener
UnfinishedTest == opened /\ ~finished
\* Mutant: ... waits for open() to leave, which waits itself
UnfinishedOpen == opened
Unfinished == opened /\ (running \/ ~finished)

-----------------------------------------------------------------------------
(* The test thread.  open() sends a message to the console with the lock   *)
(* held: capture_console() takes the lock of the configuration.            *)
Open ==
  /\ test = "off" /\ test' = "console"
  /\ Acquire("test")
  /\ opened' = TRUE /\ running' = TRUE /\ finished' = FALSE /\ caught' = FALSE
  /\ state' = "reset"
  /\ UNCHANGED <<listener, console, config, known, server, session, retry, board,
                 late, reported, cause, capture>>

StartListener ==
  /\ test = "console" /\ test' = "started"
  /\ ~config /\ Release("test")
  /\ listener' = "start"
  /\ UNCHANGED <<console, config, runner, state, known, server, session, retry,
                 board, late, reported, cause, capture>>

Lock ==
  /\ test = "started" /\ test' = "length"
  /\ Acquire("test")
  /\ UNCHANGED <<listener, console, config, runner, state, known, server, session,
                 retry, board, late, reported, cause, capture>>

\* output_length() takes the lock of the configuration, too
Length ==
  /\ test = "length" /\ test' = "loop"
  /\ ~config /\ Keep("test")
  /\ UNCHANGED <<listener, console, config, runner, state, known, server, session,
                 retry, board, late, reported, cause, capture>>

Poll ==
  /\ test = "loop" /\ ~finished /\ (running \/ ~caught)
  /\ \/ /\ test' = "poll" /\ Release("test") /\ UNCHANGED late
     \/ /\ test' = "stop" /\ Keep("test") /\ late' \in Lates
  /\ UNCHANGED <<listener, console, config, runner, state, known, server, session,
                 retry, board, reported, cause, capture>>

Sleep ==
  /\ test = "poll" /\ test' = "sleep"
  /\ ~config
  /\ UNCHANGED <<listener, console, lock, config, runner, state, known, server,
                 session, retry, board, late, reported, cause, capture>>

Wake ==
  /\ test = "sleep" /\ test' = "loop"
  /\ Acquire("test")
  /\ UNCHANGED <<listener, console, config, runner, state, known, server, session,
                 retry, board, late, reported, cause, capture>>

\* _timeout() or _test_too_long() stop the server, wait for the listener ...
TimeOut ==
  /\ test = "stop" /\ test' = "wait"
  /\ Keep("test") /\ Stop(state)
  /\ UNCHANGED <<listener, console, config, known, session, retry, board, late,
                 reported, cause, capture>>

Wait ==
  /\ test = "wait"
  /\ IF Unfinished THEN test' = "waiting" /\ Release("test")
                   ELSE test' = "tell" /\ Keep("test")
  /\ UNCHANGED <<listener, console, config, runner, state, known, server, session,
                 retry, board, late, reported, cause, capture>>

WaitOn ==
  /\ test = "waiting" /\ test' = "wait"
  /\ Acquire("test")
  /\ UNCHANGED <<listener, console, config, runner, state, known, server, session,
                 retry, board, late, reported, cause, capture>>

(* ... and call capture(), which calls target_end() and may kill a test    *)
(* that is stopped already.                                                *)
Tell ==
  /\ test = "tell" /\ test' = "leave"
  /\ ~config /\ Keep("test")
  /\ Capture(late)
  /\ state' = "finished"
  /\ UNCHANGED <<listener, console, config, runner, known, server, session, retry,
                 board, late, reported, cause>>

\* Out of the loop, the runner is initialised again
Done ==
  /\ test = "loop" /\ (finished \/ (~running /\ caught))
  /\ test' = "leave" /\ Keep("test")
  /\ UNCHANGED <<listener, console, config, runner, state, known, server, session,
                 retry, board, late, reported, cause, capture>>

Leave ==
  /\ test = "leave" /\ Release("test")
  /\ test' = IF caught THEN "raised" ELSE "close"
  /\ opened' = FALSE /\ running' = FALSE /\ finished' = FALSE /\ caught' = FALSE
  /\ state' = "finished" /\ known' = FALSE
  /\ UNCHANGED <<listener, console, config, server, session, retry, board, late,
                 reported, cause, capture>>

\* The console is closed without waiting for ever for its thread
Close ==
  /\ test = "close" /\ test' = "report"
  /\ closed' = TRUE
  /\ UNCHANGED <<listener, console, lock, config, runner, state, known, server,
                 session, retry, lines, line, late, reported, cause, capture>>

Report ==
  /\ test = "report" /\ test' = "over"
  /\ ~config
  /\ reported' = output /\ output' = NoOutput
  /\ UNCHANGED <<listener, console, lock, config, runner, state, known, server,
                 session, retry, board, late, cause, started, restarts>>

TestThread ==
  \/ Open \/ StartListener \/ Lock \/ Length \/ Poll \/ Sleep \/ Wake \/ TimeOut
  \/ Wait \/ WaitOn \/ Tell \/ Done \/ Leave \/ Close \/ Report

-----------------------------------------------------------------------------
\* The listener thread, _runner(): it looks at the state with the lock held
Look ==
  /\ listener \in {"start", "look"} /\ lock = "none"
  /\ listener' = IF state \in EndStates THEN "end"
                 ELSE IF state \in {"booting", "running"} THEN "look"
                 ELSE "make"
  /\ UNCHANGED <<test, console, lock, config, runner, state, known, server,
                 session, retry, board, late, reported, cause, capture>>

\* _listener() makes and starts a server, both without the lock
Make ==
  /\ listener = "make" /\ listener' = "serve"
  /\ server' = "made" /\ session' = "none" /\ known' = TRUE
  /\ UNCHANGED <<test, console, lock, config, runner, state, retry, board, late,
                 reported, cause, capture>>

\* The runner may have forgotten the server meanwhile
Serve ==
  /\ listener = "serve"
  /\ \/ known /\ listener' = "served" /\ server' = "up"
     \/ (~known \/ MayRaise) /\ listener' = "except" /\ UNCHANGED server
  /\ UNCHANGED <<test, console, lock, config, runner, state, known, session, retry,
                 board, late, reported, cause, capture>>

Run ==
  /\ listener = "served" /\ listener' = IF known THEN "run" ELSE "except"
  /\ UNCHANGED <<test, console, lock, config, runner, state, known, server,
                 session, retry, board, late, reported, cause, capture>>

(* The run of the server ends: with a session, without one in time, or as  *)
(* it was stopped; stopping it twice at a time may raise.                  *)
RunEnds ==
  /\ listener = "run"
  /\ session # "busy"
  /\ server' = "down"
  /\ \/ listener' = "after"
     \/ server = "down" /\ listener' = "except"
  /\ UNCHANGED <<test, console, lock, config, runner, state, known, session, retry,
                 board, late, reported, cause, capture>>

(* Back with the lock: 'booting' takes the place of whatever state the     *)
(* other threads set.  The second run without a session is a time-out.     *)
Loaded ==
  /\ listener = "after" /\ session = "done"
  /\ listener' = "look"
  /\ lock = "none"
  /\ state' = "booting"
  /\ UNCHANGED <<test, console, lock, config, runner, known, server, session,
                 retry, board, late, reported, cause, capture>>

Again == retry = 0
NotLoaded ==
  /\ listener = "after" /\ session # "done"
  /\ retry' = retry + 1
  /\ IF Again
       THEN /\ listener' = "look" /\ lock = "none"
            /\ UNCHANGED <<lock, runner, state, server, cause>>
       ELSE /\ listener' = "wait" /\ Acquire("listener")
            /\ Stop("timeout") /\ cause' = TRUE
  /\ UNCHANGED <<test, console, config, known, session, board, late, reported,
                 capture>>

(* _run_finished() of the listener waits for the test thread to initialise *)
(* the runner again, so there is no timeout() to call any more.            *)
ListenerWait ==
  /\ listener = "wait" /\ Release("listener")
  /\ listener' = IF Unfinished THEN "waiting" ELSE "look"
  /\ UNCHANGED <<test, console, config, runner, state, known, server, session,
                 retry, board, late, reported, cause, capture>>

ListenerWaitOn ==
  /\ listener = "waiting" /\ listener' = "wait"
  /\ Acquire("listener")
  /\ UNCHANGED <<test, console, config, runner, state, known, server, session,
                 retry, board, late, reported, cause, capture>>

End ==
  /\ listener \in {"end", "except"} /\ lock = "none"
  /\ caught' = (listener = "except")
  /\ finished' = TRUE /\ running' = FALSE
  /\ listener' = "dead"
  /\ UNCHANGED <<test, console, lock, config, opened, state, known, server,
                 session, retry, board, late, reported, cause, capture>>

ListenerThread == Look \/ Make \/ Serve \/ Run \/ RunEnds \/ Loaded
                  \/ NotLoaded \/ ListenerWait \/ ListenerWaitOn \/ End

\* The board (external) asks for its image and gets it, or is gone before
Ask ==
  /\ server = "up" /\ session = "none" /\ session' = "busy"
  /\ UNCHANGED <<test, listener, console, lock, config, runner, state, known,
                 server, retry, board, late, reported, cause, capture>>

Load ==
  /\ session = "busy" /\ session' = "done"
  /\ UNCHANGED <<test, listener, console, lock, config, runner, state, known,
                 server, retry, board, late, reported, cause, capture>>

-----------------------------------------------------------------------------
\* The console thread reads a line and calls capture()
ReadLine ==
  /\ console = "read" /\ ~closed /\ lines < MaxLines
  /\ ~config /\ config' = TRUE
  /\ lines' = lines + 1 /\ line' \in Printed
  /\ console' = "capture"
  /\ UNCHANGED <<test, listener, lock, runner, state, known, server, session,
                 retry, closed, late, reported, cause, capture>>

\* What capture() calls for the line, if it calls the runner
CallsRunner ==
  \/ line = "BEGIN" /\ ~started
  \/ line = "BOOT" /\ ~OkToKill(line)
  \/ line = "RESET"
  \/ line \in EndLines

(* The lines after which a test may end.  An end line ends the test in the *)
(* listener even if no test has started: target_end() is always called.    *)
Ends(l) == OkToKill(l) \/ l \in EndLines \/ (l = "RESET" /\ started)

TargetStart == line = "BEGIN" /\ state' = "running" /\ UNCHANGED <<runner, server>>

\* Mutant: the restart of a target finishes its test
TargetRestartStops ==
  /\ line = "BOOT" /\ state' = "booting"
  /\ UNCHANGED <<opened, running, caught>>
  /\ \/ StopServer /\ finished' = (finished \/ known)
     \/ StopRaises /\ UNCHANGED finished
TargetRestart ==
  /\ line = "BOOT" /\ state' = "booting"
  /\ UNCHANGED <<opened, running, caught>>
  /\ \/ StopServer /\ finished' = (finished /\ ~known)
     \/ StopRaises /\ UNCHANGED finished

TargetReset ==
  /\ line = "RESET"
  /\ IF started THEN state' = "shutdown" /\ UNCHANGED server
                ELSE state' = "booting" /\ StopServer
  /\ UNCHANGED runner

TargetEnd ==
  line \in EndLines /\ state' = "finished" /\ UNCHANGED <<runner, server>>

\* The calls need the lock of the runner, with that of the configuration
CaptureLine ==
  /\ console = "capture"
  /\ IF CallsRunner
       THEN /\ lock = "none"
            /\ TargetStart \/ TargetRestart \/ TargetReset \/ TargetEnd
       ELSE UNCHANGED <<runner, state, server>>
  /\ Capture(line)
  /\ config' = FALSE
  /\ console' = IF OkToKill(line) THEN "kill" ELSE "read"
  /\ cause' = (cause \/ Ends(line))
  /\ UNCHANGED <<test, listener, lock, known, session, retry, board, late,
                 reported>>

\* An exception of target_reset() ends the console thread
CaptureRaises ==
  /\ console = "capture" /\ console' = "dead"
  /\ line = "RESET" /\ ~started /\ lock = "none" /\ StopRaises
  /\ config' = FALSE
  /\ UNCHANGED <<test, listener, lock, runner, state, known, session, retry, board,
                 late, reported, cause, capture>>

\* _ok_kill() calls kill(), if the configuration still has the runner
Kill ==
  /\ console = "kill" /\ ~config
  /\ IF test = "over"
       THEN console' = "read" /\ UNCHANGED <<lock, runner, state, server>>
       ELSE console' = "wait" /\ Acquire("console") /\ Stop("shutdown")
  /\ UNCHANGED <<test, listener, config, known, session, retry, board, late,
                 reported, cause, capture>>

KillWait ==
  /\ console = "wait" /\ Release("console")
  /\ console' = IF Unfinished THEN "waiting" ELSE "read"
  /\ UNCHANGED <<test, listener, config, runner, state, known, server, session,
                 retry, board, late, reported, cause, capture>>

KillWaitOn ==
  /\ console = "waiting" /\ console' = "wait"
  /\ Acquire("console")
  /\ UNCHANGED <<test, listener, config, runner, state, known, server, session,
                 retry, board, late, reported, cause, capture>>

ConsoleThread ==
  CaptureLine \/ CaptureRaises \/ Kill \/ KillWait \/ KillWaitOn

Next == TestThread \/ ListenerThread \/ Ask \/ Load \/ ReadLine \/ ConsoleThread

Spec == Init /\ [][Next]_vars

(* No thread sleeps with a lock, so each gets a lock it waits for again    *)
(* and again, and time passes; a board owes the server no end of its load. *)
FairSpec ==
  /\ Spec
  /\ SF_vars(TestThread) /\ SF_vars(ListenerThread) /\ SF_vars(ConsoleThread)
  /\ SF_vars(TestThread /\ test' = "stop")

-----------------------------------------------------------------------------
(* Types of the runner and its threads.                                    *)
TypeOK ==
  /\ test \in {"off", "console", "started", "length", "loop", "poll", "sleep",
               "stop", "wait", "waiting", "tell", "leave", "close", "report"}
              \cup Over
  /\ listener \in {"none", "start", "look", "make", "serve", "served", "run",
                   "after", "wait", "waiting", "end", "except", "dead"}
  /\ console \in {"read", "capture", "kill", "wait", "waiting", "dead"}
  /\ lock \in {"none", "test", "listener", "console"} /\ config \in BOOLEAN
  /\ opened \in BOOLEAN /\ running \in BOOLEAN /\ finished \in BOOLEAN
  /\ caught \in BOOLEAN
  /\ state \in States /\ known \in BOOLEAN
  /\ server \in {"none", "made", "up", "down"}
  /\ session \in {"none", "busy", "done"}
  /\ retry \in 0 .. 2
  /\ lines \in 0 .. MaxLines /\ line \in Lines /\ closed \in BOOLEAN
  /\ late \in Lates \cup {"no"}
  /\ started \in BOOLEAN /\ restarts \in 0 .. MaxLines
  /\ \A s \in {output, reported} : s = NoOutput \/ s \in Seq(Lines)

(* A test that timed out is reported with its time-out, and leaves neither *)
(* the listener nor a server behind, which would have the port of the next *)
(* test: _timeout() waits for the listener before it calls capture().      *)
LateIsWhole ==
  /\ TypeOK
  /\ test = "over" /\ late # "no" =>
       /\ \E i \in 1 .. Len(reported) : reported[i] = late
       /\ listener = "dead" /\ server # "up"

(* A test that is over ended for a reason: its target or the listener      *)
(* ended it, or a time-out did.  The states that the three threads set one *)
(* over the other never end a test that only restarts or loads.            *)
EndIsEarned == test = "over" => cause \/ late # "no"

(* The locks are taken in both orders: open() calls the configuration with *)
(* the lock of the runner, capture() the runner with the configuration's.  *)
Inverted ==
  lock = "test" /\ test \in {"console", "length", "tell"} /\
    config /\ CallsRunner
(* The listener waits for itself, and the test thread for the listener.    *)
BothWait == test \in {"wait", "waiting"} /\ listener \in {"wait", "waiting"}
(* A state or finished were set again after _stop(): the listener stays in *)
(* its loop, or is gone and the test thread does not know.                 *)
LostStop ==
  /\ test \in {"wait", "waiting"}
  /\ \/ listener = "look" /\ state \in {"booting", "running"}
     \/ listener = "dead" /\ ~finished

(* The server sends a block again for ever to a board that is gone, and    *)
(* those who stop it wait for its session.                                 *)
LoadsForEver == <>[](session = "busy")

(* The test ends, or it hangs in one of these four ways.                   *)
EndsOrHangs ==
  <>(test \in Over \/ Inverted \/ BothWait \/ LostStop) \/ LoadsForEver
=============================================================================
