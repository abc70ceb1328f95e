--------------------------- MODULE TesterTftp_proofs ---------------------------
(***************************************************************************)
(* Proofs about the %tftp runner of the tester: for every board, whatever  *)
(* it prints and however its test, listener and console threads are        *)
(* scheduled, a test that timed out is reported with its time-out and      *)
(* leaves no server behind, and a test that is over ended for a reason.    *)
(***************************************************************************)
EXTENDS TesterTftp, SequenceTheorems, TLAPS

(* Each lock has an owner, which is where it may be owned.                 *)
Owned == {"console", "length", "loop", "stop", "wait", "tell", "leave"}
Locking ==
  /\ lock = "test" <=> test \in Owned
  /\ lock = "listener" <=> listener = "wait"
  /\ lock = "console" <=> console = "wait"
  /\ config <=> console = "capture"

(* The runner is open from open() to the end of its loop, and runs as long *)
(* as its listener does.                                                   *)
Opening ==
  /\ opened <=> test \in Owned \cup {"started", "poll", "sleep", "waiting"}
  /\ test \in {"off", "console"} => listener = "none" /\ server = "none"
  /\ opened => /\ running <=> listener # "dead"
               /\ caught => listener = "dead"

(* A time-out is told when the listener has ended.                         *)
Waited == {"tell", "leave", "close", "report", "over", "raised"}
TimingOut ==
  /\ test \in {"stop", "wait", "waiting", "tell"} => late # "no"
  /\ late # "no" => test \in {"stop", "wait", "waiting"} \cup Waited
  /\ late # "no" /\ test \in Waited => listener = "dead"

(* As long as the runner knows its server, the server is up only while the *)
(* listener runs it.                                                       *)
Serving ==
  /\ opened /\ listener \in {"serve", "served", "run"} => known
  /\ listener = "serve" => server # "up"
  /\ (opened \/ late # "no") /\ server = "up" => listener \in {"served", "run"}

(* A server is made only after a reset, at most twice without a session.   *)
Retrying ==
  retry = 2 => /\ state # "reset"
               /\ listener \in {"wait", "waiting", "look", "end", "dead"}

(* The output of the test, until it is reported.                           *)
Has(s, l) == \E i \in 1 .. Len(s) : s[i] = l
Capturing ==
  /\ IF test = "over" THEN output = NoOutput ELSE output \in Seq(Lines)
  /\ reported = NoOutput \/ reported \in Seq(Lines)
  /\ restarts <= lines /\ (config => restarts < lines)
  /\ late # "no" /\ test \in {"leave", "close", "report"} => Has(output, late)
  /\ late # "no" /\ test = "over" => Has(reported, late)

(* What may end a test has a cause: a line of the board, the retries of    *)
(* the listener, an exception or a time-out.                               *)
Reason == cause \/ late # "no"
Ending ==
  /\ console \in {"kill", "wait", "waiting"} => cause
  /\ opened /\ (state \in EndStates \/ listener = "end") => Reason
  /\ opened /\ finished => Reason \/ caught
  /\ test = "leave" => Reason \/ caught
  /\ test \in {"close", "report", "over"} => Reason

Control == Locking /\ Opening /\ TimingOut /\ Serving /\ Retrying /\ Ending

IInv == TypeOK /\ Control /\ Capturing

-----------------------------------------------------------------------------
LEMMA TestControl == ASSUME IInv, TestThread PROVE Control'
<1> USE TftpRunnerAssumption DEF IInv, TypeOK, Control, Locking, Opening, TimingOut, Serving, Retrying, Ending, Owned, Waited, Reason, Over, EndStates, States, runner, board, capture, Acquire, Release, Keep, Stop, StopServer, StopRaises, Unfinished
<1>1. CASE Open
  BY <1>1 DEF Open
<1>2. CASE StartListener
  BY <1>2 DEF StartListener
<1>3. CASE Lock
  BY <1>3 DEF Lock
<1>4. CASE Length
  BY <1>4 DEF Length
<1>5. CASE Poll
  BY <1>5 DEF Poll
<1>6. CASE Sleep
  BY <1>6 DEF Sleep
<1>7. CASE Wake
  BY <1>7 DEF Wake
<1>8. CASE TimeOut
  BY <1>8 DEF TimeOut
<1>9. CASE Wait
  BY <1>9 DEF Wait
<1>10. CASE WaitOn
  BY <1>10 DEF WaitOn
<1>11. CASE Tell
  BY <1>11 DEF Tell
<1>12. CASE Done
  BY <1>12 DEF Done
<1>13. CASE Leave
  BY <1>13 DEF Leave
<1>14. CASE Close
  BY <1>14 DEF Close
<1>15. CASE Report
  BY <1>15 DEF Report
<1> QED BY <1>1, <1>2, <1>3, <1>4, <1>5, <1>6, <1>7, <1>8, <1>9, <1>10, <1>11, <1>12, <1>13, <1>14, <1>15 DEF TestThread

LEMMA ListenerControl == ASSUME IInv, ListenerThread PROVE Control'
<1> USE TftpRunnerAssumption DEF IInv, TypeOK, Control, Locking, Opening, TimingOut, Serving, Retrying, Ending, Owned, Waited, Reason, Over, EndStates, States, runner, board, capture, Acquire, Release, Keep, Stop, StopServer, StopRaises, Unfinished
<1>1. CASE Look
  BY <1>1 DEF Look
<1>2. CASE Make
  BY <1>2 DEF Make
<1>3. CASE Serve
  BY <1>3 DEF Serve
<1>4. CASE Run
  BY <1>4 DEF Run
<1>5. CASE RunEnds
  BY <1>5 DEF RunEnds
<1>6. CASE Loaded
  BY <1>6 DEF Loaded
<1>7. CASE NotLoaded
  BY <1>7 DEF NotLoaded, Again
<1>8. CASE ListenerWait
  BY <1>8 DEF ListenerWait
<1>9. CASE ListenerWaitOn
  BY <1>9 DEF ListenerWaitOn
<1>10. CASE End
  BY <1>10 DEF End
<1> QED BY <1>1, <1>2, <1>3, <1>4, <1>5, <1>6, <1>7, <1>8, <1>9, <1>10 DEF ListenerThread

LEMMA BoardControl == ASSUME IInv, Ask \/ Load \/ ReadLine PROVE Control'
<1> USE TftpRunnerAssumption DEF IInv, TypeOK, Control, Locking, Opening, TimingOut, Serving, Retrying, Ending, Owned, Waited, Reason, Over, EndStates, States, runner, board, capture, Acquire, Release, Keep, Stop, StopServer, StopRaises, Unfinished
<1>1. CASE Ask
  BY <1>1 DEF Ask
<1>2. CASE Load
  BY <1>2 DEF Load
<1>3. CASE ReadLine
  BY <1>3 DEF ReadLine
<1> QED BY <1>1, <1>2, <1>3

LEMMA ConsoleControl == ASSUME IInv, ConsoleThread PROVE Control'
<1> USE TftpRunnerAssumption DEF IInv, TypeOK, Control, Locking, Opening, TimingOut, Serving, Retrying, Ending, Owned, Waited, Reason, Over, EndStates, States, runner, board, capture, Acquire, Release, Keep, Stop, StopServer, StopRaises, Unfinished
<1>1. CASE CaptureLine
  <2>1. UNCHANGED <<test, listener, lock, known, late, retry>> /\ config' = FALSE
    BY <1>1 DEF CaptureLine
  <2>2. console' \in {"read", "kill"} /\ (console' = "kill" => cause')
    BY <1>1 DEF CaptureLine, Ends
  <2>3. console = "capture" /\ config /\ (cause => cause')
    BY <1>1 DEF CaptureLine
  <2>4. CASE ~CallsRunner
    BY <1>1, <2>1, <2>2, <2>3, <2>4 DEF CaptureLine
  <2>5. CASE CallsRunner /\ TargetStart
    BY <1>1, <2>1, <2>2, <2>3, <2>5 DEF CaptureLine, TargetStart
  <2>6. CASE CallsRunner /\ TargetRestart
    BY <1>1, <2>1, <2>2, <2>3, <2>6 DEF CaptureLine, TargetRestart
  <2>7. CASE CallsRunner /\ TargetReset
    BY <1>1, <2>1, <2>2, <2>3, <2>7 DEF CaptureLine, TargetReset, Ends
  <2>8. CASE CallsRunner /\ TargetEnd
    BY <1>1, <2>1, <2>2, <2>3, <2>8 DEF CaptureLine, TargetEnd, Ends
  <2> QED BY <1>1, <2>4, <2>5, <2>6, <2>7, <2>8 DEF CaptureLine
<1>2. CASE CaptureRaises
  BY <1>2 DEF CaptureRaises
<1>3. CASE Kill
  BY <1>3 DEF Kill
<1>4. CASE KillWait
  BY <1>4 DEF KillWait
<1>5. CASE KillWaitOn
  BY <1>5 DEF KillWaitOn
<1> QED BY <1>1, <1>2, <1>3, <1>4, <1>5 DEF ConsoleThread

-----------------------------------------------------------------------------
(* The types, without those of what is captured.                           *)
Types ==
  /\ test \in {"off", "console", "started", "length", "loop", "poll", "sleep",
               "stop", "wait", "waiting", "tell", "leave", "close", "report"}
              \cup Over
  /\ listener \in {"none", "start", "look", "make", "serve", "served", "run",
                   "after", "wait", "waiting", "end", "except", "dead"}
  /\ console \in {"read", "capture", "kill", "wait", "waiting", "dead"}
  /\ lock \in {"none", "test", "listener", "console"} /\ config \in BOOLEAN
  /\ opened \in BOOLEAN /\ running \in BOOLEAN /\ finished \in BOOLEAN
  /\ caught \in BOOLEAN
  /\ state \in States /\ known \in BOOLEAN
  /\ server \in {"none", "made", "up", "down"}
  /\ session \in {"none", "busy", "done"}
  /\ retry \in 0 .. 2
  /\ lines \in 0 .. MaxLines /\ line \in Lines /\ closed \in BOOLEAN
  /\ late \in Lates \cup {"no"}

RunnerTypes ==
  /\ opened \in BOOLEAN /\ running \in BOOLEAN /\ finished \in BOOLEAN
  /\ caught \in BOOLEAN

LEMMA StopServerTypes ==
  ASSUME IInv, StopServer \/ StopRaises
  PROVE  server' \in {"none", "made", "up", "down"}
BY DEF StopServer, StopRaises, IInv, TypeOK

LEMMA StopTypes ==
  ASSUME IInv, NEW before \in States, Stop(before)
  PROVE  /\ RunnerTypes'
         /\ state' \in States /\ server' \in {"none", "made", "up", "down"}
<1>1. finished' \in BOOLEAN
  <2>1. CASE UNCHANGED finished
    BY <2>1 DEF IInv, TypeOK
  <2>2. CASE finished' = TRUE
    BY <2>2
  <2> QED BY <2>1, <2>2 DEF Stop
<1>2. RunnerTypes'
  BY <1>1 DEF Stop, IInv, TypeOK, RunnerTypes
<1>3. state' \in States
  BY DEF Stop, States
<1> QED BY <1>2, <1>3, StopServerTypes DEF Stop

LEMMA TestTypes == ASSUME IInv, TestThread PROVE Types'
<1> USE TftpRunnerAssumption DEF IInv, TypeOK, Types, Over, EndStates, States, runner, board, capture, Acquire, Release, Keep, Stop, StopServer, StopRaises, Unfinished
<1>1. CASE Open
  <2>1. opened' \in BOOLEAN
    BY <1>1 DEF Open
  <2>2. running' \in BOOLEAN
    BY <1>1 DEF Open
  <2>3. finished' \in BOOLEAN
    BY <1>1 DEF Open
  <2>4. caught' \in BOOLEAN
    BY <1>1 DEF Open
  <2> QED BY <1>1, <2>1, <2>2, <2>3, <2>4 DEF Open
<1>2. CASE StartListener
  BY <1>2 DEF StartListener
<1>3. CASE Lock
  BY <1>3 DEF Lock
<1>4. CASE Length
  BY <1>4 DEF Length
<1>5. CASE Poll
  BY <1>5 DEF Poll
<1>6. CASE Sleep
  BY <1>6 DEF Sleep
<1>7. CASE Wake
  BY <1>7 DEF Wake
<1>8. CASE TimeOut
  <2>1. /\ RunnerTypes'
        /\ state' \in States /\ server' \in {"none", "made", "up", "down"}
    BY <1>8, StopTypes DEF TimeOut
  <2> HIDE DEF States, Stop
  <2> QED BY <1>8, <2>1 DEF TimeOut, RunnerTypes
<1>9. CASE Wait
  BY <1>9 DEF Wait
<1>10. CASE WaitOn
  BY <1>10 DEF WaitOn
<1>11. CASE Tell
  BY <1>11 DEF Tell
<1>12. CASE Done
  BY <1>12 DEF Done
<1>13. CASE Leave
  <2>1. opened' \in BOOLEAN
    BY <1>13 DEF Leave
  <2>2. running' \in BOOLEAN
    BY <1>13 DEF Leave
  <2>3. finished' \in BOOLEAN
    BY <1>13 DEF Leave
  <2>4. caught' \in BOOLEAN
    BY <1>13 DEF Leave
  <2>5. known' \in BOOLEAN
    BY <1>13 DEF Leave
  <2> QED BY <1>13, <2>1, <2>2, <2>3, <2>4, <2>5 DEF Leave
<1>14. CASE Close
  BY <1>14 DEF Close
<1>15. CASE Report
  BY <1>15 DEF Report
<1> QED BY <1>1, <1>2, <1>3, <1>4, <1>5, <1>6, <1>7, <1>8, <1>9, <1>10, <1>11, <1>12, <1>13, <1>14, <1>15 DEF TestThread

LEMMA ListenerTypes == ASSUME IInv, ListenerThread PROVE Types'
<1> USE TftpRunnerAssumption DEF IInv, TypeOK, Types, Over, EndStates, States, runner, board, capture, Acquire, Release, Keep, Stop, StopServer, StopRaises, Unfinished
<1>1. CASE Look
  BY <1>1 DEF Look
<1>2. CASE Make
  BY <1>2 DEF Make
<1>3. CASE Serve
  BY <1>3 DEF Serve
<1>4. CASE Run
  BY <1>4 DEF Run
<1>5. CASE RunEnds
  BY <1>5 DEF RunEnds
<1>6. CASE Loaded
  BY <1>6 DEF Loaded
<1>7. CASE NotLoaded
  <2>1. retry' \in 0 .. 2
    BY <1>7 DEF NotLoaded, Control, Retrying
  <2>2. CASE UNCHANGED <<lock, runner, state, server>> /\ listener' = "look"
    BY <1>7, <2>1, <2>2 DEF NotLoaded
  <2>3. CASE listener' = "wait" /\ Acquire("listener") /\ Stop("timeout")
    <3>1. /\ RunnerTypes'
          /\ state' \in States /\ server' \in {"none", "made", "up", "down"}
      BY <2>3, StopTypes DEF States
    <3> HIDE DEF States, Stop
    <3> QED BY <1>7, <2>1, <2>3, <3>1 DEF NotLoaded, RunnerTypes
  <2> QED BY <1>7, <2>2, <2>3 DEF NotLoaded
<1>8. CASE ListenerWait
  BY <1>8 DEF ListenerWait
<1>9. CASE ListenerWaitOn
  BY <1>9 DEF ListenerWaitOn
<1>10. CASE End
  <2>1. caught' \in BOOLEAN
    BY <1>10 DEF End
  <2>2. finished' \in BOOLEAN
    BY <1>10 DEF End
  <2>3. running' \in BOOLEAN
    BY <1>10 DEF End
  <2> QED BY <1>10, <2>1, <2>2, <2>3 DEF End
<1> QED BY <1>1, <1>2, <1>3, <1>4, <1>5, <1>6, <1>7, <1>8, <1>9, <1>10 DEF ListenerThread

LEMMA BoardTypes == ASSUME IInv, Ask \/ Load \/ ReadLine PROVE Types'
<1> USE TftpRunnerAssumption DEF IInv, TypeOK, Types, Over, EndStates, States, runner, board, capture, Acquire, Release, Keep, Stop, StopServer, StopRaises, Unfinished
<1>1. CASE Ask
  BY <1>1 DEF Ask
<1>2. CASE Load
  BY <1>2 DEF Load
<1>3. CASE ReadLine
  BY <1>3 DEF ReadLine
<1> QED BY <1>1, <1>2, <1>3

LEMMA ConsoleTypes == ASSUME IInv, ConsoleThread PROVE Types'
<1> USE TftpRunnerAssumption DEF IInv, TypeOK, Types, Over, EndStates, States, runner, board, capture, Acquire, Release, Keep, Stop, StopServer, StopRaises, Unfinished
<1>1. CASE CaptureLine
  <2>1. config' \in BOOLEAN /\ console' \in {"read", "kill"}
    BY <1>1 DEF CaptureLine
  <2>2. UNCHANGED <<test, listener, lock, known, session, retry, board, late,
                   opened, running, caught>>
    BY <1>1 DEF CaptureLine, TargetStart, TargetRestart, TargetReset, TargetEnd
  <2>3. server' \in {"none", "made", "up", "down"}
    BY <1>1, StopServerTypes
    DEF CaptureLine, TargetStart, TargetRestart, TargetReset, TargetEnd
  <2>4. state' \in States
    BY <1>1 DEF CaptureLine, TargetStart, TargetRestart, TargetReset, TargetEnd
  <2>5. finished' \in BOOLEAN
    <3>1. finished' \in {finished, finished /\ ~known}
      BY <1>1 DEF CaptureLine, TargetStart, TargetRestart, TargetReset, TargetEnd
    <3> QED BY <3>1
  <2> QED BY <2>1, <2>2, <2>3, <2>4, <2>5
<1>2. CASE CaptureRaises
  <2>1. config' \in BOOLEAN
    BY <1>2 DEF CaptureRaises
  <2>2. server' \in {"none", "made", "up", "down"}
    BY <1>2, StopServerTypes DEF CaptureRaises
  <2> QED BY <1>2, <2>1, <2>2 DEF CaptureRaises
<1>3. CASE Kill
  <2>1. CASE console' = "read" /\ UNCHANGED <<lock, runner, state, server>>
    BY <1>3, <2>1 DEF Kill
  <2>2. CASE console' = "wait" /\ Acquire("console") /\ Stop("shutdown")
    <3>1. /\ RunnerTypes'
          /\ state' \in States /\ server' \in {"none", "made", "up", "down"}
      BY <2>2, StopTypes DEF States
    <3> HIDE DEF States, Stop
    <3> QED BY <1>3, <2>2, <3>1 DEF Kill, RunnerTypes
  <2> QED BY <1>3, <2>1, <2>2 DEF Kill
<1>4. CASE KillWait
  BY <1>4 DEF KillWait
<1>5. CASE KillWaitOn
  BY <1>5 DEF KillWaitOn
<1> QED BY <1>1, <1>2, <1>3, <1>4, <1>5 DEF ConsoleThread

-----------------------------------------------------------------------------
(* What is captured: a line is added at the end of what there is.          *)
LEMMA Appended ==
  ASSUME NEW s \in Seq(Lines), NEW l \in Lines, NEW k
  PROVE  /\ Append(s, l) \in Seq(Lines) /\ Append(s, l) # NoOutput
         /\ s # NoOutput /\ Has(Append(s, l), l)
         /\ Has(s, k) => Has(Append(s, l), k)
<1>1. /\ Append(s, l) \in Seq(Lines) /\ Len(Append(s, l)) = Len(s) + 1
      /\ Append(s, l)[Len(s) + 1] = l
      /\ \A i \in 1 .. Len(s) : Append(s, l)[i] = s[i]
  BY AppendProperties
<1>2. \A t \in Seq(Lines) : t # NoOutput
  <2>1. SUFFICES ASSUME NoOutput \in Seq(Lines) PROVE FALSE
    OBVIOUS
  <2>2. 1 \in 1 .. Len(NoOutput) /\ NoOutput[1] = "none"
    BY DEF NoOutput
  <2>3. NoOutput[1] \in Lines
    BY <2>1, <2>2, ElementOfSeq
  <2> QED BY <2>2, <2>3 DEF Lines
<1>3. Has(Append(s, l), l)
  BY <1>1, LenProperties DEF Has
<1>4. Has(s, k) => Has(Append(s, l), k)
  BY <1>1, LenProperties DEF Has
<1> QED BY <1>1, <1>2, <1>3, <1>4

Captured ==
  /\ Capturing
  /\ started \in BOOLEAN /\ restarts \in 0 .. MaxLines

\* A step that captures and reports nothing
LEMMA QuietCaptured ==
  ASSUME IInv, UNCHANGED <<capture, reported, config, lines>>,
         test' = "over" <=> test = "over",
         late' # "no" /\ test' \in {"leave", "close", "report", "over"} =>
           late' = late /\ (test \in {"leave", "close", "report"} \/ test' = test)
  PROVE  Captured'
<1> USE DEF IInv, TypeOK, Captured, capture
<1>1. /\ (IF test' = "over" THEN output' = NoOutput ELSE output' \in Seq(Lines))
      /\ reported' = NoOutput \/ reported' \in Seq(Lines)
      /\ restarts' <= lines' /\ (config' => restarts' < lines')
      /\ started' \in BOOLEAN /\ restarts' \in 0 .. MaxLines
  BY DEF Capturing
<1>2. late' # "no" /\ test' \in {"leave", "close", "report"} => Has(output', late')
  BY DEF Capturing
<1>3. late' # "no" /\ test' = "over" => Has(reported', late')
  BY DEF Capturing
<1> QED BY <1>1, <1>2, <1>3 DEF Capturing, Has

LEMMA TestCaptured == ASSUME IInv, TestThread PROVE Captured'
<1> USE TftpRunnerAssumption DEF IInv, TypeOK
<1>1. CASE Tell
  <2>1. /\ UNCHANGED <<reported, config, lines, late>>
        /\ test = "tell" /\ test' = "leave" /\ Capture(late)
    BY <1>1 DEF Tell, board
  <2>2. late \in Lates /\ late \in Lines /\ output \in Seq(Lines)
    BY <2>1 DEF Control, TimingOut, Capturing, Lines
  <2>3. output' = Append(output, late)
    BY <2>1, <2>2, Appended DEF Capture
  <2>4. output' \in Seq(Lines) /\ Has(output', late)
    BY <2>2, <2>3, Appended
  <2>5. started' \in BOOLEAN
    BY <2>1 DEF Capture, Started
  <2>6. restarts' = restarts
    BY <2>1, <2>2 DEF Capture
  <2> QED BY <2>1, <2>4, <2>5, <2>6 DEF Captured, Capturing
<1>2. CASE Report
  <2>1. /\ UNCHANGED <<started, restarts, config, lines, late>>
        /\ test = "report" /\ test' = "over"
        /\ reported' = output /\ output' = NoOutput
    BY <1>2 DEF Report, board
  <2>2. output \in Seq(Lines) /\ (late # "no" => Has(output, late))
    BY <2>1 DEF Capturing
  <2>3. late' # "no" => Has(reported', late')
    BY <2>1, <2>2
  <2> QED BY <2>1, <2>2, <2>3 DEF Captured, Capturing
<1>3. CASE ~Tell /\ ~Report
  <2>1. UNCHANGED <<capture, reported, config, lines>>
    BY <1>3 DEF TestThread, Open, StartListener, Lock, Length, Poll, Sleep, Wake,
       TimeOut, Wait, WaitOn, Done, Leave, Close, board
  <2>2. test # "over" /\ test' # "over"
    BY <1>3 DEF TestThread, Open, StartListener, Lock, Length, Poll, Sleep, Wake,
       TimeOut, Wait, WaitOn, Done, Leave, Close
  <2>3. test' \in {"leave", "close", "report"} /\ late' # "no" =>
          late' = late /\ test \in {"leave", "close", "report"}
    BY <1>3 DEF TestThread, Open, StartListener, Lock, Length, Poll, Sleep, Wake,
       TimeOut, Wait, WaitOn, Done, Leave, Close, Control, TimingOut, Waited
  <2> QED BY <2>1, <2>2, <2>3, QuietCaptured
<1> QED BY <1>1, <1>2, <1>3

LEMMA ListenerCaptured == ASSUME IInv, ListenerThread \/ Ask \/ Load PROVE Captured'
<1>1. UNCHANGED <<test, late, capture, reported, config, lines>>
  BY DEF ListenerThread, Look, Make, Serve, Run, RunEnds, Loaded, NotLoaded,
     ListenerWait, ListenerWaitOn, End, Ask, Load, board
<1> QED BY <1>1, QuietCaptured

LEMMA ConsoleCaptured == ASSUME IInv, ReadLine \/ ConsoleThread PROVE Captured'
<1> USE DEF IInv, TypeOK
<1>1. CASE ReadLine
  <2>1. /\ UNCHANGED <<test, late, capture, reported>>
        /\ ~config /\ config' /\ lines' = lines + 1
    BY <1>1 DEF ReadLine
  <2> QED BY <2>1 DEF Captured, Capturing, capture, Has
<1>2. CASE CaptureLine
  <2>1. /\ UNCHANGED <<test, late, reported, lines>>
        /\ config' = FALSE /\ Capture(line)
    BY <1>2 DEF CaptureLine, board
  <2>2. config
    BY <1>2 DEF CaptureLine, Control, Locking
  <2>3. started' \in BOOLEAN
    BY <2>1 DEF Capture, Started
  <2>4. restarts' \in {restarts, restarts + 1}
    BY <2>1 DEF Capture
  <2>5. restarts' \in 0 .. MaxLines /\ restarts' <= lines
    BY <2>2, <2>4, TftpRunnerAssumption DEF Capturing
  <2>6. CASE test = "over"
    BY <2>1, <2>3, <2>5, <2>6 DEF Captured, Capturing, Capture, Has
  <2>7. CASE test # "over"
    <3>1. output \in Seq(Lines)
      BY <2>7 DEF Capturing
    <3>2. output' = Append(output, line)
      BY <2>1, <3>1, Appended DEF Capture
    <3>3. output' \in Seq(Lines) /\ (Has(output, late) => Has(output', late))
      BY <3>1, <3>2, Appended
    <3>4. late' # "no" /\ test' \in {"leave", "close", "report"} => Has(output', late')
      BY <2>1, <3>3 DEF Capturing
    <3>5. Capturing'
      BY <2>1, <2>5, <2>7, <3>3, <3>4 DEF Capturing
    <3> QED BY <2>3, <2>5, <3>5 DEF Captured
  <2> QED BY <2>6, <2>7
<1>3. CASE CaptureRaises
  <2>1. UNCHANGED <<test, late, capture, reported, lines>> /\ ~config'
    BY <1>3 DEF CaptureRaises, board
  <2> QED BY <2>1 DEF Captured, Capturing, capture, Has
<1>4. CASE Kill \/ KillWait \/ KillWaitOn
  <2>1. UNCHANGED <<test, late, capture, reported, config, lines>>
    BY <1>4 DEF Kill, KillWait, KillWaitOn, board
  <2> QED BY <2>1, QuietCaptured
<1> QED BY <1>1, <1>2, <1>3, <1>4 DEF ConsoleThread

-----------------------------------------------------------------------------
LEMMA InitInv == Init => IInv
<1> SUFFICES ASSUME Init PROVE IInv
  OBVIOUS
<1> USE TftpRunnerAssumption DEF Init
<1>1. output \in Seq(Lines) /\ reported = NoOutput
  <2>1. <<>> \in Seq(Lines)
    OBVIOUS
  <2> QED BY <2>1
<1>2. TypeOK
  <2>1. /\ retry \in 0 .. 2 /\ lines \in 0 .. MaxLines
        /\ restarts \in 0 .. MaxLines
    OBVIOUS
  <2>2. \A s \in {output, reported} : s = NoOutput \/ s \in Seq(Lines)
    BY <1>1
  <2>3. /\ config \in BOOLEAN /\ opened \in BOOLEAN /\ running \in BOOLEAN
        /\ finished \in BOOLEAN /\ caught \in BOOLEAN /\ known \in BOOLEAN
        /\ closed \in BOOLEAN /\ started \in BOOLEAN
    OBVIOUS
  <2> QED BY <2>1, <2>2, <2>3 DEF TypeOK, Over, States, Lines
<1>3. Control
  BY DEF Control, Locking, Opening, TimingOut, Serving, Retrying, Ending, Owned,
     Waited, EndStates
<1>4. Capturing
  BY <1>1 DEF Capturing
<1> QED BY <1>2, <1>3, <1>4 DEF IInv

LEMMA StepInv == ASSUME IInv, [Next]_vars PROVE IInv'
<1>1. CASE Next
  <2>1. Control' /\ Types' /\ Captured'
    BY <1>1, TestControl, ListenerControl, BoardControl, ConsoleControl, TestTypes,
       ListenerTypes, BoardTypes, ConsoleTypes, TestCaptured, ListenerCaptured,
       ConsoleCaptured DEF Next
  <2>2. \A s \in {output', reported'} : s = NoOutput \/ s \in Seq(Lines)
    BY <2>1 DEF Captured, Capturing
  <2> QED BY <2>1, <2>2 DEF IInv, TypeOK, Types, Captured
<1>2. CASE UNCHANGED vars
  BY <1>2 DEF vars, runner, board, capture, IInv, TypeOK, Control, Locking, Opening,
     TimingOut, Serving, Retrying, Ending, Reason, Capturing, Has
<1> QED BY <1>1, <1>2

-----------------------------------------------------------------------------
(* The inductive invariant: who has a lock is where it stands, the runner  *)
(* runs as long as its listener, the server is up only as long as the      *)
(* listener runs it, and nothing ends a test but a line, the retries of    *)
(* the listener, an exception or a time-out (tftp.py 110-320).             *)
THEOREM Invariant == Spec => []IInv
<1>1. Init => IInv
  BY InitInv
<1>2. IInv /\ [Next]_vars => IInv'
  BY StepInv
<1> QED BY <1>1, <1>2, PTL DEF Spec

(* A time-out is always told after the listener has ended with its server, *)
(* so the report of the test has it and the port is free for the next test *)
(* (tftp.py 129-139, config.py 110-120).                                   *)
THEOREM LateTestIsWhole == Spec => []LateIsWhole
<1>1. IInv => LateIsWhole
  BY DEF IInv, Control, TimingOut, Waited, Serving, Capturing, Has, LateIsWhole
<1> QED BY <1>1, Invariant, PTL

(* No interleaving of what the threads write to the state and the flags of *)
(* the runner ends a test without a reason (tftp.py 241-261).              *)
THEOREM EndsAreEarned == Spec => []EndIsEarned
<1>1. IInv => EndIsEarned
  BY DEF IInv, Control, Ending, Reason, EndIsEarned
<1> QED BY <1>1, Invariant, PTL
===============================================================================
