------------------------------ MODULE TestCapture ------------------------------
(***************************************************************************)
(* capture() of the tester's configuration, tester/rt/config.py: the lines *)
(* a target prints drive its test.  A line is what capture() looks for in  *)
(* it: the banners, the target's own start (target_start_regex) and any    *)
(* other line.                                                             *)
(***************************************************************************)
EXTENDS Naturals, Sequences

CONSTANTS
  KillOnEnd,      (* the runner is stopped at the end of a test: not %execute *)
  MaxRestarts     (* %{max_restarts}                                         *)

VARIABLES
  started,        \* test_started
  restarts,       \* how often the target started before its test did
  output          \* the lines captured, NoOutput before and after the test

capture == <<started, restarts, output>>

NoOutput == <<"none">>
Lines == {"BEGIN", "END", "FATAL", "USER_INPUT", "BOOT", "RESET", "TEXT", "TIMEOUT",
          "TEST_TOO_LONG"}
EndLines == {"END", "FATAL", "TIMEOUT", "TEST_TOO_LONG"}

Started(line) == started \/ line = "BEGIN"

\* The lines after which the target is stopped, with the state before the line
OkToKill(line) ==
  \/ line = "USER_INPUT"
  \/ line = "BOOT" /\ (started \/ restarts + 1 > MaxRestarts)
  \/ KillOnEnd /\ line \in EndLines /\ started

CaptureInit == started = FALSE /\ restarts = 0 /\ output = NoOutput

\* capture() from its lock to its unlock
Capture(line) ==
  /\ started' = Started(line)
  /\ restarts' = IF line = "BOOT" /\ ~started THEN restarts + 1 ELSE restarts
  /\ output' = IF output = NoOutput THEN NoOutput ELSE Append(output, line)
=============================================================================
