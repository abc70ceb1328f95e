------------------------------ MODULE OrderedLog ------------------------------
(***************************************************************************)
(* What the runner of tester/rt/test.py promises of its log, however the   *)
(* tests run in parallel: the tests are logged one by one in the order of  *)
(* their numbers, none before it has ended.                                *)
(***************************************************************************)
EXTENDS Naturals

CONSTANT Total    (* the number of tests                                     *)

VARIABLES
  ended,          \* the tests that have a result
  logged          \* how many tests were logged

Init == ended = {} /\ logged = 0

End(S) == ended' = ended \cup S /\ UNCHANGED logged

Log == /\ logged + 1 \in ended
       /\ logged' = logged + 1
       /\ UNCHANGED ended

Next == (\E S \in SUBSET (1 .. Total) : End(S)) \/ Log

Spec == Init /\ [][Next]_<<ended, logged>>
=============================================================================
