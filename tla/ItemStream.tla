------------------------------ MODULE ItemStream ------------------------------
(***************************************************************************)
(* What the framing of a record stream promises: of the items a server     *)
(* sends, the client visits the first, the second and so on, each once and *)
(* unchanged, or it reports an error and visits no more.                   *)
(***************************************************************************)
EXTENDS Naturals, Sequences

VARIABLES
  sent,                \* the items of the server
  visited,             \* the items the client visited
  failed               \* it reported an error
-----------------------------------------------------------------------------
Init == visited = <<>> /\ failed = FALSE

Visit == /\ ~failed /\ Len(visited) < Len(sent)
         /\ visited' = Append(visited, sent[Len(visited) + 1])
         /\ UNCHANGED <<sent, failed>>

Fail == failed' = TRUE /\ UNCHANGED <<sent, visited>>

Next == Visit \/ Fail

Spec == Init /\ [][Next]_<<sent, visited, failed>>
=============================================================================
