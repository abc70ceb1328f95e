-------------------------------- MODULE LinkSet --------------------------------
(***************************************************************************)
(* What the linker promises: the objects it links are the least set that   *)
(* holds the object files of the command line and, for every symbol one of *)
(* them or the command line leaves open and the base image does not have,  *)
(* the object the symbol table names.  It may only give up when the table  *)
(* names no object for a symbol that is needed.                            *)
(*                                                                         *)
(* Objects and symbols are numbered in the order of their names, which is  *)
(* the order of the maps that hold them.                                   *)
(***************************************************************************)
EXTENDS Integers, FiniteSets

CONSTANTS Objects, Symbols
VARIABLES
  files,     \* the input: kind[o][s] is what o has of s, cmd, base, defines,
             \* undefs are the operands and options of the command line
  verdict,   \* open, linked, failed
  linked     \* the objects of the output
vars == <<files, verdict, linked>>

None == 0                       \* no object

\* The symbol table has one entry for each name: the last object loaded
Last(S) == IF S = {} THEN None ELSE CHOOSE o \in S : \A p \in S : p <= o
Having(f, s, kinds) == {o \in Objects : f.kind[o][s] \in kinds}
FindGlobal(f, s) == Last(Having(f, s, {"global"}))
FindWeak(f, s) == Last(Having(f, s, {"weak", "weakref"}))
Definer(f, s) ==
  IF FindGlobal(f, s) # None \/ s \in f.defines THEN FindGlobal(f, s)
                                                ELSE FindWeak(f, s)

Unresolved(f, o) ==
  IF o = None THEN f.undefs
  ELSE {s \in Symbols : f.kind[o][s] \in {"ref", "weak", "weakref"}}
Needs(f, o) == {Definer(f, s) : s \in Unresolved(f, o) \ f.base}

IsClosed(f, S) ==
  /\ {f.cmd[i] : i \in DOMAIN f.cmd} \subseteq S
  /\ \A o \in S \cup {None} : Needs(f, o) \ {None} \subseteq S
LeastClosed(f) ==
  CHOOSE S \in SUBSET Objects :
    IsClosed(f, S) /\ \A T \in SUBSET Objects : IsClosed(f, T) => S \subseteq T

NoneMissing(S) == \A o \in S \cup {None} : None \notin Needs(files, o)

Init == verdict = "open" /\ linked = {}
Decide(v) == verdict = "open" /\ verdict' = v /\ UNCHANGED files
Link ==
  /\ Decide("linked")
  /\ linked' = LeastClosed(files) /\ NoneMissing(linked')
Fail ==
  /\ Decide("failed")
  /\ ~NoneMissing(LeastClosed(files)) /\ UNCHANGED linked
Next == Link \/ Fail
Spec == Init /\ [][Next]_vars
================================================================================
