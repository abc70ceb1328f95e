------------------------------ MODULE RldResolver ------------------------------
(***************************************************************************)
(* The symbol resolver of the RTEMS linker, rtemstoolkit/rld-resolver.cpp: *)
(* from the object files of the command line and the forced symbols to the *)
(* list of the objects that are linked.  resolve_symbols() calls itself    *)
(* for each object it found: its frames are the variable stack.            *)
(*                                                                         *)
(* The symbol table is what object::load_symbols() makes of the object     *)
(* files and the members of the libraries, in the order of their names:    *)
(* see the definitions of LinkSet.  A weak symbol, even an undefined one,  *)
(* goes into the table and into the list of unresolved symbols.            *)
(*                                                                         *)
(* Not here: the order of the dependents (list::merge by address), the     *)
(* reference counts, which only feed a warning, and the verbose output     *)
(* with the nesting counter only it uses.                                  *)
(***************************************************************************)
EXTENDS Integers, Sequences, FiniteSets

CONSTANTS
  Objects,      (* the numbers of the object files and the library members  *)
  Symbols,      (* the numbers of the symbols                               *)
  Inputs        (* the inputs of the linker: see files below                *)

VARIABLES
  files,        \* the input, never changed
  at,           \* symbol::object_ of the unresolved symbols of an object
  resolving,    \* the objects with the flag resolving_
  resolved,     \* the objects with the flag resolved_
  stack,        \* the calls of resolve_symbols()
  top,          \* the loop of resolve(): 0 are the undefined symbols
  dependents,
  status        \* running, done, error (the exception), crash

vars == <<files, at, resolving, resolved, stack, top, dependents, status>>

Elements(s) == {s[i] : i \in DOMAIN s}
Linked == Elements(files.cmd) \cup dependents

Links == INSTANCE LinkSet WITH
  verdict <- CASE status = "running" -> "open"
               [] status = "done" -> "linked"
               [] OTHER -> "failed",
  linked <- IF status = "done" THEN Linked ELSE {}

None == 0       \* no object: the undefines, the base image, a define
Kinds == {"none", "global", "weak", "weakref", "ref"}
Input == [kind : [Objects -> [Symbols -> Kinds]], cmd : Seq(Objects),
          base : SUBSET Symbols, defines : SUBSET Symbols,
          undefs : SUBSET Symbols]

ASSUME ResolverAssumption ==
  /\ IsFiniteSet(Objects) /\ Objects = 1 .. Cardinality(Objects)
  /\ Symbols \subseteq Nat
  /\ Inputs \subseteq Input

-----------------------------------------------------------------------------
\* A weak symbol has the object that loaded it from the start
IsWeak(o, s) == o # None /\ files.kind[o][s] \in {"weak", "weakref"}

Init ==
  /\ files \in Inputs
  /\ at = [o \in Objects \cup {None} |->
             [s \in Symbols |-> IF IsWeak(o, s) THEN o ELSE None]]
  /\ resolving = {} /\ resolved = {} /\ dependents = {}
  /\ stack = <<>> /\ top = 0
  /\ status = "running"

Unresolved(o) == Links!Unresolved(files, o)
Frame == stack[Len(stack)]
SetFrame(frame) == stack' = [stack EXCEPT ![Len(stack)] = frame]
Scanning == status = "running" /\ stack # <<>> /\ Frame.next = 0

\* resolve_symbols() for o: it returns at once when o is resolved or resolving
Seen(o) == o \in resolved \cup resolving
Call(o, frames) ==
  IF Seen(o)
    THEN stack' = frames /\ UNCHANGED resolving
    ELSE /\ stack' = Append(frames, [obj |-> o, todo |-> Unresolved(o),
                                     found |-> <<>>, next |-> 0])
         /\ resolving' = resolving \cup ({o} \ {None})

(* The loop of resolve(): the undefined symbols, then the objects of the   *)
(* command line.                                                           *)
Top ==
  /\ status = "running" /\ stack = <<>> /\ top <= Len(files.cmd)
  /\ Call(IF top = 0 THEN None ELSE files.cmd[top], <<>>)
  /\ top' = top + 1
  /\ UNCHANGED <<files, at, resolved, dependents, status>>

Finish ==
  /\ status = "running" /\ stack = <<>> /\ top > Len(files.cmd)
  /\ status' = "done"
  /\ UNCHANGED <<files, at, resolving, resolved, stack, top, dependents>>

-----------------------------------------------------------------------------
(* The loop over the unresolved symbols of the object of the frame.        *)
Symbol == CHOOSE s \in Frame.todo : \A t \in Frame.todo : s <= t
Settled == at[Frame.obj][Symbol] # None /\ ~IsWeak(Frame.obj, Symbol)

\* list::push_back() and list::unique()
Push(list, o) ==
  IF list # <<>> /\ list[Len(list)] = o THEN list ELSE Append(list, o)

Step(found) == SetFrame([Frame EXCEPT !.todo = @ \ {Symbol}, !.found = found])

ResolveInBase ==
  /\ Scanning /\ Frame.todo # {} /\ (Settled \/ Symbol \in files.base)
  /\ Step(Frame.found)
  /\ UNCHANGED <<files, at, resolving, resolved, top, dependents, status>>

\* Mutant: a weak symbol takes the place of a global one
DefinerWeak(s) == IF Links!FindWeak(files, s) # None
                    THEN Links!FindWeak(files, s) ELSE Links!Definer(files, s)
Definer(s) == Links!Definer(files, s)

ResolveInObject ==
  /\ Scanning /\ Frame.todo # {} /\ ~Settled /\ Symbol \notin files.base
  /\ LET o == Definer(Symbol)
     IN /\ o # None
        /\ at' = [at EXCEPT ![Frame.obj][Symbol] = o]
        /\ Step(IF Seen(o) THEN Frame.found ELSE Push(Frame.found, o))
  /\ UNCHANGED <<files, resolving, resolved, top, dependents, status>>

\* The table has no entry: rld::error.  A define has an entry and no object:
\* the null pointer is dereferenced.
NoObject ==
  /\ Scanning /\ Frame.todo # {} /\ ~Settled /\ Symbol \notin files.base
  /\ Definer(Symbol) = None
  /\ status' = IF Symbol \in files.defines THEN "crash" ELSE "error"
  /\ UNCHANGED <<files, at, resolving, resolved, stack, top, dependents>>

EndScan ==
  /\ Scanning /\ Frame.todo = {}
  /\ resolving' = resolving \ {Frame.obj}
  /\ resolved' = resolved \cup ({Frame.obj} \ {None})
  /\ SetFrame([Frame EXCEPT !.next = 1])
  /\ UNCHANGED <<files, at, top, dependents, status>>

-----------------------------------------------------------------------------
(* The loop over the objects that were found, and the return.              *)
Recursing == status = "running" /\ stack # <<>> /\ Frame.next > 0

Recurse ==
  /\ Recursing /\ Frame.next <= Len(Frame.found)
  /\ Call(Frame.found[Frame.next],
          [stack EXCEPT ![Len(stack)].next = @ + 1])
  /\ UNCHANGED <<files, at, resolved, top, dependents, status>>

\* Mutant: the objects are merged only by the outermost call
MergedTop(list) == IF Len(stack) > 1 THEN {} ELSE Elements(list)
Merged(list) == Elements(list)
Return ==
  /\ Recursing /\ Frame.next > Len(Frame.found)
  /\ dependents' = dependents \cup Merged(Frame.found)
  /\ stack' = SubSeq(stack, 1, Len(stack) - 1)
  /\ UNCHANGED <<files, at, resolving, resolved, top, status>>

Next == \/ Top \/ Finish
        \/ ResolveInBase \/ ResolveInObject \/ NoObject \/ EndScan
        \/ Recurse \/ Return
Spec == Init /\ [][Next]_vars

-----------------------------------------------------------------------------
(* The types of the variables.  The recursion is never deeper than there   *)
(* are objects, whatever cycles they form: the linker's stack suffices.    *)
Frames == [obj : Objects \cup {None}, todo : SUBSET Symbols,
           found : Seq(Objects), next : Nat]
TypeOK ==
  /\ files \in Input
  /\ at \in [Objects \cup {None} -> [Symbols -> Objects \cup {None}]]
  /\ resolving \subseteq Objects /\ resolved \subseteq Objects
  /\ stack \in Seq(Frames) /\ Len(stack) <= Cardinality(Objects) + 1
  /\ top \in 0 .. Len(files.cmd) + 1
  /\ dependents \subseteq Objects
  /\ status \in {"running", "done", "error", "crash"}

(* What resolve() hands to the outputter leaves nothing open: every symbol *)
(* an object of the output or the command line leaves open is in the base  *)
(* image or was pointed at an object that is in the output.  (An object is *)
(* marked resolved before the objects it needs are: the cycles end, and    *)
(* the list of the objects that are needed is only complete at the end.)   *)
Closed ==
  /\ TypeOK
  /\ status = "done" =>
       \A o \in Linked \cup {None} : \A s \in Unresolved(o) :
         s \in files.base \/ at[o][s] \in Linked

(* The resolver implements the linker's promise: exactly the least closed  *)
(* set of objects is linked, whatever the order of the calls, and resolve()*)
(* only fails for a symbol that is needed and has no object.               *)
IsLinkSet == Links!Spec
================================================================================
