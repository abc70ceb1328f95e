-------------------------- MODULE RldResolver_proofs --------------------------
(***************************************************************************)
(* Proofs about the symbol resolver of the linker: for every number of     *)
(* objects and symbols and every input it links exactly the least closed   *)
(* set of objects, with a recursion no deeper than there are objects.      *)
(***************************************************************************)
EXTENDS RldResolver, FiniteSetTheorems, WellFoundedInduction,
        SequenceTheorems, TLAPS

Known == resolving \cup resolved       \* the objects resolve_symbols() entered
Depth == 1 .. Len(stack)

\* The objects of the output, or on the way to it in the list of a call
Reached == Linked \cup {o \in Objects :
                          \E i \in Depth : o \in Elements(stack[i].found)}

\* The objects that every closed set has
Least == {o \in Objects : \A T \in SUBSET Objects :
                            Links!IsClosed(files, T) => o \in T}

(* The calls: each for another object that was entered, the undefined      *)
(* symbols only outermost; only the innermost still looks at its symbols.  *)
FrameOK(i) ==
  /\ stack[i].obj \in Known \cup {None}
  /\ stack[i].obj = None => i = 1
  /\ i < Len(stack) => stack[i].next > 0
  /\ \A j \in 1 .. Len(stack[i].found) :
       j < stack[i].next => stack[i].found[j] \in Known
Stacked ==
  /\ \A i \in Depth : FrameOK(i)
  /\ \A i, j \in Depth : stack[i].obj = stack[j].obj => i = j
  /\ \A o \in resolving : stack # <<>> /\ Frame.next = 0 /\ Frame.obj = o
  /\ top = 0 => stack = <<>>

(* A symbol is looked at once, and gets the object of the table.           *)
Initial(o, s) == at[o][s] = IF IsWeak(o, s) THEN o ELSE None
Pointed(o, s) ==
  \/ s \in files.base
  \/ Definer(s) # None /\ at[o][s] = Definer(s) /\ Definer(s) \in Reached
AllPointed(o) == \A s \in Unresolved(o) : Pointed(o, s)
AllInitial(o) == \A s \in Unresolved(o) : Initial(o, s)
Scanned ==
  /\ \A o \in resolved : AllPointed(o)
  /\ top > 0 => \/ stack # <<>> /\ stack[1].obj = None /\ stack[1].next = 0
                \/ AllPointed(None)
  /\ stack # <<>> /\ Frame.next = 0 =>
       /\ Frame.todo \subseteq Unresolved(Frame.obj)
       /\ \A s \in Unresolved(Frame.obj) :
            IF s \in Frame.todo THEN Initial(Frame.obj, s)
                                ELSE Pointed(Frame.obj, s)
  /\ \A o \in Objects \ Known : AllInitial(o)
  /\ top = 0 => AllInitial(None)

(* What is entered is reached, what is reached is needed.                  *)
Reaching ==
  /\ Known \subseteq Reached
  /\ dependents \subseteq Known
  /\ \A j \in 1 .. Len(files.cmd) : j < top => files.cmd[j] \in Known
  /\ Reached \subseteq Least
  /\ status = "done" => stack = <<>> /\ top > Len(files.cmd)

Typed ==
  /\ files \in Input
  /\ at \in [Objects \cup {None} -> [Symbols -> Objects \cup {None}]]
  /\ resolving \subseteq Objects /\ resolved \subseteq Objects
  /\ stack \in Seq(Frames)
  /\ top \in 0 .. Len(files.cmd) + 1
  /\ dependents \subseteq Objects
  /\ status \in {"running", "done", "error", "crash"}

IInv == Typed /\ Stacked /\ Scanned /\ Reaching
-----------------------------------------------------------------------------
(* The operators.                                                          *)

\* A set of natural numbers that is not empty has a least element.
LEMMA LeastNumber ==
  ASSUME NEW S \in SUBSET Nat, S # {}
  PROVE  \E x \in S : \A y \in S : x <= y
<1>1. PICK x \in S : \A y \in S : ~ (<<y, x>> \in OpToRel(<, Nat))
  BY NatLessThanWellFounded, WFMin
<1>2. \A y \in S : <<y, x>> \in Nat \X Nat
  OBVIOUS
<1>3. \A y \in S : ~ (<<y, x>>[1] < <<y, x>>[2])
  BY <1>1, <1>2, Zenon DEF OpToRel
<1> QED BY <1>3

\* The symbol that is looked at is one of those that are left.
LEMMA SymbolIsLeft ==
  ASSUME Frame.todo \subseteq Symbols, Frame.todo # {}
  PROVE  Symbol \in Frame.todo
<1>1. \E s \in Frame.todo : \A t \in Frame.todo : s <= t
  BY LeastNumber, ResolverAssumption
<1> QED BY <1>1 DEF Symbol

\* The last object of a set is in it.
LEMMA LastIsIn ==
  ASSUME NEW S \in SUBSET Objects
  PROVE  Links!Last(S) \in S \cup {None}
<1>1. CASE S = {}
  BY <1>1 DEF Links!Last, Links!None, None
<1>2. CASE S # {}
  <2> DEFINE n == Cardinality(Objects)
             T == {n - o : o \in S}
  <2>1. n \in Nat /\ S \subseteq 1 .. n
    BY ResolverAssumption, FS_CardinalityType
  <2>2. T \in SUBSET Nat /\ T # {}
    <3>1. \A o \in S : n - o \in Nat
      <4> HIDE DEF n
      <4> QED BY <2>1
    <3> HIDE DEF n
    <3> QED BY <3>1, <1>2
  <2>3. PICK x \in T : \A y \in T : x <= y
    BY <2>2, LeastNumber
  <2>4. PICK o \in S : x = n - o
    BY <2>3
  <2>5. \A p \in S : p <= o
    <3> TAKE p \in S
    <3>1. n - p \in T
      OBVIOUS
    <3>2. n - o <= n - p
      BY <3>1, <2>3, <2>4
    <3> HIDE DEF n
    <3> QED BY <3>2, <2>1
  <2>6. (CHOOSE q \in S : \A p \in S : p <= q) \in S
    BY <2>5
  <2> QED BY <2>6, <1>2 DEF Links!Last
<1> QED BY <1>1, <1>2

\* The table names an object or none.
LEMMA DefinerType ==
  ASSUME NEW s
  PROVE  Definer(s) \in Objects \cup {None}
<1>1. \A kinds : Links!Having(files, s, kinds) \in SUBSET Objects
  BY DEF Links!Having
<1>2. /\ Links!FindGlobal(files, s) \in Objects \cup {None}
      /\ Links!FindWeak(files, s) \in Objects \cup {None}
  BY <1>1, LastIsIn DEF Links!FindGlobal, Links!FindWeak
<1> QED BY <1>2 DEF Definer, Links!Definer, Links!None, None

\* What an object leaves open are symbols.
LEMMA UnresolvedType ==
  ASSUME files \in Input, NEW o \in Objects \cup {None}
  PROVE  Unresolved(o) \subseteq Symbols
BY DEF Input, Unresolved, Links!Unresolved, Links!None, None

\* The objects are numbered from one.
LEMMA NoneIsNoObject == None \notin Objects
<1>1. Cardinality(Objects) \in Nat
  BY ResolverAssumption, FS_CardinalityType
<1> QED BY <1>1, ResolverAssumption DEF None

\* push_back() and unique() add the object to the list, and no other.
LEMMA PushAdds ==
  ASSUME NEW l \in Seq(Objects), NEW o \in Objects
  PROVE  /\ Push(l, o) \in Seq(Objects)
         /\ Elements(Push(l, o)) = Elements(l) \cup {o}
<1>1. CASE l # <<>> /\ l[Len(l)] = o
  BY <1>1 DEF Push, Elements
<1>2. CASE ~(l # <<>> /\ l[Len(l)] = o)
  <2>1. Push(l, o) = Append(l, o)
    BY <1>2 DEF Push
  <2> DEFINE m == Append(l, o)
  <2>2. /\ m \in Seq(Objects) /\ Len(m) = Len(l) + 1
        /\ \A i \in 1 .. Len(l) : m[i] = l[i]
        /\ m[Len(l) + 1] = o
    BY AppendProperties
  <2> HIDE DEF m
  <2>3. DOMAIN m = 1 .. Len(l) + 1 /\ DOMAIN l = 1 .. Len(l) /\ Len(l) \in Nat
    BY <2>2, LenProperties
  <2>4. Elements(m) = Elements(l) \cup {o}
    BY <2>2, <2>3 DEF Elements
  <2> QED BY <2>1, <2>2, <2>4 DEF m
<1> QED BY <1>1, <1>2

-----------------------------------------------------------------------------
(* The least closed set.                                                   *)

\* What every closed set has is closed itself.
LEMMA LeastIsClosed ==
  ASSUME files \in Input
  PROVE  Links!IsClosed(files, Least)
<1>1. {files.cmd[i] : i \in DOMAIN files.cmd} \subseteq Least
  <2>1. \A i \in DOMAIN files.cmd : files.cmd[i] \in Objects
    BY DEF Input
  <2> QED BY <2>1 DEF Least, Links!IsClosed
<1>2. ASSUME NEW o \in Least \cup {Links!None},
             NEW x \in Links!Needs(files, o) \ {Links!None}
      PROVE  x \in Least
  <2>1. x \in Objects
    BY <1>2, DefinerType DEF Links!Needs, Definer, Links!None, None
  <2>2. ASSUME NEW T \in SUBSET Objects, Links!IsClosed(files, T)
        PROVE  x \in T
    <3>1. o \in T \cup {Links!None}
      BY <2>2 DEF Least
    <3> QED BY <3>1, <2>2, <1>2 DEF Links!IsClosed
  <2> QED BY <2>1, <2>2 DEF Least
<1> QED BY <1>1, <1>2 DEF Links!IsClosed

\* A closed set with no more than every closed set has is the least one.
LEMMA LeastIsUnique ==
  ASSUME NEW S \in SUBSET Objects, Links!IsClosed(files, S), S \subseteq Least
  PROVE  Links!LeastClosed(files) = S
<1> DEFINE IsLeast(X) == Links!IsClosed(files, X) /\
             \A T \in SUBSET Objects : Links!IsClosed(files, T) => X \subseteq T
           C == Links!LeastClosed(files)
<1>1. IsLeast(S)
  BY DEF Least
<1>2. C \in SUBSET Objects /\ IsLeast(C)
  <2>1. C = CHOOSE X \in SUBSET Objects : IsLeast(X)
    BY DEF Links!LeastClosed
  <2> HIDE DEF C, IsLeast
  <2> QED BY <1>1, <2>1
<1> QED BY <1>1, <1>2

\* What an object that every closed set has needs is in every closed set.
LEMMA NeededIsInLeast ==
  ASSUME files \in Input, NEW o \in Least \cup {None},
         NEW s \in Unresolved(o) \ files.base, Definer(s) # None
  PROVE  Definer(s) \in Least
<1>1. Definer(s) \in Links!Needs(files, o) \ {Links!None}
  BY DEF Links!Needs, Definer, Unresolved, None, Links!None
<1>2. o \in Least \cup {Links!None}
  BY DEF None, Links!None
<1> QED BY <1>1, <1>2, LeastIsClosed DEF Links!IsClosed

-----------------------------------------------------------------------------
(* What every step but the last leaves alone.                              *)

\* The symbol table and the least closed set depend on the input only.
LEMMA SameInput ==
  ASSUME files' = files
  PROVE  /\ \A s : Definer(s)' = Definer(s)
         /\ \A o : Unresolved(o)' = Unresolved(o)
         /\ \A o, s : IsWeak(o, s)' <=> IsWeak(o, s)
         /\ Least' = Least
<1>1. \A s : Definer(s)' = Definer(s)
  BY DEF Definer, Links!Definer, Links!FindGlobal, Links!FindWeak,
         Links!Having, Links!Last, Links!None
<1>2. \A o : Unresolved(o)' = Unresolved(o)
  BY DEF Unresolved, Links!Unresolved
<1>3. \A o, s : IsWeak(o, s)' <=> IsWeak(o, s)
  BY DEF IsWeak
<1>4. Least' = Least
  BY DEF Least
<1> QED BY <1>1, <1>2, <1>3, <1>4

\* A symbol stays pointed at its object.
LEMMA PointedStays ==
  ASSUME files' = files, Reached \subseteq Reached', NEW o, NEW s,
         Pointed(o, s), at'[o][s] = at[o][s] \/ at'[o][s] = Definer(s)
  PROVE  Pointed(o, s)'
<1>1. Definer(s)' = Definer(s)
  BY SameInput
<1> QED BY <1>1 DEF Pointed

\* The object of a call is reached, and so is what is entered.
LEMMA FrameReached ==
  ASSUME IInv, stack # <<>>
  PROVE  /\ Len(stack) \in Depth /\ Len(stack) \in Nat /\ Frame \in Frames
         /\ Frame.obj \in Least \cup {None}
<1>1. Len(stack) \in Depth /\ Len(stack) \in Nat /\ Frame \in Frames
  BY DEF IInv, Typed, Depth, Frame
<1>2. FrameOK(Len(stack))
  BY <1>1 DEF IInv, Stacked
<1> QED BY <1>1, <1>2 DEF FrameOK, Frame, IInv, Reaching

-----------------------------------------------------------------------------
(* The steps.                                                              *)

\* A call pushes a frame for an object that was not entered, or does nothing.
LEMMA Called ==
  ASSUME Typed, NEW o \in Objects \cup {None}, NEW frames \in Seq(Frames),
         Call(o, frames)
  PROVE  \/ /\ o \in Known
            /\ stack' = frames /\ resolving' = resolving
         \/ /\ o \notin Known /\ o \in resolving' \cup {None}
            /\ resolving' = resolving \cup ({o} \ {None})
            /\ stack' \in Seq(Frames) /\ Len(stack') = Len(frames) + 1
            /\ \A i \in 1 .. Len(frames) : stack'[i] = frames[i]
            /\ stack'[Len(frames) + 1] =
                 [obj |-> o, todo |-> Unresolved(o), found |-> <<>>, next |-> 0]
<1>1. CASE Seen(o)
  BY <1>1 DEF Call, Seen, Known
<1>2. CASE ~Seen(o)
  <2> DEFINE f == [obj |-> o, todo |-> Unresolved(o), found |-> <<>>, next |-> 0]
  <2>1. Unresolved(o) \subseteq Symbols
    BY UnresolvedType DEF Typed
  <2>2. f \in Frames
    BY <2>1 DEF Frames
  <2>3. stack' = Append(frames, f) /\ resolving' = resolving \cup ({o} \ {None})
    BY <1>2 DEF Call
  <2> HIDE DEF f
  <2>4. /\ stack' \in Seq(Frames) /\ Len(stack') = Len(frames) + 1
        /\ \A i \in 1 .. Len(frames) : stack'[i] = frames[i]
        /\ stack'[Len(frames) + 1] = f
    BY <2>2, <2>3, AppendProperties
  <2> QED BY <1>2, <2>3, <2>4 DEF Seen, Known, f
<1> QED BY <1>1, <1>2

\* A stack is empty when it has no frame.
LEMMA NotEmpty == \A s \in Seq(Frames) : s # <<>> <=> Len(s) > 0
<1>1. ASSUME NEW s \in Seq(Frames) PROVE s # <<>> => Len(s) > 0
  BY EmptySeq
<1>2. Len(<<>>) = 0
  BY EmptySeq
<1>3. ASSUME NEW s \in Seq(Frames), s = <<>> PROVE Len(s) = 0
  BY <1>2, <1>3, Zenon
<1> QED BY <1>1, <1>3

\* resolve() calls for an object that was entered, or pushes the first frame.
LEMMA TopStep == ASSUME IInv, Top PROVE IInv'
<1> DEFINE o == IF top = 0 THEN None ELSE files.cmd[top]
<1>1. /\ status = "running" /\ stack = <<>> /\ top <= Len(files.cmd)
      /\ Call(o, <<>>) /\ top' = top + 1
      /\ files' = files /\ at' = at /\ resolved' = resolved
      /\ dependents' = dependents /\ status' = status
  BY DEF Top
<1>2. /\ Len(files.cmd) \in Nat /\ top \in Nat
      /\ \A i \in 1 .. Len(files.cmd) : files.cmd[i] \in Objects /\ files.cmd[i] \in Linked
  BY DEF IInv, Typed, Input, Linked, Elements
<1>3. o \in Objects \cup {None} /\ (top > 0 => o \in Linked /\ o \in Objects)
      /\ (top = 0 => o = None)
  BY <1>1, <1>2
<1>4. resolving = {}
  BY <1>1 DEF IInv, Stacked
<1>5. Depth = {} /\ Reached = Linked
  BY <1>1 DEF Depth, Reached
<1>6. <<>> \in Seq(Frames) /\ Len(<<>>) = 0 /\ top' \in 0 .. Len(files.cmd) + 1
  BY <1>1, <1>2
<1>7. Linked' = Linked
  BY <1>1 DEF Linked
<1> HIDE DEF o
<1>8. CASE o \in Known /\ stack' = <<>> /\ resolving' = resolving
  <2>1. Known' = Known /\ Depth' = {} /\ Reached' = Reached
    BY <1>1, <1>5, <1>7, <1>8 DEF Known, Depth, Reached
  <2>2. top > 0
    BY <1>2, <1>3, <1>8, NoneIsNoObject DEF Known, IInv, Typed
  <2>3. Typed'
    BY <1>1, <1>6, <1>8 DEF IInv, Typed
  <2>4. Stacked'
    BY <2>1, <1>1, <1>2, <1>4, <1>8 DEF Stacked
  <2>5. AllPointed(None)
    BY <2>2, <1>1 DEF IInv, Scanned
  <2>6. \A p, s : Pointed(p, s) => Pointed(p, s)'
    BY <2>1, <1>1, PointedStays
  <2>7. Scanned'
    BY <2>1, <2>5, <2>6, <1>1, <1>2, <1>8, SameInput
       DEF IInv, Scanned, AllPointed, AllInitial, Initial
  <2>8. \A j \in 1 .. Len(files.cmd) : j < top' => files.cmd[j] \in Known
    <3>1. files.cmd[top] \in Known
      BY <1>8, <2>2, <1>2 DEF o
    <3> QED BY <3>1, <1>1, <1>2 DEF IInv, Reaching
  <2>9. Reaching'
    BY <2>1, <2>8, <1>1, SameInput DEF IInv, Reaching
  <2> QED BY <2>3, <2>4, <2>7, <2>9 DEF IInv
<1> DEFINE f == [obj |-> o, todo |-> Unresolved(o), found |-> <<>>, next |-> 0]
<1>9. CASE /\ o \notin Known /\ o \in resolving' \cup {None}
           /\ resolving' = {o} \ {None}
           /\ stack' \in Seq(Frames) /\ Len(stack') = 1 /\ stack'[1] = f
  <2>a. f.obj = o /\ f.todo = Unresolved(o) /\ f.found = <<>> /\ f.next = 0
    OBVIOUS
  <2> HIDE DEF f
  <2>b. stack' # <<>>
    BY <1>9, NotEmpty
  <2>c. Depth' = {1} /\ Frame' = f
    BY <1>9 DEF Depth, Frame
  <2>0. /\ Depth' = {1} /\ Frame' = f /\ stack' # <<>>
        /\ f.obj = o /\ f.todo = Unresolved(o) /\ f.found = <<>> /\ f.next = 0
    BY <2>a, <2>b, <2>c
  <2>1. /\ Known' = Known \cup ({o} \ {None})
        /\ Elements(<<>>) = {}
        /\ Reached' = Reached
    BY <2>0, <1>1, <1>4, <1>5, <1>7, <1>9 DEF Known, Reached, Elements
  <2>2. Typed'
    BY <1>1, <1>3, <1>6, <1>9 DEF IInv, Typed
  <2>3. Stacked'
    <3>1. FrameOK(1)'
      BY <2>0, <2>1, <1>1, <1>3, <1>9 DEF FrameOK
    <3> QED BY <3>1, <2>0, <1>1, <1>2, <1>9 DEF Stacked
  <2>4. \A p, s : Pointed(p, s) => Pointed(p, s)'
    BY <2>1, <1>1, PointedStays
  <2>5. Scanned'
    <3>1. \A p \in resolved : AllPointed(p)'
      BY <2>4, <1>1, SameInput DEF IInv, Scanned, AllPointed
    <3>2. \/ stack'[1].obj = None /\ stack'[1].next = 0
          \/ AllPointed(None)'
      <4>1. CASE top = 0
        BY <4>1, <1>3, <1>9, <2>0
      <4>2. CASE top > 0
        BY <4>2, <2>4, <1>1, SameInput DEF IInv, Scanned, AllPointed
      <4> QED BY <4>1, <4>2, <1>2
    <3>3. \A s \in Unresolved(o) : Initial(o, s)
      <4>1. CASE o = None
        BY <4>1, <1>2, <1>3, NoneIsNoObject DEF IInv, Scanned, AllInitial
      <4>2. CASE o # None
        BY <4>2, <1>3, <1>9 DEF IInv, Scanned, AllInitial
      <4> QED BY <4>1, <4>2
    <3>4. /\ (Frame.todo = Unresolved(Frame.obj))'
          /\ (\A s \in Unresolved(Frame.obj) : Initial(Frame.obj, s))'
      BY <3>3, <2>0, <1>1, SameInput DEF Initial
    <3>5. \A p \in Objects \ Known' : AllInitial(p)'
      BY <2>1, <1>1, SameInput DEF IInv, Scanned, AllInitial, Initial
    <3> QED BY <3>1, <3>2, <3>4, <3>5, <2>0, <1>1, <1>2 DEF Scanned
  <2>6. \A j \in 1 .. Len(files.cmd) : j < top' => files.cmd[j] \in Known'
    <3>1. top > 0 => files.cmd[top] \in Known'
      BY <2>1, <1>1, <1>2, NoneIsNoObject DEF o
    <3> QED BY <3>1, <2>1, <1>1, <1>2 DEF IInv, Reaching
  <2>7. Reaching'
    BY <2>1, <2>6, <1>1, <1>3, <1>2, <1>5, SameInput DEF IInv, Reaching
  <2> QED BY <2>2, <2>3, <2>5, <2>7 DEF IInv
<1>10. \/ o \in Known /\ stack' = <<>> /\ resolving' = resolving
       \/ /\ o \notin Known /\ o \in resolving' \cup {None}
          /\ resolving' = resolving \cup ({o} \ {None})
          /\ stack' \in Seq(Frames) /\ Len(stack') = Len(<<>>) + 1
          /\ stack'[Len(<<>>) + 1] = f
  <2>1. Typed
    BY DEF IInv
  <2> QED BY <2>1, <1>1, <1>3, <1>6, Called
<1> HIDE DEF f
<1> QED BY <1>4, <1>6, <1>8, <1>9, <1>10

\* The loops change the innermost call only.
LEMMA FrameSet ==
  ASSUME Typed, stack # <<>>, NEW f \in Frames, SetFrame(f)
  PROVE  /\ stack' \in Seq(Frames) /\ stack' # <<>> /\ Frame' = f
         /\ Len(stack) \in Depth /\ Len(stack) \in Nat
         /\ Len(stack') = Len(stack) /\ Depth' = Depth
         /\ \A i \in Depth : stack'[i] = IF i = Len(stack) THEN f ELSE stack[i]
<1>1. Len(stack) \in Depth /\ Len(stack) \in Nat
  BY NotEmpty DEF Typed, Depth
<1>2. /\ stack' \in Seq(Frames) /\ Len(stack') = Len(stack)
      /\ \A i \in Depth : stack'[i] = IF i = Len(stack) THEN f ELSE stack[i]
  BY <1>1, ExceptSeq DEF SetFrame, Depth, Typed
<1>3. stack' # <<>>
  BY <1>1, <1>2, NotEmpty DEF Depth
<1> QED BY <1>1, <1>2, <1>3 DEF Frame, Depth

\* The end of resolve() decides, the objects stay.
LEMMA FinishStep == ASSUME IInv, Finish PROVE IInv'
<1>1. /\ stack = <<>> /\ top > Len(files.cmd) /\ status' = "done"
      /\ files' = files /\ at' = at /\ resolving' = resolving
      /\ resolved' = resolved /\ stack' = stack /\ top' = top
      /\ dependents' = dependents
  BY DEF Finish
<1>2. Typed'
  BY <1>1 DEF IInv, Typed
<1>3. Known' = Known /\ Reached' = Reached /\ Linked' = Linked
  BY <1>1 DEF Known, Reached, Linked, Depth
<1>4. Stacked'
  BY <1>1, <1>3 DEF IInv, Stacked, FrameOK, Depth, Frame
<1>5. \A p, s : Pointed(p, s) => Pointed(p, s)'
  BY <1>1, <1>3, PointedStays
<1>6. Scanned'
  BY <1>1, <1>3, <1>5, SameInput
     DEF IInv, Scanned, AllPointed, AllInitial, Initial, Frame
<1>7. Reaching'
  BY <1>1, <1>3, SameInput DEF IInv, Reaching
<1> QED BY <1>2, <1>4, <1>6, <1>7 DEF IInv

\* So does a symbol without an object.
LEMMA NoObjectStep == ASSUME IInv, NoObject PROVE IInv'
<1>1. /\ status = "running" /\ status' \in {"crash", "error"}
      /\ files' = files /\ at' = at /\ resolving' = resolving
      /\ resolved' = resolved /\ stack' = stack /\ top' = top
      /\ dependents' = dependents
  BY DEF NoObject, Scanning
<1>2. Typed'
  BY <1>1 DEF IInv, Typed
<1>3. Known' = Known /\ Reached' = Reached /\ Linked' = Linked
  BY <1>1 DEF Known, Reached, Linked, Depth
<1>4. Stacked'
  BY <1>1, <1>3 DEF IInv, Stacked, FrameOK, Depth, Frame
<1>5. \A p, s : Pointed(p, s) => Pointed(p, s)'
  BY <1>1, <1>3, PointedStays
<1>6. Scanned'
  BY <1>1, <1>3, <1>5, SameInput
     DEF IInv, Scanned, AllPointed, AllInitial, Initial, Frame
<1>7. Reaching'
  BY <1>1, <1>3, SameInput DEF IInv, Reaching
<1> QED BY <1>2, <1>4, <1>6, <1>7 DEF IInv

(* A turn of the loop over the symbols: the symbol is pointed, and what    *)
(* the table names for it is added to the list or was entered before.      *)
LEMMA ScanStep ==
  ASSUME IInv, Scanning, Frame.todo # {}, NEW found \in Seq(Objects), Step(found),
         Reached \subseteq Reached', Reached' \subseteq Least,
         files' = files, resolving' = resolving, resolved' = resolved,
         top' = top, dependents' = dependents, status' = status,
         at' \in [Objects \cup {None} -> [Symbols -> Objects \cup {None}]],
         \A o \in Objects \cup {None}, s \in Symbols :
           at'[o][s] = at[o][s] \/
           (at'[o][s] = Definer(s) /\ o = Frame.obj /\ s = Symbol),
         \A o, s : o = Frame.obj /\ s = Symbol => Pointed(o, s)'
  PROVE  IInv'
<1>1. /\ stack # <<>> /\ Frame.next = 0 /\ Frame \in Frames /\ Typed
      /\ Symbol \in Frame.todo /\ Symbol \in Symbols
  BY FrameReached, SymbolIsLeft DEF Scanning, Frames, IInv
<1> DEFINE f == [Frame EXCEPT !.todo = @ \ {Symbol}, !.found = found]
<1>2. /\ f \in Frames /\ f.obj = Frame.obj /\ f.next = 0 /\ f.found = found
      /\ f.todo = Frame.todo \ {Symbol}
  BY <1>1 DEF Frames
<1>3. SetFrame(f)
  BY DEF Step
<1> HIDE DEF f
<1>4. /\ stack' \in Seq(Frames) /\ stack' # <<>> /\ Frame' = f
      /\ Len(stack) \in Depth /\ Len(stack) \in Nat
      /\ Len(stack') = Len(stack) /\ Depth' = Depth
      /\ \A i \in Depth : stack'[i] = IF i = Len(stack) THEN f ELSE stack[i]
  BY <1>1, <1>2, <1>3, FrameSet
<1>5. Known' = Known
  BY DEF Known
<1>6. Typed'
  BY <1>1, <1>4 DEF Typed
<1>7. Stacked'
  <2>1. \A i \in Depth : stack'[i].obj = stack[i].obj /\ stack'[i].next = stack[i].next
    BY <1>1, <1>2, <1>4 DEF Frame
  <2>2. ASSUME NEW i \in Depth PROVE FrameOK(i)'
    <3>1. FrameOK(i)
      BY DEF IInv, Stacked
    <3>2. \A j \in 1 .. Len(stack'[i].found) :
            j < stack'[i].next => stack'[i].found[j] \in Known
      <4>1. CASE i = Len(stack)
        <5>1. f.found \in Seq(Objects)
          BY <1>2
        <5>2. \A j \in 1 .. Len(f.found) : ~(j < f.next)
          BY <1>2, <5>1
        <5> QED BY <5>2, <4>1, <1>4
      <4>2. CASE i # Len(stack)
        BY <4>2, <1>4, <3>1 DEF FrameOK
      <4> QED BY <4>1, <4>2
    <3> QED BY <3>1, <3>2, <2>1, <1>4, <1>5 DEF FrameOK
  <2> QED BY <2>1, <2>2, <1>1, <1>2, <1>4 DEF IInv, Stacked
<1>8. \A p \in Objects \cup {None}, s \in Symbols : Pointed(p, s) => Pointed(p, s)'
  BY PointedStays
<1>9. \A p \in Objects \cup {None} : /\ Unresolved(p) \subseteq Symbols
                                     /\ Unresolved(p)' = Unresolved(p)
  BY UnresolvedType, SameInput DEF IInv, Typed
<1>10. Frame.obj \in Known \cup {None} /\ Known \subseteq Objects
  BY <1>4 DEF IInv, Stacked, FrameOK, Frame, Typed, Known
<1>11. \A p \in Objects \cup {None}, s \in Symbols :
         Initial(p, s) /\ (p # Frame.obj \/ s # Symbol) => Initial(p, s)'
  BY SameInput DEF Initial
<1>12. Scanned'
  <2>1. \A p \in Known \cup {None} : AllPointed(p) => AllPointed(p)'
    BY <1>8, <1>9, <1>10 DEF AllPointed
  <2>2. top > 0 => \/ stack'[1].obj = None /\ stack'[1].next = 0
                   \/ AllPointed(None)'
    <3>1. CASE stack[1].obj = None /\ stack[1].next = 0
      BY <3>1, <1>1, <1>2, <1>4 DEF Depth, Frame
    <3>2. CASE AllPointed(None)
      BY <3>2, <2>1
    <3> QED BY <3>1, <3>2 DEF IInv, Scanned
  <2>3. /\ Frame.todo \subseteq Unresolved(Frame.obj)
        /\ \A s \in Unresolved(Frame.obj) :
             IF s \in Frame.todo THEN Initial(Frame.obj, s)
                                 ELSE Pointed(Frame.obj, s)
    BY <1>1 DEF IInv, Scanned
  <2>4. (Frame.obj)' = Frame.obj /\ (Frame.todo)' = Frame.todo \ {Symbol}
    BY <1>2, <1>4
  <2>5. ASSUME NEW s \in Unresolved(Frame.obj)
        PROVE  IF s \in Frame.todo \ {Symbol} THEN Initial(Frame.obj, s)'
                                              ELSE Pointed(Frame.obj, s)'
    <3>1. s \in Symbols
      BY <1>9, <1>10
    <3>2. CASE s \in Frame.todo \ {Symbol}
      BY <3>1, <3>2, <2>3, <2>4, <1>10, <1>11 DEF Initial
    <3>3. CASE s = Symbol
      BY <3>3, <2>4 DEF Pointed
    <3>4. CASE s \notin Frame.todo
      BY <3>1, <3>4, <2>3, <2>4, <1>8, <1>10 DEF Pointed
    <3> QED BY <3>2, <3>3, <3>4
  <2>6. /\ (Frame.todo \subseteq Unresolved(Frame.obj))'
        /\ (\A s \in Unresolved(Frame.obj) :
              IF s \in Frame.todo THEN Initial(Frame.obj, s)
                                  ELSE Pointed(Frame.obj, s))'
    BY <2>3, <2>4, <2>5, <1>9, <1>10
  <2>7. \A p \in Objects \ Known : AllInitial(p)'
    BY <1>9, <1>10, <1>11, NoneIsNoObject DEF IInv, Scanned, AllInitial
  <2>8. top # 0
    BY <1>1 DEF IInv, Stacked
  <2>9. \A p \in resolved' : AllPointed(p)'
    <3>1. \A p \in resolved : p \in Known /\ AllPointed(p)
      BY DEF IInv, Scanned, Known
    <3> QED BY <3>1, <2>1
  <2>10. \A p \in Objects \ Known' : AllInitial(p)'
    BY <2>7, <1>5
  <2>11. top' > 0 => \/ stack' # <<>> /\ stack'[1].obj = None /\ stack'[1].next = 0
                     \/ AllPointed(None)'
    BY <2>2, <1>4
  <2>12. top' # 0
    BY <2>8
  <2> QED BY <2>6, <2>9, <2>10, <2>11, <2>12 DEF Scanned
<1>13. Reaching'
  BY <1>1, <1>5, SameInput DEF IInv, Reaching, Scanning
<1> QED BY <1>6, <1>7, <1>12, <1>13 DEF IInv

\* A symbol that was settled has the object of the table already.
LEMMA ResolveInBaseStep == ASSUME IInv, ResolveInBase PROVE IInv'
<1>1. /\ Scanning /\ Frame.todo # {} /\ (Settled \/ Symbol \in files.base)
      /\ Step(Frame.found)
      /\ files' = files /\ at' = at /\ resolving' = resolving
      /\ resolved' = resolved /\ top' = top /\ dependents' = dependents
      /\ status' = status
  BY DEF ResolveInBase
<1>2. /\ stack # <<>> /\ Frame.next = 0 /\ Frame \in Frames /\ Typed
      /\ Symbol \in Frame.todo /\ Symbol \in Symbols /\ Frame.found \in Seq(Objects)
      /\ Frame.obj \in Objects \cup {None}
  BY <1>1, FrameReached, SymbolIsLeft DEF Scanning, Frames, IInv
<1>3. Initial(Frame.obj, Symbol)
  BY <1>2 DEF IInv, Scanned
<1>4. Symbol \in files.base
  BY <1>1, <1>3 DEF Settled, Initial
<1>5. Reached' = Reached
  <2> DEFINE f == [Frame EXCEPT !.todo = @ \ {Symbol}, !.found = Frame.found]
  <2>1. f \in Frames /\ f.found = Frame.found
    BY <1>2 DEF Frames
  <2>2. SetFrame(f)
    BY <1>1 DEF Step
  <2> HIDE DEF f
  <2>3. /\ Depth' = Depth
        /\ \A i \in Depth : stack'[i] = IF i = Len(stack) THEN f ELSE stack[i]
    BY <1>2, <2>1, <2>2, FrameSet
  <2>4. \A i \in Depth : stack'[i].found = stack[i].found
    BY <2>1, <2>3 DEF Frame
  <2> QED BY <2>3, <2>4, <1>1 DEF Reached, Linked
<1>6. Reached \subseteq Least
  BY DEF IInv, Reaching
<1>7. \A o, s : o = Frame.obj /\ s = Symbol => Pointed(o, s)'
  BY <1>1, <1>4 DEF Pointed
<1>8. at' \in [Objects \cup {None} -> [Symbols -> Objects \cup {None}]]
  BY <1>1, <1>2 DEF Typed
<1> QED BY <1>1, <1>2, <1>5, <1>6, <1>7, <1>8, ScanStep

\* The object of the table is put into the list unless it was entered.
LEMMA ResolveInObjectStep == ASSUME IInv, ResolveInObject PROVE IInv'
<1> DEFINE d == Definer(Symbol)
           found == IF Seen(d) THEN Frame.found ELSE Push(Frame.found, d)
<1>1. /\ Scanning /\ Frame.todo # {} /\ Symbol \notin files.base
      /\ d # None /\ at' = [at EXCEPT ![Frame.obj][Symbol] = d] /\ Step(found)
      /\ files' = files /\ resolving' = resolving
      /\ resolved' = resolved /\ top' = top /\ dependents' = dependents
      /\ status' = status
  BY DEF ResolveInObject
<1>2. /\ stack # <<>> /\ Frame.next = 0 /\ Frame \in Frames /\ Typed
      /\ Symbol \in Frame.todo /\ Symbol \in Symbols /\ Frame.found \in Seq(Objects)
      /\ Frame.obj \in Objects \cup {None} /\ Frame.obj \in Least \cup {None}
  BY <1>1, FrameReached, SymbolIsLeft DEF Scanning, Frames, IInv
<1>3. d \in Objects
  BY <1>1, DefinerType
<1>4. d \in Least
  <2>1. Symbol \in Unresolved(Frame.obj) \ files.base
    BY <1>1, <1>2 DEF IInv, Scanned
  <2> QED BY <2>1, <1>1, <1>2, NeededIsInLeast DEF Typed
<1>5. /\ found \in Seq(Objects)
      /\ Elements(Frame.found) \subseteq Elements(found)
      /\ Elements(found) \subseteq Elements(Frame.found) \cup {d}
      /\ d \in Known \/ d \in Elements(found)
  BY <1>2, <1>3, PushAdds DEF Seen, Known
<1> HIDE DEF d, found
<1> DEFINE f == [Frame EXCEPT !.todo = @ \ {Symbol}, !.found = found]
<1>6. f \in Frames /\ f.found = found
  BY <1>2, <1>5 DEF Frames
<1>7. SetFrame(f)
  BY <1>1 DEF Step
<1> HIDE DEF f
<1>8. /\ Depth' = Depth /\ Len(stack) \in Depth
      /\ \A i \in Depth : stack'[i] = IF i = Len(stack) THEN f ELSE stack[i]
  BY <1>2, <1>6, <1>7, FrameSet
<1>9. Linked' = Linked
  BY <1>1 DEF Linked
<1>10. Reached \subseteq Reached'
  <2>1. \A i \in Depth : Elements(stack[i].found) \subseteq Elements(stack'[i].found)
    BY <1>5, <1>6, <1>8 DEF Frame
  <2> QED BY <2>1, <1>8, <1>9 DEF Reached
<1>11. Reached' \subseteq Least
  <2>1. \A i \in Depth : Elements(stack'[i].found) \subseteq Elements(stack[i].found) \cup {d}
    BY <1>5, <1>6, <1>8 DEF Frame
  <2>2. Reached' \subseteq Reached \cup {d}
    BY <2>1, <1>8, <1>9 DEF Reached
  <2> QED BY <2>2, <1>4 DEF IInv, Reaching
<1>12. d \in Reached'
  <2>1. CASE d \in Known
    BY <2>1, <1>10 DEF IInv, Reaching
  <2>2. CASE d \in Elements(found)
    BY <2>2, <1>3, <1>6, <1>8 DEF Reached
  <2> QED BY <2>1, <2>2, <1>5
<1>13. at' \in [Objects \cup {None} -> [Symbols -> Objects \cup {None}]]
  BY <1>1, <1>2, <1>3 DEF Typed
<1>14. \A o \in Objects \cup {None}, s \in Symbols :
         at'[o][s] = IF o = Frame.obj /\ s = Symbol THEN d ELSE at[o][s]
  BY <1>1, <1>2 DEF Typed
<1>15. \A o, s : o = Frame.obj /\ s = Symbol => Pointed(o, s)'
  <2>1. ASSUME NEW o, NEW s, o = Frame.obj, s = Symbol
        PROVE  Pointed(o, s)'
    <3>1. Definer(s)' = d
      BY <2>1, <1>1, SameInput DEF d
    <3>2. at'[o][s] = d
      BY <2>1, <1>2, <1>14
    <3> QED BY <3>1, <3>2, <1>1, <1>12 DEF Pointed
  <2> QED BY <2>1
<1>16. \A o \in Objects \cup {None}, s \in Symbols :
         at'[o][s] = at[o][s] \/
         (at'[o][s] = Definer(s) /\ o = Frame.obj /\ s = Symbol)
  BY <1>14 DEF d
<1> QED BY <1>1, <1>5, <1>10, <1>11, <1>13, <1>15, <1>16, ScanStep

\* Once all its symbols are pointed the object is resolved.
LEMMA EndScanStep == ASSUME IInv, EndScan PROVE IInv'
<1>1. /\ Scanning /\ Frame.todo = {}
      /\ resolving' = resolving \ {Frame.obj}
      /\ resolved' = resolved \cup ({Frame.obj} \ {None})
      /\ SetFrame([Frame EXCEPT !.next = 1])
      /\ files' = files /\ at' = at /\ top' = top
      /\ dependents' = dependents /\ status' = status
  BY DEF EndScan
<1>2. /\ status = "running" /\ stack # <<>> /\ Frame.next = 0 /\ Frame \in Frames
      /\ Typed /\ Frame.obj \in Objects \cup {None}
  BY <1>1, FrameReached DEF Scanning, Frames, IInv
<1> DEFINE f == [Frame EXCEPT !.next = 1]
<1>3. /\ f \in Frames /\ f.obj = Frame.obj /\ f.next = 1 /\ f.found = Frame.found
  BY <1>2 DEF Frames
<1>4. SetFrame(f)
  BY <1>1
<1> HIDE DEF f
<1>5. /\ stack' \in Seq(Frames) /\ stack' # <<>> /\ Frame' = f
      /\ Len(stack) \in Depth /\ Len(stack) \in Nat
      /\ Len(stack') = Len(stack) /\ Depth' = Depth
      /\ \A i \in Depth : stack'[i] = IF i = Len(stack) THEN f ELSE stack[i]
  BY <1>2, <1>3, <1>4, FrameSet
<1>6. \A i \in Depth : stack'[i].obj = stack[i].obj /\ stack'[i].found = stack[i].found
  BY <1>3, <1>5 DEF Frame
<1>7. FrameOK(Len(stack))
  BY <1>5 DEF IInv, Stacked
<1>8. /\ Frame.obj \in Known \cup {None} /\ Known \subseteq Objects /\ None \notin Known
  BY <1>2, <1>7, NoneIsNoObject DEF FrameOK, Frame, Typed, Known
<1>9. Known' = Known /\ resolving' = {}
  <2>1. \A o \in resolving : o = Frame.obj
    BY DEF IInv, Stacked
  <2> QED BY <2>1, <1>1, <1>8 DEF Known
<1>10. Reached' = Reached /\ Linked' = Linked
  BY <1>1, <1>5, <1>6 DEF Reached, Linked
<1>11. Typed'
  BY <1>1, <1>2, <1>5 DEF Typed
<1>12. Stacked'
  <2>1. ASSUME NEW i \in Depth PROVE FrameOK(i)'
    <3>1. FrameOK(i)
      BY DEF IInv, Stacked
    <3>2. CASE i = Len(stack)
      <4>1. \A j \in 1 .. Len(f.found) : ~(j < f.next)
        <5>1. Len(f.found) \in Nat
          BY <1>3 DEF Frames
        <5> QED BY <5>1, <1>3
      <4> QED BY <4>1, <3>1, <3>2, <1>3, <1>5, <1>6, <1>9 DEF FrameOK
    <3>3. CASE i # Len(stack)
      BY <3>1, <3>3, <1>5, <1>9 DEF FrameOK
    <3> QED BY <3>2, <3>3
  <2>2. \A i, j \in Depth : stack'[i].obj = stack'[j].obj => i = j
    BY <1>6 DEF IInv, Stacked
  <2>3. top' # 0
    BY <1>1, <1>2 DEF IInv, Stacked
  <2> QED BY <2>1, <2>2, <2>3, <1>5, <1>9 DEF Stacked
<1>13. \A p, s : Pointed(p, s) => Pointed(p, s)'
  BY <1>1, <1>10, PointedStays
<1>14. Scanned'
  <2>1. AllPointed(Frame.obj)
    BY <1>1, <1>2 DEF IInv, Scanned, AllPointed
  <2>2. \A p : AllPointed(p) => AllPointed(p)'
    BY <1>1, <1>13, SameInput DEF AllPointed
  <2>3. \A p \in resolved' : AllPointed(p)'
    BY <2>1, <2>2, <1>1 DEF IInv, Scanned
  <2>4. AllPointed(None)'
    <3>1. CASE stack[1].obj = None /\ stack[1].next = 0
      <4>1. 1 \in Depth /\ (1 < Len(stack) => stack[1].next > 0)
        BY <1>5 DEF Depth, IInv, Stacked, FrameOK
      <4>2. Len(stack) = 1
        BY <4>1, <3>1, <1>5 DEF Depth
      <4> QED BY <4>2, <3>1, <2>1, <2>2 DEF Frame
    <3>2. CASE AllPointed(None)
      BY <3>2, <2>2
    <3>3. top > 0
      BY <1>2 DEF IInv, Stacked, Typed
    <3> QED BY <3>1, <3>2, <3>3 DEF IInv, Scanned
  <2>5. \A p \in Objects \ Known' : AllInitial(p)'
    BY <1>1, <1>9, SameInput DEF IInv, Scanned, AllInitial, Initial
  <2>6. Frame'.next # 0 /\ top' # 0
    BY <1>1, <1>2, <1>3, <1>5 DEF IInv, Stacked
  <2> QED BY <2>3, <2>4, <2>5, <2>6 DEF Scanned
<1>15. Reaching'
  BY <1>1, <1>2, <1>9, <1>10, SameInput DEF IInv, Reaching
<1> QED BY <1>11, <1>12, <1>14, <1>15 DEF IInv

\* The list of a call that returns is merged: what was reached stays reached.
LEMMA ReturnStep == ASSUME IInv, Return PROVE IInv'
<1> DEFINE n == Len(stack)
<1>1. /\ Recursing /\ Frame.next > Len(Frame.found)
      /\ dependents' = dependents \cup Elements(Frame.found)
      /\ stack' = SubSeq(stack, 1, n - 1)
      /\ files' = files /\ at' = at /\ resolving' = resolving
      /\ resolved' = resolved /\ top' = top /\ status' = status
  BY DEF Return, Merged
<1>2. /\ status = "running" /\ stack # <<>> /\ Frame.next > 0 /\ Frame \in Frames
      /\ Typed /\ n \in Depth /\ n \in Nat
  BY <1>1, FrameReached DEF Recursing, IInv
<1>3. /\ stack' \in Seq(Frames) /\ Len(stack') = n - 1 /\ Depth' = 1 .. n - 1
      /\ \A i \in 1 .. n - 1 : stack'[i] = stack[i]
      /\ Depth = 1 .. n /\ n > 0
  <2>1. \A i \in 1 .. n - 1 : stack[i] \in Frames
    BY <1>2 DEF Typed
  <2>2. Depth = 1 .. n /\ n > 0
    BY <1>2 DEF Depth
  <2> HIDE DEF n
  <2>3. /\ stack' \in Seq(Frames) /\ Len(stack') = n - 1
        /\ \A i \in 1 .. n - 1 : stack'[i] = stack[i]
    BY <2>1, <2>2, <1>1, <1>2, SubSeqProperties
  <2> QED BY <2>2, <2>3 DEF Depth
<1>4. FrameOK(n) /\ Frame = stack[n]
  BY <1>2 DEF IInv, Stacked, Frame
<1>5. Known' = Known /\ resolving = {}
  BY <1>1, <1>2 DEF Known, IInv, Stacked
<1>6. /\ Elements(Frame.found) \subseteq Known /\ Elements(Frame.found) \subseteq Objects
      /\ Frame.found \in Seq(Objects)
  <2>1. Frame.found \in Seq(Objects) /\ Frame.next \in Nat
    BY <1>2 DEF Frames
  <2>2. \A j \in 1 .. Len(Frame.found) : Frame.found[j] \in Known
    BY <2>1, <1>1, <1>4 DEF FrameOK
  <2> QED BY <2>1, <2>2 DEF Elements
<1> HIDE DEF n
<1>7. Reached' = Reached
  <2>0. Linked' = Linked \cup Elements(Frame.found)
    BY <1>1 DEF Linked
  <2>1. Reached \subseteq Reached'
    <3>1. ASSUME NEW o \in Objects, NEW i \in Depth, o \in Elements(stack[i].found)
          PROVE  o \in Reached'
      <4>1. CASE i = n
        BY <4>1, <3>1, <2>0, <1>4 DEF Reached
      <4>2. CASE i # n
        <5>1. i \in 1 .. n - 1
          BY <4>2, <1>2, <1>3
        <5> QED BY <5>1, <3>1, <1>3 DEF Reached
      <4> QED BY <4>1, <4>2
    <3> QED BY <3>1, <2>0 DEF Reached
  <2>2. Reached' \subseteq Reached
    BY <1>1, <1>2, <1>3, <1>4, <1>6 DEF Reached, Linked
  <2> QED BY <2>1, <2>2
<1>8. Typed'
  BY <1>1, <1>2, <1>3, <1>6 DEF Typed
<1>9. Stacked'
  <2>1. \A i \in Depth' : FrameOK(i)'
    <3>1. ASSUME NEW i \in 1 .. n - 1 PROVE FrameOK(i)'
      <4>1. i \in Depth /\ i < Len(stack) /\ stack'[i] = stack[i]
        BY <1>2, <1>3 DEF n
      <4> QED BY <4>1, <1>5 DEF IInv, Stacked, FrameOK
    <3> QED BY <3>1, <1>3
  <2>2. \A i, j \in Depth' : stack'[i].obj = stack'[j].obj => i = j
    BY <1>2, <1>3 DEF IInv, Stacked
  <2>3. top' # 0
    BY <1>1, <1>2 DEF IInv, Stacked
  <2> QED BY <2>1, <2>2, <2>3, <1>1, <1>5 DEF Stacked
<1>10. \A p, s : Pointed(p, s) => Pointed(p, s)'
  BY <1>1, <1>7, PointedStays
<1>11. Scanned'
  <2>1. \A p : AllPointed(p) => AllPointed(p)'
    BY <1>1, <1>10, SameInput DEF AllPointed
  <2>2. top > 0 /\ top' > 0
    BY <1>1, <1>2 DEF IInv, Stacked, Typed
  <2>3. stack[1].next > 0
    <3>1. CASE n = 1
      BY <3>1, <1>2, <1>4
    <3>2. CASE n > 1
      BY <3>2, <1>3 DEF IInv, Stacked, FrameOK, n
    <3> QED BY <3>1, <3>2, <1>2, <1>3
  <2>4. AllPointed(None)'
    BY <2>1, <2>2, <2>3 DEF IInv, Scanned
  <2>5. stack' # <<>> => Frame'.next # 0
    <3>1. ASSUME stack' # <<>> PROVE n - 1 \in Depth' /\ n - 1 > 0
      <4>1. Len(stack') > 0
        BY <3>1, <1>3, NotEmpty
      <4> QED BY <4>1, <1>3, <1>2
    <3>2. ASSUME stack' # <<>> PROVE Frame'.next > 0
      <4>1. Frame' = stack[n - 1]
        BY <3>1, <3>2, <1>3 DEF Frame
      <4>2. n - 1 \in Depth /\ n - 1 < Len(stack)
        BY <3>1, <3>2, <1>2, <1>3 DEF n
      <4> QED BY <4>1, <4>2 DEF IInv, Stacked, FrameOK
    <3> QED BY <3>2
  <2>6. \A p \in Objects \ Known' : AllInitial(p)'
    BY <1>1, <1>5, SameInput DEF IInv, Scanned, AllInitial, Initial
  <2>7. \A p \in resolved' : AllPointed(p)'
    BY <2>1, <1>1 DEF IInv, Scanned
  <2> QED BY <2>2, <2>4, <2>5, <2>6, <2>7 DEF Scanned
<1>12. Reaching'
  BY <1>1, <1>2, <1>5, <1>6, <1>7, SameInput DEF IInv, Reaching
<1> QED BY <1>8, <1>9, <1>11, <1>12 DEF IInv

\* A call for an object of the list: as in TopStep, on top of the others.
LEMMA RecurseStep == ASSUME IInv, Recurse PROVE IInv'
<1> DEFINE n == Len(stack)
           o == Frame.found[Frame.next]
           g == [Frame EXCEPT !.next = @ + 1]
           frames == [stack EXCEPT ![n] = g]
           f == [obj |-> o, todo |-> Unresolved(o), found |-> <<>>, next |-> 0]
<1>1. /\ Recursing /\ Frame.next <= Len(Frame.found)
      /\ Call(o, [stack EXCEPT ![n].next = @ + 1])
      /\ files' = files /\ at' = at /\ resolved' = resolved /\ top' = top
      /\ dependents' = dependents /\ status' = status
  BY DEF Recurse
<1>2. /\ status = "running" /\ stack # <<>> /\ Frame.next > 0 /\ Frame \in Frames
      /\ Typed /\ n \in Depth /\ n \in Nat
  BY <1>1, FrameReached DEF Recursing, IInv
<1>3. /\ g \in Frames /\ g.obj = Frame.obj /\ g.found = Frame.found
      /\ g.next = Frame.next + 1
  BY <1>2 DEF Frames
<1>4. /\ Frame.found \in Seq(Objects) /\ Frame.next \in Nat /\ o \in Objects
      /\ o \in Elements(Frame.found)
  <2>1. Frame.found \in Seq(Objects) /\ Frame.next \in Nat
    BY <1>2 DEF Frames
  <2>2. Frame.next \in DOMAIN Frame.found
    BY <2>1, <1>1, <1>2
  <2> QED BY <2>1, <2>2 DEF Elements
<1>5. [stack EXCEPT ![n].next = @ + 1] = frames
  BY <1>2 DEF Typed, Frame
<1>6. Call(o, frames)
  BY <1>1, <1>5
<1> HIDE DEF g
<1>7. /\ frames \in Seq(Frames) /\ Len(frames) = n /\ Depth = 1 .. n
      /\ \A i \in Depth : frames[i] = IF i = n THEN g ELSE stack[i]
  BY <1>2, <1>3, ExceptSeq DEF Typed, Depth
<1>8. \A i \in Depth : frames[i].obj = stack[i].obj /\ frames[i].found = stack[i].found
  BY <1>3, <1>7 DEF Frame
<1>9. FrameOK(n) /\ Frame = stack[n]
  BY <1>2 DEF IInv, Stacked, Frame
<1>10. resolving = {} /\ o \in Reached
  <2>1. resolving = {}
    BY <1>2 DEF IInv, Stacked
  <2> QED BY <2>1, <1>2, <1>4, <1>9 DEF Reached
<1>11. o # None
  BY <1>4, NoneIsNoObject
<1> HIDE DEF frames, o
<1>12. \/ /\ o \in Known /\ stack' = frames /\ resolving' = resolving
       \/ /\ o \notin Known
          /\ resolving' = resolving \cup ({o} \ {None})
          /\ stack' \in Seq(Frames) /\ Len(stack') = Len(frames) + 1
          /\ \A i \in 1 .. Len(frames) : stack'[i] = frames[i]
          /\ stack'[Len(frames) + 1] = f
  BY <1>2, <1>4, <1>6, <1>7, Called
<1>13. /\ f.obj = o /\ f.todo = Unresolved(o) /\ f.found = <<>> /\ f.next = 0
       /\ Elements(<<>>) = {}
  BY DEF Elements
<1> HIDE DEF f
\* In both cases
<1>14. /\ stack' \in Seq(Frames)
       /\ \/ Len(stack') = n /\ o \in Known
          \/ Len(stack') = n + 1 /\ stack'[n + 1] = f
       /\ \A i \in Depth : stack'[i] = frames[i]
       /\ Known' = Known \cup {o}
       /\ resolving' = IF Len(stack') = n THEN {} ELSE {o}
  <2> HIDE DEF n
  <2>1. CASE o \in Known /\ stack' = frames /\ resolving' = resolving
    <3>1. Known' = Known
      BY <2>1, <1>1 DEF Known
    <3> QED BY <2>1, <3>1, <1>7, <1>10
  <2>2. CASE /\ o \notin Known
             /\ resolving' = resolving \cup ({o} \ {None})
             /\ stack' \in Seq(Frames) /\ Len(stack') = Len(frames) + 1
             /\ \A i \in 1 .. Len(frames) : stack'[i] = frames[i]
             /\ stack'[Len(frames) + 1] = f
    <3>1. resolving' = {o} /\ Known' = Known \cup {o}
      BY <2>2, <1>1, <1>10, <1>11 DEF Known
    <3>2. n + 1 # n
      BY <1>2
    <3> QED BY <2>2, <3>1, <3>2, <1>7
  <2> QED BY <2>1, <2>2, <1>12
<1>15. /\ Depth' = 1 .. Len(stack') /\ stack' # <<>> /\ Frame' = stack'[Len(stack')]
       /\ n > 0
  <2>1. n > 0
    BY <1>2, <1>7
  <2>2. stack' # <<>>
    BY <2>1, <1>2, <1>14, NotEmpty
  <2> QED BY <2>1, <2>2 DEF Depth, Frame
<1> HIDE DEF n
<1>16. Reached' = Reached
  <2>1. Linked' = Linked
    BY <1>1 DEF Linked
  <2>2. ASSUME NEW p \in Objects
        PROVE  (\E i \in Depth' : p \in Elements(stack'[i].found))
                 <=> (\E i \in Depth : p \in Elements(stack[i].found))
    <3>1. CASE Len(stack') = n
      BY <3>1, <1>7, <1>8, <1>14, <1>15
    <3>2. CASE Len(stack') = n + 1 /\ stack'[n + 1] = f
      <4>1. \A i \in Depth' : i \in Depth \/ i = n + 1
        BY <3>2, <1>2, <1>7, <1>15
      <4>2. \A i \in Depth : i \in Depth'
        BY <3>2, <1>2, <1>7, <1>15
      <4> QED BY <4>1, <4>2, <3>2, <1>8, <1>13, <1>14
    <3> QED BY <3>1, <3>2, <1>14
  <2> QED BY <2>1, <2>2 DEF Reached
<1>17. Typed'
  BY <1>1, <1>2, <1>4, <1>14 DEF Typed
<1>18. Stacked'
  <2>1. ASSUME NEW i \in Depth PROVE FrameOK(i)'
    <3>1. FrameOK(i) /\ (i < n => stack[i].next > 0) /\ i \in Nat
      BY <1>2, <1>7 DEF IInv, Stacked, FrameOK, n
    <3>2. stack'[i].obj = stack[i].obj /\ stack'[i].found = stack[i].found
      BY <1>8, <1>14
    <3>3. stack'[i].next > 0
      BY <3>1, <1>2, <1>3, <1>4, <1>7, <1>14
    <3>4. ASSUME NEW j \in 1 .. Len(stack[i].found), j < stack'[i].next
          PROVE  stack[i].found[j] \in Known'
      <4>1. CASE i = n
        <5>1. j < Frame.next + 1 /\ j \in 1 .. Len(Frame.found)
          BY <4>1, <3>4, <1>3, <1>7, <1>9, <1>14
        <5>2. CASE j < Frame.next
          BY <5>1, <5>2, <4>1, <1>9, <1>14 DEF FrameOK
        <5>3. CASE j = Frame.next
          BY <5>3, <4>1, <1>9, <1>14 DEF o
        <5> QED BY <5>1, <5>2, <5>3, <1>4
      <4>2. CASE i # n
        BY <4>2, <3>1, <3>4, <1>7, <1>14 DEF FrameOK
      <4> QED BY <4>1, <4>2
    <3> QED BY <3>1, <3>2, <3>3, <3>4, <1>14 DEF FrameOK
  <2>2. ASSUME NEW i, i = n + 1, Len(stack') = n + 1, stack'[n + 1] = f
        PROVE  FrameOK(i)'
    <3>1. stack'[i] = f /\ ~(i < Len(stack'))
      BY <2>2, <1>2
    <3>2. \A j \in 1 .. Len(f.found) : ~(j < f.next)
      BY <1>13
    <3> QED BY <3>1, <3>2, <1>11, <1>13, <1>14 DEF FrameOK
  <2>3. \A i \in Depth' : i \in Depth \/ (i = n + 1 /\ Len(stack') = n + 1)
    BY <1>2, <1>7, <1>14, <1>15
  <2>4. \A i \in Depth' : FrameOK(i)'
    BY <2>1, <2>2, <2>3, <1>14, <1>2
  <2>5. ASSUME NEW i \in Depth', NEW j \in Depth', stack'[i].obj = stack'[j].obj
        PROVE  i = j
    <3>1. CASE i \in Depth /\ j \in Depth
      BY <3>1, <2>5, <1>8, <1>14 DEF IInv, Stacked
    <3>2. CASE i = n + 1 /\ j = n + 1
      BY <3>2
    <3>3. ASSUME Len(stack') = n + 1, NEW k \in Depth
          PROVE  stack'[k].obj # o /\ stack'[n + 1] = f
      <4>1. stack'[n + 1] = f /\ o \notin Known
        BY <3>3, <1>2, <1>7, <1>12, <1>14
      <4>2. stack'[k].obj \in Known \cup {None}
        BY <1>8, <1>14 DEF IInv, Stacked, FrameOK
      <4> QED BY <4>1, <4>2, <1>11
    <3>4. CASE i \in Depth /\ j = n + 1 /\ Len(stack') = n + 1
      BY <3>3, <3>4, <2>5, <1>13
    <3>5. CASE j \in Depth /\ i = n + 1 /\ Len(stack') = n + 1
      BY <3>3, <3>5, <2>5, <1>13
    <3> QED BY <3>1, <3>2, <3>4, <3>5, <2>3
  <2>6. top' # 0
    BY <1>1, <1>2 DEF IInv, Stacked
  <2>7. \A p \in resolving' : Frame'.next = 0 /\ Frame'.obj = p
    BY <1>2, <1>13, <1>14, <1>15
  <2> QED BY <2>4, <2>5, <2>6, <2>7, <1>15 DEF Stacked
<1>19. \A p, s : Pointed(p, s) => Pointed(p, s)'
  BY <1>1, <1>16, PointedStays
<1>20. Scanned'
  <2>1. \A p : AllPointed(p) => AllPointed(p)'
    BY <1>1, <1>19, SameInput DEF AllPointed
  <2>2. top > 0 /\ top' > 0
    BY <1>1, <1>2 DEF IInv, Stacked, Typed
  <2>3. stack[1].next > 0
    <3>1. CASE n = 1
      BY <3>1, <1>2, <1>9
    <3>2. CASE n > 1
      BY <3>2, <1>2, <1>7 DEF IInv, Stacked, FrameOK, n
    <3> QED BY <3>1, <3>2, <1>2, <1>15
  <2>4. AllPointed(None)'
    BY <2>1, <2>2, <2>3 DEF IInv, Scanned
  <2>5. \A p \in resolved' : AllPointed(p)'
    BY <2>1, <1>1 DEF IInv, Scanned
  <2>6. \A p \in Objects \ Known : AllInitial(p)'
    BY <1>1, SameInput DEF IInv, Scanned, AllInitial, Initial
  <2>7. ASSUME Frame'.next = 0
        PROVE  /\ (Frame.todo = Unresolved(Frame.obj))'
               /\ (\A s \in Unresolved(Frame.obj) : Initial(Frame.obj, s))'
    <3>1. Len(stack') = n + 1
      <4>1. stack'[n].next # 0
        BY <1>2, <1>3, <1>4, <1>7, <1>14
      <4> QED BY <4>1, <2>7, <1>14, <1>15
    <3>2. Frame' = f /\ o \notin Known
      BY <3>1, <1>2, <1>7, <1>12, <1>14, <1>15
    <3>3. \A s \in Unresolved(o) : Initial(o, s)
      BY <3>2, <1>4 DEF IInv, Scanned, AllInitial
    <3> QED BY <3>2, <3>3, <1>1, <1>13, SameInput DEF Initial
  <2> QED BY <2>2, <2>4, <2>5, <2>6, <2>7, <1>14 DEF Scanned
<1>21. Reaching'
  BY <1>1, <1>2, <1>10, <1>14, <1>16, SameInput DEF IInv, Reaching
<1> QED BY <1>17, <1>18, <1>20, <1>21 DEF IInv

-----------------------------------------------------------------------------
(* The invariant.                                                          *)

\* resolve() starts with the files of the command line and no call.
LEMMA InitStep == ASSUME Init PROVE IInv
<1>1. /\ files \in Input /\ resolving = {} /\ resolved = {} /\ dependents = {}
      /\ stack = <<>> /\ top = 0 /\ status = "running"
      /\ at = [o \in Objects \cup {None} |->
                 [s \in Symbols |-> IF IsWeak(o, s) THEN o ELSE None]]
  BY ResolverAssumption DEF Init
<1>2. /\ Len(files.cmd) \in Nat
      /\ \A i \in DOMAIN files.cmd : files.cmd[i] \in Objects
  BY <1>1 DEF Input
<1>3. stack \in Seq(Frames) /\ Depth = {} /\ Known = {}
  BY <1>1, EmptySeq DEF Depth, Known
<1>4. Typed
  <2>1. at \in [Objects \cup {None} -> [Symbols -> Objects \cup {None}]]
    BY <1>1
  <2> QED BY <2>1, <1>1, <1>2, <1>3 DEF Typed
<1>5. Stacked
  BY <1>1, <1>3 DEF Stacked
<1>6. Scanned
  <2>1. \A o \in Objects \cup {None} : AllInitial(o)
    BY <1>1, UnresolvedType DEF AllInitial, Initial
  <2> QED BY <2>1, <1>1 DEF Scanned
<1>7. Reached = Elements(files.cmd)
  BY <1>1, <1>3 DEF Reached, Linked
<1>8. Reached \subseteq Least
  BY <1>1, <1>7, LeastIsClosed DEF Elements, Links!IsClosed
<1>9. Reaching
  BY <1>1, <1>2, <1>3, <1>8 DEF Reaching
<1> QED BY <1>4, <1>5, <1>6, <1>9 DEF IInv

\* A step of another part of the linker changes nothing of it.
LEMMA StutterStep == ASSUME IInv, UNCHANGED vars PROVE IInv'
<1>1. /\ files' = files /\ at' = at /\ resolving' = resolving
      /\ resolved' = resolved /\ stack' = stack /\ top' = top
      /\ dependents' = dependents /\ status' = status
  BY DEF vars
<1>2. Typed'
  BY <1>1 DEF IInv, Typed
<1>3. Known' = Known /\ Reached' = Reached /\ Linked' = Linked
  BY <1>1 DEF Known, Reached, Linked, Depth
<1>4. Stacked'
  BY <1>1, <1>3 DEF IInv, Stacked, FrameOK, Depth, Frame
<1>5. \A p, s : Pointed(p, s) => Pointed(p, s)'
  BY <1>1, <1>3, PointedStays
<1>6. Scanned'
  BY <1>1, <1>3, <1>5, SameInput
     DEF IInv, Scanned, AllPointed, AllInitial, Initial, Frame
<1>7. Reaching'
  BY <1>1, <1>3, SameInput DEF IInv, Reaching
<1> QED BY <1>2, <1>4, <1>6, <1>7 DEF IInv

\* In every state of resolve(), for every input, the inductive invariant holds.
THEOREM Invariant == Spec => []IInv
<1>1. IInv /\ [Next]_vars => IInv'
  <2> SUFFICES ASSUME IInv, [Next]_vars PROVE IInv'
    OBVIOUS
  <2> QED BY TopStep, FinishStep, ResolveInBaseStep, ResolveInObjectStep,
             NoObjectStep, EndScanStep, RecurseStep, ReturnStep, StutterStep
          DEF Next
<1> QED BY InitStep, <1>1, PTL DEF Spec

(* The calls of resolve_symbols() are for different objects: the recursion *)
(* is never deeper than there are objects, and one for the undefines.      *)
LEMMA DepthIsBounded ==
  ASSUME IInv
  PROVE  Len(stack) <= Cardinality(Objects) + 1
<1> DEFINE T == Objects \cup {None}
           f == [i \in Depth |-> stack[i].obj]
<1>1. Len(stack) \in Nat /\ Cardinality(Objects) \in Nat
  BY ResolverAssumption, FS_CardinalityType DEF IInv, Typed
<1>2. IsFiniteSet(T) /\ Cardinality(T) = Cardinality(Objects) + 1
  BY ResolverAssumption, FS_AddElement, NoneIsNoObject
<1>3. IsFiniteSet(Depth) /\ Cardinality(Depth) = Len(stack)
  <2> DEFINE n == Len(stack)
  <2>1. n \in Int /\ 1 \in Int /\ n \in Nat
    BY <1>1
  <2> HIDE DEF n
  <2>2. IsFiniteSet(1 .. n)
    BY <2>1, FS_Interval
  <2>3. Cardinality(1 .. n) = IF 1 > n THEN 0 ELSE n - 1 + 1
    BY <2>1, FS_Interval
  <2> QED BY <2>1, <2>2, <2>3 DEF n, Depth
<1>4. f \in [Depth -> T]
  <2>1. \A i \in Depth : stack[i] \in Frames
    BY DEF IInv, Typed, Depth
  <2> QED BY <2>1 DEF Frames
<1>5. \A i, j \in Depth : f[i] = f[j] => i = j
  BY DEF IInv, Stacked
<1> HIDE DEF T, f
<1>6. ~ (Cardinality(T) < Cardinality(Depth))
  BY <1>2, <1>3, <1>4, <1>5, FS_PigeonHole
<1> QED BY <1>1, <1>2, <1>3, <1>6

\* At the end every object that is reached is linked and was resolved.
LEMMA AllResolved ==
  ASSUME IInv, stack = <<>>, top > Len(files.cmd)
  PROVE  /\ Linked \in SUBSET Objects /\ Linked \subseteq Least
         /\ Reached = Linked
         /\ \A o \in Linked \cup {None} : AllPointed(o)
<1>1. /\ Len(files.cmd) \in Nat /\ top \in Nat
      /\ \A i \in DOMAIN files.cmd : i \in 1 .. Len(files.cmd)
      /\ \A i \in DOMAIN files.cmd : files.cmd[i] \in Objects
  BY DEF IInv, Typed, Input
<1>2. Reached = Linked
  BY DEF Reached, Depth
<1>3. resolving = {}
  BY DEF IInv, Stacked
<1>4. Linked \subseteq resolved
  BY <1>1, <1>3 DEF Linked, Elements, Known, IInv, Reaching
<1>5. AllPointed(None)
  BY <1>1 DEF IInv, Scanned
<1> QED BY <1>2, <1>4, <1>5 DEF IInv, Scanned, Reaching, Typed

(* What resolve() hands to the outputter leaves no symbol open, and its    *)
(* recursion is no deeper than there are objects (rld-resolver.cpp:75-206).*)
THEOREM LinkedIsClosed == Spec => []Closed
<1>1. IInv => Closed
  <2> SUFFICES ASSUME IInv PROVE Closed
    OBVIOUS
  <2>1. TypeOK
    BY DepthIsBounded DEF IInv, Typed, TypeOK
  <2>2. ASSUME status = "done", NEW o \in Linked \cup {None},
               NEW s \in Unresolved(o)
        PROVE  s \in files.base \/ at[o][s] \in Linked
    <3>1. Reached = Linked /\ AllPointed(o)
      BY <2>2, AllResolved DEF IInv, Reaching
    <3> QED BY <3>1, <2>2 DEF AllPointed, Pointed
  <2> QED BY <2>1, <2>2 DEF Closed
<1> QED BY Invariant, <1>1, PTL

-----------------------------------------------------------------------------
(* The resolver implements the linker's promise.                           *)

\* What is linked when the loops end is the least closed set, complete.
LEMMA LinkedIsLeast ==
  ASSUME IInv, stack = <<>>, top > Len(files.cmd)
  PROVE  Links!LeastClosed(files) = Linked /\ Links!NoneMissing(Linked)
<1>1. /\ Linked \in SUBSET Objects /\ Linked \subseteq Least
      /\ Reached = Linked
      /\ \A o \in Linked \cup {None} : AllPointed(o)
  BY AllResolved
<1>2. ASSUME NEW o \in Linked \cup {None}, NEW x \in Links!Needs(files, o)
      PROVE  x # None /\ x \in Linked
  <2>1. PICK s \in Unresolved(o) \ files.base : x = Definer(s)
    BY <1>2 DEF Links!Needs, Definer, Unresolved
  <2> QED BY <2>1, <1>1, <1>2 DEF AllPointed, Pointed
<1>3. {files.cmd[i] : i \in DOMAIN files.cmd} \subseteq Linked
  BY DEF Linked, Elements
<1>4. Links!IsClosed(files, Linked)
  BY <1>2, <1>3 DEF Links!IsClosed, None, Links!None
<1>5. Links!NoneMissing(Linked)
  BY <1>2 DEF Links!NoneMissing, None, Links!None
<1> QED BY <1>1, <1>4, <1>5, LeastIsUnique

\* A symbol that is looked at and has no object is missing in every closed set.
LEMMA MissingIsNeeded ==
  ASSUME IInv, Scanning, Frame.todo # {}, Symbol \notin files.base,
         Definer(Symbol) = None
  PROVE  ~ Links!NoneMissing(Links!LeastClosed(files))
<1>1. Links!LeastClosed(files) = Least
  BY LeastIsClosed, LeastIsUnique DEF Least, IInv, Typed
<1>2. Frame.obj \in Least \cup {None} /\ Frame \in Frames
  BY FrameReached DEF Scanning
<1>3. Symbol \in Unresolved(Frame.obj)
  BY <1>2, SymbolIsLeft DEF Scanning, IInv, Scanned, Frames
<1> DEFINE o == Frame.obj
           s == Symbol
<1>4. o \in Least \cup {None} /\ s \in Unresolved(o) \ files.base /\ Definer(s) = None
  BY <1>2, <1>3
<1> HIDE DEF o, s
<1>5. None \in Links!Needs(files, o)
  BY <1>4 DEF Links!Needs, Definer, Unresolved
<1> QED BY <1>1, <1>4, <1>5 DEF Links!NoneMissing, None, Links!None

(* resolve() links exactly the least closed set of objects, whatever the   *)
(* order of its calls, and only fails for a symbol that is needed and that *)
(* no object file and no member of a library defines.                      *)
THEOREM ResolverImplementsLinkSet == Spec => IsLinkSet
<1>1. Init => Links!Init
  BY DEF Init, Links!Init
<1>2. IInv /\ [Next]_vars => [Links!Next]_(Links!vars)
  <2> SUFFICES ASSUME IInv, [Next]_vars PROVE [Links!Next]_(Links!vars)
    OBVIOUS
  <2>1. CASE Finish
    <3>1. /\ stack = <<>> /\ top > Len(files.cmd) /\ status = "running"
          /\ status' = "done" /\ files' = files /\ dependents' = dependents
      BY <2>1 DEF Finish
    <3>2. Links!LeastClosed(files) = Linked /\ Links!NoneMissing(Linked)
      BY <3>1, LinkedIsLeast
    <3>3. Linked' = Linked
      BY <3>1 DEF Linked
    <3> QED BY <3>1, <3>2, <3>3
            DEF Links!Next, Links!Link, Links!Decide, Links!NoneMissing
  <2>2. CASE NoObject
    <3>1. /\ Scanning /\ Frame.todo # {} /\ Symbol \notin files.base
          /\ Definer(Symbol) = None /\ status = "running"
          /\ status' \in {"crash", "error"} /\ files' = files
      BY <2>2 DEF NoObject, Scanning
    <3>2. ~ Links!NoneMissing(Links!LeastClosed(files))
      BY <3>1, MissingIsNeeded
    <3> QED BY <3>1, <3>2 DEF Links!Next, Links!Fail, Links!Decide
  <2>3. ASSUME status' = status, files' = files,
               status = "done" => dependents' = dependents
        PROVE  UNCHANGED Links!vars
    BY <2>3 DEF Links!vars, Linked
  <2>4. CASE Top \/ ResolveInBase \/ ResolveInObject \/ EndScan \/ Recurse
             \/ Return \/ UNCHANGED vars
    BY <2>3, <2>4 DEF Top, ResolveInBase, ResolveInObject, EndScan, Recurse,
                      Return, Scanning, Recursing, vars
  <2> QED BY <2>1, <2>2, <2>4 DEF Next
<1> QED BY Invariant, <1>1, <1>2, PTL DEF Spec, IsLinkSet, Links!Spec

===============================================================================
