--------------------------- MODULE TesterGdb_proofs ---------------------------
(***************************************************************************)
(* Proofs about the %gdb runner: for every script, every time-out and every*)
(* GDB, however many records it prints and however the five threads, a     *)
(* Ctrl-C and a console interleave, the script reaches GDB in order, a     *)
(* test is reported with its output, whole unless some was given up, and a *)
(* stopped GDB is dead.                                                    *)
(***************************************************************************)
EXTENDS TesterGdb, SequenceTheorems, TLAPS

(* Where the execute thread is says whether there is a GDB, and a reader   *)
(* and a writer for its pipes; execute.open() joins the reader or gives it *)
(* up.  A thread in _stop() has its caller waiting.                        *)
Threads ==
  /\ test = "off" <=> exec = "off"
  /\ test = "off" => ~process /\ ~stopped
  /\ handle <=> exec = "wait"
  /\ child = "running" => exec \in {"spawned", "wait"}
  /\ exec \in {"off", "start", "spawn", "dead"} => child = "no" /\ reader = "off"
  /\ exec \in {"off", "start", "spawn"} => writer = "off"
  /\ exec \in {"spawned", "wait", "cleanup", "join"} => reader # "off"
  /\ exec \in {"finish", "done"} => reader \in {"off", "ended"} \/ cut
  /\ reader = "ended" => child # "running" \/ cut
  /\ stop["test"] # Awake => test = "sleep" /\ stopped
  /\ stop["reader"] # Awake <=> reader = "stopping"
  /\ stop["main"] # Awake <=> killer = "stopping"
  /\ reader = "stopping" \/ killer = "stopping" => stopped

(* The runner gives up its process only when the execute thread is done or *)
(* it was stopped; after that there is no GDB, and none is started, unless *)
(* it was killed while it was being started.                               *)
Ending ==
  /\ test \in {"late", "after", "over"} => ~process
  /\ test = "late" => stopped
  /\ test # "off" /\ ~process => stopped \/ exec = "done"
  /\ test # "off" /\ ~process /\ ~missed =>
       child # "running" /\ exec \notin {"spawn", "spawned"}
  /\ exec = "done" => (ecode = "error" <=> child = "failed")
  /\ test = "after" /\ ~stopped => ecode # "error"

(* f[i] is how many lines of the target came before record i of the pipe.  *)
Counts(f, got, rest, all) ==
  /\ f[1] = Len(got) /\ f[Len(rest) + 1] = Len(all)
  /\ \A i \in 1 .. Len(rest) :
       IF rest[i] \in Streamed
         THEN f[i + 1] = f[i] + 1 /\ all[f[i + 1]] = rest[i]
         ELSE f[i + 1] = f[i]

(* What was captured is the beginning of what was printed, and the rest of *)
(* it is in the pipe.                                                      *)
Delivered ==
  /\ output \in Seq(Streamed) /\ Len(output) <= Len(written)
  /\ \A i \in 1 .. Len(output) : output[i] = written[i]
  /\ \E f \in [1 .. Len(pipe) + 1 -> 0 .. Len(written)] : Counts(f, output, pipe, written)
Delivery ==
  /\ reader = "off" => pipe = <<>> /\ written = <<>>
  /\ reader = "ended" => pipe = <<>> \/ cut
  /\ test # "over" => reported = NoOutput
  /\ test \notin {"off", "over"} /\ ~stopped /\ ~cut => Delivered
  /\ test = "over" /\ reported # NoOutput /\ ~stopped =>
       (~cut => reported = written) /\ child # "failed" /\ exec = "done"

(* The commands of a sequence are in the order of the script ...           *)
InOrder(q) ==
  /\ \A i \in 1 .. Len(q) :
       q[i] > Confirm => \E j \in 1 .. i - 1 : q[j] = q[i] - 1
  /\ \A j \in 1 .. Len(q), i \in 1 .. Len(q) :
       i < j /\ q[j] >= Confirm => q[i] < q[j] /\ q[i] \notin Endings
(* ... and the next line of the script can follow it.                      *)
UpTo(q, k) ==
  k < ScriptLines => /\ \A i \in 1 .. Len(q) : q[i] \notin Endings /\ q[i] <= k
                     /\ k = 0 => \A i \in 1 .. Len(q) : q[i] < Confirm
                     /\ k > 0 => \E i \in 1 .. Len(q) : q[i] = k

(* What was sent and what waits in the two queues follow the script.       *)
Queue == (sent \o input) \o commands
Ordered ==
  /\ InOrder(sent) /\ Len(input) <= 1
  /\ writer # "ended" => InOrder(Queue) /\ UpTo(Queue, scriptLine)

IInv == TypeOK /\ Threads /\ Ending /\ Delivery /\ Ordered

-----------------------------------------------------------------------------
(* Sequences of commands.                                                  *)
LEMMA CommandsType ==
  /\ Commands \subseteq Int /\ Endings \subseteq Commands
  /\ {None, Empty, Confirm} \subseteq Commands
  /\ \A c \in Endings \cup {None, Empty} : c < Confirm
  /\ {None, Empty} \cap Endings = {}
  /\ \A k \in 0 .. ScriptLines : k \in Commands /\ k >= Confirm /\ k \notin Endings
BY GdbAssumption DEF Commands, Endings, None, Empty, Confirm, Backtrace, Disconnect, Quit

LEMMA CommandsInt ==
  ASSUME NEW q \in Seq(Commands)
  PROVE  Len(q) \in Nat /\ \A i \in 1 .. Len(q) : q[i] \in Commands /\ q[i] \in Int
<1>1. \A i \in 1 .. Len(q) : q[i] \in Commands
  OBVIOUS
<1>2. \A c \in Commands : c \in Int
  BY GdbAssumption DEF Commands, Quit
<1> QED BY <1>1, <1>2

LEMMA Grouping ==
  \A s, t, u \in Seq(Commands) : (s \o t) \o u = s \o (t \o u)
BY ConcatAssociative

\* What is no line of the script changes no order
LEMMA OthersFollow ==
  ASSUME NEW q \in Seq(Commands), NEW t \in Seq(Commands), InOrder(q),
         \A i \in 1 .. Len(t) : t[i] < Confirm
  PROVE  /\ InOrder(q \o t)
         /\ \A k \in 0 .. ScriptLines :
              UpTo(q, k) /\ (\A i \in 1 .. Len(t) : t[i] \notin Endings) => UpTo(q \o t, k)
<1> DEFINE r == q \o t
<1>1. /\ r \in Seq(Commands) /\ Len(r) = Len(q) + Len(t)
      /\ Len(q) \in Nat /\ Len(t) \in Nat
      /\ \A i \in 1 .. Len(q) : r[i] = q[i]
      /\ \A i \in Len(q) + 1 .. Len(r) : i - Len(q) \in 1 .. Len(t) /\ r[i] = t[i - Len(q)]
  BY ConcatProperties
<1>0. \A i \in 1 .. Len(r) : r[i] \in Int
  <2>1. r \in Seq(Commands)
    BY <1>1
  <2> HIDE DEF r
  <2> QED BY <2>1, CommandsInt
<1>2. \A i \in 1 .. Len(r) : r[i] >= Confirm => i \in 1 .. Len(q)
  <2> SUFFICES ASSUME NEW i \in 1 .. Len(r), i \notin 1 .. Len(q) PROVE ~(r[i] >= Confirm)
    OBVIOUS
  <2>1. i \in Len(q) + 1 .. Len(r)
    BY <1>1
  <2>2. r[i] < Confirm /\ r[i] \in Int
    BY <1>0, <1>1, <2>1
  <2> QED BY <2>2 DEF Confirm
<1>3. \A i \in 1 .. Len(q) : q[i] \in Int /\ i \in 1 .. Len(r)
  BY <1>1, CommandsInt
<1> HIDE DEF r
<1>4. ASSUME NEW i \in 1 .. Len(r), r[i] > Confirm
      PROVE  \E j \in 1 .. i - 1 : r[j] = r[i] - 1
  <2>1. i \in 1 .. Len(q) /\ q[i] > Confirm
    BY <1>0, <1>1, <1>2, <1>4 DEF Confirm
  <2>2. PICK j \in 1 .. i - 1 : q[j] = q[i] - 1
    BY <2>1 DEF InOrder
  <2>3. j \in 1 .. Len(q)
    BY <1>1, <2>1
  <2> QED BY <1>1, <2>1, <2>2, <2>3
<1>5. ASSUME NEW j \in 1 .. Len(r), NEW i \in 1 .. Len(r), i < j, r[j] >= Confirm
      PROVE  r[i] < r[j] /\ r[i] \notin Endings
  <2>1. j \in 1 .. Len(q)
    BY <1>2, <1>5
  <2>2. i \in 1 .. Len(q)
    BY <1>1, <1>5, <2>1
  <2> QED BY <1>1, <1>5, <2>1, <2>2 DEF InOrder
<1>6. InOrder(r)
  BY <1>4, <1>5 DEF InOrder
<1>7. ASSUME NEW k \in 0 .. ScriptLines, UpTo(q, k), k < ScriptLines,
             \A i \in 1 .. Len(t) : t[i] \notin Endings
      PROVE  UpTo(r, k)
  <2>1. \A i \in 1 .. Len(r) : r[i] \notin Endings
    <3> TAKE i \in 1 .. Len(r)
    <3>1. i \in 1 .. Len(q) \/ i \in Len(q) + 1 .. Len(r)
      BY <1>1
    <3> QED BY <1>1, <1>7, <3>1 DEF UpTo
  <2>2. \A i \in 1 .. Len(r) : r[i] <= k
    <3> SUFFICES ASSUME NEW i \in 1 .. Len(r) PROVE r[i] <= k
      OBVIOUS
    <3>1. CASE i \in 1 .. Len(q)
      BY <1>1, <1>7, <3>1 DEF UpTo
    <3>2. CASE i \notin 1 .. Len(q)
      <4>1. ~(r[i] >= Confirm) /\ r[i] \in Int
        BY <1>0, <1>2, <3>2
      <4> QED BY <4>1 DEF Confirm
    <3> QED BY <3>1, <3>2
  <2>3. k = 0 => \A i \in 1 .. Len(r) : r[i] < Confirm
    <3> SUFFICES ASSUME k = 0, NEW i \in 1 .. Len(r) PROVE r[i] < Confirm
      OBVIOUS
    <3>1. r[i] \in Int
      BY <1>0
    <3>2. CASE i \in 1 .. Len(q)
      BY <1>1, <1>7, <3>2 DEF UpTo
    <3>3. CASE i \notin 1 .. Len(q)
      BY <1>2, <3>1, <3>3 DEF Confirm
    <3> QED BY <3>2, <3>3
  <2>4. k > 0 => \E i \in 1 .. Len(r) : r[i] = k
    BY <1>1, <1>3, <1>7 DEF UpTo
  <2> QED BY <2>1, <2>2, <2>3, <2>4 DEF UpTo
<1>8. ASSUME NEW k \in 0 .. ScriptLines, UpTo(q, k),
             \A i \in 1 .. Len(t) : t[i] \notin Endings
      PROVE  UpTo(r, k)
  BY <1>7, <1>8 DEF UpTo
<1> QED BY <1>6, <1>8 DEF r

\* The next line of the script is in its order
LEMMA LineFollows ==
  ASSUME NEW q \in Seq(Commands), NEW k \in 0 .. ScriptLines, InOrder(q),
         \A i \in 1 .. Len(q) : q[i] \notin Endings /\ q[i] < k,
         k > 0 => \E i \in 1 .. Len(q) : q[i] = k - 1
  PROVE  /\ InOrder(Append(q, k))
         /\ \A i \in 1 .. Len(q) + 1 : Append(q, k)[i] \notin Endings /\ Append(q, k)[i] <= k
         /\ Append(q, k)[Len(q) + 1] = k
<1> DEFINE r == Append(q, k)
<1>0. k \in Int /\ k \in Commands /\ k \notin Endings /\ \A i \in 1 .. Len(q) : q[i] \in Int
  <2>1. k \in Int
    BY GdbAssumption
  <2> QED BY <2>1, CommandsType, CommandsInt
<1>1. /\ Len(r) = Len(q) + 1 /\ Len(q) \in Nat
      /\ \A i \in 1 .. Len(q) : r[i] = q[i]
      /\ r[Len(q) + 1] = k
  BY <1>0, AppendProperties
<1> HIDE DEF r
<1>2. ASSUME NEW i \in 1 .. Len(r), r[i] > Confirm
      PROVE  \E j \in 1 .. i - 1 : r[j] = r[i] - 1
  <2>1. CASE i = Len(q) + 1
    <3>1. k > 0
      BY <1>1, <1>2, <2>1 DEF Confirm
    <3>2. PICK j \in 1 .. Len(q) : q[j] = k - 1
      BY <3>1
    <3> QED BY <1>1, <2>1, <3>2
  <2>2. CASE i \in 1 .. Len(q)
    <3>1. PICK j \in 1 .. i - 1 : q[j] = q[i] - 1
      BY <1>1, <1>2, <2>2 DEF InOrder
    <3>2. j \in 1 .. Len(q)
      BY <1>1, <2>2
    <3> QED BY <1>1, <2>2, <3>1, <3>2
  <2> QED BY <1>1, <2>1, <2>2
<1>3. ASSUME NEW j \in 1 .. Len(r), NEW i \in 1 .. Len(r), i < j, r[j] >= Confirm
      PROVE  r[i] < r[j] /\ r[i] \notin Endings
  <2>1. i \in 1 .. Len(q)
    BY <1>1, <1>3
  <2>2. CASE j = Len(q) + 1
    BY <1>1, <2>1, <2>2
  <2>3. CASE j \in 1 .. Len(q)
    BY <1>1, <1>3, <2>1, <2>3 DEF InOrder
  <2> QED BY <1>1, <2>2, <2>3
<1>4. InOrder(r)
  BY <1>2, <1>3 DEF InOrder
<1>5. ASSUME NEW i \in 1 .. Len(q) + 1
      PROVE  r[i] \notin Endings /\ r[i] <= k
  <2>1. CASE i \in 1 .. Len(q)
    BY <1>0, <1>1, <2>1
  <2>2. CASE i = Len(q) + 1
    BY <1>0, <1>1, <2>2
  <2> QED BY <1>1, <2>1, <2>2
<1> QED BY <1>1, <1>4, <1>5 DEF r

\* The first line comes with the command before it
LEMMA FirstLineFollows ==
  ASSUME NEW q \in Seq(Commands), InOrder(q), UpTo(q, 0)
  PROVE  InOrder(q \o <<Confirm, 1>>) /\ UpTo(q \o <<Confirm, 1>>, 1)
<1> DEFINE n == Len(q) + 1
           p == Append(q, 0)
           r == Append(p, 1)
<1>1. 0 \in 0 .. ScriptLines /\ 1 \in 0 .. ScriptLines /\ 0 < ScriptLines
  BY GdbAssumption
<1>2. 0 \in Commands /\ 1 \in Commands
  BY <1>1, CommandsType
<1>3. \A i \in 1 .. Len(q) : q[i] \notin Endings /\ q[i] < 0
  BY <1>1 DEF UpTo, Confirm
<1>4. /\ InOrder(p) /\ p[n] = 0
      /\ \A i \in 1 .. n : p[i] \notin Endings /\ p[i] <= 0
  <2> SUFFICES ASSUME NEW k \in 0 .. ScriptLines, k = 0
               PROVE  /\ InOrder(Append(q, k)) /\ Append(q, k)[n] = k
                      /\ \A i \in 1 .. n : Append(q, k)[i] \notin Endings
                                          /\ Append(q, k)[i] <= k
    BY <1>1
  <2>1. \A i \in 1 .. Len(q) : q[i] \notin Endings /\ q[i] < k
    BY <1>3
  <2>2. ~(k > 0)
    OBVIOUS
  <2> QED BY <2>1, <2>2, LineFollows
<1>5. p \in Seq(Commands) /\ Len(p) = n /\ n \in Nat \ {0}
  BY <1>2, AppendProperties, CommandsInt
<1>6. q \o <<Confirm, 1>> = r
  <2>1. <<0>> \in Seq(Commands) /\ <<1>> \in Seq(Commands)
    BY <1>2
  <2>2. p = q \o <<0>>
    BY <1>2, AppendIsConcat
  <2>3. <<Confirm, 1>> = <<0>> \o <<1>>
    BY DEF Confirm
  <2>4. r = p \o <<1>>
    <3> HIDE DEF p
    <3> QED BY <1>2, <1>5, AppendIsConcat
  <2>5. (q \o <<0>>) \o <<1>> = q \o (<<0>> \o <<1>>)
    BY <2>1, Grouping
  <2> HIDE DEF p, r
  <2> QED BY <2>2, <2>3, <2>4, <2>5, Zenon
<1> HIDE DEF n, p
<1>7. \A i \in 1 .. Len(p) : p[i] \in Int
  BY <1>5, CommandsInt
<1>8. /\ InOrder(r) /\ r[n + 1] = 1
      /\ \A i \in 1 .. n + 1 : r[i] \notin Endings /\ r[i] <= 1
  <2> SUFFICES ASSUME NEW k \in 0 .. ScriptLines, k = 1
               PROVE  /\ InOrder(Append(p, k)) /\ Append(p, k)[n + 1] = k
                      /\ \A i \in 1 .. n + 1 : Append(p, k)[i] \notin Endings
                                              /\ Append(p, k)[i] <= k
    BY <1>1
  <2>1. \A i \in 1 .. Len(p) : p[i] \notin Endings /\ p[i] < k
    BY <1>4, <1>5, <1>7
  <2>2. \E i \in 1 .. Len(p) : p[i] = k - 1
    <3>1. n \in 1 .. Len(p) /\ p[n] = k - 1
      BY <1>4, <1>5
    <3> QED BY <3>1
  <2>3. /\ InOrder(Append(p, k)) /\ Append(p, k)[Len(p) + 1] = k
        /\ \A i \in 1 .. Len(p) + 1 : Append(p, k)[i] \notin Endings
                                     /\ Append(p, k)[i] <= k
    <3>1. InOrder(p) /\ p \in Seq(Commands)
      BY <1>4, <1>5
    <3>2. k > 0 => \E i \in 1 .. Len(p) : p[i] = k - 1
      BY <2>2
    <3> QED BY <2>1, <3>1, <3>2, LineFollows, Zenon
  <2> QED BY <1>5, <2>3
<1>9. Len(r) = n + 1
  BY <1>2, <1>5, AppendProperties
<1> HIDE DEF r
<1>10. UpTo(r, 1)
  <2>1. n + 1 \in 1 .. Len(r)
    BY <1>5, <1>9
  <2> QED BY <1>8, <1>9, <2>1 DEF UpTo
<1> QED BY <1>6, <1>8, <1>10

\* A beginning of a sequence in order is in order
LEMMA BeginningInOrder ==
  ASSUME NEW s \in Seq(Commands), NEW t \in Seq(Commands), InOrder(s \o t)
  PROVE  InOrder(s)
<1> DEFINE r == s \o t
<1>1. /\ Len(r) = Len(s) + Len(t) /\ Len(s) \in Nat /\ Len(t) \in Nat
      /\ \A i \in 1 .. Len(s) : r[i] = s[i] /\ i \in 1 .. Len(r)
  BY ConcatProperties
<1>2. InOrder(r)
  OBVIOUS
<1> HIDE DEF r
<1>3. ASSUME NEW i \in 1 .. Len(s), s[i] > Confirm
      PROVE  \E j \in 1 .. i - 1 : s[j] = s[i] - 1
  <2>1. PICK j \in 1 .. i - 1 : r[j] = r[i] - 1
    BY <1>1, <1>2, <1>3 DEF InOrder
  <2> QED BY <1>1, <2>1
<1>4. ASSUME NEW j \in 1 .. Len(s), NEW i \in 1 .. Len(s), i < j, s[j] >= Confirm
      PROVE  s[i] < s[j] /\ s[i] \notin Endings
  BY <1>1, <1>2, <1>4 DEF InOrder
<1> QED BY <1>3, <1>4 DEF InOrder

-----------------------------------------------------------------------------
(* The two queues of commands.                                             *)
LEMMA SameQueues ==
  ASSUME IInv, UNCHANGED <<sent, queues>>, writer # "ended" \/ writer' = "ended"
  PROVE  Ordered'
BY DEF IInv, Ordered, Queue, queues, InOrder, UpTo

\* Commands that are no lines of the script are put into the queue
LEMMA OthersQueued ==
  ASSUME IInv, NEW t \in Seq(Commands), \A i \in 1 .. Len(t) : t[i] < Confirm,
         commands' = commands \o t, UNCHANGED <<input, sent, writer>>,
         \/ scriptLine' = ScriptLines
         \/ scriptLine' = scriptLine /\ \A i \in 1 .. Len(t) : t[i] \notin Endings
  PROVE  Ordered' /\ commands' \in Seq(Commands) /\ scriptLine' \in 0 .. ScriptLines
<1> USE DEF IInv, TypeOK
<1>1. sent \o input \in Seq(Commands) /\ Queue \in Seq(Commands)
  BY ConcatProperties DEF Queue
<1>2. Queue' = Queue \o t
  <2> DEFINE s == sent \o input
  <2>1. s \in Seq(Commands)
    BY <1>1
  <2> HIDE DEF s
  <2>2. s \o (commands \o t) = (s \o commands) \o t
    BY <2>1, Grouping
  <2>3. Queue' = s \o (commands \o t) /\ Queue = s \o commands
    BY DEF Queue, s
  <2> QED BY <2>2, <2>3
<1>3. commands' \in Seq(Commands) /\ scriptLine' \in 0 .. ScriptLines
  <2>1. commands \in Seq(Commands) /\ scriptLine \in 0 .. ScriptLines /\ ScriptLines \in Nat
    BY GdbAssumption
  <2>2. commands \o t \in Seq(Commands)
    BY <2>1, ConcatProperties
  <2>3. scriptLine' \in 0 .. ScriptLines
    BY <2>1
  <2> QED BY <2>2, <2>3
<1>4. writer' # "ended" => InOrder(Queue') /\ UpTo(Queue', scriptLine')
  <2> SUFFICES ASSUME writer # "ended" PROVE InOrder(Queue') /\ UpTo(Queue', scriptLine')
    OBVIOUS
  <2>1. InOrder(Queue) /\ UpTo(Queue, scriptLine)
    BY DEF Ordered
  <2>2. InOrder(Queue \o t)
    BY <1>1, <2>1, OthersFollow
  <2>3. CASE scriptLine' = ScriptLines
    BY <1>2, <2>2, <2>3, GdbAssumption DEF UpTo
  <2>4. CASE scriptLine' = scriptLine /\ \A i \in 1 .. Len(t) : t[i] \notin Endings
    BY <1>1, <1>2, <2>1, <2>2, <2>4, OthersFollow
  <2> QED BY <2>3, <2>4
<1> QED BY <1>3, <1>4 DEF Ordered, InOrder, UpTo

LEMMA OtherQueued ==
  ASSUME IInv, NEW c \in {None, Empty}, commands' = Append(commands, c),
         UNCHANGED <<input, sent, writer, scriptLine>>
  PROVE  Ordered' /\ commands' \in Seq(Commands)
<1>1. c \in Commands /\ c < Confirm /\ c \notin Endings
  BY CommandsType
<1>2. commands \in Seq(Commands) /\ <<c>> \in Seq(Commands)
  BY <1>1 DEF IInv, TypeOK
<1>3. commands' = commands \o <<c>>
  BY <1>1, <1>2, AppendIsConcat
<1>4. \A i \in 1 .. Len(<<c>>) : <<c>>[i] < Confirm /\ <<c>>[i] \notin Endings
  BY <1>1
<1> QED BY <1>2, <1>3, <1>4, OthersQueued

LEMMA QuitQueued ==
  ASSUME IInv, NEW backtrace \in BOOLEAN, GdbQuit(backtrace), UNCHANGED <<sent, writer>>
  PROVE  Ordered' /\ commands' \in Seq(Commands) /\ scriptLine' \in 0 .. ScriptLines
<1> DEFINE t == IF backtrace THEN <<Backtrace, Disconnect, Quit>> ELSE <<Disconnect, Quit>>
<1>1. \A c \in {Backtrace, Disconnect, Quit} : c \in Commands /\ c < Confirm
  BY CommandsType DEF Endings
<1>2. t \in Seq(Commands) /\ \A i \in 1 .. Len(t) : t[i] < Confirm
  BY <1>1
<1>3. commands' = commands \o t
  BY DEF GdbQuit, Skipped
<1> HIDE DEF t
<1> QED BY <1>2, <1>3, OthersQueued DEF GdbQuit, Skipped

\* Moving the head of a queue to the end of the one before
LEMMA HeadMoves ==
  ASSUME NEW s \in Seq(Commands), NEW t \in Seq(Commands), t # <<>>
  PROVE  Append(s, Head(t)) \o Tail(t) = s \o t
<1>1. Head(t) \in Commands /\ Tail(t) \in Seq(Commands) /\ <<Head(t)>> \in Seq(Commands)
  BY HeadTailProperties
<1>2. Append(s, Head(t)) = s \o <<Head(t)>>
  BY <1>1, AppendIsConcat
<1>3. <<Head(t)>> \o Tail(t) = t
  BY <1>1
<1> QED BY <1>1, <1>2, <1>3, ConcatAssociative

\* A prompt puts at most the next line of the script into the queue
LEMMA PromptQueued ==
  ASSUME IInv, Prompt, UNCHANGED <<sent, writer>>
  PROVE  /\ Ordered' /\ commands' \in Seq(Commands) /\ input' \in Seq(Commands)
         /\ scriptLine' \in 0 .. ScriptLines
<1> USE DEF IInv, TypeOK
<1> DEFINE put == IF commands = <<>> THEN Expected ELSE <<>>
           all == commands \o put
           next == IF commands = <<>> /\ GoesOn THEN scriptLine + 1 ELSE scriptLine
           s == sent \o input
<1>1. s \in Seq(Commands)
  BY ConcatProperties
<1>2. /\ commands' = IF Moves(all) THEN Tail(all) ELSE all
      /\ input' = IF Moves(all) THEN Append(input, Head(all)) ELSE input
      /\ scriptLine' = next
  BY DEF Prompt
<1>3. \/ next = scriptLine /\ (put = <<>> \/ put = <<None>>)
      \/ scriptLine \in 1 .. ScriptLines - 1 /\ next = scriptLine + 1 /\ put = <<next>>
      \/ scriptLine = 0 /\ next = 1 /\ put = <<Confirm, 1>>
  <2>1. CASE commands = <<>> /\ GoesOn /\ scriptLine = 0
    BY <2>1 DEF Expected
  <2>2. CASE commands = <<>> /\ GoesOn /\ scriptLine # 0
    <3>1. scriptLine \in 1 .. ScriptLines - 1
      BY <2>2, GdbAssumption DEF GoesOn
    <3>2. next = scriptLine + 1 /\ put = <<next>>
      BY <2>2 DEF Expected
    <3> QED BY <3>1, <3>2
  <2>3. CASE ~(commands = <<>> /\ GoesOn)
    BY <2>3 DEF Expected
  <2> QED BY <2>1, <2>2, <2>3
<1> HIDE DEF put, next
<1>4. put \in Seq(Commands) /\ next \in 0 .. ScriptLines
  <2>1. {None, Confirm} \subseteq Commands /\ \A k \in 0 .. ScriptLines : k \in Commands
    BY CommandsType
  <2>2. CASE next = scriptLine
    <3>1. put = <<>> \/ put = <<None>>
      BY <1>3, <2>2
    <3>2. <<>> \in Seq(Commands) /\ <<None>> \in Seq(Commands)
      BY <2>1
    <3> QED BY <2>2, <3>1, <3>2
  <2>3. CASE scriptLine \in 1 .. ScriptLines - 1 /\ next = scriptLine + 1 /\ put = <<next>>
    <3>1. next \in 0 .. ScriptLines
      BY <2>3, GdbAssumption
    <3> QED BY <2>1, <2>3, <3>1
  <2>4. CASE scriptLine = 0 /\ next = 1 /\ put = <<Confirm, 1>>
    <3>1. 1 \in 0 .. ScriptLines
      BY GdbAssumption
    <3> QED BY <2>1, <2>4, <3>1
  <2> QED BY <1>3, <2>2, <2>3, <2>4
<1>5. writer # "ended" => InOrder(s \o all) /\ UpTo(s \o all, next)
  <2> SUFFICES ASSUME writer # "ended" PROVE InOrder(s \o all) /\ UpTo(s \o all, next)
    OBVIOUS
  <2>1. InOrder(Queue) /\ UpTo(Queue, scriptLine) /\ Queue \in Seq(Commands)
    BY <1>1, ConcatProperties DEF Ordered, Queue
  <2> HIDE DEF s
  <2>2. s \o all = Queue \o put
    BY <1>1, <1>4, Grouping DEF Queue, s
  <2> HIDE DEF all
  <2>3. CASE next = scriptLine /\ (put = <<>> \/ put = <<None>>)
    <3>0. None < Confirm /\ None \notin Endings
      BY CommandsType
    <3>1. \A i \in 1 .. Len(put) : put[i] < Confirm /\ put[i] \notin Endings
      BY <2>3, <3>0
    <3> QED BY <1>4, <2>1, <2>2, <2>3, <3>1, OthersFollow
  <2>4. CASE scriptLine \in 1 .. ScriptLines - 1 /\ next = scriptLine + 1 /\ put = <<next>>
    <3>1. \A i \in 1 .. Len(Queue) : Queue[i] \notin Endings /\ Queue[i] <= scriptLine
      BY <2>1, <2>4, GdbAssumption DEF UpTo
    <3>2. \A i \in 1 .. Len(Queue) : Queue[i] \notin Endings /\ Queue[i] < next
      BY <2>1, <2>4, <3>1, CommandsInt
    <3>3. \E i \in 1 .. Len(Queue) : Queue[i] = next - 1
      BY <2>1, <2>4, GdbAssumption DEF UpTo
    <3> DEFINE r == Append(Queue, next)
    <3>4. /\ InOrder(r) /\ r[Len(Queue) + 1] = next
          /\ \A i \in 1 .. Len(Queue) + 1 : r[i] \notin Endings /\ r[i] <= next
      BY <1>4, <2>1, <3>2, <3>3, LineFollows
    <3>5. Len(r) = Len(Queue) + 1 /\ Len(Queue) \in Nat /\ next > 0
      BY <2>1, <2>4, CommandsInt
    <3>6. r = Queue \o put
      <4>1. next \in Commands
        BY <1>4, CommandsType
      <4> QED BY <2>1, <2>4, <4>1, AppendIsConcat
    <3> HIDE DEF r
    <3>7. UpTo(r, next)
      <4>1. Len(Queue) + 1 \in 1 .. Len(r)
        BY <3>5
      <4>2. \E i \in 1 .. Len(r) : r[i] = next
        BY <3>4, <4>1
      <4>3. \A i \in 1 .. Len(r) : r[i] \notin Endings /\ r[i] <= next
        BY <3>4, <3>5
      <4>4. next # 0
        BY <3>5
      <4> HIDE DEF next
      <4> QED BY <4>2, <4>3, <4>4, Zenon DEF UpTo
    <3>8. s \o all = r
      BY <2>2, <3>6
    <3>9. InOrder(r)
      BY <3>4
    <3> QED BY <3>7, <3>8, <3>9
  <2>5. CASE scriptLine = 0 /\ next = 1 /\ put = <<Confirm, 1>>
    BY <2>1, <2>2, <2>5, FirstLineFollows
  <2> QED BY <1>3, <2>3, <2>4, <2>5
<1>6. all \in Seq(Commands)
  BY <1>4, ConcatProperties
<1> HIDE DEF all, s
<1>7. CASE Moves(all)
  <2>1. all # <<>> /\ input = <<>>
    BY <1>7 DEF Moves
  <2>2. Head(all) \in Commands /\ Tail(all) \in Seq(Commands)
    BY <1>6, <2>1, HeadTailProperties
  <2>3. input' = <<Head(all)>> /\ commands' = Tail(all)
    BY <1>2, <1>7, <2>1
  <2>4. s = sent
    BY <2>1, ConcatEmptySeq DEF s
  <2>5. sent \o <<Head(all)>> = Append(sent, Head(all))
    BY <2>2, AppendIsConcat
  <2>6. Queue' = s \o all
    BY <1>6, <2>1, <2>3, <2>4, <2>5, HeadMoves DEF Queue
  <2>7. Len(input') = 1 /\ input' \in Seq(Commands)
    BY <2>2, <2>3
  <2> QED BY <1>2, <1>4, <1>5, <2>2, <2>3, <2>6, <2>7 DEF Ordered
<1>8. CASE ~Moves(all)
  <2>1. input' = input /\ commands' = all
    BY <1>2, <1>8
  <2>2. Queue' = s \o all
    BY <2>1 DEF Queue, s
  <2> QED BY <1>2, <1>4, <1>5, <1>6, <2>1, <2>2 DEF Ordered
<1> QED BY <1>7, <1>8

\* The writer sends the command that waits, or ends
LEMMA SendOrdered ==
  ASSUME IInv, Send
  PROVE  Ordered' /\ input' \in Seq(Commands) /\ sent' \in Seq(Commands)
<1> USE DEF IInv, TypeOK
<1>1. input # <<>> /\ input' = Tail(input) /\ Len(input) <= 1 /\ writer = "on"
      /\ UNCHANGED <<commands, scriptLine>>
  BY DEF Send, Ordered
<1>2. Head(input) \in Commands /\ input' = <<>> /\ Head(input) = input[1]
      /\ input' \in Seq(Commands)
  BY <1>1, HeadTailProperties
<1>3. CASE sent' = Append(sent, input[1]) /\ writer' = writer
  <2>1. sent' \in Seq(Commands)
    BY <1>2, <1>3, AppendProperties
  <2>2. sent' = sent \o input
    <3>1. Append(sent, Head(input)) \o Tail(input) = sent \o input
      BY <1>1, HeadMoves
    <3> QED BY <1>1, <1>2, <1>3, <2>1, <3>1, ConcatEmptySeq
  <2>3. Queue' = Queue
    BY <1>1, <1>2, <2>1, <2>2, ConcatEmptySeq DEF Queue
  <2>4. InOrder(Queue) /\ UpTo(Queue, scriptLine)
    BY <1>1 DEF Ordered
  <2>5. InOrder(sent')
    BY <2>1, <2>2, <2>4, BeginningInOrder DEF Queue
  <2>6. Len(input') <= 1
    BY <1>2
  <2> QED BY <1>1, <1>2, <2>1, <2>3, <2>4, <2>5, <2>6 DEF Ordered
<1>4. CASE sent' = sent /\ writer' = "ended"
  <2>1. Len(input') <= 1
    BY <1>2
  <2> QED BY <1>2, <1>4, <2>1 DEF Ordered
<1> QED BY <1>3, <1>4 DEF Send
-----------------------------------------------------------------------------
(* The lock and the output.                                                *)
LEMMA Numbers ==
  /\ Timeout \in Nat \ {0} /\ TestPeriod \in Nat \ {0} /\ Grace \in Nat \ {0}
  /\ MaxRecords \in Nat /\ MaxPipe \in Nat
BY GdbAssumption

LEMMA LockType ==
  /\ Free.owner = "nobody" /\ Holding("reader", 1).owner = "reader"
  /\ Holding("test", 1).owner = "test"
  /\ Holding("reader", 0) = Free /\ Holding("test", 0) = Free /\ Holding("main", 0) = Free
  /\ \A t \in Stoppers : Holding(t, Levels(t) - 1) =
                          IF t = "reader" THEN Holding("reader", 1) ELSE Free
BY DEF Free, Holding, Levels, Stoppers

LEMMA SameDelivered ==
  ASSUME UNCHANGED <<pipe, written, output>>
  PROVE  Delivered' <=> Delivered
BY DEF Delivered, Counts

(* The execute thread and GDB.                                             *)
LEMMA ExecInv ==
  ASSUME IInv, Spawn \/ Spawned \/ SetHandle \/ Waited \/ Join \/ Finish \/ Exit
  PROVE  IInv'
<1> USE DEF IInv, TypeOK, monitor, execution, target, log, queues, capture
<1>1. CASE Spawn
  <2>1. TypeOK'
    BY <1>1 DEF Spawn
  <2>2. Threads' /\ Ending'
    BY <1>1, GdbAssumption DEF Spawn, Threads, Ending
  <2>3. Delivery'
    BY <1>1, SameDelivered DEF Spawn, Delivery, Threads, Ending
  <2>4. Ordered'
    BY <1>1, SameQueues DEF Spawn, Threads
  <2> QED BY <2>1, <2>2, <2>3, <2>4
<1>2. CASE Spawned
  <2>1. TypeOK'
    BY <1>2 DEF Spawned, Threads
  <2>2. Threads' /\ Ending'
    BY <1>2, GdbAssumption DEF Spawned, Threads, Ending
  <2>3. Delivery'
    BY <1>2, SameDelivered DEF Spawned, Delivery, Threads, Ending
  <2>4. Ordered'
    BY <1>2, SameQueues DEF Spawned, Threads
  <2> QED BY <2>1, <2>2, <2>3, <2>4
<1>3. CASE SetHandle
  <2>b. handle' \in BOOLEAN
    BY <1>3, Numbers DEF SetHandle
  <2>1. TypeOK'
    BY <1>3, <2>b DEF SetHandle
  <2>2. Threads' /\ Ending'
    BY <1>3, GdbAssumption DEF SetHandle, Threads, Ending
  <2>3. Delivery'
    BY <1>3, SameDelivered DEF SetHandle, Delivery, Threads, Ending
  <2>4. Ordered'
    BY <1>3, SameQueues DEF SetHandle, Threads
  <2> QED BY <2>1, <2>2, <2>3, <2>4
<1>4. CASE Waited
  <2>b. handle' \in BOOLEAN
    BY <1>4, Numbers DEF Waited
  <2>1. TypeOK'
    BY <1>4, <2>b DEF Waited
  <2>2. Threads' /\ Ending'
    BY <1>4, GdbAssumption DEF Waited, Threads, Ending
  <2>3. Delivery'
    BY <1>4, SameDelivered DEF Waited, Delivery, Threads, Ending
  <2>4. Ordered'
    BY <1>4, SameQueues DEF Waited, Threads
  <2> QED BY <2>1, <2>2, <2>3, <2>4
<1>5. CASE Join
  <2>b. cut' \in BOOLEAN
    BY <1>5 DEF Join
  <2>1. TypeOK'
    BY <1>5, <2>b DEF Join
  <2>2. Threads' /\ Ending'
    BY <1>5, GdbAssumption DEF Join, Threads, Ending
  <2>3. Delivery'
    BY <1>5, SameDelivered DEF Join, Delivery, Threads, Ending
  <2>4. Ordered'
    BY <1>5, SameQueues DEF Join, Threads
  <2> QED BY <2>1, <2>2, <2>3, <2>4
<1>6. CASE Finish
  <2>b. process' \in BOOLEAN /\ running' \in BOOLEAN
    BY <1>6, Numbers DEF Finish, CanLock
  <2>1. TypeOK'
    BY <1>6, <2>b DEF Finish, CanLock
  <2>2. Threads' /\ Ending'
    BY <1>6, GdbAssumption DEF Finish, CanLock, Threads, Ending
  <2>3. Delivery'
    BY <1>6, SameDelivered DEF Finish, CanLock, Delivery, Threads, Ending
  <2>4. Ordered'
    BY <1>6, SameQueues DEF Finish, CanLock, Threads
  <2> QED BY <2>1, <2>2, <2>3, <2>4
<1>7. CASE Exit
  <2>1. TypeOK'
    BY <1>7 DEF Exit
  <2>2. Threads' /\ Ending'
    BY <1>7, GdbAssumption DEF Exit, Threads, Ending
  <2>3. Delivery'
    BY <1>7, SameDelivered DEF Exit, Delivery, Threads, Ending
  <2>4. Ordered'
    BY <1>7, SameQueues DEF Exit, Threads
  <2> QED BY <2>1, <2>2, <2>3, <2>4
<1> QED BY <1>1, <1>2, <1>3, <1>4, <1>5, <1>6, <1>7

(* The test thread.                                                        *)
LEMMA MonitorInv == ASSUME IInv, Monitor \/ Return PROVE IInv'
<1> USE DEF IInv, TypeOK, monitor, execution, target, log, queues, capture
<1>1. CASE Monitor
  <2>b. period' \in 0 .. Timeout /\ seconds' \in 0 .. TestPeriod
    BY <1>1, Numbers DEF Monitor, InTime, CanLock
  <2>c. fresh' \in BOOLEAN
    BY <1>1 DEF Monitor
  <2>1. TypeOK'
    BY <1>1, <2>b, <2>c DEF Monitor
  <2>2. Threads' /\ Ending'
    BY <1>1, GdbAssumption DEF Monitor, InTime, CanLock, Threads, Ending
  <2>3. Delivery'
    BY <1>1, SameDelivered DEF Monitor, InTime, CanLock, Delivery, Threads, Ending
  <2>4. Ordered'
    BY <1>1, SameQueues DEF Monitor, InTime, CanLock, Threads
  <2> QED BY <2>1, <2>2, <2>3, <2>4
<1>2. CASE Return
  <2>1. TypeOK'
    BY <1>2 DEF Return, Failed, CanLock
  <2>2. Threads' /\ Ending'
    BY <1>2, GdbAssumption DEF Return, Failed, CanLock, Threads, Ending
  <2>3. Delivery'
    BY <1>2, SameDelivered DEF Return, Failed, CanLock, Delivery, Threads, Ending
  <2>4. Ordered'
    BY <1>2, SameQueues DEF Return, Failed, CanLock, Threads
  <2> QED BY <2>1, <2>2, <2>3, <2>4
<1> QED BY <1>1, <1>2

(* The reader and the writer, when they end.                               *)
LEMMA LeaveInv == ASSUME IInv, EndOfFile \/ BreakOff \/ Leave PROVE IInv'
<1> USE DEF IInv, TypeOK, monitor, execution, target, log, queues, capture
<1>1. CASE EndOfFile
  <2>1. TypeOK'
    BY <1>1 DEF EndOfFile
  <2>2. Threads' /\ Ending'
    BY <1>1, GdbAssumption DEF EndOfFile, Threads, Ending
  <2>3. Delivery'
    BY <1>1, SameDelivered DEF EndOfFile, Delivery, Threads, Ending
  <2>4. Ordered'
    BY <1>1, SameQueues DEF EndOfFile, Threads
  <2> QED BY <2>1, <2>2, <2>3, <2>4
<1>3. CASE BreakOff
  <2>1. TypeOK'
    BY <1>3 DEF BreakOff
  <2>2. Threads' /\ Ending'
    BY <1>3, GdbAssumption DEF BreakOff, Threads, Ending
  <2>3. Delivery'
    BY <1>3, SameDelivered DEF BreakOff, Delivery, Threads, Ending
  <2>4. Ordered'
    BY <1>3, SameQueues DEF BreakOff, Threads
  <2> QED BY <2>1, <2>2, <2>3, <2>4
<1>2. CASE Leave
  <2>1. TypeOK'
    BY <1>2 DEF Leave, CanLock
  <2>2. Threads' /\ Ending'
    BY <1>2, GdbAssumption DEF Leave, CanLock, Threads, Ending
  <2>3. Delivery'
    BY <1>2, SameDelivered DEF Leave, CanLock, Delivery, Threads, Ending
  <2>4. Ordered'
    BY <1>2, SameQueues DEF Leave, CanLock, Threads
  <2> QED BY <2>1, <2>2, <2>3, <2>4
<1> QED BY <1>1, <1>2, <1>3

(* Those who stop GDB.                                                     *)
LEMMA BeginStopInv ==
  ASSUME IInv, NEW t \in Stoppers, BeginStop(t), UNCHANGED <<sent, writer>>
  PROVE  /\ Ordered' /\ commands' \in Seq(Commands) /\ scriptLine' \in 0 .. ScriptLines
         /\ stop' \in [Stoppers -> Awake .. Grace - 1] /\ stop'[t] # Awake
         /\ \A u \in Stoppers \ {t} : stop'[u] = stop[u]
         /\ lock' = IF t = "reader" THEN Holding("reader", 1) ELSE Free
         /\ stopped' = TRUE /\ input' = input /\ process
<1>1. Ordered' /\ commands' \in Seq(Commands) /\ scriptLine' \in 0 .. ScriptLines
  BY QuitQueued DEF BeginStop
<1>2. Grace - 1 \in Awake .. Grace - 1 /\ Grace - 1 # Awake
  BY Numbers DEF Awake
<1>3. stop \in [Stoppers -> Awake .. Grace - 1] /\ stop' = [stop EXCEPT ![t] = Grace - 1]
  BY DEF IInv, TypeOK, BeginStop
<1>4. lock' = IF t = "reader" THEN Holding("reader", 1) ELSE Free
  BY LockType DEF BeginStop
<1> QED BY <1>1, <1>2, <1>3, <1>4 DEF BeginStop, GdbQuit

LEMMA KillersInv == ASSUME IInv, TimeOut \/ Interrupt PROVE IInv'
<1> USE DEF IInv, TypeOK, monitor, execution, target, log, capture
<1>1. CASE TimeOut
  <2>0. "test" \in Stoppers /\ "reader" \in Stoppers /\ "main" \in Stoppers
    BY DEF Stoppers
  <2>1. /\ Ordered' /\ commands' \in Seq(Commands) /\ scriptLine' \in 0 .. ScriptLines
        /\ stop' \in [Stoppers -> Awake .. Grace - 1] /\ stop'["test"] # Awake
        /\ \A u \in Stoppers \ {"test"} : stop'[u] = stop[u]
        /\ lock' = Free
        /\ stopped' = TRUE /\ input' = input /\ process
    <3>1. BeginStop("test") /\ UNCHANGED <<sent, writer>>
      BY <1>1 DEF TimeOut
    <3> QED BY <2>0, <3>1, BeginStopInv
  <2>2. stop'["reader"] = stop["reader"] /\ stop'["main"] = stop["main"]
    BY <2>0, <2>1
  <2>3. reader # "stopping" /\ test = "sleep"
    BY <1>1, LockType DEF TimeOut, CanLock
  <2>b. stopped' \in BOOLEAN
    BY <2>1
  <2>4. TypeOK'
    BY <1>1, <2>1, <2>3, <2>b, LockType DEF TimeOut
  <2>5. Threads' /\ Ending'
    BY <1>1, <2>1, <2>2, <2>3 DEF TimeOut, Threads, Ending
  <2>6. Delivery'
    BY <1>1, <2>1, SameDelivered DEF TimeOut, Delivery
  <2> QED BY <2>1, <2>4, <2>5, <2>6
<1>2. CASE Interrupt
  <2>0. "test" \in Stoppers /\ "reader" \in Stoppers /\ "main" \in Stoppers
    BY DEF Stoppers
  <2>1. /\ Ordered' /\ commands' \in Seq(Commands) /\ scriptLine' \in 0 .. ScriptLines
        /\ stop' \in [Stoppers -> Awake .. Grace - 1] /\ stop'["main"] # Awake
        /\ \A u \in Stoppers \ {"main"} : stop'[u] = stop[u]
        /\ lock' = Free
        /\ stopped' = TRUE /\ input' = input /\ process
    <3>1. BeginStop("main") /\ UNCHANGED <<sent, writer>>
      BY <1>2 DEF Interrupt
    <3> QED BY <2>0, <3>1, BeginStopInv
  <2>2. stop'["reader"] = stop["reader"] /\ stop'["test"] = stop["test"]
    BY <2>0, <2>1
  <2>3. reader # "stopping" /\ test # "late"
    BY <1>2, LockType DEF Interrupt, CanLock
  <2>b. stopped' \in BOOLEAN
    BY <2>1
  <2>4. TypeOK'
    BY <1>2, <2>1, <2>3, <2>b, LockType DEF Interrupt
  <2>5. Threads' /\ Ending'
    BY <1>2, <2>1, <2>2, <2>3 DEF Interrupt, Threads, Ending
  <2>6. Delivery'
    BY <1>2, <2>1, SameDelivered DEF Interrupt, Delivery
  <2> QED BY <2>1, <2>4, <2>5, <2>6
<1> QED BY <1>1, <1>2

LEMMA StopInv == ASSUME IInv, NEW t \in Stoppers, StopThread(t) PROVE IInv'
<1> USE DEF IInv, TypeOK, monitor, execution, target, log, queues, capture
<1>0. Stoppers = {"test", "reader", "main"} /\ Awake \in Awake .. Grace - 1
  BY Numbers DEF Stoppers, Awake
<1>1. CASE Doze(t)
  <2>1. /\ stop' \in [Stoppers -> Awake .. Grace - 1]
        /\ \A u \in Stoppers : stop'[u] # Awake <=> stop[u] # Awake
    <3>1. stop[t] - 1 \in Awake .. Grace - 1 /\ stop[t] - 1 # Awake /\ stop[t] # Awake
      BY <1>1, Numbers DEF Doze, Awake
    <3>2. stop' = [stop EXCEPT ![t] = stop[t] - 1]
      BY <1>1 DEF Doze
    <3> QED BY <3>1, <3>2
  <2>2. TypeOK'
    BY <1>1, <2>1 DEF Doze
  <2>3. Threads' /\ Ending'
    BY <1>0, <1>1, <2>1 DEF Doze, Threads, Ending
  <2>4. Delivery'
    BY <1>1, SameDelivered DEF Doze, Delivery
  <2>5. Ordered'
    BY <1>1, SameQueues DEF Doze
  <2> QED BY <2>2, <2>3, <2>4, <2>5
<1>2. CASE EndStop(t)
  <2>1. /\ stop' \in [Stoppers -> Awake .. Grace - 1] /\ stop'[t] = Awake
        /\ \A u \in Stoppers \ {t} : stop'[u] = stop[u]
        /\ stop[t] # Awake
    BY <1>0, <1>2 DEF EndStop
  <2>2. /\ process' \in BOOLEAN /\ missed' \in BOOLEAN /\ ~process'
        /\ child' \in {child, "killed"} /\ (child' # child => child = "running")
        /\ child' = "running" => ~(process /\ handle)
        /\ ~missed' => ~missed /\ ~(process /\ ~handle /\ exec \in {"spawn", "spawned"})
    BY <1>2 DEF EndStop, Kill
  <2>3. /\ CanLock(t) /\ lock' = IF t = "test" THEN Holding("test", 1) ELSE Free
        /\ test' = IF t = "test" THEN "late" ELSE test
        /\ reader' = IF t = "reader" THEN "idle" ELSE reader
        /\ killer' = IF t = "main" THEN "done" ELSE killer
    BY <1>2 DEF EndStop
  <2>4. UNCHANGED <<period, seconds, fresh, ecode, execution, target, running,
                    queues, writer, log, cut, stopped, capture>>
    BY <1>2 DEF EndStop
  <2>5. /\ t = "test" => test = "sleep" /\ reader # "stopping" /\ stopped
        /\ t = "reader" => reader = "stopping" /\ test # "late"
        /\ t = "main" => test # "late" /\ reader # "stopping"
    BY <2>1, <2>3, LockType DEF CanLock, Threads
  <2>6. TypeOK'
    BY <1>0, <2>1, <2>2, <2>3, <2>4, <2>5, LockType
  <2>7. Threads'
    BY <1>0, <2>1, <2>2, <2>3, <2>4, <2>5 DEF Threads
  <2>s. stopped
    BY <1>0, <2>1, <2>5 DEF Threads, Ending
  <2>8. Ending'
    BY <1>0, <2>2, <2>3, <2>4, <2>5, <2>s DEF Threads, Ending
  <2>9. Delivery'
    BY <1>0, <2>3, <2>4, <2>5, <2>s, SameDelivered DEF Delivery
  <2>10. Ordered'
    BY <2>4, SameQueues
  <2> QED BY <2>6, <2>7, <2>8, <2>9, <2>10
<1> QED BY <1>1, <1>2 DEF StopThread

-----------------------------------------------------------------------------
(* What GDB prints, and what the reader takes from the pipe.               *)
LEMMA Names ==
  /\ Streamed \subseteq Lines
  /\ \A r \in {"prompt", "running", "stopped", "error", "none"} : r \notin Streamed
  /\ {"TIMEOUT", "TEST_TOO_LONG"} \subseteq Lines
BY GdbAssumption DEF Lines

LEMMA OutputType ==
  ASSUME output = NoOutput \/ output \in Seq(Lines), NEW line \in Lines, Capture(line)
  PROVE  output' = NoOutput \/ output' \in Seq(Lines)
<1>1. output \in Seq(Lines) => Append(output, line) \in Seq(Lines)
  BY AppendProperties
<1> QED BY <1>1 DEF Capture

\* A record that is printed is the last of the pipe
LEMMA RecordPrinted ==
  ASSUME TypeOK, Delivered, PrintRecord
  PROVE  Delivered'
<1> USE DEF TypeOK
<1>1. PICK r \in States \cup Streamed :
        /\ pipe' = Append(pipe, r)
        /\ written' = IF r \in Streamed THEN Append(written, r) ELSE written
  BY DEF PrintRecord
<1>2. PICK f \in [1 .. Len(pipe) + 1 -> 0 .. Len(written)] : Counts(f, output, pipe, written)
  BY DEF Delivered
<1> DEFINE n == Len(pipe)
           g == [i \in 1 .. n + 2 |-> IF i = n + 2 THEN Len(written') ELSE f[i]]
<1>3. /\ Len(pipe') = n + 1 /\ pipe'[n + 1] = r /\ n \in Nat
      /\ \A i \in 1 .. n : pipe'[i] = pipe[i]
  BY <1>1, AppendProperties
<1>4. /\ Len(written) \in Nat
      /\ \A i \in 1 .. Len(written) : written'[i] = written[i]
      /\ IF r \in Streamed
           THEN Len(written') = Len(written) + 1 /\ written'[Len(written) + 1] = r
           ELSE Len(written') = Len(written)
  BY <1>1, AppendProperties
<1>5. output' = output /\ output \in Seq(Streamed) /\ Len(output) <= Len(written)
      /\ Len(output) \in Nat
  BY DEF PrintRecord, Delivered, capture
<1>6. \A i \in 1 .. Len(output') : output'[i] = written'[i]
  <2> SUFFICES ASSUME NEW i \in 1 .. Len(output) PROVE output[i] = written'[i]
    BY <1>5
  <2>1. i \in 1 .. Len(written)
    BY <1>4, <1>5
  <2>2. output[i] = written[i]
    BY DEF Delivered
  <2> QED BY <1>4, <2>1, <2>2
<1> HIDE DEF n
<1>7. g \in [1 .. Len(pipe') + 1 -> 0 .. Len(written')]
  BY <1>2, <1>3, <1>4 DEF n
<1>8. /\ g[1] = f[1] /\ g[n + 1] = f[n + 1] /\ g[n + 2] = Len(written')
      /\ \A i \in 1 .. n : g[i] = f[i] /\ g[i + 1] = f[i + 1]
  BY <1>3
<1> HIDE DEF g
<1>9. g[1] = Len(output') /\ g[Len(pipe') + 1] = Len(written')
  BY <1>2, <1>3, <1>5, <1>8 DEF Counts
<1>10. ASSUME NEW i \in 1 .. Len(pipe')
       PROVE  IF pipe'[i] \in Streamed
                THEN g[i + 1] = g[i] + 1 /\ written'[g[i + 1]] = pipe'[i]
                ELSE g[i + 1] = g[i]
  <2>1. CASE i \in 1 .. n
    <3>1. IF pipe[i] \in Streamed
            THEN f[i + 1] = f[i] + 1 /\ written[f[i + 1]] = pipe[i]
            ELSE f[i + 1] = f[i]
      BY <1>2, <2>1 DEF Counts, n
    <3>0. i \in 1 .. Len(pipe) + 1 /\ i + 1 \in 1 .. Len(pipe) + 1
      BY <1>3, <2>1 DEF n
    <3>2. f[i] \in 0 .. Len(written) /\ f[i + 1] \in 0 .. Len(written)
      BY <1>2, <3>0
    <3>3. f[i + 1] = f[i] + 1 => f[i + 1] \in 1 .. Len(written)
      BY <1>4, <3>2
    <3> QED BY <1>3, <1>4, <1>8, <2>1, <3>1, <3>3
  <2>2. CASE i = n + 1
    <3>1. g[i] = Len(written) /\ g[i + 1] = Len(written')
      BY <1>2, <1>3, <1>8, <2>2 DEF Counts, n
    <3> QED BY <1>3, <1>4, <2>2, <3>1
  <2> QED BY <1>3, <2>1, <2>2
<1>11. Counts(g, output', pipe', written')
  BY <1>9, <1>10 DEF Counts
<1>12. Len(output') <= Len(written')
  BY <1>4, <1>5
<1> QED BY <1>5, <1>6, <1>7, <1>11, <1>12 DEF Delivered

\* The record that the reader takes is the first of the pipe
LEMMA RecordTaken ==
  ASSUME TypeOK, Delivered, pipe # <<>>, pipe' = Tail(pipe), written' = written,
         output' = IF pipe[1] \in Streamed THEN Append(output, pipe[1]) ELSE output
  PROVE  Delivered'
<1> USE DEF TypeOK
<1>1. PICK f \in [1 .. Len(pipe) + 1 -> 0 .. Len(written)] : Counts(f, output, pipe, written)
  BY DEF Delivered
<1> DEFINE n == Len(pipe)
           g == [i \in 1 .. n |-> f[i + 1]]
<1>2. /\ n \in Nat \ {0} /\ Len(pipe') = n - 1
      /\ \A i \in 1 .. n - 1 : pipe'[i] = pipe[i + 1]
  BY HeadTailProperties, EmptySeq
<1>3. output \in Seq(Streamed) /\ Len(output) \in Nat /\ Len(output) <= Len(written)
      /\ Len(written) \in Nat /\ \A i \in 1 .. Len(output) : output[i] = written[i]
  BY DEF Delivered
<1>4. IF pipe[1] \in Streamed
        THEN f[2] = f[1] + 1 /\ written[f[2]] = pipe[1]
        ELSE f[2] = f[1]
  <2>1. 1 \in 1 .. Len(pipe)
    BY <1>2
  <2> QED BY <1>1, <2>1 DEF Counts
<1>5. f[1] = Len(output) /\ f[2] \in 0 .. Len(written) /\ f[n + 1] = Len(written)
  <2>1. 2 \in 1 .. Len(pipe) + 1
    BY <1>2
  <2> QED BY <1>1, <2>1 DEF Counts
<1>6. /\ output' \in Seq(Streamed) /\ Len(output') = f[2]
      /\ \A i \in 1 .. Len(output') : output'[i] = written[i]
  <2>1. CASE pipe[1] \in Streamed
    <3>1. /\ output' \in Seq(Streamed) /\ Len(output') = Len(output) + 1
          /\ \A i \in 1 .. Len(output) : output'[i] = output[i]
          /\ output'[Len(output) + 1] = pipe[1]
      BY <1>3, <2>1, AppendProperties
    <3>2. f[1] = Len(output) /\ f[2] = Len(output) + 1 /\ written[f[2]] = pipe[1]
      BY <1>4, <1>5, <2>1
    <3>3. Len(output') = f[2] /\ output'[Len(output) + 1] = written[Len(output) + 1]
      BY <3>1, <3>2
    <3>4. ASSUME NEW i \in 1 .. Len(output') PROVE output'[i] = written[i]
      <4>1. i \in 1 .. Len(output) \/ i = Len(output) + 1
        BY <1>3, <3>1
      <4> QED BY <1>3, <3>1, <3>3, <4>1
    <3> QED BY <3>1, <3>3, <3>4
  <2>2. CASE pipe[1] \notin Streamed
    BY <1>3, <1>4, <1>5, <2>2
  <2> QED BY <2>1, <2>2
<1> HIDE DEF n
<1>a. \A i \in 1 .. n : f[i + 1] \in 0 .. Len(written)
  <2> TAKE i \in 1 .. n
  <2>1. i + 1 \in 1 .. Len(pipe) + 1
    BY <1>2 DEF n
  <2> QED BY <1>1, <2>1
<1>7. /\ g \in [1 .. n -> 0 .. Len(written)] /\ Len(pipe') + 1 = n
      /\ g[1] = f[2] /\ g[n] = f[n + 1]
      /\ \A i \in 1 .. n - 1 : g[i] = f[i + 1] /\ g[i + 1] = f[(i + 1) + 1]
  BY <1>2, <1>a
<1> HIDE DEF g
<1>8. ASSUME NEW i \in 1 .. Len(pipe')
      PROVE  IF pipe'[i] \in Streamed
               THEN g[i + 1] = g[i] + 1 /\ written'[g[i + 1]] = pipe'[i]
               ELSE g[i + 1] = g[i]
  <2>1. i \in 1 .. n - 1 /\ i + 1 \in 1 .. Len(pipe)
    BY <1>2 DEF n
  <2>2. IF pipe[i + 1] \in Streamed
          THEN f[(i + 1) + 1] = f[i + 1] + 1 /\ written[f[(i + 1) + 1]] = pipe[i + 1]
          ELSE f[(i + 1) + 1] = f[i + 1]
    BY <1>1, <2>1 DEF Counts
  <2> QED BY <1>2, <1>7, <2>1, <2>2
<1>9. Counts(g, output', pipe', written')
  BY <1>5, <1>6, <1>7, <1>8 DEF Counts
<1>10. Len(output') <= Len(written')
  BY <1>3, <1>5, <1>6
<1>11. g \in [1 .. Len(pipe') + 1 -> 0 .. Len(written')]
  BY <1>7
<1> QED BY <1>6, <1>9, <1>10, <1>11 DEF Delivered

-----------------------------------------------------------------------------
(* The test thread opens the runner, tells why it is late, and ends.       *)
LEMMA OpenInv == ASSUME IInv, Open PROVE IInv'
<1> USE DEF IInv, TypeOK, monitor, execution, target, log, queues
<1>1. process' \in BOOLEAN /\ output' \in Seq(Lines)
      /\ period' \in 0 .. Timeout /\ seconds' \in 0 .. TestPeriod
  BY Numbers DEF Open
<1>2. TypeOK'
  BY <1>1 DEF Open
<1>3. Threads' /\ Ending'
  BY DEF Open, Threads, Ending
<1>4. pipe = <<>> /\ written = <<>> /\ output' = <<>> /\ UNCHANGED <<pipe, written>>
  BY DEF Open, Threads, Delivery
<1>5. Delivered'
  <2> DEFINE f == [i \in 1 .. 1 |-> 0]
  <2>1. f \in [1 .. 1 -> 0 .. 0] /\ f[1] = 0
    OBVIOUS
  <2> HIDE DEF f
  <2>2. Len(pipe') = 0 /\ Len(written') = 0 /\ Len(output') = 0
    BY <1>4
  <2>3. Counts(f, output', pipe', written')
    BY <2>1, <2>2 DEF Counts
  <2>4. f \in [1 .. Len(pipe') + 1 -> 0 .. Len(written')]
    BY <2>1, <2>2
  <2>5. output' \in Seq(Streamed)
    BY <1>4
  <2> QED BY <2>2, <2>3, <2>4, <2>5 DEF Delivered
<1>6. Delivery'
  BY <1>4, <1>5 DEF Open, Threads, Delivery
<1>7. Ordered'
  BY SameQueues DEF Open
<1> QED BY <1>2, <1>3, <1>6, <1>7

LEMMA TellLateInv == ASSUME IInv, TellLate PROVE IInv'
<1> USE DEF IInv, TypeOK, monitor, execution, target, log, queues
<1>1. output' = NoOutput \/ output' \in Seq(Lines)
  BY Names, OutputType DEF TellLate
<1>2. reader # "stopping"
  BY LockType DEF TellLate
<1>3. TypeOK'
  BY <1>1, <1>2, LockType DEF TellLate
<1>4. stopped /\ ~process
  BY DEF TellLate, Ending
<1>5. Threads' /\ Ending'
  BY <1>4 DEF TellLate, Threads, Ending
<1>6. Delivery'
  BY <1>4 DEF TellLate, Delivery
<1>7. Ordered'
  BY SameQueues DEF TellLate
<1> QED BY <1>3, <1>5, <1>6, <1>7

\* With an empty pipe everything that was printed is in the output
LEMMA DeliveredIsWhole ==
  ASSUME TypeOK, Delivered, pipe = <<>>
  PROVE  output = written
<1>1. output \in Seq(Streamed) /\ written \in Seq(Streamed)
      /\ \A i \in 1 .. Len(output) : output[i] = written[i]
  BY DEF TypeOK, Delivered
<1>2. Len(output) = Len(written)
  <2>1. PICK f \in [1 .. Len(pipe) + 1 -> 0 .. Len(written)] : Counts(f, output, pipe, written)
    BY DEF Delivered
  <2>2. Len(pipe) + 1 = 1
    OBVIOUS
  <2> QED BY <2>1, <2>2 DEF Counts
<1> QED BY <1>1, <1>2, SeqEqual

LEMMA EndInv == ASSUME IInv, End PROVE IInv'
<1> USE DEF IInv, TypeOK, monitor, execution, target, log, queues
<1>1. TypeOK'
  BY DEF End
<1>2. Threads' /\ Ending'
  BY DEF End, Threads, Ending
<1>3. ASSUME ~stopped PROVE child # "failed" /\ exec = "done"
  BY <1>3 DEF End, Threads, Ending
<1>6. ASSUME ~stopped, ~cut PROVE output = written
  <2>1. reader \in {"off", "ended"} /\ Delivered
    BY <1>3, <1>6 DEF End, Threads, Delivery
  <2>2. pipe = <<>>
    BY <1>6, <2>1 DEF Delivery
  <2> QED BY <2>1, <2>2, DeliveredIsWhole
<1>4. Delivery'
  BY <1>3, <1>6 DEF End, Delivery
<1>5. Ordered'
  BY SameQueues DEF End
<1> QED BY <1>1, <1>2, <1>4, <1>5

(* The cleanup of the execute thread, and GDB's records.                   *)
LEMMA CleanupInv == ASSUME IInv, Cleanup PROVE IInv'
<1> USE DEF IInv, TypeOK, monitor, execution, target, log, capture
<1>1. Ordered' /\ commands' \in Seq(Commands)
  BY OtherQueued DEF Cleanup, AfterCleanup
<1>2. TypeOK'
  BY <1>1 DEF Cleanup, AfterCleanup
<1>3. Threads' /\ Ending'
  BY DEF Cleanup, AfterCleanup, Threads, Ending
<1>4. Delivery'
  BY SameDelivered DEF Cleanup, AfterCleanup, Delivery, Threads
<1> QED BY <1>1, <1>2, <1>3, <1>4

LEMMA PrintRecordInv == ASSUME IInv, PrintRecord PROVE IInv'
<1> USE DEF IInv, TypeOK, monitor, execution, log, queues, capture
<1>1. pipe' \in Seq(States \cup Streamed) /\ written' \in Seq(Streamed)
  BY AppendProperties DEF PrintRecord
<1>2. TypeOK'
  BY <1>1 DEF PrintRecord
<1>3. Threads' /\ Ending'
  BY DEF PrintRecord, Threads, Ending
<1>4. Delivered => Delivered'
  BY RecordPrinted
<1>5. reader # "off" /\ (reader = "ended" => cut) /\ test # "over"
  BY DEF PrintRecord, Threads
<1>6. Delivery'
  BY <1>4, <1>5 DEF PrintRecord, Delivery
<1>7. Ordered'
  BY SameQueues DEF PrintRecord
<1> QED BY <1>2, <1>3, <1>6, <1>7

(* The reader and the writer.                                              *)
LEMMA SendInv == ASSUME IInv, Send PROVE IInv'
<1> USE DEF IInv, TypeOK, monitor, execution, target, capture
<1>1. Ordered' /\ input' \in Seq(Commands) /\ sent' \in Seq(Commands)
  BY SendOrdered
<1>2. TypeOK'
  BY <1>1 DEF Send
<1>3. Threads' /\ Ending'
  BY DEF Send, Threads, Ending
<1>4. Delivery'
  BY SameDelivered DEF Send, Delivery
<1> QED BY <1>1, <1>2, <1>3, <1>4

LEMMA TakeStateInv == ASSUME IInv, TakeState PROVE IInv'
<1> USE DEF IInv, TypeOK, monitor, execution
<1> DEFINE r == pipe[1]
<1>1. /\ UNCHANGED <<sent, writer>> /\ running' \in BOOLEAN
      /\ Ordered' /\ commands' \in Seq(Commands) /\ input' \in Seq(Commands)
      /\ scriptLine' \in 0 .. ScriptLines /\ r \notin Streamed
  <2>0. UNCHANGED <<sent, writer>>
    BY DEF TakeState
  <2>1. CASE r = "prompt" /\ Prompt /\ UNCHANGED <<running, capture>>
    BY <2>0, <2>1, Names, PromptQueued
  <2>2. CASE /\ r \in {"running", "stopped"}
             /\ running' = (r = "running")
             /\ commands' = IF running' THEN Append(commands, Empty) ELSE commands
             /\ UNCHANGED <<input, scriptLine, capture>>
    <3>1. running' \in BOOLEAN
      BY <2>2
    <3>2. CASE running'
      BY <2>0, <2>2, <3>1, <3>2, Names, OtherQueued
    <3>3. CASE ~running'
      BY <2>0, <2>2, <3>1, <3>3, Names, SameQueues DEF queues
    <3> QED BY <3>2, <3>3
  <2>3. CASE r = "error" /\ process /\ GdbQuit(FALSE) /\ UNCHANGED <<running, capture>>
    BY <2>0, <2>3, Names, QuitQueued DEF GdbQuit, Skipped
  <2>4. CASE r = "error" /\ ~process /\ Capture("TEXT") /\ UNCHANGED <<running, queues>>
    BY <2>0, <2>4, Names, SameQueues DEF queues
  <2> QED BY <2>1, <2>2, <2>3, <2>4 DEF TakeState
<1>2. pipe # <<>> /\ pipe' = Tail(pipe) /\ pipe' \in Seq(States \cup Streamed)
      /\ reader = "idle"
  BY HeadTailProperties DEF TakeState
<1>8. UNCHANGED capture \/ (~process /\ Capture("TEXT"))
  BY DEF TakeState
<1>9. output' = NoOutput \/ output' \in Seq(Lines)
  <2>1. "TEXT" \in Lines
    BY DEF Lines
  <2> QED BY <1>8, <2>1, OutputType DEF capture
<1>3. TypeOK'
  BY <1>1, <1>2, <1>9 DEF TakeState
<1>4. Threads' /\ Ending'
  BY DEF TakeState, Threads, Ending
<1>5. Delivered /\ UNCHANGED capture => Delivered'
  BY <1>1, <1>2, RecordTaken DEF TakeState, capture
<1>7. test # "off" /\ ~stopped /\ ~cut => UNCHANGED capture
  BY <1>2, <1>8 DEF Threads, Ending
<1>6. Delivery'
  BY <1>2, <1>5, <1>7 DEF TakeState, Delivery
<1> QED BY <1>1, <1>3, <1>4, <1>6

LEMMA TakeLineInv == ASSUME IInv, TakeLine PROVE IInv'
<1> USE DEF IInv, TypeOK, monitor, execution
<1> DEFINE line == pipe[1]
<1>0. "test" \in Stoppers /\ "reader" \in Stoppers /\ "main" \in Stoppers
  BY DEF Stoppers
<1>1. /\ line \in Streamed /\ line \in Lines /\ reader = "idle" /\ fresh' \in BOOLEAN
      /\ test # "late" /\ killer' = killer
      /\ UNCHANGED <<monitor, process, ecode, execution, child, written, records,
                     running, writer, killer, sent, reported, cut, missed>>
  BY Names, LockType DEF TakeLine, CanLock, log
<1>2. pipe # <<>> /\ pipe' = Tail(pipe) /\ pipe' \in Seq(States \cup Streamed)
  BY HeadTailProperties DEF TakeLine
<1>3. output' = NoOutput \/ output' \in Seq(Lines)
  BY <1>1, OutputType DEF TakeLine
<1>4. Delivered => Delivered'
  <2> SUFFICES ASSUME Delivered PROVE Delivered'
    OBVIOUS
  <2>1. output # NoOutput
    <3> SUFFICES ASSUME output = NoOutput PROVE FALSE
      OBVIOUS
    <3>1. Len(output) = 1 /\ output[1] = "none"
      BY DEF NoOutput
    <3>2. 1 \in 1 .. Len(output) /\ output \in Seq(Streamed)
      BY <3>1 DEF Delivered
    <3>3. output[1] \in Streamed
      BY <3>2, ElementOfSeq
    <3> QED BY <3>1, <3>3, Names
  <2>2. output' = Append(output, line)
    BY <2>1 DEF TakeLine, Capture
  <2> QED BY <1>1, <1>2, <2>2, RecordTaken
<1>5. CASE OkToKill(line) /\ process
  <2>1. BeginStop("reader") /\ reader' = "stopping"
    BY <1>5 DEF TakeLine
  <2>2. /\ Ordered' /\ commands' \in Seq(Commands) /\ scriptLine' \in 0 .. ScriptLines
        /\ stop' \in [Stoppers -> Awake .. Grace - 1] /\ stop'["reader"] # Awake
        /\ \A u \in Stoppers \ {"reader"} : stop'[u] = stop[u]
        /\ lock' = Holding("reader", 1)
        /\ stopped' = TRUE /\ input' = input /\ process
    BY <1>0, <1>1, <2>1, BeginStopInv
  <2>3. stop'["test"] = stop["test"] /\ stop'["main"] = stop["main"] /\ stopped' \in BOOLEAN
    BY <1>0, <2>2
  <2>4. TypeOK'
    BY <1>1, <1>2, <1>3, <2>1, <2>2, <2>3, LockType
  <2>5. Threads' /\ Ending'
    BY <1>1, <2>1, <2>2, <2>3 DEF Threads, Ending
  <2>6. Delivery'
    BY <1>1, <2>1, <2>2 DEF Delivery, Ending
  <2> QED BY <2>2, <2>4, <2>5, <2>6
<1>6. CASE ~(OkToKill(line) /\ process)
  <2>1. UNCHANGED <<queues, stop, lock, stopped, reader>>
    BY <1>6 DEF TakeLine
  <2>2. TypeOK'
    BY <1>1, <1>2, <1>3, <2>1 DEF queues
  <2>3. Threads' /\ Ending'
    BY <1>1, <2>1 DEF Threads, Ending
  <2>4. Delivery'
    BY <1>1, <1>4, <2>1 DEF Delivery
  <2>5. Ordered'
    BY <1>1, <2>1, SameQueues
  <2> QED BY <2>2, <2>3, <2>4, <2>5
<1> QED BY <1>5, <1>6

-----------------------------------------------------------------------------
LEMMA InitInv == Init => IInv
<1> SUFFICES ASSUME Init PROVE IInv
  OBVIOUS
<1> USE DEF Init, CaptureInit
<1>0. /\ 0 \in 0 .. Timeout /\ 0 \in 0 .. TestPeriod /\ 0 \in 0 .. ScriptLines
      /\ <<>> \in Seq(Commands) /\ <<>> \in Seq(States \cup Streamed) /\ <<>> \in Seq(Streamed)
      /\ Awake \in Awake .. Grace - 1
  BY Numbers, GdbAssumption DEF Awake
<1>s. /\ stop \in [Stoppers -> Awake .. Grace - 1] /\ stop["test"] = Awake
      /\ stop["reader"] = Awake /\ stop["main"] = Awake
  BY <1>0 DEF Stoppers
<1>p. /\ process \in BOOLEAN /\ fresh \in BOOLEAN /\ handle \in BOOLEAN
      /\ running \in BOOLEAN /\ stopped \in BOOLEAN /\ missed \in BOOLEAN
      /\ cut \in BOOLEAN
  OBVIOUS
<1>1. TypeOK
  BY <1>0, <1>s, <1>p, LockType DEF TypeOK
<1>2. Threads /\ Ending
  BY <1>s DEF Threads, Ending
<1>3. Delivery
  BY DEF Delivery
<1>4. Ordered
  <2>1. Queue = <<>> /\ Len(Queue) = 0
    BY ConcatEmptySeq DEF Queue
  <2>2. InOrder(Queue) /\ InOrder(sent)
    BY <2>1 DEF InOrder
  <2>3. UpTo(Queue, scriptLine)
    BY <2>1 DEF UpTo
  <2> QED BY <2>2, <2>3 DEF Ordered
<1> QED BY <1>1, <1>2, <1>3, <1>4 DEF IInv

LEMMA StutterInv == ASSUME IInv, UNCHANGED vars PROVE IInv'
<1> USE DEF IInv, vars, monitor, execution, target, log, queues, capture
<1>1. TypeOK' /\ Threads' /\ Ending'
  BY DEF TypeOK, Threads, Ending
<1>2. Delivery'
  BY SameDelivered DEF Delivery
<1>3. Ordered'
  BY SameQueues
<1> QED BY <1>1, <1>2, <1>3

LEMMA StepInv == IInv /\ [Next]_vars => IInv'
<1> SUFFICES ASSUME IInv, [Next]_vars PROVE IInv'
  OBVIOUS
<1>0. "test" \in Stoppers /\ "reader" \in Stoppers /\ "main" \in Stoppers
  BY DEF Stoppers
<1>1. CASE TestThread
  BY <1>1, OpenInv, MonitorInv, KillersInv, TellLateInv, EndInv DEF TestThread
<1>2. CASE ExecThread
  BY <1>2, ExecInv, CleanupInv DEF ExecThread
<1>3. CASE ReaderThread
  BY <1>0, <1>3, TakeStateInv, TakeLineInv, LeaveInv, StopInv DEF ReaderThread
<1>4. CASE WriterThread
  BY <1>4, LeaveInv, SendInv DEF WriterThread
<1>5. CASE PrintRecord \/ Exit
  BY <1>5, PrintRecordInv, ExecInv
<1>6. CASE Interrupt \/ StopThread("test") \/ StopThread("main")
  BY <1>0, <1>6, KillersInv, StopInv
<1>7. CASE UNCHANGED vars
  BY <1>7, StutterInv
<1> QED BY <1>1, <1>2, <1>3, <1>4, <1>5, <1>6, <1>7 DEF Next

-----------------------------------------------------------------------------
(* The invariant from which the others follow.                             *)
THEOREM Invariant == Spec => []IInv
<1> QED BY InitInv, StepInv, PTL DEF Spec

(* The script is sent in order and line by line, and nothing of it once GDB*)
(* is told to quit, for every script and however the stops interleave.     *)
THEOREM ScriptIsSentInOrder == Spec => []ScriptInOrder
<1>1. IInv => ScriptInOrder
  BY DEF IInv, Ordered, InOrder, ScriptInOrder
<1> QED BY <1>1, Invariant, PTL

(* A test that nobody stopped is reported with all its target's lines, for *)
(* every target that GDB streams, unless the reader met a record it could  *)
(* not decode or was still at work two seconds after the end of GDB.       *)
THEOREM OutputIsWhole == Spec => []WholeOutput
<1>1. IInv => WholeOutput
  <2> SUFFICES ASSUME IInv, reported # NoOutput, ~stopped
               PROVE  (~cut => reported = written) /\ child # "failed"
    BY DEF IInv, WholeOutput
  <2>1. test = "over"
    BY DEF IInv, TypeOK, Delivery
  <2> QED BY <2>1 DEF IInv, Delivery
<1> QED BY <1>1, Invariant, PTL

(* A test that ended leaves no GDB behind, unless it was killed while GDB  *)
(* was being started.                                                      *)
THEOREM NoneLivesOn == Spec => []KilledDies
<1>1. IInv => KilledDies
  BY DEF IInv, Ending, KilledDies
<1> QED BY <1>1, Invariant, PTL
===============================================================================
