------------------------------ MODULE RecordTrace ------------------------------
(***************************************************************************)
(* The way of a trace from the target to the files: a target with a clock  *)
(* and a ring buffer for each processor (external), the record client, and *)
(* the LTTng writer as its handler.  Only here do the times and threads    *)
(* that the client and the writer work out have a truth to be held to.     *)
(*                                                                         *)
(* The target records its items in groups with one time stamp; the server  *)
(* sends what the ring buffer of a processor has, then turns to another.   *)
(* An overflow of the buffer loses the oldest items: what follows may be   *)
(* the rest of a group.  The times of items that follow one another in a   *)
(* ring buffer differ by less than a period of the time stamps.            *)
(***************************************************************************)
EXTENDS RecordClient, LttngWriter

CONSTANTS
  Scale,          (* binary time units in a tick of the target's clock       *)
  Threads,        (* the threads of the target                               *)
  Created,        (* those that it creates while it is traced                *)
  Ticks,          (* between two groups of a processor                       *)
  Gaps,           (* over an overflow                                        *)
  MaxClock,       (* bound: the clock of the target                          *)
  MaxOverflows,   (* bound                                                   *)
  MaxTurns        (* bound: the turns to another processor                   *)

ASSUME TraceAssumption ==
  /\ Scale \in Nat \ {0} /\ Scale >= BtPerNs /\ MaxClock \in Nat \ {0}
  /\ MaxClock * Scale < BtMod        \* the uptime fits into its 64 bits
  /\ TheVersion \in Nat
  /\ Ticks \subseteq 0 .. TimeMod - 1 /\ Gaps \subseteq Nat \ {0}
  /\ Threads \subseteq Nat \ {0} /\ Created \subseteq Threads
  /\ IdleThreads \subseteq Threads
  /\ {"THREAD_SWITCH_OUT", "THREAD_SWITCH_IN", "THREAD_CREATE"} \subseteq UserEvents
  /\ "THREAD_NAME" \in InfoEvents
  /\ MaxOverflows \in Nat /\ MaxTurns \in Nat

VARIABLES
  writer,         \* LTTNGClient
  clock,          \* per processor: when the last item was recorded
  running,        \* per processor: its thread
  rest,           \* per processor: the rest of the group that is being sent
  overflows, turns,
  truth,          \* history, per processor: the times of the items held back
  lost,           \* ... and how many of them were held back before an overflow
  lastOut,        \* history, per processor: the last SWITCH_OUT
  torn,           \* history: processors that lost a half of an uptime
  wrapped         \* history: processors too long without one

target == <<clock, running, rest, overflows, turns, torn>>
traceVars == <<vars, target, writer, truth, lost, lastOut, wrapped>>

TargetItem(event, ticks, data) ==
  [event |-> event, time |-> IF HasTime(event) THEN ticks % TimeMod ELSE 0,
   data |-> data, seq |-> 0]

(* What the target records at a time of its clock.                         *)
UptimePair(ticks) ==
  <<TargetItem("UPTIME_LOW", ticks, (ticks * Scale) % LowMod),
    TargetItem("UPTIME_HIGH", ticks, (ticks * Scale) \div LowMod)>>
ThreadSwitch(ticks, from, to) ==
  <<TargetItem("THREAD_SWITCH_OUT", ticks, from),
    TargetItem("THREAD_SWITCH_IN", ticks, to)>>
Chunk(thread, i) == thread * (NameChunks + 1) + i
Create(ticks, thread) ==
  <<TargetItem("THREAD_CREATE", ticks, thread)>> \o
  [i \in 1 .. NameChunks |->
     TargetItem("THREAD_NAME", ticks, Chunk(thread, i))]

Groups(ticks, from) ==
  {UptimePair(ticks)}
    \cup {ThreadSwitch(ticks, from, to) : to \in Threads \ {from}}
    \cup {Create(ticks, t) : t \in Created}
Runs(group, from) == IF Head(group).event = "THREAD_SWITCH_OUT"
                       THEN group[2].data ELSE from

HeaderItems == <<TargetItem("VERSION", 0, TheVersion),
                 TargetItem("PROCESSOR_MAXIMUM", 0, MaxCpu - 1),
                 TargetItem("PER_CPU_COUNT", 0, HoldLimit),
                 TargetItem("FREQUENCY", 0, Scale)>>

TraceInit ==
  /\ Init
  /\ writer = NewWriter(CPU)
  /\ clock = [c \in CPU |-> 1]
  /\ running \in [CPU -> IdleThreads]
  /\ rest = [c \in CPU |-> IF c = 0 THEN HeaderItems ELSE <<>>]
  /\ overflows = 0 /\ turns = 0
  /\ truth = [c \in CPU |-> <<>>] /\ lost = [c \in CPU |-> 0]
  /\ lastOut = [c \in CPU |-> [seq |-> 0, data |-> 0, known |-> TRUE]]
  /\ torn = {} /\ wrapped = {}

-----------------------------------------------------------------------------
\* The server sends the next item of the processor it is at
Send ==
  /\ rest[cpu] # <<>> /\ Visit(Head(rest[cpu]))
  /\ rest' = [rest EXCEPT ![cpu] = Tail(@)]
  /\ UNCHANGED <<clock, running, overflows, turns, torn>>

\* ... which may be the first of a new group
Record(d) ==
  /\ rest[cpu] = <<>> /\ clock[cpu] + d <= MaxClock
  /\ clock' = [clock EXCEPT ![cpu] = @ + d]
  /\ \E g \in Groups(clock'[cpu], running[cpu]) :
       /\ Visit(Head(g))
       /\ rest' = [rest EXCEPT ![cpu] = Tail(g)]
       /\ running' = [running EXCEPT ![cpu] = Runs(g, @)]
  /\ UNCHANGED <<overflows, turns, torn>>

HeaderSent == taken >= Len(HeaderItems)

TurnTo(c) ==
  /\ HeaderSent /\ c # cpu /\ turns < MaxTurns
  /\ Visit(TargetItem("PROCESSOR", 0, c))
  /\ turns' = turns + 1
  /\ UNCHANGED <<clock, running, rest, overflows, torn>>

\* Items are lost; what follows is a group, or one without its first item
Overflow(d) ==
  /\ HeaderSent /\ overflows < MaxOverflows /\ clock[cpu] + d <= MaxClock
  /\ overflows' = overflows + 1 /\ UNCHANGED turns
  /\ clock' = [clock EXCEPT ![cpu] = @ + d]
  /\ Visit(TargetItem("PER_CPU_OVERFLOW", 0, 0))
  /\ \E from \in Threads :
       \E g \in Groups(clock'[cpu], from), cut \in BOOLEAN :
         /\ running' = [running EXCEPT ![cpu] = Runs(g, from)]
         /\ rest' = [rest EXCEPT ![cpu] = IF cut THEN Tail(g) ELSE g]
         /\ torn' = IF cut /\ g[2].event = "UPTIME_HIGH" /\ low[cpu] # NoLow
                      THEN torn \cup {cpu} ELSE torn

Target == \/ Send \/ \E d \in Ticks : Record(d)
          \/ \E c \in CPU : TurnTo(c)
          \/ \E d \in Gaps : Overflow(d)

\* Every call of the client's handler reaches the writer: one for an item,
\* a second one before it if its time is adjusted
Handler ==
  LET w == [writer EXCEPT !.written = <<>>]
  IN writer' = CASE Len(out') = 0 -> w
                 [] Len(out') = 1 -> PrintItem(w, out'[1])
                 [] Len(out') = 2 -> PrintItem(PrintItem(w, out'[1]), out'[2])

\* When the item of a call was recorded
Recorded(call) == IF phase = "replay" /\ walk.index <= Len(items[cpu])
                    THEN truth[cpu][walk.index] ELSE clock'[call.cpu]

\* The ticks since the last uptime, and over what is held back, are so few
\* that the client's product with the scaler fits into its 64 bits.
Fits(c) ==
  /\ uptime[c].acc * scaler < SpanMod
  /\ phase = "scan" /\ c = cpu => walk.acc * scaler < SpanMod

(* The client says itself that the times of destroy() are not reliable.    *)
(* What is held back when an overflow comes lies before it by a time that  *)
(* nobody can tell from the stamps.                                        *)
Reliable(call) ==
  /\ call.cpu \notin torn' \cup wrapped' /\ ~Draining
  /\ phase = "replay" => walk.index > lost[cpu]

History ==
  /\ wrapped' = wrapped \cup {c \in CPU : ~Fits(c)'}
  /\ truth' = [c \in CPU |->
       CASE Len(items'[c]) > Len(items[c]) -> Append(truth[c], clock'[c])
         [] items'[c] = <<>> -> <<>>
         [] OTHER -> truth[c]]
  /\ lost' = [c \in CPU |->
       CASE items'[c] = <<>> -> 0
         [] items'[c] # <<>> /\ overflows' > overflows /\ c = cpu -> Len(items[c])
         [] OTHER -> lost[c]]
  /\ lastOut' = [c \in CPU |->
       LET outs == {i \in DOMAIN out' : out'[i].cpu = c /\
                      out'[i].item.event = "THREAD_SWITCH_OUT"}
       IN IF outs = {} THEN lastOut[c]
          ELSE LET call == out'[CHOOSE i \in outs : TRUE]
               IN [seq |-> call.item.seq, data |-> call.item.data,
                   known |-> Reliable(call)]]

TraceNext ==
  /\ \/ Target
     \/ (Loop \/ Destroy) /\ UNCHANGED target
  /\ Handler /\ History

TraceSpec == TraceInit /\ [][TraceNext]_traceVars

-----------------------------------------------------------------------------
(* The handler gets each item with a time stamp at the time at which the   *)
(* target recorded it, and no time is ever adjusted: whether the item was  *)
(* held back for the first uptime or over an overflow, was handled at once *)
(* or came after a turn to another processor.  Not so: what destroy() has  *)
(* to guess, what was held back when an overflow came, the processor that  *)
(* heard the halves of two uptimes, parted by an overflow, and the one     *)
(* that was so long without an uptime that time_bt() or the rewinding of   *)
(* resolve_hold_back() lost the upper bits of a time: two seconds.         *)
TrueTimesStep ==
  \A i \in DOMAIN out' :
    LET call == out'[i]
    IN Reliable(call) =>
         /\ call.item.event # "TIME_ADJUSTMENT"
         /\ HasTime(call.item.event) => call.bt = Recorded(call) * Scale
TrueTimes == [][TrueTimesStep]_traceVars

\* A name as the target gave it, or as much of it as came so far
NameOf(comm, thread) ==
  \A i \in 1 .. NameChunks : comm.name[i] \in {0, Chunk(thread, i)}

Tells(told, c, thread) ==
  /\ told.tid = Tid(thread)
  /\ told.comm.cpu = IF thread \in IdleThreads THEN c ELSE NoCpu
  /\ overflows = 0 => NameOf(told.comm, thread)

SwitchStep ==
  \A i \in DOMAIN out' :
    LET call == out'[i]
        from == lastOut[call.cpu]
        to == call.item
        switches == {j \in DOMAIN writer'.written :
                       writer'.written[j].kind = "sched_switch"}
    IN to.event = "THREAD_SWITCH_IN" /\ Reliable(call) =>
         IF to.seq = from.seq + 1
           THEN \E j \in switches :
                  /\ switches = {j}
                  /\ Tells(writer'.written[j].prev, call.cpu, from.data)
                  /\ Tells(writer'.written[j].next, call.cpu, to.data)
           ELSE from.known => switches = {}

(* A switch is in the file of its processor exactly if its two items came  *)
(* one after the other, and names the threads that really were switched: a *)
(* half whose other half an overflow lost is never joined with a half of   *)
(* another switch.  The names are right unless an overflow lost a part of  *)
(* one (AddThreadName() then fills the name of the thread before).  Where  *)
(* the times are not reliable, a switch may be missing or joined wrongly.  *)
SwitchesAreTrue == [][SwitchStep]_traceVars

(* Types of the writer and the target.  The writer has as many files open  *)
(* as the client has processors.                                           *)
TraceTypeOK ==
  /\ TypeOK
  /\ clock \in [CPU -> 1 .. MaxClock] /\ running \in [CPU -> Threads]
  /\ overflows \in 0 .. MaxOverflows /\ turns \in 0 .. MaxTurns
  /\ \A c \in CPU : Len(truth[c]) = Len(items[c]) /\ lost[c] <= Len(items[c])
  /\ torn \subseteq CPU /\ wrapped \subseteq CPU
  /\ writer.files = cpuCount

PacketStep ==
  /\ \A i \in DOMAIN writer'.written :
       LET r == writer'.written[i]
           packet == writer'.cpus[r.cpu]
       IN r.cpu < writer'.files /\
          (r.ns # 0 => r.ns \in packet.begin .. packet.end)
  /\ \A c \in CPU :
       /\ writer'.cpus[c].end >= writer.cpus[c].end
       /\ writer.cpus[c].begin \in {0, writer'.cpus[c].begin}

(* Every event is written to a file that is open: OpenStreamFiles() is     *)
(* called before and, as its assertion says, once (record-main-lttng.cc    *)
(* 592).  It lies in the time of the packet of its processor, whose limits *)
(* only widen, but for the events of a processor that never heard an       *)
(* uptime: they are at 0, before timestamp_begin.                          *)
PacketsHold == []TraceTypeOK /\ [][PacketStep]_traceVars
================================================================================
