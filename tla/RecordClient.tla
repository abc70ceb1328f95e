----------------------------- MODULE RecordClient -----------------------------
(***************************************************************************)
(* The record client of trace/record/record-client.c: it consumes the item *)
(* stream of a record server, associates every item with an uptime in      *)
(* binary time and passes it to a handler.  Items of a processor whose     *)
(* time base is not known yet are held back until the next uptime.         *)
(*                                                                         *)
(* The loops of resolve_hold_back() and calculate_best_effort_uptime() are *)
(* steps of a small machine (phase, walk): the iterations of the former    *)
(* call the handler, so the outside world sees the states in between.      *)
(*                                                                         *)
(* Abstractions.  The fixed-point scaler is a whole number of binary time  *)
(* units per clock tick.  A handler call always succeeds, as the only      *)
(* handler of the repository does (record-main-lttng.cc:551).  The memory  *)
(* suffices, but for realloc() to a length of zero: it may return NULL.    *)
(***************************************************************************)
EXTENDS Integers, Sequences

CONSTANTS
  MaxCpu,       (* RTEMS_RECORD_CLIENT_MAXIMUM_CPU_COUNT                     *)
  TimeMod,      (* item time stamps count modulo this, 2^TIME_BITS           *)
  LowMod,       (* the range of the data of an UPTIME_LOW item, 2^32         *)
  BtMod,        (* binary times count modulo this, 2^64                      *)
  SpanMod,      (* ticks times scaler count modulo this, 2^64 shifted by 31  *)
  CountMod,     (* item counts count modulo this, 2^32                       *)
  HoldLimit,    (* RTEMS_RECORD_CLIENT_HOLD_BACK_REALLOCATION_LIMIT          *)
  TheVersion,   (* RTEMS_RECORD_THE_VERSION                                  *)
  UserEvents,   (* events with a time stamp that visit() does not look at    *)
  InfoEvents,   (* events without one that visit() does not look at          *)
  StreamItems,  (* the items a server may send                               *)
  MaxItems      (* bound: the length of the stream                           *)

VARIABLES
  status,       \* the sticky status of the context
  cpu,          \* the processor of the current items
  cpuCount,     \* 0 until the PROCESSOR_MAXIMUM item
  perCpuItems,  \* 0 until the PER_CPU_COUNT item
  scaler,       \* binary time units per clock tick
  uptime,       \* per processor: base bt, last time stamp, ticks since base
  lastBt,       \* per processor: binary time of the last handler call
  low,          \* per processor: valid UPTIME_LOW data, or NoLow
  hold,         \* per processor: hold back items?
  items,        \* per processor: the hold back storage up to item_index
  capacity,     \* per processor: the allocated length of that storage
  phase,        \* what the client is doing
  walk,         \* the local variables of the loop it is in
  taken,        \* how many items of the stream were visited
  out,          \* the handler calls of the last step
  given,        \* history, per processor: numbered items taken from the stream
  passed        \* history, per processor: number of the last one handled

header == <<cpuCount, perCpuItems, scaler>>
store == <<hold, items, capacity>>
vars == <<status, cpu, header, uptime, lastBt, low, store, phase, walk, taken,
          out, given, passed>>

CPU == 0 .. MaxCpu - 1
Time == 0 .. TimeMod - 1
Bt == 0 .. BtMod - 1

ClientEvents == {"EMPTY", "VERSION", "FREQUENCY", "PER_CPU_COUNT",
                 "PER_CPU_OVERFLOW", "PROCESSOR", "PROCESSOR_MAXIMUM",
                 "TIME_ADJUSTMENT", "UNRELIABLE_TIME"}
NoTimeEvents == ClientEvents \cup InfoEvents

Events == NoTimeEvents \cup {"UPTIME_LOW", "UPTIME_HIGH"} \cup UserEvents

HasTime(event) == event \notin NoTimeEvents

Statuses == {"SUCCESS", "UNSUPPORTED_CPU", "UNSUPPORTED_CPU_MAX",
             "UNSUPPORTED_VERSION", "DOUBLE_CPU_MAX", "DOUBLE_PER_CPU_COUNT",
             "NO_CPU_MAX", "PER_CPU_ITEMS_OVERFLOW", "NO_MEMORY"}

(* idle: between two items; the others are the loops: scan walks the held  *)
(* items backward and replay forward in resolve_hold_back(); drain is the  *)
(* loop over the processors of destroy() and forward its best effort loop. *)
Phases == {"idle", "scan", "replay", "drain", "forward", "destroyed"}

\* seq is a history field: the number of the item among those of its processor
Item == [event : Events, time : Time, data : Nat, seq : Nat]
Uptime == [bt : Bt, last : Time, acc : Nat]
Walk == [index : Nat, last : Time, acc : Nat, saved : Uptime, high : Item]
Call == [bt : Bt, cpu : CPU, item : Item]

NoLow == -1
NoItem == [event |-> "EMPTY", time |-> 0, data |-> 0, seq |-> 0]
NoUptime == [bt |-> 0, last |-> 0, acc |-> 0]
NoWalk == [index |-> 0, last |-> 0, acc |-> 0, saved |-> NoUptime,
           high |-> NoItem]

(* visit() delivers these past the held back items of their processor or,  *)
(* for PROCESSOR, decides by the hold back flag of the processor before.   *)
OutOfBand == {"PROCESSOR", "PROCESSOR_MAXIMUM", "VERSION"}
\* Of the client's own making, never in a stream
OwnEvents == {"EMPTY", "TIME_ADJUSTMENT", "UNRELIABLE_TIME"}
Numbered(item) == item.event \notin OutOfBand \cup OwnEvents

(* What a server sends (external): no items of the client's own making,    *)
(* and neither a count nor a frequency of zero.  The client reads 32 bits  *)
(* of the count.                                                           *)
Sendable ==
  {i \in [event : Events \ OwnEvents, time : Time, data : Nat, seq : {0}] :
     /\ i.event = "FREQUENCY" => i.data > 0
     /\ i.event = "PER_CPU_COUNT" => i.data % CountMod > 0}

ASSUME RecordAssumption ==
  /\ MaxCpu \in Nat \ {0}
  /\ TimeMod \in Nat \ {0}
  /\ LowMod \in Nat \ {0}
  /\ BtMod \in Nat \ {0} /\ SpanMod \in Nat \ {0} /\ CountMod \in Nat \ {0}
  /\ HoldLimit \in Nat \ {0} /\ 2 * HoldLimit <= CountMod
  /\ UserEvents \cap NoTimeEvents = {} /\ InfoEvents \cap ClientEvents = {}
  /\ {"UPTIME_LOW", "UPTIME_HIGH"} \cap (UserEvents \cup NoTimeEvents) = {}
  /\ MaxItems \in Nat
  /\ StreamItems \subseteq Sendable

-----------------------------------------------------------------------------
\* Mutant: the difference of two time stamps is not masked
ElapsedSigned(from, to) == to - from
Elapsed(from, to) == (to - from) % TimeMod

\* The uptime after an item: time_bt() before it looks at last_bt
Tick(u, item) ==
  IF HasTime(item.event)
    THEN [bt |-> u.bt, last |-> item.time,
          acc |-> u.acc + Elapsed(u.last, item.time)]
    ELSE u

\* The time of some ticks: the product has 64 bits before it is shifted
Span(ticks, s) == (ticks * s) % SpanMod
BtOf(u, s) == (u.bt + Span(u.acc, s)) % BtMod

\* Mutant: a time that steps backward is passed on
CallsUnclamped(c, bt, item) == <<[bt |-> bt, cpu |-> c, item |-> item]>>

(* The handler calls for an item at bt: a processor whose time would step  *)
(* backward is clamped, and a TIME_ADJUSTMENT call says by how much.       *)
Calls(c, bt, item) ==
  IF bt >= lastBt[c]
    THEN <<[bt |-> bt, cpu |-> c, item |-> item]>>
    ELSE <<[bt |-> lastBt[c], cpu |-> c,
            item |-> [event |-> "TIME_ADJUSTMENT", time |-> 0,
                      data |-> lastBt[c] - bt, seq |-> 0]],
           [bt |-> lastBt[c], cpu |-> c, item |-> item]>>

(* call_handler() for an item of processor c whose uptime is u before it.  *)
CallHandler(c, u, item) ==
  LET bt == BtOf(Tick(u, item), scaler')
  IN /\ uptime' = [uptime EXCEPT ![c] = Tick(u, item)]
     /\ lastBt' = [lastBt EXCEPT ![c] = IF bt >= @ THEN bt ELSE @]
     /\ out' = Calls(c, bt, item)
     /\ passed' = IF Numbered(item) THEN [passed EXCEPT ![c] = item.seq]
                                    ELSE passed

\* A new item of processor c gets the next number, unless it is out of band
Number(c, item) ==
  IF Numbered(item) THEN [item EXCEPT !.seq = given[c] + 1] ELSE item
Count(c, item) ==
  given' = IF Numbered(item) THEN [given EXCEPT ![c] = @ + 1] ELSE given


-----------------------------------------------------------------------------
\* error(): the status is sticky, consume becomes consume_error()
Error(s) ==
  /\ status' = s
  /\ out' = <<>>
  /\ UNCHANGED <<cpu, header, uptime, lastBt, low, store, phase, walk, given,
                 passed>>

\* Mutant: the storage grows one item late
FullLate(n, cap) == n > cap
Full(n, cap) == n >= cap

\* A stream error after the capacities were set to caps: no item is stored
Refused(caps, s) ==
  /\ status' = s
  /\ capacity' = caps
  /\ UNCHANGED <<items, given>>

(* hold_back() with the capacities caps: append to the storage of c, which *)
(* is doubled when it is full and shorter than the limit.  A storage of no *)
(* length stays one, if realloc() does not return NULL for it.             *)
HoldBack(c, caps, item) ==
  LET n == Len(items[c])
      full == Full(n, caps[c])
  IN /\ out' = <<>>
     /\ UNCHANGED <<uptime, lastBt, passed>>
     /\ \/ /\ full /\ n >= HoldLimit
           /\ Refused(caps, "PER_CPU_ITEMS_OVERFLOW")
        \/ /\ full /\ n = 0
           /\ Refused(caps, "NO_MEMORY")
        \/ /\ ~(full /\ n >= HoldLimit)
           /\ capacity' = IF full THEN [caps EXCEPT ![c] = 2 * n] ELSE caps
           /\ items' = [items EXCEPT ![c] = Append(@, Number(c, item))]
           /\ Count(c, item)
           /\ UNCHANGED status

Deliver(c, u, item) ==
  /\ CallHandler(c, u, Number(c, item))
  /\ Count(c, item)
  /\ UNCHANGED <<status, items, capacity>>

\* The end of visit()
PassOn(c, doHoldBack, item) ==
  IF doHoldBack THEN HoldBack(c, capacity, item)
                ELSE Deliver(c, uptime[c], item)

VisitProcessor(item) ==
  /\ item.event = "PROCESSOR"
  /\ IF item.data >= cpuCount
       THEN Error("UNSUPPORTED_CPU")
       ELSE /\ cpu' = item.data
            /\ UNCHANGED <<header, low, hold, phase, walk>>
            /\ PassOn(item.data, hold[cpu], item)

VisitUptimeLow(item) ==
  /\ item.event = "UPTIME_LOW"
  /\ low' = [low EXCEPT ![cpu] = item.data % LowMod]
  /\ UNCHANGED <<cpu, header, hold, phase, walk>>
  /\ PassOn(cpu, hold[cpu], item)

(* With both halves the uptime is known: resolve_hold_back() starts if     *)
(* items are held back, and the item itself follows them.                  *)
VisitUptimeHigh(item) ==
  LET base == [bt |-> (item.data * LowMod + low[cpu]) % BtMod,
               last |-> item.time, acc |-> 0]
  IN /\ item.event = "UPTIME_HIGH"
     /\ low' = [low EXCEPT ![cpu] = NoLow]
     /\ UNCHANGED <<cpu, header, hold>>
     /\ \/ /\ low[cpu] = NoLow
           /\ UNCHANGED <<phase, walk>>
           /\ PassOn(cpu, hold[cpu], item)
        \/ /\ low[cpu] # NoLow /\ ~hold[cpu]
           /\ UNCHANGED <<phase, walk>>
           /\ Deliver(cpu, base, item)
        \/ /\ low[cpu] # NoLow /\ hold[cpu]
           /\ phase' = "scan"
           /\ walk' = [index |-> Len(items[cpu]), last |-> item.time, acc |-> 0,
                       saved |-> base, high |-> item]
           /\ uptime' = [uptime EXCEPT ![cpu] = base]
           /\ out' = <<>>
           /\ UNCHANGED <<status, lastBt, items, capacity, given, passed>>

VisitProcessorMaximum(item) ==
  /\ item.event = "PROCESSOR_MAXIMUM"
  /\ IF item.data >= MaxCpu THEN Error("UNSUPPORTED_CPU_MAX")
     ELSE IF cpuCount # 0 THEN Error("DOUBLE_CPU_MAX")
     ELSE /\ cpuCount' = item.data + 1
          /\ UNCHANGED <<cpu, perCpuItems, scaler, low, hold, phase, walk>>
          /\ Deliver(cpu, uptime[cpu], item)

\* A 32-bit product: twice 2^31 items are none
Doubled(count) == (2 * count) % CountMod

VisitPerCpuCount(item) ==
  /\ item.event = "PER_CPU_COUNT"
  /\ IF perCpuItems # 0 THEN Error("DOUBLE_PER_CPU_COUNT")
     ELSE IF cpuCount = 0 THEN Error("NO_CPU_MAX")
     ELSE LET n == item.data % CountMod
              caps == [c \in CPU |-> IF c < cpuCount THEN Doubled(n)
                                                     ELSE capacity[c]]
          IN /\ perCpuItems' = n
             /\ UNCHANGED <<cpu, cpuCount, scaler, low, hold, phase, walk>>
             /\ \/ IF hold[cpu]
                     THEN HoldBack(cpu, caps, item)
                     ELSE /\ CallHandler(cpu, uptime[cpu], Number(cpu, item))
                          /\ Count(cpu, item)
                          /\ capacity' = caps
                          /\ UNCHANGED <<status, items>>
                \/ /\ Doubled(n) = 0
                   /\ Refused(capacity, "NO_MEMORY")
                   /\ out' = <<>>
                   /\ UNCHANGED <<uptime, lastBt, passed>>

VisitPerCpuOverflow(item) ==
  /\ item.event = "PER_CPU_OVERFLOW"
  /\ hold' = [hold EXCEPT ![cpu] = TRUE]
  /\ UNCHANGED <<cpu, header, low, phase, walk>>
  /\ HoldBack(cpu, capacity, item)

VisitFrequency(item) ==
  /\ item.event = "FREQUENCY"
  /\ scaler' = item.data
  /\ UNCHANGED <<cpu, cpuCount, perCpuItems, low, hold, phase, walk>>
  /\ PassOn(cpu, hold[cpu], item)

VisitVersion(item) ==
  /\ item.event = "VERSION"
  /\ IF item.data # TheVersion
       THEN Error("UNSUPPORTED_VERSION")
       ELSE /\ UNCHANGED <<cpu, header, low, hold, phase, walk>>
            /\ Deliver(cpu, uptime[cpu], item)

VisitOther(item) ==
  /\ item.event \in UserEvents \cup InfoEvents
  /\ UNCHANGED <<cpu, header, low, hold, phase, walk>>
  /\ PassOn(cpu, hold[cpu], item)

(* A server sends the items which describe the stream first: without       *)
(* PER_CPU_COUNT there is no storage to hold back an item in.              *)
HeaderFirst(item) ==
  perCpuItems = 0 =>
    item.event \in {"VERSION", "PROCESSOR_MAXIMUM", "PER_CPU_COUNT"}

Visit(item) ==
  /\ phase = "idle" /\ status = "SUCCESS"
  /\ taken < MaxItems
  /\ HeaderFirst(item)
  /\ taken' = taken + 1
  /\ \/ VisitProcessor(item)
     \/ VisitUptimeLow(item)
     \/ VisitUptimeHigh(item)
     \/ VisitProcessorMaximum(item)
     \/ VisitPerCpuCount(item)
     \/ VisitPerCpuOverflow(item)
     \/ VisitFrequency(item)
     \/ VisitVersion(item)
     \/ VisitOther(item)

-----------------------------------------------------------------------------
\* One iteration of a loop over the held back items that adds up ticks
Walked(index, item, gap) ==
  [index |-> index, last |-> IF HasTime(item.event) THEN item.time ELSE walk.last,
   acc |-> walk.acc + gap, saved |-> walk.saved, high |-> walk.high]

\* resolve_hold_back(), first loop: the ticks from the first item to the last
Scan ==
  LET item == items[cpu][walk.index]
      gap == IF HasTime(item.event) THEN Elapsed(item.time, walk.last) ELSE 0
  IN /\ phase = "scan" /\ walk.index > 0
     /\ walk' = Walked(walk.index - 1, item, gap)
     /\ out' = <<>>
     /\ UNCHANGED <<status, cpu, header, uptime, lastBt, low, store, phase,
                    taken, given, passed>>

\* ... which is how far back the base of the held back items lies
Rewind ==
  /\ phase = "scan" /\ walk.index = 0
  /\ uptime' = [uptime EXCEPT ![cpu] =
                  [bt |-> (@.bt - Span(walk.acc, scaler)) % BtMod,
                   last |-> walk.last, acc |-> 0]]
  /\ phase' = "replay"
  /\ walk' = [walk EXCEPT !.index = 1]
  /\ out' = <<>>
  /\ UNCHANGED <<status, cpu, header, lastBt, low, store, taken, given, passed>>

\* Second loop: the handler gets one held back item
Replay ==
  /\ phase = "replay" /\ walk.index <= Len(items[cpu])
  /\ walk' = [walk EXCEPT !.index = @ + 1]
  /\ UNCHANGED <<status, cpu, header, low, store, phase, taken, given>>
  /\ CallHandler(cpu, uptime[cpu], items[cpu][walk.index])

\* Mutant: the storage is not reset after the replay
ResetNothing == UNCHANGED <<hold, items>>
ResetHoldBack ==
  /\ hold' = [hold EXCEPT ![cpu] = FALSE]
  /\ items' = [items EXCEPT ![cpu] = <<>>]

\* The loop of destroy() goes to the next processor, or is at its end
NextProcessor ==
  /\ phase' = IF cpu + 1 < cpuCount THEN "drain" ELSE "destroyed"
  /\ cpu' = IF cpu + 1 < cpuCount THEN cpu + 1 ELSE cpu

(* The end of resolve_hold_back(): back in visit() the UPTIME_HIGH item    *)
(* goes to the handler, back in destroy() the next processor is drained.   *)
Resolved ==
  /\ phase = "replay" /\ walk.index > Len(items[cpu])
  /\ ResetHoldBack
  /\ walk' = NoWalk
  /\ UNCHANGED <<status, header, low, capacity, taken>>
  /\ IF walk.high = NoItem
       THEN /\ NextProcessor
            /\ uptime' = [uptime EXCEPT ![cpu] = walk.saved]
            /\ out' = <<>>
            /\ UNCHANGED <<lastBt, given, passed>>
       ELSE /\ phase' = "idle" /\ UNCHANGED cpu
            /\ CallHandler(cpu, walk.saved, Number(cpu, walk.high))
            /\ Count(cpu, walk.high)

-----------------------------------------------------------------------------
\* rtems_record_client_destroy() is called between two runs of the client
Destroy ==
  /\ phase = "idle"
  /\ phase' = IF cpuCount > 0 THEN "drain" ELSE "destroyed"
  /\ cpu' = 0
  /\ out' = <<>>
  /\ UNCHANGED <<status, header, uptime, lastBt, low, store, walk, taken, given,
                 passed>>

\* Mutant: items held back for a first uptime are freed without a call
UndrainedTimed == hold[cpu] /\ items[cpu] # <<>> /\ uptime[cpu].bt # 0
Undrained == hold[cpu] /\ items[cpu] # <<>>

\* Its loop: the held back items of a processor follow an UNRELIABLE_TIME call
Drain ==
  /\ phase = "drain"
  /\ UNCHANGED <<status, header, low, store, taken, given>>
  /\ IF Undrained
       THEN /\ phase' = "forward"
            /\ walk' = [index |-> 1, acc |-> 0,
                        last |-> IF uptime[cpu].bt # 0 THEN uptime[cpu].last
                                 ELSE items[cpu][1].time,
                        saved |-> NoUptime, high |-> NoItem]
            /\ CallHandler(cpu, uptime[cpu],
                           [NoItem EXCEPT !.event = "UNRELIABLE_TIME"])
            /\ UNCHANGED cpu
       ELSE /\ NextProcessor
            /\ out' = <<>>
            /\ UNCHANGED <<uptime, lastBt, passed, walk>>

\* The loop of calculate_best_effort_uptime()
Forward ==
  LET item == items[cpu][walk.index]
      gap == IF HasTime(item.event) THEN Elapsed(walk.last, item.time) ELSE 0
  IN /\ phase = "forward" /\ walk.index <= Len(items[cpu])
     /\ walk' = Walked(walk.index + 1, item, gap)
     /\ out' = <<>>
     /\ UNCHANGED <<status, cpu, header, uptime, lastBt, low, store, phase,
                    taken, given, passed>>

\* ... and its end: the uptime of the last held back item, then resolve
BestEffort ==
  LET base == [bt |-> (uptime[cpu].bt + Span(walk.acc, scaler)) % BtMod,
               last |-> walk.last, acc |-> 0]
  IN /\ phase = "forward" /\ walk.index > Len(items[cpu])
     /\ uptime' = [uptime EXCEPT ![cpu] = base]
     /\ phase' = "scan"
     /\ walk' = [index |-> Len(items[cpu]), last |-> walk.last, acc |-> 0,
                 saved |-> base, high |-> NoItem]
     /\ out' = <<>>
     /\ UNCHANGED <<status, cpu, header, lastBt, low, store, taken, given,
                    passed>>

-----------------------------------------------------------------------------
Init ==
  /\ status = "SUCCESS"
  /\ cpu = 0 /\ cpuCount = 0 /\ perCpuItems = 0 /\ scaler = 1
  /\ uptime = [c \in CPU |-> NoUptime]
  /\ lastBt = [c \in CPU |-> 0]
  /\ low = [c \in CPU |-> NoLow]
  /\ hold = [c \in CPU |-> TRUE]
  /\ items = [c \in CPU |-> <<>>]
  /\ capacity = [c \in CPU |-> 0]
  /\ phase = "idle" /\ walk = NoWalk
  /\ taken = 0 /\ out = <<>>
  /\ given = [c \in CPU |-> 0] /\ passed = [c \in CPU |-> 0]

Loop == Scan \/ Rewind \/ Replay \/ Resolved \/ Drain \/ Forward \/ BestEffort

Next == (\E item \in StreamItems : Visit(item)) \/ Loop \/ Destroy

Spec == Init /\ [][Next]_vars

-----------------------------------------------------------------------------
(* Types of all variables of the client context and its loops.             *)
TypeOK ==
  /\ status \in Statuses
  /\ cpu \in CPU /\ cpuCount \in 0 .. MaxCpu
  /\ perCpuItems \in Nat /\ scaler \in Nat \ {0}
  /\ uptime \in [CPU -> Uptime]
  /\ lastBt \in [CPU -> Bt]
  /\ low \in [CPU -> {NoLow} \cup 0 .. LowMod - 1]
  /\ hold \in [CPU -> BOOLEAN]
  /\ items \in [CPU -> Seq(Item)]
  /\ capacity \in [CPU -> Nat]
  /\ phase \in Phases /\ walk \in Walk
  /\ taken \in 0 .. MaxItems
  /\ out \in Seq(Call)
  /\ given \in [CPU -> Nat] /\ passed \in [CPU -> Nat]

(* Where the loops are in the storage of the current processor, and which  *)
(* item resolve_hold_back() returns to.                                    *)
LoopInv ==
  /\ phase = "scan" => walk.index <= Len(items[cpu])
  /\ phase \in {"replay", "forward"} => walk.index \in 1 .. Len(items[cpu]) + 1
  /\ phase \in {"scan", "replay", "forward"} => hold[cpu]
  /\ walk.high # NoItem => walk.high.event = "UPTIME_HIGH"

\* Every processor has storage for what it holds back, unless the count
\* gave none: then the first item is written to a storage of no length.
NoRoom == perCpuItems # 0 /\ Doubled(perCpuItems) = 0
Held == \A c \in CPU :
  Len(items[c]) <= capacity[c] \/ (NoRoom /\ Len(items[c]) = 1)

(* hold_back() grows the storage before it writes item_index, the loops of *)
(* resolve_hold_back() and calculate_best_effort_uptime() stay in it: the  *)
(* held back items never exceed the allocated storage of their processor.  *)
(* Not so after a PER_CPU_COUNT whose double wraps to zero: the doubling   *)
(* of hold_back() makes no room for a first item.                          *)
HeldWithinCapacity == TypeOK /\ Held

(* The storage exists before an item is held back in it: the header items  *)
(* set the processor count and then the capacities.                        *)
StorageInv ==
  /\ Held
  /\ cpu = 0 \/ cpu < cpuCount
  /\ perCpuItems = 0 => \A c \in CPU : items[c] = <<>>
  /\ perCpuItems # 0 =>
       /\ cpuCount # 0
       /\ \A c \in CPU : c < cpuCount => capacity[c] > 0 \/ NoRoom

(* Once destroyed, the client has given the handler every numbered item it *)
(* took, those held back for an uptime that never came included, and after *)
(* a stream error as well (rtems_record_client_destroy()).                 *)
NothingLost ==
  phase = "destroyed" => \A c \in CPU : passed[c] = given[c]

(* The numbered items of c that the handler has not seen yet are those in  *)
(* its storage, from the one that replay is at: all of them, in order.     *)
From(c) == IF phase = "replay" /\ c = cpu THEN walk.index ELSE 1
Waiting(c) == {i \in From(c) .. Len(items[c]) : Numbered(items[c][i])}

OrderInv ==
  \A c \in CPU :
    /\ passed[c] <= given[c]
    /\ \A i \in Waiting(c) : items[c][i].seq \in passed[c] + 1 .. given[c]
    /\ \A i, j \in Waiting(c) : i < j => items[c][i].seq < items[c][j].seq
    /\ \A n \in passed[c] + 1 .. given[c] :
         \E i \in Waiting(c) : items[c][i].seq = n
    /\ ~hold[c] => Waiting(c) = {}

(* destroy() has handed over the items of the processors it is past.       *)
Draining ==
  \/ phase \in {"drain", "forward", "destroyed"}
  \/ phase \in {"scan", "replay"} /\ walk.high = NoItem
DrainInv ==
  /\ Draining => \A c \in CPU : c < cpu => passed[c] = given[c]
  /\ phase \notin {"idle", "destroyed"} => cpuCount # 0
  /\ \A c \in CPU : c >= cpuCount => passed[c] = given[c]

IInv == TypeOK /\ LoopInv /\ StorageInv /\ OrderInv /\ DrainInv /\ NothingLost

InOrderStep ==
  \A i \in 1 .. Len(out') :
    Numbered(out'[i].item) => out'[i].item.seq = passed[out'[i].cpu] + 1

(* Whatever is held back, replayed or delivered directly, the handler sees *)
(* the numbered items of a processor one after the other in stream order,  *)
(* none skipped and none twice (visit(), resolve_hold_back()).             *)
HandledInOrder == [][InOrderStep]_vars

ForwardStep ==
  \A i \in 1 .. Len(out') :
    /\ out'[i].bt >= lastBt[out'[i].cpu]
    /\ lastBt'[out'[i].cpu] >= out'[i].bt

(* The binary times a handler sees for one processor never decrease: not   *)
(* over a replay with a recomputed base, a new uptime or frequency, nor    *)
(* with the best effort time at the end (time_bt()).                       *)
MonotoneTime == [][ForwardStep]_vars

=============================================================================
