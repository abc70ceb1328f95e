------------------------- MODULE RecordClient_proofs -------------------------
(***************************************************************************)
(* Proofs about the record client: what it promises of the items, the      *)
(* times and the hold back storage holds for every stream, every number of *)
(* processors and every width of the time stamps; then about the client    *)
(* between a target and the LTTng writer (RecordTrace): the times that the *)
(* handler gets are true, the packets of the files hold their events, and  *)
(* the switches in them are those of the target.                           *)
(***************************************************************************)
EXTENDS RecordTrace, SequenceTheorems, TLAPS

\* Operations on time stamps and binary times stay in their ranges.
LEMMA ModRange == ASSUME NEW a \in Int, NEW m \in Nat \ {0}
                  PROVE  a % m \in 0 .. m - 1
  OBVIOUS

LEMMA ModUnique ==
  ASSUME NEW m \in Nat \ {0}, NEW a \in Int, NEW q \in Int, NEW r \in 0 .. m - 1,
         a = m * q + r
  PROVE  a % m = r
<1> DEFINE p == a \div m
           s == a % m
           e == p - q
<1>1. p \in Int /\ s \in 0 .. m - 1 /\ a = m * p + s
  OBVIOUS
<1>2. e \in Int /\ p = q + e
  BY <1>1
<1>3. m * p = m * q + m * e /\ m * e \in Int /\ m * q \in Int
  BY <1>1, <1>2
<1> HIDE DEF p, s, e
<1>4. m * e = r - s
  BY <1>1, <1>3
<1>5. m * e < m /\ m * e > -m
  BY <1>1, <1>4
<1>6. e = 0
  BY <1>2, <1>5
<1>7. m * e = 0
  BY <1>6
<1> QED BY <1>1, <1>4, <1>7 DEF s

LEMMA ModSmall == ASSUME NEW m \in Nat \ {0}, NEW r \in 0 .. m - 1 PROVE r % m = r
<1>1. r = m * 0 + r
  OBVIOUS
<1> QED BY <1>1, ModUnique

LEMMA ElapsedType ==
  ASSUME NEW from \in Time, NEW to \in Time PROVE Elapsed(from, to) \in Time
  BY ModRange, RecordAssumption DEF Elapsed, Time

LEMMA TickType ==
  ASSUME NEW u \in Uptime, NEW item \in Item PROVE Tick(u, item) \in Uptime
<1>1. item.time \in Time /\ u.last \in Time /\ u.acc \in Nat /\ u.bt \in Bt
  BY DEF Item, Uptime
<1>2. Elapsed(u.last, item.time) \in Nat
  BY <1>1, ElapsedType DEF Time
<1> QED BY <1>1, <1>2 DEF Tick, Uptime

LEMMA SpanType ==
  ASSUME NEW ticks \in Nat, NEW s \in Nat PROVE Span(ticks, s) \in Nat
<1>1. ticks * s \in Int
  OBVIOUS
<1> QED BY <1>1, ModRange, RecordAssumption DEF Span

LEMMA DoubledType == ASSUME NEW n \in Nat PROVE Doubled(n) \in Nat
  BY ModRange, RecordAssumption DEF Doubled

LEMMA BtOfType ==
  ASSUME NEW u \in Uptime, NEW s \in Nat PROVE BtOf(u, s) \in Bt
<1>1. u.bt \in Nat /\ u.acc \in Nat
  BY DEF Uptime, Bt
<1>2. Span(u.acc, s) \in Nat
  BY <1>1, SpanType
<1>3. u.bt + Span(u.acc, s) \in Int
  BY <1>1, <1>2
<1> QED BY <1>3, ModRange, RecordAssumption DEF BtOf, Bt

LEMMA ZeroTypes == NoItem \in Item /\ NoUptime \in Uptime /\ NoWalk \in Walk
<1>1. 0 \in Time /\ 0 \in Bt
  BY RecordAssumption DEF Time, Bt
<1>2. NoItem \in Item /\ NoUptime \in Uptime
  BY <1>1 DEF NoItem, Item, Events, NoTimeEvents, ClientEvents, NoUptime, Uptime
<1> QED BY <1>1, <1>2 DEF NoWalk, Walk

-----------------------------------------------------------------------------
\* The calls for an item: a clamped time first announces its adjustment.
LEMMA CallsType ==
  ASSUME TypeOK, NEW c \in CPU, NEW bt \in Bt, NEW item \in Item
  PROVE  /\ Calls(c, bt, item) \in Seq(Call)
         /\ \A i \in 1 .. Len(Calls(c, bt, item)) :
              LET call == Calls(c, bt, item)[i]
              IN /\ call.cpu = c
                 /\ call.bt = IF bt >= lastBt[c] THEN bt ELSE lastBt[c]
                 /\ Numbered(call.item) => call.item = item
<1> DEFINE adj == [event |-> "TIME_ADJUSTMENT", time |-> 0,
                   data |-> lastBt[c] - bt, seq |-> 0]
<1>1. lastBt[c] \in Bt /\ 0 \in Time
  BY RecordAssumption DEF TypeOK, Time
<1>2. ~Numbered(adj)
  BY DEF Numbered, OwnEvents
<1>3. CASE bt >= lastBt[c]
  <2> DEFINE only == [bt |-> bt, cpu |-> c, item |-> item]
  <2>1. Calls(c, bt, item) = <<only>>
    BY <1>3 DEF Calls
  <2>2. only \in Call
    BY DEF Call
  <2>3. only.cpu = c /\ only.bt = bt /\ only.item = item
    OBVIOUS
  <2> HIDE DEF only
  <2> QED BY <2>1, <2>2, <2>3, <1>3
<1>4. CASE ~(bt >= lastBt[c])
  <2>1. lastBt[c] - bt \in Nat
    BY <1>1, <1>4 DEF Bt
  <2>2. adj \in Item
    BY <2>1, <1>1 DEF Item, Events, NoTimeEvents, ClientEvents
  <2> HIDE DEF adj
  <2> DEFINE first == [bt |-> lastBt[c], cpu |-> c, item |-> adj]
             second == [bt |-> lastBt[c], cpu |-> c, item |-> item]
  <2>3. first \in Call /\ second \in Call
    BY <2>2, <1>1 DEF Call
  <2>4. Calls(c, bt, item) = <<first, second>>
    BY <1>4 DEF Calls, adj
  <2>5. /\ first.cpu = c /\ first.bt = lastBt[c] /\ ~Numbered(first.item)
        /\ second.cpu = c /\ second.bt = lastBt[c] /\ second.item = item
    BY <1>2
  <2> HIDE DEF first, second
  <2> QED BY <2>3, <2>4, <2>5, <1>4
<1> QED BY <1>3, <1>4

\* One handler call keeps the types, the times of its processor move on only,
\* and a numbered item that is handed out is the one the call is for.
LEMMA CallHandlerStep ==
  ASSUME TypeOK, NEW c \in CPU, NEW u \in Uptime, NEW item \in Item,
         scaler' \in Nat \ {0}, CallHandler(c, u, item)
  PROVE  /\ uptime' \in [CPU -> Uptime]
         /\ lastBt' \in [CPU -> Bt]
         /\ out' \in Seq(Call)
         /\ passed' \in [CPU -> Nat]
         /\ passed' = IF Numbered(item) THEN [passed EXCEPT ![c] = item.seq]
                                        ELSE passed
         /\ \A i \in 1 .. Len(out') :
              /\ out'[i].cpu = c
              /\ out'[i].bt >= lastBt[c]
              /\ lastBt'[c] >= out'[i].bt
              /\ Numbered(out'[i].item) => out'[i].item = item
<1> DEFINE bt == BtOf(Tick(u, item), scaler')
<1>1. Tick(u, item) \in Uptime /\ bt \in Bt
  BY TickType, BtOfType
<1>2. uptime' = [uptime EXCEPT ![c] = Tick(u, item)]
  BY DEF CallHandler
<1>3. lastBt' = [lastBt EXCEPT ![c] = IF bt >= @ THEN bt ELSE @]
  BY DEF CallHandler
<1>4. out' = Calls(c, bt, item)
  BY DEF CallHandler
<1>5. passed' = IF Numbered(item) THEN [passed EXCEPT ![c] = item.seq]
                                  ELSE passed
  BY DEF CallHandler
<1> HIDE DEF bt
<1>6. lastBt \in [CPU -> Bt] /\ uptime \in [CPU -> Uptime]
      /\ passed \in [CPU -> Nat] /\ item.seq \in Nat
  BY DEF TypeOK, Item
<1>7. out' \in Seq(Call)
  BY <1>1, <1>4, CallsType
<1>8. \A i \in 1 .. Len(out') :
        /\ out'[i].cpu = c
        /\ out'[i].bt = IF bt >= lastBt[c] THEN bt ELSE lastBt[c]
        /\ Numbered(out'[i].item) => out'[i].item = item
  BY <1>1, <1>4, CallsType
<1>9. uptime' \in [CPU -> Uptime]
  BY <1>1, <1>2, <1>6
<1>10. lastBt' \in [CPU -> Bt]
  BY <1>1, <1>3, <1>6
<1>11. passed' \in [CPU -> Nat]
  BY <1>5, <1>6
<1>12. lastBt'[c] = IF bt >= lastBt[c] THEN bt ELSE lastBt[c]
  BY <1>3, <1>6
<1>13. lastBt[c] \in Int /\ bt \in Int
  BY <1>1, <1>6 DEF Bt
<1> QED BY <1>5, <1>7, <1>8, <1>9, <1>10, <1>11, <1>12, <1>13

-----------------------------------------------------------------------------
(* Types.  What visit() does to an item at its end changes these variables, *)
(* the switch over the event before it changes the others.                  *)
EndTypes ==
  /\ status' \in Statuses
  /\ uptime' \in [CPU -> Uptime] /\ lastBt' \in [CPU -> Bt]
  /\ items' \in [CPU -> Seq(Item)] /\ capacity' \in [CPU -> Nat]
  /\ out' \in Seq(Call)
  /\ given' \in [CPU -> Nat] /\ passed' \in [CPU -> Nat]

LEMMA NumberType ==
  ASSUME TypeOK, NEW c \in CPU, NEW item \in Item
  PROVE  Number(c, item) \in Item
<1>1. given[c] + 1 \in Nat
  BY DEF TypeOK
<1> QED BY <1>1 DEF Number, Item

LEMMA CountType ==
  ASSUME TypeOK, NEW c \in CPU, NEW item \in Item, Count(c, item)
  PROVE  given' \in [CPU -> Nat]
  BY DEF Count, TypeOK

\* hold_back() refuses the item or stores it.
LEMMA HoldBackCases ==
  ASSUME NEW c, NEW caps, NEW item, HoldBack(c, caps, item)
  PROVE  /\ out' = <<>>
         /\ uptime' = uptime /\ lastBt' = lastBt /\ passed' = passed
         /\ \/ /\ capacity' = caps /\ items' = items /\ given' = given
               /\ status' \in {"PER_CPU_ITEMS_OVERFLOW", "NO_MEMORY"}
            \/ /\ capacity' = IF Len(items[c]) >= caps[c]
                                THEN [caps EXCEPT ![c] = 2 * Len(items[c])]
                                ELSE caps
               /\ items' = [items EXCEPT ![c] = Append(items[c], Number(c, item))]
               /\ Count(c, item)
               /\ status' = status
  BY Zenon DEF HoldBack, Full, Refused

\* process_per_cpu_count() with the capacities it sets.
CountCaps(item) == [c \in CPU |-> IF c < cpuCount
                                     THEN Doubled(item.data % CountMod)
                                     ELSE capacity[c]]

LEMMA PerCpuCountCases ==
  ASSUME NEW item, VisitPerCpuCount(item), perCpuItems = 0, cpuCount # 0
  PROVE  /\ perCpuItems' = item.data % CountMod
         /\ cpu' = cpu /\ cpuCount' = cpuCount /\ scaler' = scaler
         /\ low' = low /\ hold' = hold /\ phase' = phase /\ walk' = walk
         /\ \/ hold[cpu] /\ HoldBack(cpu, CountCaps(item), item)
            \/ /\ ~hold[cpu]
               /\ CallHandler(cpu, uptime[cpu], Number(cpu, item))
               /\ Count(cpu, item) /\ capacity' = CountCaps(item)
               /\ status' = status /\ items' = items
            \/ /\ Doubled(item.data % CountMod) = 0 /\ status' = "NO_MEMORY"
               /\ out' = <<>> /\ uptime' = uptime /\ lastBt' = lastBt
               /\ passed' = passed /\ given' = given
               /\ items' = items /\ capacity' = capacity
  BY DEF VisitPerCpuCount, CountCaps, Refused

LEMMA CountCapsType ==
  ASSUME TypeOK, NEW item \in Item
  PROVE  CountCaps(item) \in [CPU -> Nat] /\ item.data % CountMod \in Nat
<1>1. item.data \in Nat /\ capacity \in [CPU -> Nat]
  BY DEF TypeOK, Item
<1>2. item.data % CountMod \in Nat
  BY <1>1, ModRange, RecordAssumption
<1>3. Doubled(item.data % CountMod) \in Nat
  BY <1>2, DoubledType
<1> QED BY <1>1, <1>2, <1>3 DEF CountCaps

LEMMA HoldBackType ==
  ASSUME TypeOK, NEW c \in CPU, NEW caps \in [CPU -> Nat], NEW item \in Item,
         HoldBack(c, caps, item)
  PROVE  EndTypes
<1>h. /\ out' = <<>>
      /\ uptime' = uptime /\ lastBt' = lastBt /\ passed' = passed
      /\ \/ items' = items /\ given' = given
         \/ /\ items' = [items EXCEPT ![c] = Append(items[c], Number(c, item))]
            /\ Count(c, item)
  BY HoldBackCases
<1>1. /\ out' \in Seq(Call) /\ uptime' \in [CPU -> Uptime]
      /\ lastBt' \in [CPU -> Bt] /\ passed' \in [CPU -> Nat]
  BY <1>h DEF TypeOK
<1>2. Len(items[c]) \in Nat /\ 2 * Len(items[c]) \in Nat
  BY DEF TypeOK
<1>3. status' \in Statuses
  BY HoldBackCases DEF TypeOK, Statuses
<1>4. capacity' \in [CPU -> Nat]
  BY <1>2, HoldBackCases
<1>5. Append(items[c], Number(c, item)) \in Seq(Item)
  BY NumberType DEF TypeOK
<1>6. items' \in [CPU -> Seq(Item)]
  BY <1>5, <1>h DEF TypeOK
<1>7. given' \in [CPU -> Nat]
  BY CountType, HoldBackCases DEF TypeOK
<1> QED BY <1>1, <1>3, <1>4, <1>6, <1>7 DEF EndTypes

LEMMA DeliverType ==
  ASSUME TypeOK, NEW c \in CPU, NEW u \in Uptime, NEW item \in Item,
         scaler' \in Nat \ {0}, Deliver(c, u, item)
  PROVE  EndTypes
<1>1. Number(c, item) \in Item /\ CallHandler(c, u, Number(c, item))
  BY NumberType DEF Deliver
<1>2. /\ out' \in Seq(Call) /\ uptime' \in [CPU -> Uptime]
      /\ lastBt' \in [CPU -> Bt] /\ passed' \in [CPU -> Nat]
  BY <1>1, CallHandlerStep
<1>3. given' \in [CPU -> Nat]
  BY CountType DEF Deliver
<1> QED BY <1>2, <1>3 DEF Deliver, EndTypes, TypeOK

LEMMA PassOnType ==
  ASSUME TypeOK, NEW c \in CPU, NEW h \in BOOLEAN, NEW item \in Item,
         scaler' \in Nat \ {0}, PassOn(c, h, item)
  PROVE  EndTypes
<1>1. uptime[c] \in Uptime /\ capacity \in [CPU -> Nat]
  BY DEF TypeOK
<1> QED BY <1>1, HoldBackType, DeliverType DEF PassOn

LEMMA ErrorType ==
  ASSUME TypeOK, NEW s \in Statuses, Error(s)
  PROVE  /\ EndTypes
         /\ UNCHANGED <<cpu, header, low, hold, phase, walk>>
  BY DEF Error, TypeOK, EndTypes, header, store

LEMMA BaseType ==
  ASSUME TypeOK, NEW item \in Item, low[cpu] # NoLow
  PROVE  [bt |-> (item.data * LowMod + low[cpu]) % BtMod,
          last |-> item.time, acc |-> 0] \in Uptime
<1>1. low[cpu] \in Int /\ item.data \in Nat /\ item.time \in Time
  BY DEF TypeOK, Item
<1>2. item.data * LowMod \in Int
  BY <1>1, RecordAssumption
<1>3. item.data * LowMod + low[cpu] \in Int
  BY <1>1, <1>2
<1>4. (item.data * LowMod + low[cpu]) % BtMod \in Bt
  BY <1>3, ModRange, RecordAssumption DEF Bt
<1> QED BY <1>1, <1>4 DEF Uptime

(* The other variables after visit(): what the switch over the event sets. *)
SwitchTypes ==
  /\ cpu' \in CPU /\ cpuCount' \in 0 .. MaxCpu
  /\ perCpuItems' \in Nat /\ scaler' \in Nat \ {0}
  /\ low' \in [CPU -> {NoLow} \cup 0 .. LowMod - 1]
  /\ hold' \in [CPU -> BOOLEAN]
  /\ phase' \in Phases /\ walk' \in Walk

LEMMA SendableType ==
  ASSUME NEW item \in Sendable
  PROVE  /\ item \in Item /\ item.seq = 0 /\ item.event \notin OwnEvents
         /\ item.event = "FREQUENCY" => item.data > 0
         /\ item.event = "PER_CPU_COUNT" => item.data % CountMod > 0
  BY DEF Item, Sendable

\* Every operation of visit() keeps the types.
LEMMA VisitType ==
  ASSUME TypeOK, NEW item \in Sendable, Visit(item) PROVE TypeOK'
<1> USE SendableType
<1>1. /\ cpu \in CPU /\ cpuCount \in 0 .. MaxCpu /\ perCpuItems \in Nat
      /\ scaler \in Nat \ {0} /\ hold \in [CPU -> BOOLEAN]
      /\ low \in [CPU -> {NoLow} \cup 0 .. LowMod - 1]
      /\ phase \in Phases /\ walk \in Walk
      /\ uptime \in [CPU -> Uptime] /\ capacity \in [CPU -> Nat]
      /\ items \in [CPU -> Seq(Item)]
  BY DEF TypeOK
<1>2. item \in Item /\ item.data \in Nat
  BY DEF Item
<1>3. taken' \in 0 .. MaxItems
  BY RecordAssumption DEF Visit, TypeOK
<1>4. SUFFICES EndTypes /\ SwitchTypes
  BY <1>3 DEF EndTypes, SwitchTypes, TypeOK
<1>a. CASE VisitProcessor(item)
  <2>1. CASE item.data >= cpuCount
    BY <1>a, <1>1, <2>1, ErrorType DEF VisitProcessor, SwitchTypes, header, Statuses
  <2>2. CASE ~(item.data >= cpuCount)
    <3>1. item.data \in CPU
      BY <1>1, <1>2, <2>2, RecordAssumption DEF CPU
    <3>2. SwitchTypes
      BY <1>a, <1>1, <2>2, <3>1 DEF VisitProcessor, SwitchTypes, header
    <3>3. PassOn(item.data, hold[cpu], item)
      BY <1>a, <2>2 DEF VisitProcessor
    <3>4. hold[cpu] \in BOOLEAN /\ scaler' \in Nat \ {0}
      BY <1>1, <3>2 DEF SwitchTypes
    <3>5. EndTypes
      BY <1>2, <3>1, <3>3, <3>4, PassOnType
    <3> QED BY <3>2, <3>5
  <2> QED BY <2>1, <2>2
<1>b. CASE VisitUptimeLow(item)
  <2>0. item.data \in Int /\ LowMod \in Nat \ {0}
    BY <1>2, RecordAssumption
  <2>1. item.data % LowMod \in 0 .. LowMod - 1
    BY <2>0, ModRange
  <2>2. SwitchTypes
    BY <1>b, <1>1, <2>1 DEF VisitUptimeLow, SwitchTypes, header
  <2>3. hold[cpu] \in BOOLEAN /\ scaler' \in Nat \ {0}
    BY <1>1, <2>2 DEF SwitchTypes
  <2>4. EndTypes
    BY <1>b, <1>1, <1>2, <2>3, PassOnType DEF VisitUptimeLow
  <2> QED BY <2>2, <2>4
<1>c. CASE VisitUptimeHigh(item)
  <2> DEFINE base == [bt |-> (item.data * LowMod + low[cpu]) % BtMod,
                      last |-> item.time, acc |-> 0]
  <2>1. low' \in [CPU -> {NoLow} \cup 0 .. LowMod - 1]
    BY <1>c, <1>1 DEF VisitUptimeHigh
  <2>2. UNCHANGED <<cpu, header, hold>>
    BY <1>c DEF VisitUptimeHigh
  <2>3. scaler' \in Nat \ {0} /\ hold[cpu] \in BOOLEAN
    BY <2>2, <1>1 DEF header
  <2>4. CASE low[cpu] = NoLow
    <3>1. UNCHANGED <<phase, walk>> /\ PassOn(cpu, hold[cpu], item)
      BY <1>c, <2>4 DEF VisitUptimeHigh
    <3>2. EndTypes
      BY <3>1, <2>3, <1>1, <1>2, PassOnType
    <3> QED BY <1>1, <2>1, <2>2, <3>1, <3>2 DEF SwitchTypes, header
  <2>5. CASE low[cpu] # NoLow /\ ~hold[cpu]
    <3>1. UNCHANGED <<phase, walk>> /\ Deliver(cpu, base, item)
      BY <1>c, <2>5 DEF VisitUptimeHigh
    <3>2. base \in Uptime
      BY <1>2, <2>5, BaseType
    <3>3. EndTypes
      BY <3>1, <3>2, <2>3, <1>1, <1>2, DeliverType
    <3> QED BY <1>1, <2>1, <2>2, <3>1, <3>3 DEF SwitchTypes, header
  <2>6. CASE low[cpu] # NoLow /\ hold[cpu]
    <3>1. base \in Uptime
      BY <1>2, <2>6, BaseType
    <3>2. /\ phase' = "scan" /\ out' = <<>>
          /\ walk' = [index |-> Len(items[cpu]), last |-> item.time, acc |-> 0,
                      saved |-> base, high |-> item]
          /\ uptime' = [uptime EXCEPT ![cpu] = base]
          /\ UNCHANGED <<status, lastBt, items, capacity, given, passed>>
      BY <1>c, <2>6 DEF VisitUptimeHigh
    <3> HIDE DEF base
    <3>3. walk' \in Walk
      BY <3>1, <3>2, <1>1, <1>2 DEF Walk, Item
    <3>4. EndTypes
      BY <3>1, <3>2, <1>1 DEF EndTypes, TypeOK
    <3> QED BY <1>1, <2>1, <2>2, <3>2, <3>3, <3>4 DEF SwitchTypes, header, Phases
  <2> QED BY <2>4, <2>5, <2>6
<1>d. CASE VisitProcessorMaximum(item)
  <2>1. CASE item.data >= MaxCpu
    BY <1>d, <1>1, <2>1, ErrorType
    DEF VisitProcessorMaximum, SwitchTypes, header, Statuses
  <2>2. CASE ~(item.data >= MaxCpu) /\ cpuCount # 0
    BY <1>d, <1>1, <2>2, ErrorType
    DEF VisitProcessorMaximum, SwitchTypes, header, Statuses
  <2>3. CASE ~(item.data >= MaxCpu) /\ cpuCount = 0
    <3>1. SwitchTypes
      BY <1>d, <1>1, <1>2, <2>3, RecordAssumption
      DEF VisitProcessorMaximum, SwitchTypes
    <3>2. Deliver(cpu, uptime[cpu], item) /\ scaler' \in Nat \ {0}
      BY <1>d, <1>1, <2>3 DEF VisitProcessorMaximum
    <3>3. EndTypes
      BY <3>2, <1>1, <1>2, DeliverType
    <3> QED BY <3>1, <3>3
  <2> QED BY <2>1, <2>2, <2>3
<1>e. CASE VisitPerCpuCount(item)
  <2>1. CASE perCpuItems # 0
    BY <1>e, <1>1, <2>1, ErrorType
    DEF VisitPerCpuCount, SwitchTypes, header, Statuses
  <2>2. CASE perCpuItems = 0 /\ cpuCount = 0
    BY <1>e, <1>1, <2>2, ErrorType
    DEF VisitPerCpuCount, SwitchTypes, header, Statuses
  <2>3. CASE perCpuItems = 0 /\ cpuCount # 0
    <3> DEFINE caps == CountCaps(item)
    <3>1. caps \in [CPU -> Nat] /\ item.data % CountMod \in Nat
      BY <1>2, CountCapsType
    <3>2. SwitchTypes
      BY <1>e, <1>1, <2>3, <3>1, PerCpuCountCases DEF SwitchTypes
    <3>3. scaler' \in Nat \ {0}
      BY <3>2 DEF SwitchTypes
    <3>4. CASE HoldBack(cpu, caps, item)
      BY <3>1, <3>2, <3>4, <1>1, <1>2, HoldBackType
    <3>5. CASE /\ CallHandler(cpu, uptime[cpu], Number(cpu, item))
               /\ Count(cpu, item) /\ capacity' = caps
               /\ UNCHANGED <<status, items>>
      <4>1. /\ CallHandler(cpu, uptime[cpu], Number(cpu, item))
            /\ Count(cpu, item) /\ capacity' = caps
            /\ UNCHANGED <<status, items>>
        BY <3>5
      <4>2. /\ out' \in Seq(Call) /\ uptime' \in [CPU -> Uptime]
            /\ lastBt' \in [CPU -> Bt] /\ passed' \in [CPU -> Nat]
        BY <4>1, <3>3, <1>1, <1>2, NumberType, CallHandlerStep
      <4>3. given' \in [CPU -> Nat]
        BY <4>1, <1>1, <1>2, CountType
      <4>4. EndTypes
        BY <4>1, <4>2, <4>3, <3>1 DEF EndTypes, TypeOK
      <4> QED BY <4>4, <3>2
    <3>6. CASE /\ status' = "NO_MEMORY" /\ out' = <<>>
               /\ UNCHANGED <<uptime, lastBt, passed, items, capacity, given>>
      BY <3>2, <3>6 DEF EndTypes, TypeOK, Statuses
    <3> QED BY <1>e, <2>3, <3>4, <3>5, <3>6, PerCpuCountCases
  <2> QED BY <2>1, <2>2, <2>3
<1>f. CASE VisitPerCpuOverflow(item)
  <2>1. SwitchTypes
    BY <1>f, <1>1 DEF VisitPerCpuOverflow, SwitchTypes, header
  <2>2. EndTypes
    BY <1>f, <1>1, <1>2, HoldBackType DEF VisitPerCpuOverflow
  <2> QED BY <2>1, <2>2
<1>g. CASE VisitFrequency(item)
  <2>1. SwitchTypes
    BY <1>g, <1>1, <1>2 DEF VisitFrequency, SwitchTypes
  <2>2. hold[cpu] \in BOOLEAN /\ scaler' \in Nat \ {0}
    BY <1>1, <2>1 DEF SwitchTypes
  <2>3. EndTypes
    BY <1>g, <1>1, <1>2, <2>2, PassOnType DEF VisitFrequency
  <2> QED BY <2>1, <2>3
<1>h. CASE VisitVersion(item)
  <2>1. CASE item.data # TheVersion
    BY <1>h, <1>1, <2>1, ErrorType DEF VisitVersion, SwitchTypes, header, Statuses
  <2>2. CASE item.data = TheVersion
    <3>1. SwitchTypes
      BY <1>h, <1>1, <2>2 DEF VisitVersion, SwitchTypes, header
    <3>2. uptime[cpu] \in Uptime /\ scaler' \in Nat \ {0}
      BY <1>1, <3>1 DEF SwitchTypes
    <3>3. EndTypes
      BY <1>h, <2>2, <1>1, <1>2, <3>2, DeliverType DEF VisitVersion
    <3> QED BY <3>1, <3>3
  <2> QED BY <2>1, <2>2
<1>i. CASE VisitOther(item)
  <2>1. SwitchTypes
    BY <1>i, <1>1 DEF VisitOther, SwitchTypes, header
  <2>2. hold[cpu] \in BOOLEAN /\ scaler' \in Nat \ {0}
    BY <1>1, <2>1 DEF SwitchTypes
  <2>3. EndTypes
    BY <1>i, <1>1, <1>2, <2>2, PassOnType DEF VisitOther
  <2> QED BY <2>1, <2>3
<1> QED BY <1>a, <1>b, <1>c, <1>d, <1>e, <1>f, <1>g, <1>h, <1>i DEF Visit

\* Every step of the loops keeps the types: they stay in the storage.
LEMMA NextType ==
  ASSUME TypeOK, NextProcessor PROVE cpu' \in CPU /\ phase' \in Phases
<1>1. cpu \in CPU /\ cpuCount \in 0 .. MaxCpu
  BY DEF TypeOK
<1> QED BY <1>1, RecordAssumption DEF NextProcessor, Phases, CPU

LEMMA LoopType ==
  ASSUME TypeOK, LoopInv, Loop PROVE TypeOK'
<1>1. /\ cpu \in CPU /\ cpuCount \in 0 .. MaxCpu
      /\ scaler \in Nat \ {0} /\ walk \in Walk
      /\ uptime \in [CPU -> Uptime] /\ hold \in [CPU -> BOOLEAN]
      /\ items \in [CPU -> Seq(Item)] /\ capacity \in [CPU -> Nat]
  BY DEF TypeOK
<1>2. /\ walk.index \in Nat /\ walk.last \in Time /\ walk.acc \in Nat
      /\ walk.saved \in Uptime /\ walk.high \in Item
  BY <1>1 DEF Walk
<1>3. /\ uptime[cpu] \in Uptime /\ items[cpu] \in Seq(Item)
      /\ Len(items[cpu]) \in Nat
  BY <1>1
<1>4. \A i \in 1 .. Len(items[cpu]) :
        items[cpu][i] \in Item /\ items[cpu][i].time \in Time
  <2>1. \A i \in 1 .. Len(items[cpu]) : items[cpu][i] \in Item
    BY <1>3
  <2>2. \A i \in Item : i.time \in Time
    BY DEF Item
  <2> QED BY <2>1, <2>2
<1>5. Span(walk.acc, scaler) \in Nat /\ uptime[cpu].bt \in Int
  <2>1. walk.acc \in Nat /\ scaler \in Nat
    BY <1>1, <1>2
  <2>2. Span(walk.acc, scaler) \in Nat
    BY <2>1, SpanType
  <2>3. uptime[cpu].bt \in Bt
    BY <1>3 DEF Uptime
  <2> QED BY <2>2, <2>3 DEF Bt
<1>a. CASE Scan
  <2> DEFINE item == items[cpu][walk.index]
             gap == IF HasTime(item.event) THEN Elapsed(item.time, walk.last)
                                           ELSE 0
  <2>1. walk.index \in 1 .. Len(items[cpu])
    BY <1>a, <1>2, <1>3 DEF Scan, LoopInv
  <2>2. item.time \in Time
    BY <2>1, <1>4
  <2>a. Elapsed(item.time, walk.last) \in Time
    BY <2>2, <1>2, ElapsedType
  <2>3. gap \in Nat
    BY <2>a DEF Time
  <2>4. walk' = Walked(walk.index - 1, item, gap)
    BY <1>a DEF Scan
  <2>5. walk.index - 1 \in Nat
    BY <2>1
  <2> HIDE DEF item, gap
  <2>6. walk' \in Walk
    BY <2>2, <2>3, <2>4, <2>5, <1>2 DEF Walked, Walk
  <2> QED BY <1>a, <2>6 DEF Scan, TypeOK, header, store
<1>b. CASE Rewind
  <2> DEFINE base == [bt |-> (uptime[cpu].bt - Span(walk.acc, scaler)) % BtMod,
                      last |-> walk.last, acc |-> 0]
  <2>1. uptime[cpu].bt - Span(walk.acc, scaler) \in Int
    BY <1>5
  <2>2. (uptime[cpu].bt - Span(walk.acc, scaler)) % BtMod \in Bt
    BY <2>1, ModRange, RecordAssumption DEF Bt
  <2>3. base \in Uptime
    BY <2>2, <1>2 DEF Uptime
  <2>4. uptime' = [uptime EXCEPT ![cpu] = base]
    BY <1>b DEF Rewind
  <2> HIDE DEF base
  <2>5. uptime' \in [CPU -> Uptime]
    BY <2>3, <2>4, <1>1
  <2>6. walk' \in Walk
    BY <1>b, <1>1 DEF Rewind, Walk
  <2> QED BY <1>b, <2>5, <2>6 DEF Rewind, TypeOK, header, store, Phases
<1>c. CASE Replay
  <2> DEFINE item == items[cpu][walk.index]
  <2>1. item \in Item
    BY <1>c, <1>2, <1>3, <1>4 DEF Replay, LoopInv
  <2>2. CallHandler(cpu, uptime[cpu], item) /\ scaler' = scaler
    BY <1>c DEF Replay, header
  <2> HIDE DEF item
  <2>3. /\ out' \in Seq(Call) /\ uptime' \in [CPU -> Uptime]
        /\ lastBt' \in [CPU -> Bt] /\ passed' \in [CPU -> Nat]
    BY <2>1, <2>2, <1>1, <1>3, CallHandlerStep
  <2>4. walk' \in Walk
    <3>1. walk' = [walk EXCEPT !.index = walk.index + 1]
      BY <1>c DEF Replay
    <3>2. walk.index + 1 \in Nat
      BY <1>2
    <3> QED BY <3>1, <3>2, <1>1 DEF Walk
  <2>5. UNCHANGED <<status, cpu, cpuCount, perCpuItems, scaler, low, hold,
                    items, capacity, phase, taken, given>>
    BY <1>c DEF Replay, header, store
  <2> QED BY <2>3, <2>4, <2>5 DEF TypeOK
<1>d. CASE Resolved
  <2>1. /\ hold' \in [CPU -> BOOLEAN] /\ items' \in [CPU -> Seq(Item)]
        /\ walk' \in Walk
        /\ UNCHANGED <<status, header, low, capacity, taken>>
    BY <1>d, <1>1, ZeroTypes DEF Resolved, ResetHoldBack
  <2>a. cpu' \in CPU /\ phase' \in Phases
    BY <1>d, <1>1, NextType DEF Resolved, Phases
  <2>2. CASE walk.high = NoItem
    <3>1. /\ uptime' = [uptime EXCEPT ![cpu] = walk.saved] /\ out' = <<>>
          /\ UNCHANGED <<lastBt, given, passed>>
      BY <1>d, <2>2 DEF Resolved, ResetHoldBack
    <3>a. uptime' \in [CPU -> Uptime] /\ out' \in Seq(Call)
      BY <3>1, <1>1, <1>2
    <3>2. UNCHANGED <<status, cpuCount, perCpuItems, scaler, low, lastBt,
                      capacity, taken, given, passed>>
      BY <2>1, <3>1 DEF header
    <3> QED BY <2>1, <2>a, <3>a, <3>2 DEF TypeOK
  <2>3. CASE walk.high # NoItem
    <3>1. /\ CallHandler(cpu, walk.saved, Number(cpu, walk.high))
          /\ Count(cpu, walk.high)
      BY <1>d, <2>3 DEF Resolved, ResetHoldBack
    <3>2. scaler' \in Nat \ {0}
      BY <2>1, <1>1 DEF header
    <3>3. /\ out' \in Seq(Call) /\ uptime' \in [CPU -> Uptime]
          /\ lastBt' \in [CPU -> Bt] /\ passed' \in [CPU -> Nat]
      BY <3>1, <3>2, <1>1, <1>2, NumberType, CallHandlerStep
    <3>4. given' \in [CPU -> Nat]
      BY <3>1, <1>1, <1>2, CountType
    <3> QED BY <2>1, <2>a, <3>3, <3>4 DEF TypeOK, header
  <2> QED BY <2>2, <2>3
<1>e. CASE Drain
  <2>1. UNCHANGED <<status, header, low, store, taken, given>>
    BY <1>e DEF Drain, Undrained
  <2>2. CASE hold[cpu] /\ items[cpu] # <<>>
    <3> DEFINE unreliable == [NoItem EXCEPT !.event = "UNRELIABLE_TIME"]
    <3>1. unreliable \in Item
      BY ZeroTypes DEF Item, Events, NoTimeEvents, ClientEvents
    <3>2. CallHandler(cpu, uptime[cpu], unreliable) /\ scaler' = scaler
      BY <1>e, <2>1, <2>2 DEF Drain, Undrained, header
    <3> HIDE DEF unreliable
    <3>3. /\ out' \in Seq(Call) /\ uptime' \in [CPU -> Uptime]
          /\ lastBt' \in [CPU -> Bt] /\ passed' \in [CPU -> Nat]
      BY <3>1, <3>2, <1>1, <1>3, CallHandlerStep
    <3>4. 1 \in 1 .. Len(items[cpu])
      BY <2>2, <1>3
    <3>5. uptime[cpu].last \in Time /\ items[cpu][1].time \in Time
      BY <3>4, <1>3, <1>4 DEF Uptime
    <3>6. walk' \in Walk
      BY <1>e, <2>2, <3>5, ZeroTypes DEF Drain, Undrained, Walk
    <3>7. phase' \in Phases /\ cpu' = cpu
      BY <1>e, <2>2 DEF Drain, Undrained, Phases
    <3> QED BY <2>1, <3>3, <3>6, <3>7 DEF TypeOK, header, store
  <2>3. CASE ~(hold[cpu] /\ items[cpu] # <<>>)
    <3>1. cpu' \in CPU /\ phase' \in Phases
      BY <1>e, <2>3, NextType DEF Drain, Undrained
    <3>2. out' = <<>> /\ UNCHANGED <<uptime, lastBt, passed, walk>>
      BY <1>e, <2>3 DEF Drain, Undrained
    <3>3. UNCHANGED <<status, cpuCount, perCpuItems, scaler, low, hold, items,
                      capacity, taken, given, uptime, lastBt, passed, walk>>
      BY <2>1, <3>2 DEF header, store
    <3> QED BY <3>1, <3>2, <3>3 DEF TypeOK
  <2> QED BY <2>2, <2>3
<1>f. CASE Forward
  <2> DEFINE item == items[cpu][walk.index]
             gap == IF HasTime(item.event) THEN Elapsed(walk.last, item.time)
                                           ELSE 0
  <2>1. walk.index \in 1 .. Len(items[cpu])
    BY <1>f, <1>2, <1>3 DEF Forward, LoopInv
  <2>2. item.time \in Time
    BY <2>1, <1>4
  <2>a. Elapsed(walk.last, item.time) \in Time
    BY <2>2, <1>2, ElapsedType
  <2>3. gap \in Nat
    BY <2>a DEF Time
  <2>4. walk' = Walked(walk.index + 1, item, gap)
    BY <1>f DEF Forward
  <2> HIDE DEF item, gap
  <2>5. walk' \in Walk
    BY <2>2, <2>3, <2>4, <1>2 DEF Walked, Walk
  <2> QED BY <1>f, <2>5 DEF Forward, TypeOK, header, store
<1>g. CASE BestEffort
  <2> DEFINE base == [bt |-> (uptime[cpu].bt + Span(walk.acc, scaler)) % BtMod,
                      last |-> walk.last, acc |-> 0]
  <2>1. uptime[cpu].bt + Span(walk.acc, scaler) \in Int
    BY <1>5
  <2>2. (uptime[cpu].bt + Span(walk.acc, scaler)) % BtMod \in Bt
    BY <2>1, ModRange, RecordAssumption DEF Bt
  <2>3. base \in Uptime
    BY <2>2, <1>2 DEF Uptime
  <2>4. /\ uptime' = [uptime EXCEPT ![cpu] = base]
        /\ walk' = [index |-> Len(items[cpu]), last |-> walk.last, acc |-> 0,
                    saved |-> base, high |-> NoItem]
    BY <1>g DEF BestEffort
  <2> HIDE DEF base
  <2>5. uptime' \in [CPU -> Uptime]
    BY <2>3, <2>4, <1>1
  <2>6. walk' \in Walk
    BY <2>3, <2>4, <1>2, <1>3, ZeroTypes DEF Walk
  <2> QED BY <1>g, <2>5, <2>6 DEF BestEffort, TypeOK, header, store, Phases
<1> QED BY <1>a, <1>b, <1>c, <1>d, <1>e, <1>f, <1>g DEF Loop

LEMMA DestroyType == ASSUME TypeOK, Destroy PROVE TypeOK'
<1>1. cpu' \in CPU /\ phase' \in Phases
  BY RecordAssumption DEF Destroy, CPU, Phases
<1>2. out' \in Seq(Call)
  BY DEF Destroy
<1>3. UNCHANGED <<status, cpuCount, perCpuItems, scaler, low, hold, items,
                  capacity, taken, given, uptime, lastBt, passed, walk>>
  BY DEF Destroy, header, store
<1> QED BY <1>1, <1>2, <1>3 DEF TypeOK

LEMMA InitType == Init => TypeOK
<1> SUFFICES ASSUME Init PROVE TypeOK
  OBVIOUS
<1>1. 0 \in CPU /\ 0 \in Bt
  BY RecordAssumption DEF CPU, Bt
<1> QED BY <1>1, ZeroTypes, RecordAssumption DEF Init, TypeOK, Statuses, Phases

-----------------------------------------------------------------------------
(* Order.  The three things that happen to the items of a processor: a new *)
(* one is appended to its storage, a new one is handed out at once, and    *)
(* the next one of the storage is handed out.                              *)
LEMMA NumberFacts ==
  ASSUME TypeOK, NEW c \in CPU, NEW item \in Item
  PROVE  /\ Numbered(Number(c, item)) <=> Numbered(item)
         /\ Numbered(item) => Number(c, item).seq = given[c] + 1
         /\ Number(c, item).event = item.event
  BY DEF Number, Numbered, Item

LEMMA IntervalUp ==
  ASSUME NEW a \in Nat, NEW b \in Nat, NEW x \in a + 1 .. b
  PROVE  x \in a + 1 .. b + 1
  OBVIOUS

LEMMA OrderAppend ==
  ASSUME TypeOK, OrderInv, NEW c \in CPU, NEW item \in Item,
         phase = "idle", phase' = "idle",
         items' = [items EXCEPT ![c] = Append(@, Number(c, item))],
         Count(c, item), passed' = passed,
         \A d \in CPU : hold[d] => hold'[d],
         Numbered(item) => hold'[c]
  PROVE  OrderInv'
<1> SUFFICES ASSUME NEW d \in CPU
             PROVE  /\ passed'[d] <= given'[d]
                    /\ \A i \in Waiting(d)' :
                         items'[d][i].seq \in passed'[d] + 1 .. given'[d]
                    /\ \A i, j \in Waiting(d)' :
                         i < j => items'[d][i].seq < items'[d][j].seq
                    /\ \A n \in passed'[d] + 1 .. given'[d] :
                         \E i \in Waiting(d)' : items'[d][i].seq = n
                    /\ ~hold'[d] => Waiting(d)' = {}
  BY DEF OrderInv
<1>1. /\ given[d] \in Nat /\ passed[d] \in Nat /\ items[d] \in Seq(Item)
      /\ given[c] \in Nat
  BY DEF TypeOK
<1>2. /\ passed[d] <= given[d]
      /\ \A i \in Waiting(d) : items[d][i].seq \in passed[d] + 1 .. given[d]
      /\ \A i, j \in Waiting(d) : i < j => items[d][i].seq < items[d][j].seq
      /\ \A n \in passed[d] + 1 .. given[d] :
           \E i \in Waiting(d) : items[d][i].seq = n
      /\ ~hold[d] => Waiting(d) = {}
  BY DEF OrderInv
<1>3. /\ Waiting(d) = {i \in 1 .. Len(items[d]) : Numbered(items[d][i])}
      /\ Waiting(d)' = {i \in 1 .. Len(items'[d]) : Numbered(items'[d][i])}
  BY DEF Waiting, From
<1>4. CASE d # c
  <2>1. items'[d] = items[d] /\ given'[d] = given[d] /\ passed'[d] = passed[d]
    BY <1>4 DEF TypeOK, Count
  <2> QED BY <2>1, <1>2, <1>3
<1>5. CASE d = c
  <2> DEFINE n == Number(c, item)
             len == Len(items[d])
  <2>1. n \in Item /\ (Numbered(n) <=> Numbered(item))
        /\ (Numbered(item) => n.seq = given[d] + 1)
    BY <1>5, NumberType, NumberFacts
  <2>2. items'[d] = Append(items[d], n) /\ passed'[d] = passed[d]
    BY <1>5 DEF TypeOK
  <2> HIDE DEF n
  <2>3. /\ Len(items'[d]) = len + 1 /\ len \in Nat
        /\ \A i \in 1 .. len : items'[d][i] = items[d][i]
        /\ items'[d][len + 1] = n
    BY <2>1, <2>2, <1>1
  <2>4. given'[d] = IF Numbered(item) THEN given[d] + 1 ELSE given[d]
    BY <1>5 DEF Count, TypeOK
  <2> HIDE DEF len
  <2>5. CASE Numbered(item)
    <3>1. Waiting(d)' = Waiting(d) \cup {len + 1}
      BY <2>1, <2>3, <2>5, <1>3 DEF len
    <3>2. \A i \in Waiting(d) : i \in 1 .. len /\ items'[d][i] = items[d][i]
      BY <2>3, <1>3 DEF len
    <3>3. items'[d][len + 1].seq = given[d] + 1 /\ given'[d] = given[d] + 1
      BY <2>1, <2>3, <2>4, <2>5
    <3>a. passed[d] <= given[d]
      BY <1>2
    <3>4. \A i \in Waiting(d)' :
            items'[d][i].seq \in passed'[d] + 1 .. given'[d]
      <4> TAKE i \in Waiting(d)'
      <4>1. CASE i \in Waiting(d)
        <5>1. items[d][i].seq \in passed[d] + 1 .. given[d]
          BY <4>1, <1>2
        <5>2. items'[d][i].seq \in passed[d] + 1 .. given[d]
          BY <5>1, <4>1, <3>2
        <5>3. items'[d][i].seq \in passed[d] + 1 .. given[d] + 1
          BY <5>2, <1>1, IntervalUp
        <5> QED BY <5>3, <3>3, <2>2
      <4>2. CASE i = len + 1
        <5>1. given[d] + 1 \in passed[d] + 1 .. given[d] + 1
          BY <3>a, <1>1
        <5> QED BY <5>1, <4>2, <3>3, <2>2
      <4> QED BY <4>1, <4>2, <3>1
    <3>5. \A i, j \in Waiting(d)' : i < j => items'[d][i].seq < items'[d][j].seq
      <4> SUFFICES ASSUME NEW i \in Waiting(d)', NEW j \in Waiting(d)', i < j
                   PROVE  items'[d][i].seq < items'[d][j].seq
        OBVIOUS
      <4>1. i \in Waiting(d)
        BY <3>1, <3>2, <2>3
      <4>2. CASE j \in Waiting(d)
        BY <4>1, <4>2, <3>2, <1>2
      <4>3. CASE j = len + 1
        <5>1. items[d][i].seq \in passed[d] + 1 .. given[d]
          BY <4>1, <1>2
        <5>2. items[d][i].seq < given[d] + 1
          BY <5>1, <1>1
        <5> QED BY <5>2, <4>1, <4>3, <3>2, <3>3
      <4> QED BY <4>2, <4>3, <3>1
    <3>6. \A k \in passed'[d] + 1 .. given'[d] :
            \E i \in Waiting(d)' : items'[d][i].seq = k
      <4> TAKE k \in passed'[d] + 1 .. given'[d]
      <4>1. CASE k = given[d] + 1
        BY <4>1, <3>1, <3>3
      <4>2. CASE k # given[d] + 1
        <5>1. k \in passed[d] + 1 .. given[d]
          BY <4>2, <3>3, <2>2, <1>1
        <5> QED BY <5>1, <3>1, <3>2, <1>2
      <4> QED BY <4>1, <4>2
    <3>7. passed'[d] <= given'[d] /\ hold'[d]
      BY <3>a, <3>3, <2>2, <2>5, <1>1, <1>5
    <3> QED BY <3>4, <3>5, <3>6, <3>7
  <2>6. CASE ~Numbered(item)
    <3>1. Waiting(d)' = Waiting(d)
      BY <2>1, <2>3, <2>6, <1>3 DEF len
    <3>2. \A i \in Waiting(d) : items'[d][i] = items[d][i]
      BY <2>3, <1>3 DEF len
    <3> QED BY <3>1, <3>2, <2>2, <2>4, <2>6, <1>2
  <2> QED BY <2>5, <2>6
<1> QED BY <1>4, <1>5

\* Handing out a new item at once: nothing numbered waits in its storage.
LEMMA OrderDeliver ==
  ASSUME TypeOK, OrderInv, NEW c \in CPU, NEW u \in Uptime, NEW item \in Item,
         scaler' \in Nat \ {0}, phase = "idle", phase' = "idle",
         items' = items, hold' = hold,
         CallHandler(c, u, Number(c, item)), Count(c, item),
         Numbered(item) => ~hold[c]
  PROVE  OrderInv' /\ InOrderStep
<1>1. /\ given[c] \in Nat /\ passed[c] \in Nat /\ passed[c] <= given[c]
      /\ given \in [CPU -> Nat] /\ passed \in [CPU -> Nat]
  BY DEF TypeOK, OrderInv
<1> DEFINE n == Number(c, item)
<1>2. n \in Item /\ (Numbered(n) <=> Numbered(item))
      /\ (Numbered(item) => n.seq = given[c] + 1)
  BY NumberType, NumberFacts
<1>3. /\ passed' = IF Numbered(n) THEN [passed EXCEPT ![c] = n.seq] ELSE passed
      /\ \A i \in 1 .. Len(out') :
           /\ out'[i].cpu = c
           /\ Numbered(out'[i].item) => out'[i].item = n
  BY <1>2, CallHandlerStep
<1> HIDE DEF n
<1>4. \A d \in CPU :
        /\ Waiting(d) = {i \in 1 .. Len(items[d]) : Numbered(items[d][i])}
        /\ Waiting(d)' = {i \in 1 .. Len(items'[d]) : Numbered(items'[d][i])}
  BY DEF Waiting, From
<1>5. \A d \in CPU : Waiting(d)' = Waiting(d)
  BY <1>4
<1>6. CASE ~Numbered(item)
  <2>1. passed' = passed /\ given' = given
    BY <1>2, <1>3, <1>6 DEF Count
  <2>2. OrderInv'
    BY <2>1, <1>5 DEF OrderInv
  <2>3. InOrderStep
    BY <1>2, <1>3, <1>6 DEF InOrderStep
  <2> QED BY <2>2, <2>3
<1>7. CASE Numbered(item)
  <2>1. Waiting(c) = {} /\ ~hold[c]
    BY <1>7 DEF OrderInv
  <2>2. passed[c] = given[c]
    <3>1. \A k \in passed[c] + 1 .. given[c] : \E i \in Waiting(c) : items[c][i].seq = k
      BY DEF OrderInv
    <3>2. passed[c] + 1 .. given[c] = {}
      BY <2>1, <3>1
    <3> QED BY <3>2, <1>1
  <2>3. /\ given' = [given EXCEPT ![c] = given[c] + 1]
        /\ passed' = [passed EXCEPT ![c] = given[c] + 1]
    BY <1>2, <1>3, <1>7 DEF Count
  <2>4. InOrderStep
    BY <1>2, <1>3, <1>7, <2>2 DEF InOrderStep
  <2>5. given'[c] = given[c] + 1 /\ passed'[c] = given[c] + 1
    BY <2>3, <1>1
  <2>6. passed'[c] <= given'[c] /\ passed'[c] + 1 .. given'[c] = {}
    BY <2>5, <1>1
  <2>7. \A d \in CPU : d # c => given'[d] = given[d] /\ passed'[d] = passed[d]
    BY <2>3, <1>1
  <2>8. OrderInv'
    <3> SUFFICES ASSUME NEW d \in CPU
                 PROVE  /\ passed'[d] <= given'[d]
                        /\ \A i \in Waiting(d)' :
                             items'[d][i].seq \in passed'[d] + 1 .. given'[d]
                        /\ \A i, j \in Waiting(d)' :
                             i < j => items'[d][i].seq < items'[d][j].seq
                        /\ \A k \in passed'[d] + 1 .. given'[d] :
                             \E i \in Waiting(d)' : items'[d][i].seq = k
                        /\ ~hold'[d] => Waiting(d)' = {}
      BY DEF OrderInv
    <3>1. CASE d = c
      BY <3>1, <2>1, <2>6, <1>5
    <3>2. CASE d # c
      BY <3>2, <2>7, <1>5 DEF OrderInv
    <3> QED BY <3>1, <3>2
  <2> QED BY <2>4, <2>8
<1> QED BY <1>6, <1>7

\* A step that leaves the items and their numbers alone.
LEMMA OrderFrame ==
  ASSUME OrderInv, items' = items, given' = given, passed' = passed,
         \A d \in CPU : From(d)' = From(d),
         \A d \in CPU : hold[d] => hold'[d]
  PROVE  OrderInv'
<1>1. \A d \in CPU : Waiting(d)' = Waiting(d)
  BY DEF Waiting
<1> QED BY <1>1 DEF OrderInv

LEMMA NoCallStep == out' = <<>> => InOrderStep /\ ForwardStep
  BY DEF InOrderStep, ForwardStep

LEMMA OrderHoldBack ==
  ASSUME TypeOK, OrderInv, NEW c \in CPU, NEW caps \in [CPU -> Nat],
         NEW item \in Item, HoldBack(c, caps, item),
         phase = "idle", phase' = "idle",
         \A d \in CPU : hold[d] => hold'[d],
         Numbered(item) => hold'[c]
  PROVE  OrderInv' /\ InOrderStep
<1>1. out' = <<>> /\ passed' = passed
  BY HoldBackCases
<1>2. \A d \in CPU : From(d)' = From(d)
  BY DEF From
<1>3. CASE items' = items /\ given' = given
  BY <1>3, <1>1, <1>2, OrderFrame, NoCallStep
<1>4. CASE /\ items' = [items EXCEPT ![c] = Append(@, Number(c, item))]
           /\ Count(c, item)
  BY <1>4, <1>1, OrderAppend, NoCallStep
<1> QED BY <1>3, <1>4, HoldBackCases

LEMMA OrderPassOn ==
  ASSUME TypeOK, OrderInv, NEW c \in CPU, NEW h \in BOOLEAN, NEW item \in Item,
         scaler' \in Nat \ {0}, PassOn(c, h, item),
         phase = "idle", phase' = "idle", hold' = hold,
         Numbered(item) => h = hold[c]
  PROVE  OrderInv' /\ InOrderStep
<1>1. uptime[c] \in Uptime /\ capacity \in [CPU -> Nat]
  BY DEF TypeOK
<1>2. CASE h
  BY <1>1, <1>2, OrderHoldBack DEF PassOn
<1>3. CASE ~h
  BY <1>1, <1>3, OrderDeliver DEF PassOn, Deliver
<1> QED BY <1>2, <1>3

LEMMA OrderError ==
  ASSUME OrderInv, NEW s, Error(s) PROVE OrderInv' /\ InOrderStep
<1>1. /\ items' = items /\ given' = given /\ passed' = passed /\ hold' = hold
      /\ cpu' = cpu /\ phase' = phase /\ walk' = walk /\ out' = <<>>
  BY DEF Error, store
<1>2. \A d \in CPU : From(d)' = From(d)
  BY <1>1 DEF From
<1> QED BY <1>1, <1>2, OrderFrame, NoCallStep

\* The order survives every operation of visit().
LEMMA VisitOrder ==
  ASSUME TypeOK, TypeOK', OrderInv, NEW item \in Sendable, Visit(item)
  PROVE  OrderInv' /\ InOrderStep
<1>1. /\ item \in Item /\ item.data \in Nat /\ phase = "idle" /\ cpu \in CPU
      /\ cpuCount \in 0 .. MaxCpu
      /\ uptime[cpu] \in Uptime /\ capacity \in [CPU -> Nat]
      /\ hold \in [CPU -> BOOLEAN] /\ hold[cpu] \in BOOLEAN
      /\ scaler' \in Nat \ {0}
  BY SendableType DEF Visit, TypeOK, Item
<1>a. CASE VisitProcessor(item)
  <2>1. CASE item.data >= cpuCount
    BY <1>a, <2>1, OrderError DEF VisitProcessor
  <2>2. CASE ~(item.data >= cpuCount)
    <3>1. item.data \in CPU
      BY <1>1, <2>2, RecordAssumption DEF CPU
    <3>2. /\ phase' = phase /\ hold' = hold
          /\ PassOn(item.data, hold[cpu], item)
      BY <1>a, <2>2 DEF VisitProcessor
    <3>3. ~Numbered(item)
      BY <1>a DEF VisitProcessor, Numbered, OutOfBand
    <3> QED BY <1>1, <3>1, <3>2, <3>3, OrderPassOn
  <2> QED BY <2>1, <2>2
<1>b. CASE VisitUptimeLow(item)
  BY <1>b, <1>1, OrderPassOn DEF VisitUptimeLow
<1>c. CASE VisitUptimeHigh(item)
  <2> DEFINE base == [bt |-> (item.data * LowMod + low[cpu]) % BtMod,
                      last |-> item.time, acc |-> 0]
  <2>1. CASE low[cpu] = NoLow
    BY <1>c, <1>1, <2>1, OrderPassOn DEF VisitUptimeHigh
  <2>2. CASE low[cpu] # NoLow /\ ~hold[cpu]
    <3>1. base \in Uptime
      BY <1>1, <2>2, BaseType
    <3>2. /\ phase' = phase /\ hold' = hold /\ Deliver(cpu, base, item)
      BY <1>c, <2>2 DEF VisitUptimeHigh
    <3> HIDE DEF base
    <3> QED BY <1>1, <2>2, <3>1, <3>2, OrderDeliver DEF Deliver
  <2>3. CASE low[cpu] # NoLow /\ hold[cpu]
    <3>1. /\ phase' = "scan" /\ out' = <<>> /\ hold' = hold
          /\ items' = items /\ given' = given /\ passed' = passed
      BY <1>c, <2>3 DEF VisitUptimeHigh
    <3>2. \A d \in CPU : From(d)' = From(d)
      BY <1>1, <3>1 DEF From
    <3> QED BY <3>1, <3>2, OrderFrame, NoCallStep
  <2> QED BY <2>1, <2>2, <2>3
<1>d. CASE VisitProcessorMaximum(item)
  <2>1. CASE item.data >= MaxCpu \/ cpuCount # 0
    BY <1>d, <2>1, OrderError DEF VisitProcessorMaximum
  <2>2. CASE ~(item.data >= MaxCpu \/ cpuCount # 0)
    <3>1. /\ phase' = phase /\ hold' = hold
          /\ Deliver(cpu, uptime[cpu], item)
      BY <1>d, <2>2 DEF VisitProcessorMaximum
    <3>2. ~Numbered(item)
      BY <1>d DEF VisitProcessorMaximum, Numbered, OutOfBand
    <3> QED BY <1>1, <3>1, <3>2, OrderDeliver DEF Deliver
  <2> QED BY <2>1, <2>2
<1>e. CASE VisitPerCpuCount(item)
  <2>1. CASE perCpuItems # 0 \/ cpuCount = 0
    BY <1>e, <2>1, OrderError DEF VisitPerCpuCount
  <2>2. CASE ~(perCpuItems # 0 \/ cpuCount = 0)
    <3>1. CountCaps(item) \in [CPU -> Nat]
      BY <1>1, CountCapsType
    <3>2. phase' = phase /\ hold' = hold
      BY <1>e, <2>2, PerCpuCountCases
    <3>3. CASE hold[cpu] /\ HoldBack(cpu, CountCaps(item), item)
      BY <1>1, <3>1, <3>2, <3>3, OrderHoldBack
    <3>4. CASE /\ ~hold[cpu] /\ items' = items
               /\ CallHandler(cpu, uptime[cpu], Number(cpu, item))
               /\ Count(cpu, item)
      BY <1>1, <3>2, <3>4, OrderDeliver
    <3>5. CASE out' = <<>> /\ UNCHANGED <<items, given, passed>>
      <4>1. \A d \in CPU : From(d)' = From(d)
        BY <1>1, <3>2 DEF From
      <4> QED BY <3>2, <3>5, <4>1, OrderFrame, NoCallStep
    <3> QED BY <1>e, <2>2, <3>3, <3>4, <3>5, PerCpuCountCases
  <2> QED BY <2>1, <2>2
<1>f. CASE VisitPerCpuOverflow(item)
  <2>1. /\ hold' = [hold EXCEPT ![cpu] = TRUE] /\ phase' = phase
        /\ HoldBack(cpu, capacity, item)
    BY <1>f DEF VisitPerCpuOverflow
  <2>2. hold'[cpu] /\ \A d \in CPU : hold[d] => hold'[d]
    BY <2>1, <1>1
  <2> QED BY <1>1, <2>1, <2>2, OrderHoldBack
<1>g. CASE VisitFrequency(item)
  BY <1>g, <1>1, OrderPassOn DEF VisitFrequency
<1>h. CASE VisitVersion(item)
  <2>1. CASE item.data # TheVersion
    BY <1>h, <2>1, OrderError DEF VisitVersion
  <2>2. CASE item.data = TheVersion
    <3>1. /\ phase' = phase /\ hold' = hold
          /\ Deliver(cpu, uptime[cpu], item)
      BY <1>h, <2>2 DEF VisitVersion
    <3>2. ~Numbered(item)
      BY <1>h DEF VisitVersion, Numbered, OutOfBand
    <3> QED BY <1>1, <3>1, <3>2, OrderDeliver DEF Deliver
  <2> QED BY <2>1, <2>2
<1>i. CASE VisitOther(item)
  BY <1>i, <1>1, OrderPassOn DEF VisitOther
<1> QED BY <1>a, <1>b, <1>c, <1>d, <1>e, <1>f, <1>g, <1>h, <1>i DEF Visit

\* Replay hands out the item with the next number: it is the first waiting.
LEMMA ReplayOrder ==
  ASSUME TypeOK, LoopInv, OrderInv, Replay PROVE OrderInv' /\ InOrderStep
<1> DEFINE item == items[cpu][walk.index]
<1>1. /\ phase = "replay" /\ phase' = "replay" /\ cpu' = cpu /\ cpu \in CPU
      /\ items' = items /\ hold' = hold /\ given' = given /\ scaler' = scaler
      /\ scaler \in Nat \ {0} /\ uptime[cpu] \in Uptime
      /\ walk.index \in 1 .. Len(items[cpu])
      /\ CallHandler(cpu, uptime[cpu], item)
  <2>1. walk.index \in 1 .. Len(items[cpu]) + 1 /\ walk.index <= Len(items[cpu])
    BY DEF Replay, LoopInv
  <2>2. items[cpu] \in Seq(Item) /\ cpu \in CPU /\ scaler \in Nat \ {0}
        /\ uptime[cpu] \in Uptime
    BY DEF TypeOK
  <2>3. walk.index \in 1 .. Len(items[cpu])
    BY <2>1, <2>2
  <2> QED BY <2>2, <2>3 DEF Replay, header, store
<1>2. walk'.index = walk.index + 1
  <2>1. walk \in Walk
    BY DEF TypeOK
  <2> QED BY <2>1 DEF Replay, Walk
<1>3. item \in Item /\ items[cpu] \in Seq(Item) /\ Len(items[cpu]) \in Nat
  <2>1. items[cpu] \in Seq(Item)
    BY <1>1 DEF TypeOK
  <2> QED BY <2>1, <1>1
<1>4. /\ passed' = IF Numbered(item) THEN [passed EXCEPT ![cpu] = item.seq]
                                     ELSE passed
      /\ \A i \in 1 .. Len(out') :
           /\ out'[i].cpu = cpu
           /\ Numbered(out'[i].item) => out'[i].item = item
  BY <1>1, <1>3, CallHandlerStep
<1>5. /\ Waiting(cpu) = {i \in walk.index .. Len(items[cpu]) :
                          Numbered(items[cpu][i])}
      /\ Waiting(cpu)' = {i \in walk.index + 1 .. Len(items[cpu]) :
                           Numbered(items[cpu][i])}
  BY <1>1, <1>2 DEF Waiting, From
<1>6. /\ given[cpu] \in Nat /\ passed[cpu] \in Nat /\ passed \in [CPU -> Nat]
  BY <1>1 DEF TypeOK
<1>7. /\ passed[cpu] <= given[cpu]
      /\ \A i \in Waiting(cpu) : items[cpu][i].seq \in passed[cpu] + 1 .. given[cpu]
      /\ \A i, j \in Waiting(cpu) : i < j => items[cpu][i].seq < items[cpu][j].seq
      /\ \A n \in passed[cpu] + 1 .. given[cpu] :
           \E i \in Waiting(cpu) : items[cpu][i].seq = n
      /\ ~hold[cpu] => Waiting(cpu) = {}
  BY <1>1 DEF OrderInv
<1>8. \A d \in CPU : d # cpu => Waiting(d)' = Waiting(d)
  BY <1>1 DEF Waiting, From
<1>9. SUFFICES /\ InOrderStep
               /\ passed'[cpu] <= given[cpu]
               /\ \A i \in Waiting(cpu)' :
                    items[cpu][i].seq \in passed'[cpu] + 1 .. given[cpu]
               /\ \A i, j \in Waiting(cpu)' :
                    i < j => items[cpu][i].seq < items[cpu][j].seq
               /\ \A n \in passed'[cpu] + 1 .. given[cpu] :
                    \E i \in Waiting(cpu)' : items[cpu][i].seq = n
               /\ ~hold[cpu] => Waiting(cpu)' = {}
  <2>1. \A d \in CPU : d # cpu => passed'[d] = passed[d]
    BY <1>4, <1>6
  <2> SUFFICES ASSUME NEW d \in CPU
               PROVE  /\ passed'[d] <= given'[d]
                      /\ \A i \in Waiting(d)' :
                           items'[d][i].seq \in passed'[d] + 1 .. given'[d]
                      /\ \A i, j \in Waiting(d)' :
                           i < j => items'[d][i].seq < items'[d][j].seq
                      /\ \A n \in passed'[d] + 1 .. given'[d] :
                           \E i \in Waiting(d)' : items'[d][i].seq = n
                      /\ ~hold'[d] => Waiting(d)' = {}
    BY <1>9 DEF OrderInv
  <2>2. CASE d = cpu
    BY <2>2, <1>1, <1>9
  <2>3. CASE d # cpu
    BY <2>1, <2>3, <1>1, <1>8 DEF OrderInv
  <2> QED BY <2>2, <2>3
<1> HIDE DEF item
<1>10. Waiting(cpu)' \subseteq Waiting(cpu)
  BY <1>1, <1>3, <1>5
<1>11. CASE ~Numbered(item)
  <2>1. Waiting(cpu)' = Waiting(cpu)
    BY <1>1, <1>3, <1>5, <1>11 DEF item
  <2>2. passed' = passed
    BY <1>4, <1>11
  <2>3. InOrderStep
    BY <1>4, <1>11 DEF InOrderStep
  <2> QED BY <2>1, <2>2, <2>3, <1>7
<1>12. CASE Numbered(item)
  <2>1. walk.index \in Waiting(cpu) /\ \A i \in Waiting(cpu)' : walk.index < i
    BY <1>1, <1>3, <1>5, <1>12 DEF item
  <2>2. Waiting(cpu) = Waiting(cpu)' \cup {walk.index}
    BY <1>1, <1>3, <1>5, <1>12 DEF item
  <2>3. item.seq \in passed[cpu] + 1 .. given[cpu]
    BY <2>1, <1>7 DEF item
  <2>4. item.seq = passed[cpu] + 1
    <3>1. passed[cpu] + 1 \in passed[cpu] + 1 .. given[cpu]
      BY <2>3, <1>6
    <3>2. PICK i \in Waiting(cpu) : items[cpu][i].seq = passed[cpu] + 1
      BY <3>1, <1>7
    <3>3. CASE i = walk.index
      BY <3>2, <3>3 DEF item
    <3>4. CASE i # walk.index
      <4>1. walk.index < i
        BY <2>1, <2>2, <3>4
      <4>2. item.seq < passed[cpu] + 1
        BY <4>1, <2>1, <3>2, <1>7 DEF item
      <4> QED BY <4>2, <2>3, <1>6
    <3> QED BY <3>3, <3>4
  <2>5. passed'[cpu] = passed[cpu] + 1
    BY <2>4, <1>1, <1>4, <1>6, <1>12
  <2>6. InOrderStep
    BY <2>4, <1>4 DEF InOrderStep
  <2>7. passed'[cpu] <= given[cpu]
    BY <2>3, <2>4, <2>5, <1>6
  <2>8. \A i \in Waiting(cpu)' :
          items[cpu][i].seq \in passed'[cpu] + 1 .. given[cpu]
    <3> TAKE i \in Waiting(cpu)'
    <3>1. items[cpu][i].seq \in passed[cpu] + 1 .. given[cpu]
      BY <1>7, <1>10
    <3>2. item.seq < items[cpu][i].seq
      BY <2>1, <1>7, <1>10 DEF item
    <3> QED BY <3>1, <3>2, <2>4, <2>5, <1>6
  <2>9. \A n \in passed'[cpu] + 1 .. given[cpu] :
          \E i \in Waiting(cpu)' : items[cpu][i].seq = n
    <3> TAKE n \in passed'[cpu] + 1 .. given[cpu]
    <3>1. n \in passed[cpu] + 1 .. given[cpu] /\ n # item.seq
      BY <2>4, <2>5, <1>6
    <3>2. PICK i \in Waiting(cpu) : items[cpu][i].seq = n
      BY <3>1, <1>7
    <3>3. i # walk.index
      BY <3>1, <3>2 DEF item
    <3> QED BY <3>2, <3>3, <2>2
  <2>10. \A i, j \in Waiting(cpu)' :
           i < j => items[cpu][i].seq < items[cpu][j].seq
    BY <1>7, <1>10
  <2>11. ~hold[cpu] => Waiting(cpu)' = {}
    BY <1>7, <1>10
  <2> QED BY <2>6, <2>7, <2>8, <2>9, <2>10, <2>11
<1> QED BY <1>11, <1>12

\* With nothing waiting, the handler has seen every number given.
LEMMA NothingWaiting ==
  ASSUME TypeOK, OrderInv, NEW c \in CPU, Waiting(c) = {}
  PROVE  passed[c] = given[c]
<1>1. /\ passed[c] \in Nat /\ given[c] \in Nat /\ passed[c] <= given[c]
      /\ \A n \in passed[c] + 1 .. given[c] :
           \E i \in Waiting(c) : items[c][i].seq = n
  BY DEF TypeOK, OrderInv
<1>2. passed[c] + 1 .. given[c] = {}
  BY <1>1
<1> QED BY <1>1, <1>2

\* The end of resolve_hold_back() empties a storage in which nothing waits.
LEMMA ResolvedOrder ==
  ASSUME TypeOK, LoopInv, OrderInv, Resolved PROVE OrderInv' /\ InOrderStep
<1>1. /\ phase = "replay" /\ cpu \in CPU
      /\ walk.index > Len(items[cpu])
      /\ hold' = [hold EXCEPT ![cpu] = FALSE]
      /\ items' = [items EXCEPT ![cpu] = <<>>]
      /\ phase' # "replay" /\ scaler' \in Nat \ {0}
      /\ walk.high \in Item /\ walk.saved \in Uptime /\ walk.index \in Nat
      /\ Len(items[cpu]) \in Nat
      /\ given \in [CPU -> Nat] /\ passed \in [CPU -> Nat]
  <2>1. walk \in Walk /\ items[cpu] \in Seq(Item)
    BY DEF TypeOK
  <2> QED BY <2>1 DEF Resolved, ResetHoldBack, NextProcessor, TypeOK, header, Walk
<1>2. Waiting(cpu) = {}
  BY <1>1 DEF Waiting, From
<1>3. passed[cpu] = given[cpu]
  BY <1>1, <1>2, NothingWaiting
<1>4. items' [cpu] = <<>> /\ \A d \in CPU : d # cpu => items'[d] = items[d]
  BY <1>1 DEF TypeOK
<1>a. \A d \in CPU : From(d)' = 1 /\ (d # cpu => From(d) = 1)
  BY <1>1 DEF From
<1>5. \A d \in CPU : d # cpu => Waiting(d)' = Waiting(d)
  <2> SUFFICES ASSUME NEW d \in CPU, d # cpu PROVE Waiting(d)' = Waiting(d)
    OBVIOUS
  <2>1. From(d)' = From(d) /\ items'[d] = items[d]
    BY <1>a, <1>4
  <2> QED BY <2>1 DEF Waiting
<1>6. /\ passed'[cpu] = given'[cpu] /\ given'[cpu] \in Nat
      /\ \A d \in CPU : d # cpu => /\ passed'[d] = passed[d]
                                   /\ given'[d] = given[d]
      /\ InOrderStep
  <2>1. CASE walk.high = NoItem
    BY <1>1, <1>3, <2>1, NoCallStep DEF Resolved, ResetHoldBack
  <2>2. CASE walk.high # NoItem
    <3> DEFINE n == Number(cpu, walk.high)
    <3>1. CallHandler(cpu, walk.saved, n) /\ Count(cpu, walk.high)
      BY <2>2 DEF Resolved, ResetHoldBack
    <3>2. Numbered(walk.high)
      BY <2>2 DEF LoopInv, Numbered, OutOfBand, OwnEvents
    <3>3. n \in Item /\ Numbered(n) /\ n.seq = given[cpu] + 1
      BY <3>2, <1>1, NumberType, NumberFacts
    <3> HIDE DEF n
    <3>4. /\ passed' = [passed EXCEPT ![cpu] = n.seq]
          /\ \A i \in 1 .. Len(out') :
               /\ out'[i].cpu = cpu
               /\ Numbered(out'[i].item) => out'[i].item = n
      BY <3>1, <3>3, <1>1, CallHandlerStep
    <3>5. given' = [given EXCEPT ![cpu] = given[cpu] + 1]
      BY <3>1, <3>2 DEF Count
    <3>6. InOrderStep
      BY <3>3, <3>4, <1>3 DEF InOrderStep
    <3> QED BY <3>3, <3>4, <3>5, <3>6, <1>1
  <2> QED BY <2>1, <2>2
<1>7. passed'[cpu] <= given'[cpu] /\ passed'[cpu] + 1 .. given'[cpu] = {}
  BY <1>6
<1> SUFFICES ASSUME NEW d \in CPU
             PROVE  /\ passed'[d] <= given'[d]
                    /\ \A i \in Waiting(d)' :
                         items'[d][i].seq \in passed'[d] + 1 .. given'[d]
                    /\ \A i, j \in Waiting(d)' :
                         i < j => items'[d][i].seq < items'[d][j].seq
                    /\ \A n \in passed'[d] + 1 .. given'[d] :
                         \E i \in Waiting(d)' : items'[d][i].seq = n
                    /\ ~hold'[d] => Waiting(d)' = {}
  BY <1>6 DEF OrderInv
<1>8. CASE d = cpu
  <2>1. From(d)' = 1 /\ Len(items'[d]) = 0
    BY <1>a, <1>4, <1>8
  <2>2. Waiting(d)' = {}
    BY <2>1 DEF Waiting
  <2> QED BY <2>2, <1>7, <1>8
<1>9. CASE d # cpu
  <2>1. hold'[d] = hold[d]
    BY <1>1, <1>9 DEF TypeOK
  <2> QED BY <2>1, <1>4, <1>5, <1>6, <1>9 DEF OrderInv
<1> QED BY <1>8, <1>9

\* The order survives the loops and the call of destroy().
LEMMA LoopOrder ==
  ASSUME TypeOK, LoopInv, OrderInv, Loop \/ Destroy
  PROVE  OrderInv' /\ InOrderStep
<1>1. CASE Replay
  BY <1>1, ReplayOrder
<1>2. CASE Resolved
  BY <1>2, ResolvedOrder
<1>3. CASE Rewind
  <2>1. /\ phase' = "replay" /\ phase = "scan" /\ walk'.index = 1 /\ out' = <<>>
        /\ UNCHANGED <<items, given, passed, hold, cpu>>
    <3>1. walk \in Walk
      BY DEF TypeOK
    <3> QED BY <1>3, <3>1 DEF Rewind, store, Walk
  <2>2. \A d \in CPU : From(d)' = From(d)
    BY <2>1 DEF From
  <2> QED BY <2>1, <2>2, OrderFrame, NoCallStep
<1>4. CASE Scan \/ Forward \/ BestEffort \/ Destroy
  <2>1. /\ phase # "replay" /\ phase' # "replay" /\ out' = <<>>
        /\ UNCHANGED <<items, given, passed, hold>>
    BY <1>4 DEF Scan, Forward, BestEffort, Destroy, store
  <2>2. \A d \in CPU : From(d)' = From(d)
    BY <2>1 DEF From
  <2> QED BY <2>1, <2>2, OrderFrame, NoCallStep
<1>5. CASE Drain
  <2>1. /\ phase = "drain" /\ phase' # "replay"
        /\ UNCHANGED <<items, given, hold, scaler>>
    BY <1>5 DEF Drain, Undrained, NextProcessor, store, header
  <2>2. \A d \in CPU : From(d)' = From(d)
    BY <2>1 DEF From
  <2>3. CASE hold[cpu] /\ items[cpu] # <<>>
    <3> DEFINE unreliable == [NoItem EXCEPT !.event = "UNRELIABLE_TIME"]
    <3>1. unreliable \in Item /\ ~Numbered(unreliable)
      BY ZeroTypes DEF Item, Events, NoTimeEvents, ClientEvents, NoItem, Numbered, OwnEvents
    <3>2. CallHandler(cpu, uptime[cpu], unreliable)
      BY <1>5, <2>3 DEF Drain, Undrained
    <3>3. cpu \in CPU /\ uptime[cpu] \in Uptime /\ scaler' \in Nat \ {0}
      BY <2>1 DEF TypeOK
    <3> HIDE DEF unreliable
    <3>4. /\ passed' = passed
          /\ \A i \in 1 .. Len(out') :
               Numbered(out'[i].item) => out'[i].item = unreliable
      BY <3>1, <3>2, <3>3, CallHandlerStep
    <3>5. InOrderStep
      BY <3>1, <3>4 DEF InOrderStep
    <3> QED BY <2>1, <2>2, <3>4, <3>5, OrderFrame
  <2>4. CASE ~(hold[cpu] /\ items[cpu] # <<>>)
    <3>1. out' = <<>> /\ passed' = passed
      BY <1>5, <2>4 DEF Drain, Undrained
    <3> QED BY <2>1, <2>2, <3>1, OrderFrame, NoCallStep
  <2> QED BY <2>3, <2>4
<1> QED BY <1>1, <1>2, <1>3, <1>4, <1>5 DEF Loop

-----------------------------------------------------------------------------
(* The loops stay in the storage they walk over.                           *)
LEMMA VisitLoop ==
  ASSUME TypeOK, LoopInv, NEW item \in Sendable, Visit(item) PROVE LoopInv'
<1>1. phase = "idle"
  BY DEF Visit
<1>2. CASE phase' = phase /\ walk' = walk
  BY <1>1, <1>2 DEF LoopInv
<1>3. CASE VisitUptimeHigh(item) /\ low[cpu] # NoLow /\ hold[cpu]
  <2>1. /\ phase' = "scan" /\ cpu' = cpu /\ items' = items /\ hold' = hold
        /\ item.event = "UPTIME_HIGH"
        /\ \E base : walk' = [index |-> Len(items[cpu]), last |-> item.time,
                              acc |-> 0, saved |-> base, high |-> item]
    BY <1>3, Zenon DEF VisitUptimeHigh
  <2>2. walk'.index = Len(items[cpu]) /\ walk'.high = item
    BY <2>1
  <2>3. Len(items[cpu]) \in Nat
    BY DEF TypeOK
  <2> QED BY <1>3, <2>1, <2>2, <2>3 DEF LoopInv
<1>4. \/ phase' = phase /\ walk' = walk
      \/ VisitUptimeHigh(item) /\ low[cpu] # NoLow /\ hold[cpu]
  BY DEF Visit, VisitProcessor, VisitUptimeLow, VisitUptimeHigh,
         VisitProcessorMaximum, VisitPerCpuCount, VisitPerCpuOverflow,
         VisitFrequency, VisitVersion, VisitOther, Error
<1> QED BY <1>2, <1>3, <1>4

LEMMA LoopLoop ==
  ASSUME TypeOK, LoopInv, Loop \/ Destroy PROVE LoopInv'
<1>1. /\ walk.index \in Nat /\ Len(items[cpu]) \in Nat /\ cpu \in CPU
      /\ walk \in Walk /\ hold \in [CPU -> BOOLEAN]
  BY DEF TypeOK, Walk
<1>2. CASE Scan
  <2>1. /\ walk'.index = walk.index - 1 /\ walk'.high = walk.high
        /\ phase = "scan" /\ UNCHANGED <<phase, hold, items, cpu>>
    BY <1>2 DEF Scan, Walked, store
  <2> QED BY <2>1, <1>1 DEF LoopInv
<1>3. CASE Rewind
  <2>1. /\ walk'.index = 1 /\ walk'.high = walk.high
        /\ phase' = "replay" /\ phase = "scan" /\ UNCHANGED <<hold, items, cpu>>
    BY <1>1, <1>3 DEF Rewind, store, Walk
  <2> QED BY <2>1, <1>1 DEF LoopInv
<1>4. CASE Replay
  <2>1. /\ walk'.index = walk.index + 1 /\ walk'.high = walk.high
        /\ walk.index <= Len(items[cpu])
        /\ phase = "replay" /\ UNCHANGED <<phase, hold, items, cpu>>
    BY <1>1, <1>4 DEF Replay, store, Walk
  <2> QED BY <2>1, <1>1 DEF LoopInv
<1>5. CASE Resolved \/ Destroy
  <2>1. /\ phase' \in {"idle", "drain", "destroyed"}
        /\ walk' = walk \/ walk' = NoWalk
    BY <1>5 DEF Resolved, ResetHoldBack, NextProcessor, Destroy
  <2> QED BY <2>1 DEF LoopInv, NoWalk
<1>6. CASE Drain
  <2>1. CASE hold[cpu] /\ items[cpu] # <<>>
    <3>1. /\ phase' = "forward" /\ walk'.index = 1 /\ walk'.high = NoItem
          /\ UNCHANGED <<hold, items, cpu>>
      BY <1>6, <2>1 DEF Drain, Undrained, store
    <3> QED BY <2>1, <3>1, <1>1 DEF LoopInv
  <2>2. CASE ~(hold[cpu] /\ items[cpu] # <<>>)
    <3>1. phase' \in {"drain", "destroyed"} /\ walk' = walk
      BY <1>6, <2>2 DEF Drain, Undrained, NextProcessor
    <3> QED BY <3>1 DEF LoopInv
  <2> QED BY <2>1, <2>2
<1>7. CASE Forward
  <2>1. /\ walk'.index = walk.index + 1 /\ walk'.high = walk.high
        /\ walk.index <= Len(items[cpu])
        /\ phase = "forward" /\ UNCHANGED <<phase, hold, items, cpu>>
    BY <1>7 DEF Forward, Walked, store
  <2> QED BY <2>1, <1>1 DEF LoopInv
<1>8. CASE BestEffort
  <2>1. /\ walk'.index = Len(items[cpu]) /\ walk'.high = NoItem
        /\ phase = "forward" /\ phase' = "scan" /\ UNCHANGED <<hold, items, cpu>>
    BY <1>8 DEF BestEffort, store
  <2> QED BY <2>1, <1>1 DEF LoopInv
<1> QED BY <1>2, <1>3, <1>4, <1>5, <1>6, <1>7, <1>8 DEF Loop

-----------------------------------------------------------------------------
(* Storage.  An item that does not fit doubles a storage that is not empty; *)
(* where there is no room at all, it is the only one.                      *)
LEMMA HoldBackStorage ==
  ASSUME TypeOK, NEW c \in CPU, NEW caps \in [CPU -> Nat], NEW item \in Item,
         NEW room \in Nat, HoldBack(c, caps, item), caps[c] > 0 \/ room = 0,
         \A d \in CPU : \/ Len(items[d]) <= caps[d]
                        \/ room = 0 /\ Len(items[d]) = 1
  PROVE  /\ \A d \in CPU : \/ Len(items'[d]) <= capacity'[d]
                           \/ room = 0 /\ Len(items'[d]) = 1
         /\ \A d \in CPU : caps[d] > 0 => capacity'[d] > 0
<1> DEFINE n == Len(items[c])
<1>h. \/ capacity' = caps /\ items' = items
      \/ /\ capacity' = IF n >= caps[c] THEN [caps EXCEPT ![c] = 2 * n] ELSE caps
         /\ items' = [items EXCEPT ![c] = Append(items[c], Number(c, item))]
  BY HoldBackCases
<1>1. n \in Nat /\ items \in [CPU -> Seq(Item)]
  BY DEF TypeOK
<1>2. Number(c, item) \in Item
  BY NumberType
<1>3. CASE items' = items /\ capacity' = caps
  BY <1>3
<1>4. CASE /\ capacity' = IF n >= caps[c] THEN [caps EXCEPT ![c] = 2 * n]
                                          ELSE caps
           /\ items' = [items EXCEPT ![c] = Append(@, Number(c, item))]
  <2>2. items'[c] = Append(items[c], Number(c, item))
    BY <1>4, <1>1
  <2>3. Len(items'[c]) = n + 1
    BY <2>2, <1>1, <1>2
  <2>4. \A d \in CPU : d # c => items'[d] = items[d] /\ capacity'[d] = caps[d]
    BY <1>4, <1>1
  <2>5. capacity'[c] = IF n >= caps[c] THEN 2 * n ELSE caps[c]
    BY <1>4
  <2> DEFINE cap == capacity'[c]
             was == caps[c]
  <2>6. was \in Nat /\ (was > 0 \/ room = 0)
    OBVIOUS
  <2>9. cap = IF n >= was THEN 2 * n ELSE was
    BY <2>5
  <2> HIDE DEF n, cap, was
  <2>7. n + 1 <= cap \/ (room = 0 /\ n + 1 = 1)
    BY <2>6, <2>9, <1>1
  <2>8. was > 0 => cap > 0
    BY <2>6, <2>9, <1>1
  <2>a. /\ cap = capacity'[c] /\ was = caps[c] /\ Len(items[c]) = n
    BY DEF cap, was, n
  <2> SUFFICES ASSUME NEW d \in CPU
               PROVE  /\ \/ Len(items'[d]) <= capacity'[d]
                         \/ room = 0 /\ Len(items'[d]) = 1
                      /\ caps[d] > 0 => capacity'[d] > 0
    OBVIOUS
  <2>b. CASE d = c
    BY <2>3, <2>7, <2>8, <2>a, <2>b
  <2>c. CASE d # c
    BY <2>4, <2>c
  <2> QED BY <2>b, <2>c
<1> QED BY <1>3, <1>4, <1>h

LEMMA PassOnStorage ==
  ASSUME TypeOK, StorageInv, perCpuItems # 0, perCpuItems' = perCpuItems,
         NEW c \in CPU, c < cpuCount, NEW h \in BOOLEAN, NEW item \in Item,
         PassOn(c, h, item)
  PROVE  /\ Held'
         /\ \A d \in CPU : d < cpuCount => capacity'[d] > 0 \/ NoRoom'
<1> DEFINE room == Doubled(perCpuItems)
<1>1. NoRoom <=> room = 0
  BY DEF NoRoom
<1>2. NoRoom' <=> room = 0
  BY DEF NoRoom, Doubled
<1>3. room \in Nat /\ capacity \in [CPU -> Nat]
  BY DoubledType DEF TypeOK
<1> HIDE DEF room
<1>4. /\ \A d \in CPU : \/ Len(items[d]) <= capacity[d]
                        \/ room = 0 /\ Len(items[d]) = 1
      /\ \A d \in CPU : d < cpuCount => capacity[d] > 0 \/ room = 0
  BY <1>1 DEF StorageInv, Held
<1>5. CASE h
  <2>1. HoldBack(c, capacity, item) /\ (capacity[c] > 0 \/ room = 0)
    BY <1>4, <1>5 DEF PassOn
  <2>2. /\ \A d \in CPU : \/ Len(items'[d]) <= capacity'[d]
                          \/ room = 0 /\ Len(items'[d]) = 1
        /\ \A d \in CPU : capacity[d] > 0 => capacity'[d] > 0
    BY <1>3, <1>4, <2>1, HoldBackStorage
  <2> QED BY <1>2, <1>4, <2>2, Zenon DEF Held
<1>6. CASE ~h
  <2>1. items' = items /\ capacity' = capacity
    BY <1>6 DEF PassOn, Deliver
  <2> QED BY <1>2, <1>4, <2>1, Zenon DEF Held
<1> QED BY <1>5, <1>6

\* Behind the header items there is a storage for the current processor.
LEMMA BehindHeader ==
  ASSUME TypeOK, StorageInv, perCpuItems # 0 PROVE cpuCount # 0 /\ cpu < cpuCount
  BY DEF TypeOK, StorageInv, CPU

LEMMA ErrorStorage == ASSUME StorageInv, NEW s, Error(s) PROVE StorageInv'
<1>1. UNCHANGED <<items, capacity, cpu, cpuCount, perCpuItems>>
  BY DEF Error, header, store
<1> QED BY <1>1 DEF StorageInv, Held, NoRoom

\* The storage fits its items after every operation of visit().
LEMMA VisitStorage ==
  ASSUME TypeOK, StorageInv, NEW item \in Sendable, Visit(item)
  PROVE  StorageInv'
<1>1. /\ item \in Item /\ item.data \in Nat /\ cpu \in CPU
      /\ cpuCount \in Nat /\ perCpuItems \in Nat
      /\ cpuCount <= MaxCpu /\ MaxCpu \in Nat
      /\ capacity \in [CPU -> Nat] /\ hold[cpu] \in BOOLEAN
      /\ \A d \in CPU : d \in Nat
  BY SendableType, RecordAssumption DEF TypeOK, Item, CPU
<1>2. perCpuItems = 0 =>
        item.event \in {"VERSION", "PROCESSOR_MAXIMUM", "PER_CPU_COUNT"}
  BY DEF Visit, HeaderFirst
<1> DEFINE Roomy == /\ Held'
                    /\ \A d \in CPU : d < cpuCount => capacity'[d] > 0 \/ NoRoom'
<1>3. ASSUME perCpuItems # 0, Roomy, UNCHANGED <<cpuCount, perCpuItems>>,
             cpu' = cpu \/ cpu' < cpuCount
      PROVE  StorageInv'
  BY <1>3, <1>1, BehindHeader DEF StorageInv
<1>4. ASSUME NEW c \in CPU, NEW h \in BOOLEAN, c < cpuCount, PassOn(c, h, item),
             perCpuItems # 0, perCpuItems' = perCpuItems
      PROVE  Roomy
  BY <1>4, <1>1, PassOnStorage
<1>5. perCpuItems # 0 => cpuCount # 0 /\ cpu < cpuCount
  BY BehindHeader
<1>a. CASE VisitProcessor(item)
  <2>1. CASE item.data >= cpuCount
    BY <1>a, <2>1, ErrorStorage DEF VisitProcessor
  <2>2. CASE ~(item.data >= cpuCount)
    <3>1. /\ PassOn(item.data, hold[cpu], item)
          /\ cpu' = item.data /\ UNCHANGED <<cpuCount, perCpuItems>>
      BY <1>a, <2>2 DEF VisitProcessor, header
    <3>2. item.data \in CPU /\ item.data < cpuCount
      BY <1>1, <2>2 DEF CPU
    <3>3. perCpuItems # 0
      BY <1>a, <1>2 DEF VisitProcessor
    <3> HIDE DEF Roomy
    <3> QED BY <3>1, <3>2, <3>3, <1>1, <1>3, <1>4
  <2> QED BY <2>1, <2>2
<1>b. CASE VisitUptimeLow(item) \/ VisitFrequency(item) \/ VisitOther(item)
  <2>1. perCpuItems # 0
    BY <1>b, <1>2, RecordAssumption
       DEF VisitUptimeLow, VisitFrequency, VisitOther, NoTimeEvents, ClientEvents
  <2>2. PassOn(cpu, hold[cpu], item) /\ UNCHANGED <<cpu, cpuCount, perCpuItems>>
    BY <1>b DEF VisitUptimeLow, VisitFrequency, VisitOther, header
  <2> HIDE DEF Roomy
  <2> QED BY <2>1, <2>2, <1>1, <1>3, <1>4, <1>5
<1>c. CASE VisitUptimeHigh(item)
  <2>1. perCpuItems # 0
    BY <1>c, <1>2 DEF VisitUptimeHigh
  <2>2. UNCHANGED <<cpu, cpuCount, perCpuItems>>
    BY <1>c DEF VisitUptimeHigh, header
  <2>3. PassOn(cpu, hold[cpu], item) \/ UNCHANGED <<items, capacity>>
    BY <1>c DEF VisitUptimeHigh, Deliver
  <2>4. UNCHANGED <<items, capacity>> => Roomy
    BY <2>1, <2>2, <1>5 DEF StorageInv, Held, NoRoom
  <2> HIDE DEF Roomy
  <2> QED BY <2>1, <2>2, <2>3, <2>4, <1>1, <1>3, <1>4, <1>5
<1>d. CASE VisitProcessorMaximum(item)
  <2>1. CASE item.data >= MaxCpu \/ cpuCount # 0
    BY <1>d, <2>1, ErrorStorage DEF VisitProcessorMaximum
  <2>2. CASE ~(item.data >= MaxCpu \/ cpuCount # 0)
    <3>1. UNCHANGED <<cpu, perCpuItems, items, capacity>>
      BY <1>d, <2>2 DEF VisitProcessorMaximum, Deliver
    <3>2. perCpuItems = 0 /\ cpu = 0
      BY <2>2, <1>1 DEF StorageInv
    <3> QED BY <3>1, <3>2 DEF StorageInv, Held, NoRoom
  <2> QED BY <2>1, <2>2
<1>e. CASE VisitPerCpuCount(item)
  <2>1. CASE perCpuItems # 0 \/ cpuCount = 0
    BY <1>e, <2>1, ErrorStorage DEF VisitPerCpuCount
  <2>2. CASE ~(perCpuItems # 0 \/ cpuCount = 0)
    <3> DEFINE caps == CountCaps(item)
               n == item.data % CountMod
    <3>1. n > 0 /\ cpuCount # 0 /\ cpu < cpuCount
      BY <1>e, <2>2, <1>1, SendableType DEF VisitPerCpuCount, StorageInv
    <3>2. \A d \in CPU : items[d] = <<>>
      BY <2>2 DEF StorageInv
    <3>3. /\ perCpuItems' = n /\ UNCHANGED <<cpu, cpuCount>>
          /\ (NoRoom' <=> Doubled(n) = 0)
      BY <1>e, <2>2, <3>1, PerCpuCountCases DEF NoRoom, Doubled
    <3>4. caps \in [CPU -> Nat] /\ n \in Nat
      BY <1>1, CountCapsType
    <3>5. Doubled(n) \in Nat
      BY <3>4, DoubledType
    <3>6. \A d \in CPU : d < cpuCount => caps[d] = Doubled(n)
      BY DEF CountCaps
    <3> DEFINE room == Doubled(n)
    <3>a. /\ \A d \in CPU : d < cpuCount => caps[d] > 0 \/ room = 0
          /\ NoRoom' <=> room = 0
          /\ room \in Nat
      <4> HIDE DEF caps, n
      <4>1. room \in Nat /\ (NoRoom' <=> room = 0)
        BY <3>3, <3>5
      <4>2. \A d \in CPU : d < cpuCount => caps[d] = room
        BY <3>6
      <4> HIDE DEF room
      <4>3. \A d \in CPU : d < cpuCount => caps[d] > 0 \/ room = 0
        BY <4>1, <4>2
      <4> QED BY <4>1, <4>3
    <3> HIDE DEF caps, n, room
    <3>7. \A d \in CPU : Len(items[d]) <= caps[d]
      BY <3>2, <3>4
    <3>8. ASSUME /\ \A d \in CPU : \/ Len(items'[d]) <= capacity'[d]
                                   \/ room = 0 /\ Len(items'[d]) = 1
                 /\ \A d \in CPU : d < cpuCount => capacity'[d] > 0 \/ room = 0
          PROVE  StorageInv'
      <4>1. Held'
        BY <3>a, <3>8, Zenon DEF Held
      <4>2. \A d \in CPU : d < cpuCount' => capacity'[d] > 0 \/ NoRoom'
        BY <3>a, <3>3, <3>8, Zenon
      <4> QED BY <4>1, <4>2, <3>1, <3>3 DEF StorageInv
    <3>9. CASE HoldBack(cpu, caps, item)
      <4>1. /\ \A d \in CPU : \/ Len(items'[d]) <= capacity'[d]
                              \/ room = 0 /\ Len(items'[d]) = 1
            /\ \A d \in CPU : caps[d] > 0 => capacity'[d] > 0
        <5>1. cpu \in CPU /\ (caps[cpu] > 0 \/ room = 0) /\ item \in Item
          BY <3>1, <3>a, <1>1
        <5> QED BY <3>9, <3>4, <3>a, <3>7, <5>1, HoldBackStorage
      <4>2. \A d \in CPU : d < cpuCount => capacity'[d] > 0 \/ room = 0
        BY <4>1, <3>a
      <4> QED BY <4>1, <4>2, <3>8
    <3>10. CASE capacity' = caps /\ items' = items
      BY <3>10, <3>7, <3>8, <3>a
    <3>11. CASE Doubled(n) = 0 /\ UNCHANGED <<items, capacity>>
      <4>1. /\ room = 0
            /\ \A d \in CPU : Len(items'[d]) <= capacity'[d]
        BY <3>11, <3>2, <1>1 DEF room
      <4> QED BY <4>1, <3>8
    <3> QED BY <1>e, <2>2, <3>9, <3>10, <3>11, PerCpuCountCases DEF caps, n
  <2> QED BY <2>1, <2>2
<1>f. CASE VisitPerCpuOverflow(item)
  <2>1. HoldBack(cpu, capacity, item) /\ UNCHANGED <<cpu, cpuCount, perCpuItems>>
    BY <1>f DEF VisitPerCpuOverflow, header
  <2>2. perCpuItems # 0
    BY <1>f, <1>2 DEF VisitPerCpuOverflow
  <2>3. PassOn(cpu, TRUE, item)
    BY <2>1 DEF PassOn
  <2> HIDE DEF Roomy
  <2> QED BY <2>1, <2>2, <2>3, <1>1, <1>3, <1>4, <1>5
<1>h. CASE VisitVersion(item)
  <2>1. CASE item.data # TheVersion
    BY <1>h, <2>1, ErrorStorage DEF VisitVersion
  <2>2. CASE item.data = TheVersion
    <3>1. UNCHANGED <<cpu, cpuCount, perCpuItems, items, capacity>>
      BY <1>h, <2>2 DEF VisitVersion, Deliver, header
    <3> QED BY <3>1 DEF StorageInv, Held, NoRoom
  <2> QED BY <2>1, <2>2
<1> QED BY <1>a, <1>b, <1>c, <1>d, <1>e, <1>f, <1>h DEF Visit

LEMMA LoopStorage ==
  ASSUME TypeOK, StorageInv, Loop \/ Destroy PROVE StorageInv'
<1>1. cpu \in CPU /\ cpuCount \in Nat /\ \A d \in CPU : d \in Nat
  BY DEF TypeOK, CPU
<1>2. CASE Scan \/ Rewind \/ Replay \/ Forward \/ BestEffort
  <2>1. UNCHANGED <<items, capacity, cpu, cpuCount, perCpuItems>>
    BY <1>2 DEF Scan, Rewind, Replay, Forward, BestEffort, header, store
  <2> QED BY <2>1 DEF StorageInv, Held, NoRoom
<1>3. CASE Resolved
  <2>1. /\ UNCHANGED <<capacity, cpuCount, perCpuItems>>
        /\ items' = [items EXCEPT ![cpu] = <<>>]
        /\ cpu' = cpu \/ cpu' < cpuCount
    BY <1>3 DEF Resolved, ResetHoldBack, NextProcessor, header
  <2>2. \A d \in CPU : items'[d] = items[d] \/ items'[d] = <<>>
    BY <2>1 DEF TypeOK
  <2>3. \A d \in CPU : capacity[d] \in Nat
    BY DEF TypeOK
  <2> QED BY <2>1, <2>2, <2>3 DEF StorageInv, Held, NoRoom
<1>4. CASE Drain \/ Destroy
  <2>1. /\ UNCHANGED <<items, capacity, cpuCount, perCpuItems>>
        /\ cpu' = cpu \/ cpu' = 0 \/ cpu' < cpuCount
    BY <1>4 DEF Drain, Undrained, NextProcessor, Destroy, header, store
  <2> QED BY <2>1 DEF StorageInv, Held, NoRoom
<1> QED BY <1>2, <1>3, <1>4 DEF Loop

-----------------------------------------------------------------------------
(* The end.  visit() changes the counts of a processor there is only.      *)
LEMMA HoldBackCounts ==
  ASSUME TypeOK, NEW c \in CPU, NEW caps, NEW item, HoldBack(c, caps, item)
  PROVE  \A d \in CPU : d # c => passed'[d] = passed[d] /\ given'[d] = given[d]
<1>1. passed' = passed /\ (given' = given \/ Count(c, item))
  BY HoldBackCases
<1> QED BY <1>1 DEF Count, TypeOK

LEMMA CallCounts ==
  ASSUME TypeOK, NEW c \in CPU, NEW u, NEW item, NEW i,
         CallHandler(c, u, item), Count(c, i)
  PROVE  \A d \in CPU : d # c => passed'[d] = passed[d] /\ given'[d] = given[d]
  BY DEF CallHandler, Count, TypeOK

LEMMA PassOnCounts ==
  ASSUME TypeOK, NEW c \in CPU, NEW h, NEW item, PassOn(c, h, item)
  PROVE  \A d \in CPU : d # c => passed'[d] = passed[d] /\ given'[d] = given[d]
<1>1. HoldBack(c, capacity, item) \/ Deliver(c, uptime[c], item)
  BY DEF PassOn
<1> QED BY <1>1, HoldBackCounts, CallCounts DEF Deliver

LEMMA UnnumberedCounts ==
  ASSUME NEW c \in CPU, NEW u, NEW item \in Item, Deliver(c, u, item),
         ~Numbered(item)
  PROVE  passed' = passed /\ given' = given
  BY DEF Deliver, CallHandler, Count, Number

\* visit() gives and passes items of a processor below the processor count.
LEMMA VisitCounts ==
  ASSUME TypeOK, StorageInv, NEW item \in Sendable, Visit(item)
  PROVE  /\ cpuCount' = cpuCount \/ cpuCount = 0
         /\ \A d \in CPU : d >= cpuCount => /\ passed'[d] = passed[d]
                                            /\ given'[d] = given[d]
<1>1. /\ item \in Item /\ item.data \in Nat /\ cpu \in CPU
      /\ cpuCount \in Nat /\ cpuCount <= MaxCpu /\ MaxCpu \in Nat
      /\ \A d \in CPU : d \in Nat
  BY SendableType, RecordAssumption DEF TypeOK, Item, CPU
<1>2. perCpuItems = 0 =>
        item.event \in {"VERSION", "PROCESSOR_MAXIMUM", "PER_CPU_COUNT"}
  BY DEF Visit, HeaderFirst
<1>3. perCpuItems # 0 => cpuCount # 0 /\ cpu < cpuCount
  BY BehindHeader
<1>4. ASSUME NEW c \in CPU, c < cpuCount, cpuCount' = cpuCount,
             \A d \in CPU : d # c => /\ passed'[d] = passed[d]
                                     /\ given'[d] = given[d]
      PROVE  /\ cpuCount' = cpuCount \/ cpuCount = 0
             /\ \A d \in CPU : d >= cpuCount => /\ passed'[d] = passed[d]
                                                /\ given'[d] = given[d]
  BY <1>4, <1>1
<1>a. CASE VisitProcessor(item)
  <2>1. CASE item.data >= cpuCount
    BY <1>a, <2>1 DEF VisitProcessor, Error, header
  <2>2. CASE ~(item.data >= cpuCount)
    <3>1. PassOn(item.data, hold[cpu], item) /\ cpuCount' = cpuCount
      BY <1>a, <2>2 DEF VisitProcessor, header
    <3>2. item.data \in CPU /\ item.data < cpuCount
      BY <1>1, <2>2 DEF CPU
    <3> QED BY <3>1, <3>2, <1>4, PassOnCounts
  <2> QED BY <2>1, <2>2
<1>b. CASE VisitUptimeLow(item) \/ VisitFrequency(item) \/ VisitOther(item)
  <2>1. perCpuItems # 0
    BY <1>b, <1>2, RecordAssumption
       DEF VisitUptimeLow, VisitFrequency, VisitOther, NoTimeEvents, ClientEvents
  <2>2. PassOn(cpu, hold[cpu], item) /\ cpuCount' = cpuCount
    BY <1>b DEF VisitUptimeLow, VisitFrequency, VisitOther, header
  <2> QED BY <2>1, <2>2, <1>1, <1>3, <1>4, PassOnCounts
<1>c. CASE VisitUptimeHigh(item)
  <2>1. perCpuItems # 0 /\ cpuCount' = cpuCount
    BY <1>c, <1>2 DEF VisitUptimeHigh, header
  <2>2. \A d \in CPU : d # cpu => passed'[d] = passed[d] /\ given'[d] = given[d]
    <3>1. \/ PassOn(cpu, hold[cpu], item)
          \/ UNCHANGED <<given, passed>>
          \/ \E u : CallHandler(cpu, u, Number(cpu, item)) /\ Count(cpu, item)
      BY <1>c, Zenon DEF VisitUptimeHigh, Deliver
    <3> QED BY <3>1, <1>1, PassOnCounts, CallCounts
  <2> QED BY <2>1, <2>2, <1>1, <1>3, <1>4
<1>d. CASE VisitProcessorMaximum(item) \/ VisitVersion(item)
  <2>1. ~Numbered(item)
    BY <1>d DEF VisitProcessorMaximum, VisitVersion, Numbered, OutOfBand
  <2>2. passed' = passed /\ given' = given
    BY <1>1, <1>d, <2>1, UnnumberedCounts
       DEF VisitProcessorMaximum, VisitVersion, Error
  <2>3. cpuCount' = cpuCount \/ cpuCount = 0
    BY <1>d DEF VisitProcessorMaximum, VisitVersion, Error, header
  <2> QED BY <2>2, <2>3
<1>e. CASE VisitPerCpuCount(item)
  <2>1. CASE perCpuItems # 0 \/ cpuCount = 0
    BY <1>e, <2>1 DEF VisitPerCpuCount, Error, header
  <2>2. CASE ~(perCpuItems # 0 \/ cpuCount = 0)
    <3>1. cpuCount' = cpuCount /\ cpu < cpuCount
      BY <1>e, <2>2, <1>1 DEF VisitPerCpuCount, StorageInv
    <3>2. \/ \E caps : HoldBack(cpu, caps, item)
          \/ /\ CallHandler(cpu, uptime[cpu], Number(cpu, item))
             /\ Count(cpu, item)
          \/ UNCHANGED <<passed, given>>
      BY <1>e, <2>2, PerCpuCountCases
    <3>3. \A d \in CPU :
            d # cpu => passed'[d] = passed[d] /\ given'[d] = given[d]
      BY <3>2, <1>1, HoldBackCounts, CallCounts
    <3> QED BY <3>1, <3>3, <1>1, <1>4
  <2> QED BY <2>1, <2>2
<1>f. CASE VisitPerCpuOverflow(item)
  <2>1. perCpuItems # 0 /\ cpuCount' = cpuCount /\ HoldBack(cpu, capacity, item)
    BY <1>f, <1>2 DEF VisitPerCpuOverflow, header
  <2> QED BY <2>1, <1>1, <1>3, <1>4, HoldBackCounts
<1> QED BY <1>a, <1>b, <1>c, <1>d, <1>e, <1>f DEF Visit

\* In visit() nothing is drained yet.
LEMMA VisitDrain ==
  ASSUME TypeOK, TypeOK', StorageInv, DrainInv, NEW item \in Sendable,
         Visit(item)
  PROVE  DrainInv' /\ NothingLost'
<1>1. phase = "idle" /\ cpuCount \in Nat /\ cpuCount' \in Nat
  BY DEF Visit, TypeOK
<1>2. \/ phase' = "idle"
      \/ phase' = "scan" /\ walk'.high # NoItem /\ cpuCount' # 0
  <2>1. CASE VisitUptimeHigh(item) /\ low[cpu] # NoLow /\ hold[cpu]
    <3>1. perCpuItems # 0
      BY <2>1 DEF Visit, HeaderFirst, VisitUptimeHigh
    <3>2. cpuCount # 0 /\ cpuCount' = cpuCount
      BY <2>1, <3>1, BehindHeader DEF VisitUptimeHigh, header
    <3>3. phase' = "scan"
      BY <2>1 DEF VisitUptimeHigh
    <3>4. \E base : walk' = [index |-> Len(items[cpu]), last |-> item.time,
                             acc |-> 0, saved |-> base, high |-> item]
      BY <2>1, Zenon DEF VisitUptimeHigh
    <3>5. walk'.high = item /\ item.event = "UPTIME_HIGH"
      BY <2>1, <3>4 DEF VisitUptimeHigh
    <3> QED BY <3>2, <3>3, <3>5 DEF NoItem
  <2>2. \/ phase' = phase
        \/ VisitUptimeHigh(item) /\ low[cpu] # NoLow /\ hold[cpu]
    BY DEF Visit, VisitProcessor, VisitUptimeLow, VisitUptimeHigh,
           VisitProcessorMaximum, VisitPerCpuCount, VisitPerCpuOverflow,
           VisitFrequency, VisitVersion, VisitOther, Error
  <2> QED BY <2>1, <2>2, <1>1
<1>3. \A d \in CPU : d >= cpuCount' => passed'[d] = given'[d]
  <2> SUFFICES ASSUME NEW d \in CPU, d >= cpuCount'
               PROVE  passed'[d] = given'[d]
    OBVIOUS
  <2>1. d \in Nat
    BY DEF CPU
  <2>2. d >= cpuCount
    BY <1>1, <2>1, VisitCounts
  <2> QED BY <2>2, VisitCounts DEF DrainInv
<1> QED BY <1>2, <1>3 DEF DrainInv, Draining, NothingLost

LEMMA DestroyDrain ==
  ASSUME TypeOK, DrainInv, Destroy PROVE DrainInv' /\ NothingLost'
<1>1. /\ phase' = IF cpuCount > 0 THEN "drain" ELSE "destroyed"
      /\ cpu' = 0 /\ UNCHANGED <<given, passed, cpuCount>>
  BY DEF Destroy, header
<1>2. cpuCount \in Nat /\ \A d \in CPU : d \in Nat
  BY DEF TypeOK, CPU
<1> QED BY <1>1, <1>2 DEF DrainInv, Draining, NothingLost

\* The loops of destroy() leave no numbered item behind them.
LEMMA LoopDrain ==
  ASSUME TypeOK, LoopInv, StorageInv, OrderInv, DrainInv, Loop
  PROVE  DrainInv' /\ NothingLost'
<1>1. /\ cpu \in CPU /\ cpuCount \in Nat /\ \A d \in CPU : d \in Nat
      /\ walk \in Walk /\ passed \in [CPU -> Nat] /\ given \in [CPU -> Nat]
      /\ items \in [CPU -> Seq(Item)]
  BY DEF TypeOK, CPU
<1>2. CASE Scan \/ Rewind \/ Forward \/ BestEffort
  <2>1. /\ phase \in {"scan", "forward"} /\ phase' \in {"scan", "replay", "forward"}
        /\ UNCHANGED <<given, passed, cpuCount, cpu>>
    BY <1>2 DEF Scan, Rewind, Forward, BestEffort, header
  <2>2. Draining' => Draining
    <3>1. CASE Scan \/ Rewind
      <4>1. phase = "scan" /\ phase' \in {"scan", "replay"}
            /\ walk'.high = walk.high
        BY <3>1, <1>1 DEF Scan, Rewind, Walked, Walk
      <4> QED BY <4>1 DEF Draining
    <3>2. CASE Forward \/ BestEffort
      BY <3>2 DEF Forward, BestEffort, Draining
    <3> QED BY <1>2, <3>1, <3>2
  <2> QED BY <2>1, <2>2 DEF DrainInv, NothingLost
<1>3. CASE Replay
  <2>1. /\ phase = "replay" /\ walk'.high = walk.high
        /\ UNCHANGED <<given, cpuCount, cpu, phase>>
    BY <1>1, <1>3 DEF Replay, header, Walk
  <2>2. \A d \in CPU : d # cpu => passed'[d] = passed[d]
    BY <1>1, <1>3 DEF Replay, CallHandler
  <2>3. cpuCount # 0 /\ cpu < cpuCount
    BY <2>1, <1>1 DEF DrainInv, StorageInv
  <2> QED BY <2>1, <2>2, <2>3, <1>1 DEF DrainInv, Draining, NothingLost
<1>n. ASSUME NextProcessor, cpuCount # 0, cpu < cpuCount,
             UNCHANGED <<cpuCount, given, passed>>, passed[cpu] = given[cpu],
             Draining
      PROVE  DrainInv' /\ NothingLost'
  <2>1. /\ phase' = IF cpu + 1 < cpuCount THEN "drain" ELSE "destroyed"
        /\ cpu' = IF cpu + 1 < cpuCount THEN cpu + 1 ELSE cpu
    BY <1>n DEF NextProcessor
  <2>2. \A d \in CPU : d <= cpu => passed[d] = given[d]
    BY <1>n, <1>1 DEF DrainInv
  <2>3. \A d \in CPU : d >= cpuCount => passed[d] = given[d]
    BY DEF DrainInv
  <2> QED BY <1>n, <2>1, <2>2, <2>3, <1>1 DEF DrainInv, Draining, NothingLost
<1>4. CASE Resolved
  <2>1. phase = "replay" /\ cpuCount' = cpuCount
    BY <1>4 DEF Resolved, ResetHoldBack, header
  <2>2. cpuCount # 0 /\ cpu < cpuCount
    BY <2>1, <1>1 DEF DrainInv, StorageInv
  <2>3. CASE walk.high = NoItem
    <3>1. NextProcessor /\ UNCHANGED <<given, passed>>
      BY <1>4, <2>3 DEF Resolved, ResetHoldBack
    <3>2. walk.index > Len(items[cpu]) /\ walk.index \in Nat
      BY <1>1, <1>4 DEF Resolved, Walk
    <3>3. Waiting(cpu) = {}
      BY <2>1, <3>2, <1>1 DEF Waiting, From
    <3>4. passed[cpu] = given[cpu]
      BY <1>1, <3>3, NothingWaiting
    <3> QED BY <2>1, <2>2, <2>3, <3>1, <3>4, <1>n DEF Draining
  <2>4. CASE walk.high # NoItem
    <3>1. phase' = "idle" /\ cpu' = cpu
      BY <1>4, <2>4 DEF Resolved, ResetHoldBack
    <3>2. \A d \in CPU :
            d # cpu => passed'[d] = passed[d] /\ given'[d] = given[d]
      BY <1>1, <1>4, <2>4, CallCounts DEF Resolved, ResetHoldBack
    <3>3. \A d \in CPU : d >= cpuCount => d # cpu
      BY <2>2, <1>1
    <3>4. \A d \in CPU : d >= cpuCount => passed'[d] = given'[d]
      BY <3>2, <3>3 DEF DrainInv
    <3> QED BY <2>1, <3>1, <3>4 DEF DrainInv, Draining, NothingLost
  <2> QED BY <2>3, <2>4
<1>5. CASE Drain
  <2>1. phase = "drain" /\ UNCHANGED <<cpuCount, given>>
    BY <1>5 DEF Drain, Undrained, header
  <2>2. CASE hold[cpu] /\ items[cpu] # <<>>
    <3>1. phase' = "forward" /\ cpu' = cpu /\ passed' = passed
      BY <1>5, <2>2 DEF Drain, Undrained, CallHandler, Numbered, OwnEvents, NoItem
    <3> QED BY <2>1, <3>1 DEF DrainInv, Draining, NothingLost
  <2>3. CASE ~(hold[cpu] /\ items[cpu] # <<>>)
    <3>1. NextProcessor /\ passed' = passed
      BY <1>5, <2>3 DEF Drain, Undrained
    <3>2. Waiting(cpu) = {}
      <4>1. CASE ~hold[cpu]
        BY <4>1, <1>1 DEF OrderInv
      <4>2. CASE items[cpu] = <<>>
        BY <4>2, <2>1 DEF Waiting, From
      <4> QED BY <4>1, <4>2, <2>3
    <3>3. passed[cpu] = given[cpu]
      BY <1>1, <3>2, NothingWaiting
    <3>4. cpuCount # 0 /\ cpu < cpuCount
      BY <2>1, <1>1 DEF DrainInv, StorageInv
    <3> QED BY <2>1, <3>1, <3>3, <3>4, <1>n DEF Draining
  <2> QED BY <2>2, <2>3
<1> QED BY <1>2, <1>3, <1>4, <1>5 DEF Loop

-----------------------------------------------------------------------------
(* Time.  Every call of the handler comes from call_handler().             *)
LEMMA CallForward ==
  ASSUME TypeOK, NEW c \in CPU, NEW u \in Uptime, NEW item \in Item,
         scaler' \in Nat \ {0}, CallHandler(c, u, item)
  PROVE  ForwardStep
  BY CallHandlerStep DEF ForwardStep

LEMMA PassOnForward ==
  ASSUME TypeOK, NEW c \in CPU, NEW h, NEW item \in Item,
         scaler' \in Nat \ {0}, PassOn(c, h, item)
  PROVE  ForwardStep
<1>1. uptime[c] \in Uptime /\ Number(c, item) \in Item
  BY NumberType DEF TypeOK
<1>2. out' = <<>> \/ CallHandler(c, uptime[c], Number(c, item))
  BY HoldBackCases DEF PassOn, Deliver
<1> QED BY <1>1, <1>2, CallForward, NoCallStep

LEMMA VisitForward ==
  ASSUME TypeOK, TypeOK', NEW item \in Sendable, Visit(item)
  PROVE  ForwardStep
<1>1. /\ item \in Item /\ item.data \in Nat /\ cpu \in CPU
      /\ cpuCount \in 0 .. MaxCpu /\ scaler' \in Nat \ {0}
      /\ uptime[cpu] \in Uptime /\ Number(cpu, item) \in Item
  BY SendableType, NumberType DEF TypeOK, Item
<1>a. CASE VisitProcessor(item)
  <2>1. CASE item.data >= cpuCount
    BY <1>a, <2>1, NoCallStep DEF VisitProcessor, Error
  <2>2. CASE ~(item.data >= cpuCount)
    <3>1. item.data \in CPU
      BY <1>1, <2>2, RecordAssumption DEF CPU
    <3>2. PassOn(item.data, hold[cpu], item)
      BY <1>a, <2>2 DEF VisitProcessor
    <3> QED BY <1>1, <3>1, <3>2, PassOnForward
  <2> QED BY <2>1, <2>2
<1>b. CASE VisitUptimeLow(item) \/ VisitFrequency(item) \/ VisitOther(item)
  <2>1. PassOn(cpu, hold[cpu], item)
    BY <1>b DEF VisitUptimeLow, VisitFrequency, VisitOther
  <2> QED BY <1>1, <2>1, PassOnForward
<1>c. CASE VisitUptimeHigh(item)
  <2> DEFINE base == [bt |-> (item.data * LowMod + low[cpu]) % BtMod,
                      last |-> item.time, acc |-> 0]
  <2>1. CASE low[cpu] # NoLow /\ ~hold[cpu]
    <3>1. base \in Uptime
      BY <1>1, <2>1, BaseType
    <3>2. CallHandler(cpu, base, Number(cpu, item))
      BY <1>c, <2>1 DEF VisitUptimeHigh, Deliver
    <3> HIDE DEF base
    <3> QED BY <1>1, <3>1, <3>2, CallForward
  <2>2. CASE ~(low[cpu] # NoLow /\ ~hold[cpu])
    <3>1. PassOn(cpu, hold[cpu], item) \/ out' = <<>>
      BY <1>c, <2>2 DEF VisitUptimeHigh
    <3> QED BY <1>1, <3>1, PassOnForward, NoCallStep
  <2> QED BY <2>1, <2>2
<1>d. CASE VisitProcessorMaximum(item) \/ VisitVersion(item)
           \/ VisitPerCpuCount(item) \/ VisitPerCpuOverflow(item)
  <2>1. out' = <<>> \/ CallHandler(cpu, uptime[cpu], Number(cpu, item))
    BY <1>d DEF VisitProcessorMaximum, VisitVersion, VisitPerCpuCount,
                VisitPerCpuOverflow, Error, HoldBack, Deliver
  <2> QED BY <1>1, <2>1, CallForward, NoCallStep
<1> QED BY <1>a, <1>b, <1>c, <1>d DEF Visit

LEMMA LoopForward ==
  ASSUME TypeOK, TypeOK', LoopInv, Loop \/ Destroy PROVE ForwardStep
<1>1. /\ cpu \in CPU /\ uptime[cpu] \in Uptime /\ scaler' \in Nat \ {0}
      /\ walk.saved \in Uptime /\ walk.high \in Item /\ walk.index \in Nat
      /\ items[cpu] \in Seq(Item)
  BY DEF TypeOK, Walk
<1>2. CASE Replay
  <2>1. walk.index \in 1 .. Len(items[cpu])
    BY <1>2, <1>1 DEF Replay, LoopInv
  <2>2. items[cpu][walk.index] \in Item
    BY <2>1, <1>1
  <2>3. CallHandler(cpu, uptime[cpu], items[cpu][walk.index])
    BY <1>2 DEF Replay
  <2> QED BY <2>2, <2>3, <1>1, CallForward
<1>3. CASE Resolved
  <2>1. \/ out' = <<>>
        \/ CallHandler(cpu, walk.saved, Number(cpu, walk.high))
    BY <1>3 DEF Resolved, ResetHoldBack
  <2>2. Number(cpu, walk.high) \in Item
    BY <1>1, NumberType
  <2> QED BY <2>1, <2>2, <1>1, CallForward, NoCallStep
<1>4. CASE Drain
  <2> DEFINE unreliable == [NoItem EXCEPT !.event = "UNRELIABLE_TIME"]
  <2>1. unreliable \in Item
    BY ZeroTypes DEF Item, Events, NoTimeEvents, ClientEvents
  <2>2. out' = <<>> \/ CallHandler(cpu, uptime[cpu], unreliable)
    BY <1>4 DEF Drain, Undrained
  <2> HIDE DEF unreliable
  <2> QED BY <2>1, <2>2, <1>1, CallForward, NoCallStep
<1>5. CASE Scan \/ Rewind \/ Forward \/ BestEffort \/ Destroy
  BY <1>5, NoCallStep DEF Scan, Rewind, Forward, BestEffort, Destroy
<1> QED BY <1>2, <1>3, <1>4, <1>5 DEF Loop

-----------------------------------------------------------------------------
(* The inductive invariant: it holds at first and every step keeps it.     *)
LEMMA InitInvariant == Init => IInv
<1> SUFFICES ASSUME Init PROVE IInv
  OBVIOUS
<1>1. TypeOK
  BY InitType
<1>2. LoopInv /\ StorageInv /\ DrainInv /\ NothingLost
  BY DEF Init, LoopInv, StorageInv, Held, DrainInv, Draining,
         NothingLost, NoWalk
<1>3. \A c \in CPU : Waiting(c) = {} /\ passed[c] + 1 .. given[c] = {}
  BY DEF Init, Waiting, From
<1>4. OrderInv
  BY <1>3 DEF Init, OrderInv
<1> QED BY <1>1, <1>2, <1>4 DEF IInv

LEMMA StutterInvariant == ASSUME IInv, UNCHANGED vars PROVE IInv'
<1>1. TypeOK'
  BY DEF IInv, TypeOK, vars, header, store
<1>2. LoopInv' /\ StorageInv' /\ DrainInv' /\ NothingLost'
  BY DEF IInv, LoopInv, StorageInv, Held, DrainInv, Draining,
         NothingLost, NoRoom, vars, header, store
<1>3. \A c \in CPU : From(c)' = From(c) /\ Waiting(c)' = Waiting(c)
  BY DEF From, Waiting, vars, store
<1>4. OrderInv'
  BY <1>3 DEF IInv, OrderInv, vars, store
<1> QED BY <1>1, <1>2, <1>4 DEF IInv

LEMMA StepInvariant ==
  ASSUME IInv, (\E item \in Sendable : Visit(item)) \/ Loop \/ Destroy
  PROVE  IInv' /\ InOrderStep /\ ForwardStep
<1>1. CASE \E item \in Sendable : Visit(item)
  <2>1. PICK item \in Sendable : Visit(item)
    BY <1>1
  <2>2. TypeOK'
    BY <2>1, VisitType DEF IInv
  <2> QED BY <2>1, <2>2, VisitLoop, VisitStorage, VisitOrder, VisitDrain,
             VisitForward DEF IInv
<1>2. CASE Loop
  <2>1. TypeOK'
    BY <1>2, LoopType DEF IInv
  <2> QED BY <1>2, <2>1, LoopLoop, LoopStorage, LoopOrder, LoopDrain,
             LoopForward DEF IInv
<1>3. CASE Destroy
  <2>1. TypeOK'
    BY <1>3, DestroyType DEF IInv
  <2> QED BY <1>3, <2>1, LoopLoop, LoopStorage, LoopOrder, DestroyDrain,
             LoopForward DEF IInv
<1> QED BY <1>1, <1>2, <1>3

\* Next is such a step.
LEMMA NextInvariant == ASSUME IInv, Next PROVE IInv' /\ InOrderStep /\ ForwardStep
  BY StepInvariant, RecordAssumption DEF Next

\* In every behaviour of the client the inductive invariant holds, whatever
\* the stream (visit(), resolve_hold_back(), rtems_record_client_destroy()).
THEOREM Invariant == Spec => []IInv
<1>1. IInv /\ [Next]_vars => IInv'
  BY NextInvariant, StutterInvariant
<1> QED BY InitInvariant, <1>1, PTL DEF Spec

\* Every variable of the client context keeps its type and its array indices
\* stay in the arrays.
THEOREM TypeCorrect == Spec => [](TypeOK /\ LoopInv)
<1>1. IInv => TypeOK /\ LoopInv
  BY DEF IInv
<1> QED BY Invariant, <1>1, PTL

\* hold_back() never writes past the storage it allocated.
THEOREM StorageSuffices == Spec => []HeldWithinCapacity
<1>1. IInv => HeldWithinCapacity
  BY DEF IInv, StorageInv, HeldWithinCapacity
<1> QED BY Invariant, <1>1, PTL

\* rtems_record_client_destroy() leaves no numbered item unhandled.
THEOREM NothingIsLost == Spec => []NothingLost
<1>1. IInv => NothingLost
  BY DEF IInv
<1> QED BY Invariant, <1>1, PTL

\* The handler sees the numbered items of a processor once, in stream order.
THEOREM HandlerOrder == Spec => HandledInOrder
<1>1. IInv /\ [Next]_vars => [InOrderStep]_vars
  BY NextInvariant
<1> QED BY Invariant, <1>1, PTL DEF Spec, HandledInOrder

\* The binary times the handler sees for a processor never decrease.
THEOREM HandlerTime == Spec => MonotoneTime
<1>1. IInv /\ [Next]_vars => [ForwardStep]_vars
  BY NextInvariant
<1> QED BY Invariant, <1>1, PTL DEF Spec, MonotoneTime

-----------------------------------------------------------------------------
(* The types of the writer and the target.                                 *)
Names == [1 .. NameChunks -> Nat]
Comms == [name : Names, cpu : CPU \cup {NoCpu}]
Half == [ns : Nat, tid : Nat, comm : Comms]
Context == [begin : Nat, end : Nat, prev : Half, thread : Nat, chunks : Nat]
Written == [cpu : CPU, ns : Nat, kind : Events \cup {"sched_switch"},
            prev : Half, next : Half]
Writer == [files : Nat, cpus : [CPU -> Context], names : [NamedThreads -> Names],
           written : Seq(Written)]

TraceTyped ==
  /\ TraceTypeOK
  /\ writer \in Writer
  /\ rest \in [CPU -> Seq(Sendable)]
  /\ truth \in [CPU -> Seq(Nat)] /\ lost \in [CPU -> Nat]

(* Before PROCESSOR_MAXIMUM no time is known.  It is never held back, as   *)
(* nothing is that the client itself makes.                                *)
Opened ==
  /\ cpuCount = 0 => \A c \in CPU : lastBt[c] = 0 /\ uptime[c] = NoUptime
  /\ \A c \in CPU : \A i \in 1 .. Len(items[c]) :
       items[c][i].event \notin {"PROCESSOR_MAXIMUM", "TIME_ADJUSTMENT"}

(* A packet ends with the last call for its processor.                     *)
Packets ==
  \A c \in CPU : /\ writer.cpus[c].begin <= writer.cpus[c].end
                 /\ writer.cpus[c].end = Ns(lastBt[c])

PacketInv == IInv /\ TraceTyped /\ Opened /\ Packets

-----------------------------------------------------------------------------
(* What the server sends first.                                            *)
Beginning ==
  /\ (taken < 4 /\ ~Draining) =>
       /\ cpu = 0
       /\ \A c \in CPU : rest[c] = IF c = 0 THEN SubSeq(HeaderItems, taken + 1, 4)
                                            ELSE <<>>
       /\ \A c \in CPU : /\ uptime[c] = NoUptime /\ lastBt[c] = 0
                         /\ low[c] = NoLow
       /\ overflows = 0
  /\ taken >= 4 => scaler = Scale
  /\ (phase # "idle" /\ ~Draining) => taken >= 4 /\ status = "SUCCESS"

GroupEvents == {"UPTIME_LOW", "UPTIME_HIGH", "THREAD_SWITCH_OUT",
                "THREAD_SWITCH_IN", "THREAD_CREATE", "THREAD_NAME"}

(* An item of a group that was recorded at a time of the clock.            *)
InGroup(item, ticks) ==
  /\ item.event \in GroupEvents
  /\ HasTime(item.event) => item.time = ticks % TimeMod
  /\ item.event = "UPTIME_LOW" => item.data = (ticks * Scale) % LowMod
  /\ item.event = "UPTIME_HIGH" => item.data = (ticks * Scale) \div LowMod

(* The rest of a group, and the half of an uptime before its other half.   *)
Chain(s, ticks) ==
  \A i \in 1 .. Len(s) :
    /\ InGroup(s[i], ticks)
    /\ (s[i].event = "UPTIME_HIGH" /\ i > 1) => s[i - 1].event = "UPTIME_LOW"
Joins(s, half, ticks) ==
  (s # <<>> /\ half # NoLow) =>
    (s[1].event = "UPTIME_HIGH" => half = (ticks * Scale) % LowMod)

Sending ==
  taken >= 4 =>
    \A c \in CPU : /\ Chain(rest[c], clock[c])
                   /\ c \notin torn => Joins(rest[c], low[c], clock[c])

-----------------------------------------------------------------------------
Sound == status = "SUCCESS" /\ ~Draining
Walks(c) == c = cpu /\ phase \in {"scan", "replay"}

(* Items held back, and when they were recorded: their stamps say so, one   *)
(* after the other, and after the last overflow without a gap.             *)
Stamped(s, times, now, before) ==
  \A i \in 1 .. Len(s) :
    /\ times[i] <= now
    /\ HasTime(s[i].event) =>
         /\ s[i].time = times[i] % TimeMod
         /\ \A j \in i .. Len(s) : times[i] <= times[j]
         /\ i > before =>
              \/ times[i] = now
              \/ \E j \in i + 1 .. Len(s) :
                   HasTime(s[j].event) /\ times[j] < times[i] + TimeMod

(* They are later than what the handler got, until they are replayed.      *)
Stored(c) ==
  /\ Stamped(items[c], truth[c], clock[c], lost[c])
  /\ \A i \in 1 .. Len(items[c]) :
       HasTime(items[c][i].event) =>
         /\ hold[c]
         /\ ~(Walks(c) /\ phase = "replay") => lastBt[c] <= truth[c][i] * Scale

(* The uptime of a processor.                                              *)
Direct(c) ==
  /\ lastBt[c] <= clock[c] * Scale
  /\ ~hold[c] => /\ uptime[c].last = clock[c] % TimeMod
                 /\ BtOf(uptime[c], scaler) = clock[c] * Scale
  /\ ~Walks(c) => lastBt[c] = BtOf(uptime[c], scaler)

(* The loops of resolve_hold_back().  The UPTIME_HIGH item counts as the   *)
(* item after those held back.                                             *)
Last == Len(items[cpu]) + 1
Timed(i) == i = Last \/ HasTime(items[cpu][i].event)
At(i) == IF i = Last THEN clock[cpu] ELSE truth[cpu][i]

Next2(i, j) == /\ i < j /\ Timed(i) /\ Timed(j)
               /\ \A m \in i + 1 .. j - 1 : ~Timed(m)
(* Z: the times at which the loops put the items from the one at index on. *)
Claimed(Z, index) ==
  /\ \A i \in index .. Last : Timed(i) =>
       /\ At(i) <= Z[i] /\ Z[i] <= clock[cpu]
       /\ i > lost[cpu] => Z[i] = At(i)
  /\ \A i, j \in index .. Last :
       Next2(i, j) => Z[j] = Z[i] + ((At(j) - At(i)) % TimeMod)

Functions(n) == [1 .. n -> Nat]

Scanning ==
  \E Z \in Functions(Last), j \in walk.index + 1 .. Last :
    /\ Claimed(Z, walk.index + 1)
    /\ Timed(j) /\ \A m \in walk.index + 1 .. j - 1 : ~Timed(m)
    /\ walk.last = At(j) % TimeMod /\ walk.acc = clock[cpu] - Z[j]
    /\ walk.acc * scaler < SpanMod

Replaying ==
  \E Z \in Functions(Last), p \in 1 .. Last :
    /\ Claimed(Z, 1)
    /\ Timed(p)
    /\ IF p < walk.index THEN \A m \in p + 1 .. walk.index - 1 : ~Timed(m)
                         ELSE \A m \in 1 .. p - 1 : ~Timed(m)
    /\ uptime[cpu].last = At(p) % TimeMod
    /\ BtOf(uptime[cpu], scaler) = Z[p] * Scale
    /\ lastBt[cpu] <= Z[p] * Scale

Walking ==
  /\ walk.saved = [bt |-> clock[cpu] * Scale, last |-> clock[cpu] % TimeMod, acc |-> 0]
  /\ walk.high.event = "UPTIME_HIGH" /\ walk.high.time = clock[cpu] % TimeMod
  /\ phase = "scan" => uptime[cpu] = walk.saved /\ Scanning
  /\ phase = "replay" => Replaying

\* Of these nothing is said.
Astray == torn \cup wrapped

Timely ==
  Sound => \A c \in CPU \ Astray :
             Stored(c) /\ Direct(c) /\ (Walks(c) => Walking)

TimeInv == PacketInv /\ Beginning /\ Sending /\ Timely
-----------------------------------------------------------------------------
\* What the writer makes of a time, a thread and a half of a switch has its type.
LEMMA NsType == ASSUME NEW bt \in Bt PROVE Ns(bt) \in Nat
<1>1. bt \in Nat /\ BtPerNs \in Nat \ {0}
  BY WriterAssumption DEF Bt
<1> QED BY <1>1 DEF Ns

LEMMA SwitchedType ==
  ASSUME NEW w \in Writer, NEW c \in CPU, NEW ns \in Nat, NEW thread \in Nat
  PROVE  Switched(w, c, ns, thread) \in Half
<1>1. NoName \in Names
  BY WriterAssumption DEF NoName, Names
<1>2. w.names \in [NamedThreads -> Names]
  BY DEF Writer
<1>3. CopyThreadName(w, c, thread) \in Comms
  BY <1>1, <1>2 DEF CopyThreadName, Comm, Comms
<1>4. Tid(thread) \in Nat
  BY DEF Tid
<1> QED BY <1>3, <1>4 DEF Switched, Half

LEMMA NoSwitchType == NoSwitch \in Half
<1>1. NoName \in Names
  BY WriterAssumption DEF NoName, Names
<1> QED BY <1>1 DEF NoSwitch, Half, Comm, Comms

\* The operations of the writer keep its types and do what they are called.
LEMMA WriteType ==
  ASSUME NEW w \in Writer, NEW c \in CPU, NEW ns \in Nat,
         NEW kind \in Events \cup {"sched_switch"}, NEW prev \in Half, NEW next \in Half
  PROVE  /\ Write(w, c, ns, kind, prev, next) \in Writer
         /\ Write(w, c, ns, kind, prev, next).cpus = w.cpus
         /\ Write(w, c, ns, kind, prev, next).files = w.files
         /\ \E r \in Written : /\ r.cpu = c /\ r.ns = ns
                             /\ Write(w, c, ns, kind, prev, next).written
                                  = Append(w.written, r)
<1> DEFINE r == [cpu |-> c, ns |-> ns, kind |-> kind, prev |-> prev, next |-> next]
           v == Write(w, c, ns, kind, prev, next)
<1>1. r \in Written /\ r.cpu = c /\ r.ns = ns
  BY DEF Written
<1>2. v = [w EXCEPT !.written = Append(w.written, r)]
  BY DEF Write, Writer
<1> HIDE DEF r, v
<1>3. w.written \in Seq(Written)
  BY DEF Writer
<1>4. Append(w.written, r) \in Seq(Written)
  BY <1>1, <1>3
<1>5. /\ v \in Writer /\ v.cpus = w.cpus /\ v.files = w.files
      /\ v.written = Append(w.written, r)
  BY <1>2, <1>4 DEF Writer
<1> QED BY <1>1, <1>5 DEF v

(* A processor whose packet is as wide as before.                          *)
SameLimits(v, w) ==
  \A c \in CPU : v.cpus[c].begin = w.cpus[c].begin /\ v.cpus[c].end = w.cpus[c].end

LEMMA SwitchOutType ==
  ASSUME NEW w \in Writer, NEW c \in CPU, NEW half \in Half
  PROVE  LET v == [w EXCEPT !.cpus[c].prev = half]
         IN /\ v \in Writer /\ SameLimits(v, w)
            /\ v.files = w.files /\ v.written = w.written
<1> DEFINE new == [w.cpus[c] EXCEPT !.prev = half]
           cpus == [w.cpus EXCEPT ![c] = new]
           v == [w EXCEPT !.cpus[c].prev = half]
<1>1. w.cpus \in [CPU -> Context] /\ w.cpus[c] \in Context
  BY DEF Writer
<1>2. new \in Context /\ new.begin = w.cpus[c].begin /\ new.end = w.cpus[c].end
  BY <1>1 DEF Context
<1>3. v = [w EXCEPT !.cpus = cpus]
  BY <1>1 DEF Writer
<1> HIDE DEF new
<1>4. cpus \in [CPU -> Context]
  BY <1>1, <1>2
<1>5. \A d \in CPU : cpus[d] = IF d = c THEN new ELSE w.cpus[d]
  BY <1>1
<1> HIDE DEF cpus, v
<1>6. /\ v \in Writer /\ v.files = w.files /\ v.written = w.written
      /\ v.cpus = cpus
  BY <1>3, <1>4 DEF Writer
<1>7. SameLimits(v, w)
  BY <1>2, <1>5, <1>6 DEF SameLimits
<1> QED BY <1>6, <1>7 DEF v

LEMMA ResetType ==
  ASSUME NEW w \in Writer, NEW c \in CPU, NEW thread \in Nat
  PROVE  LET v == ResetThreadName(w, c, thread)
         IN /\ v \in Writer /\ SameLimits(v, w)
            /\ v.files = w.files /\ v.written = w.written
<1> DEFINE new == [w.cpus[c] EXCEPT !.thread = thread, !.chunks = 0]
           cpus == [w.cpus EXCEPT ![c] = new]
           names == [t \in NamedThreads |-> IF t = thread THEN NoName ELSE w.names[t]]
           v == ResetThreadName(w, c, thread)
<1>1. w.cpus \in [CPU -> Context] /\ w.cpus[c] \in Context
  BY DEF Writer
<1>2. new \in Context /\ new.begin = w.cpus[c].begin /\ new.end = w.cpus[c].end
  BY <1>1 DEF Context
<1>3. v = [w EXCEPT !.cpus = cpus, !.names = names]
  BY <1>1 DEF Writer, ResetThreadName
<1>n. NoName \in Names /\ w.names \in [NamedThreads -> Names]
  BY WriterAssumption DEF NoName, Names, Writer
<1>m. names \in [NamedThreads -> Names]
  BY <1>n
<1> HIDE DEF new, names
<1>4. cpus \in [CPU -> Context]
  BY <1>1, <1>2
<1>5. \A d \in CPU : cpus[d] = IF d = c THEN new ELSE w.cpus[d]
  BY <1>1
<1> HIDE DEF cpus, v
<1>6. /\ v \in Writer /\ v.files = w.files /\ v.written = w.written
      /\ v.cpus = cpus
  BY <1>3, <1>4, <1>m DEF Writer
<1>7. SameLimits(v, w)
  BY <1>2, <1>5, <1>6 DEF SameLimits
<1> QED BY <1>6, <1>7 DEF v

LEMMA AddNameType ==
  ASSUME NEW w \in Writer, NEW c \in CPU, NEW chunk \in Nat
  PROVE  LET v == AddThreadName(w, c, chunk)
         IN /\ v \in Writer /\ SameLimits(v, w)
            /\ v.files = w.files /\ v.written = w.written
<1> DEFINE thread == w.cpus[c].thread
           n == w.cpus[c].chunks
           new == [w.cpus[c] EXCEPT !.chunks = n + 1]
           cpus == [w.cpus EXCEPT ![c] = new]
           name == [w.names[thread] EXCEPT ![n + 1] = chunk]
           names == [w.names EXCEPT ![thread] = name]
           v == AddThreadName(w, c, chunk)
<1>1. w.cpus \in [CPU -> Context] /\ w.cpus[c] \in Context
  BY DEF Writer
<1>2. n \in Nat
  BY <1>1 DEF Context
<1>3. CASE n >= NameChunks \/ thread \notin NamedThreads
  <2>1. v = w
    BY <1>3 DEF AddThreadName
  <2> QED BY <2>1 DEF SameLimits
<1>4. CASE ~(n >= NameChunks \/ thread \notin NamedThreads)
  <2>1. new \in Context /\ new.begin = w.cpus[c].begin /\ new.end = w.cpus[c].end
    BY <1>1, <1>2 DEF Context
  <2>2. v = [w EXCEPT !.cpus = cpus, !.names = names]
    BY <1>1, <1>4 DEF Writer, AddThreadName
  <2>3. w.names \in [NamedThreads -> Names] /\ thread \in NamedThreads
    BY <1>4 DEF Writer
  <2>4. w.names[thread] \in [1 .. NameChunks -> Nat]
    BY <2>3 DEF Names
  <2>5. name \in Names
    BY <2>4 DEF Names
  <2> HIDE DEF name, new, thread, n
  <2>6. names \in [NamedThreads -> Names] /\ cpus \in [CPU -> Context]
    BY <2>1, <2>3, <2>5, <1>1
  <2>7. \A d \in CPU : cpus[d] = IF d = c THEN new ELSE w.cpus[d]
    BY <1>1
  <2> HIDE DEF cpus, names, v
  <2>8. /\ v \in Writer /\ v.files = w.files /\ v.written = w.written
        /\ v.cpus = cpus
    BY <2>2, <2>6 DEF Writer
  <2>9. SameLimits(v, w)
    BY <2>1, <2>7, <2>8 DEF SameLimits
  <2> QED BY <2>8, <2>9 DEF v
<1> QED BY <1>3, <1>4

(* An item that the handler gets: the packet of its processor widens to it, *)
(* and at most one event is written, at its time.                           *)
Unwritten == {"PROCESSOR_MAXIMUM", "PROCESSOR", "VERSION"}
Printed(v, w, call) ==
  /\ v \in Writer
  /\ v.files = IF call.item.event = "PROCESSOR_MAXIMUM" THEN call.item.data + 1
                                                        ELSE w.files
  /\ \A c \in CPU \ {call.cpu} : /\ v.cpus[c].begin = w.cpus[c].begin
                                 /\ v.cpus[c].end = w.cpus[c].end
  /\ v.cpus[call.cpu].end = Ns(call.bt)
  /\ v.cpus[call.cpu].begin = IF w.cpus[call.cpu].begin = 0
                                THEN Ns(call.bt) ELSE w.cpus[call.cpu].begin
  /\ \/ v.written = w.written
     \/ /\ call.item.event \notin Unwritten
        /\ \E r \in Written : /\ r.cpu = call.cpu /\ r.ns = Ns(call.bt)
                              /\ v.written = Append(w.written, r)

LEMMA PrintItemStep ==
  ASSUME NEW writer0 \in Writer, NEW call \in Call
  PROVE  Printed(PrintItem(writer0, call), writer0, call)
<1> DEFINE c == call.cpu
           ns == Ns(call.bt)
           data == call.item.data
           event == call.item.event
           seen == Seen(writer0.cpus[c], ns)
           cpus == [writer0.cpus EXCEPT ![c] = seen]
           w == [writer0 EXCEPT !.cpus[c] = Seen(@, ns)]
           v == PrintItem(writer0, call)
<1>1. c \in CPU /\ ns \in Nat /\ data \in Nat /\ event \in Events
  BY NsType DEF Call, Item
<1>2. writer0.cpus \in [CPU -> Context] /\ writer0.cpus[c] \in Context
  BY <1>1 DEF Writer
<1>3. /\ seen \in Context /\ seen.end = ns
      /\ seen.begin = IF writer0.cpus[c].begin = 0 THEN ns ELSE writer0.cpus[c].begin
  BY <1>1, <1>2 DEF Seen, Context
<1>4. w = [writer0 EXCEPT !.cpus = cpus]
  BY <1>1, <1>2 DEF Writer
<1> HIDE DEF seen
<1>5. cpus \in [CPU -> Context]
  BY <1>1, <1>2, <1>3
<1>6. \A d \in CPU : cpus[d] = IF d = c THEN seen ELSE writer0.cpus[d]
  BY <1>1, <1>2
<1>7. v = CASE event = "THREAD_SWITCH_OUT" ->
                 [w EXCEPT !.cpus[c].prev = Switched(w, c, ns, data)]
            [] event = "THREAD_SWITCH_IN" -> SwitchIn(w, c, ns, data)
            [] event \in {"THREAD_CREATE", "THREAD_ID"} -> ResetThreadName(w, c, data)
            [] event = "THREAD_NAME" -> AddThreadName(w, c, data)
            [] event = "PROCESSOR_MAXIMUM" -> [w EXCEPT !.files = data + 1]
            [] event \in {"PROCESSOR", "VERSION"} -> w
            [] OTHER -> Write(w, c, ns, event, NoSwitch, NoSwitch)
  BY DEF PrintItem
<1> HIDE DEF cpus, w, v, event, data
<1>8. /\ w \in Writer /\ w.files = writer0.files /\ w.written = writer0.written
      /\ w.cpus = cpus
  BY <1>4, <1>5 DEF Writer
<1> DEFINE Wrote == \E r \in Written : /\ r.cpu = c /\ r.ns = ns
                                       /\ v.written = Append(w.written, r)
<1>9. SUFFICES /\ v \in Writer
               /\ v.files = IF event = "PROCESSOR_MAXIMUM" THEN data + 1 ELSE w.files
               /\ SameLimits(v, w)
               /\ v.written = w.written \/ (event \notin Unwritten /\ Wrote)
  BY <1>1, <1>3, <1>6, <1>8 DEF Printed, SameLimits, v, event, data
<1>10. SameLimits(w, w)
  BY DEF SameLimits
<1>a. CASE event = "THREAD_SWITCH_OUT"
  <2>1. Switched(w, c, ns, data) \in Half
    BY <1>1, <1>8, SwitchedType
  <2> QED BY <1>a, <1>1, <1>7, <1>8, <2>1, SwitchOutType DEF Unwritten
<1>b. CASE event = "THREAD_SWITCH_IN"
  <2>1. Switched(w, c, ns, data) \in Half /\ w.cpus[c].prev \in Half
    BY <1>1, <1>8, SwitchedType DEF Writer, Context
  <2>2. v = SwitchIn(w, c, ns, data)
    BY <1>b, <1>7
  <2>3. \/ v = w
        \/ v = Write(w, c, ns, "sched_switch", w.cpus[c].prev, Switched(w, c, ns, data))
    BY <2>2 DEF SwitchIn
  <2>4. "sched_switch" \in Events \cup {"sched_switch"}
    OBVIOUS
  <2>5. CASE v = w
    BY <2>5, <1>b, <1>8, <1>10
  <2>6. CASE v # w
    <3> DEFINE prev == w.cpus[c].prev
               next == Switched(w, c, ns, data)
               kind == "sched_switch"
    <3>1. v = Write(w, c, ns, kind, prev, next)
      BY <2>3, <2>6
    <3>2. prev \in Half /\ next \in Half /\ kind \in Events \cup {"sched_switch"}
      BY <2>1, <2>4
    <3> HIDE DEF prev, next, kind
    <3> HIDE DEF c, ns
    <3>3. c \in CPU /\ ns \in Nat /\ w \in Writer
      BY <1>1, <1>8
    <3>4. Wrote
      BY <3>1, <3>2, <3>3, WriteType
    <3>5. v \in Writer /\ v.cpus = w.cpus
      BY <3>1, <3>2, <3>3, WriteType
    <3>6. v.files = w.files
      BY <3>1, <3>2, <3>3, WriteType
    <3> QED BY <3>4, <3>5, <3>6, <1>b DEF SameLimits, Unwritten
  <2> QED BY <2>5, <2>6
<1>c. CASE event \in {"THREAD_CREATE", "THREAD_ID"}
  BY <1>c, <1>1, <1>7, <1>8, ResetType
<1>d. CASE event = "THREAD_NAME"
  BY <1>d, <1>1, <1>7, <1>8, AddNameType
<1>e. CASE event = "PROCESSOR_MAXIMUM"
  <2>1. v = [w EXCEPT !.files = data + 1]
    BY <1>e, <1>7
  <2>2. /\ v \in Writer /\ v.files = data + 1 /\ v.cpus = w.cpus
        /\ v.written = w.written
    BY <2>1, <1>1, <1>8 DEF Writer
  <2> QED BY <2>2, <1>e DEF SameLimits
<1>f. CASE event \in {"PROCESSOR", "VERSION"}
  <2>1. v = w
    BY <1>f, <1>7
  <2> QED BY <2>1, <1>f, <1>8, <1>10
<1>g. CASE event \notin {"THREAD_SWITCH_OUT", "THREAD_SWITCH_IN", "THREAD_CREATE",
                         "THREAD_ID", "THREAD_NAME"} \cup Unwritten
  <2>1. v = Write(w, c, ns, event, NoSwitch, NoSwitch)
    BY <1>g, <1>7 DEF Unwritten
  <2>2. /\ v \in Writer /\ v.cpus = w.cpus /\ v.files = w.files /\ Wrote
    BY <2>1, <1>1, <1>8, NoSwitchType, WriteType
  <2> QED BY <2>2, <1>g DEF SameLimits, Unwritten
<1> QED BY <1>a, <1>b, <1>c, <1>d, <1>e, <1>f, <1>g DEF Unwritten

-----------------------------------------------------------------------------
\* A later time is not an earlier nanosecond.
LEMMA NsMonotone == ASSUME NEW a \in Bt, NEW b \in Bt, a <= b PROVE Ns(a) <= Ns(b)
<1> DEFINE d == BtPerNs
           p == a \div d
           q == b \div d
<1>1. d \in Nat \ {0} /\ a \in Nat /\ b \in Nat
  BY WriterAssumption DEF Bt
<1>2. p \in Nat /\ q \in Nat /\ a = d * p + (a % d) /\ b = d * q + (b % d)
      /\ a % d \in 0 .. d - 1 /\ b % d \in 0 .. d - 1
  BY <1>1
<1> DEFINE r == a % d
           s == b % d
<1> HIDE DEF d, p, q, r, s
<1>3. d * p <= d * q + (d - 1)
  BY <1>1, <1>2 DEF r, s
<1>4. CASE p > q
  <2> DEFINE e == p - q
  <2>1. e \in Nat /\ e >= 1 /\ p = q + e
    BY <1>2, <1>4
  <2>2. d * p = d * q + d * e
    BY <1>1, <1>2, <2>1
  <2>3. d * e >= d
    BY <1>1, <2>1
  <2> HIDE DEF e
  <2>4. d * q \in Nat /\ d * p \in Nat /\ d * e \in Nat
    BY <1>1, <1>2, <2>1
  <2> QED BY <1>1, <1>3, <2>2, <2>3, <2>4
<1> QED BY <1>2, <1>4 DEF Ns, d, p, q

(* The handler is called for an item of a processor whose file is open.    *)
Hands(c, u, item) ==
  /\ CallHandler(c, u, item)
  /\ IF item.event = "PROCESSOR_MAXIMUM"
       THEN cpuCount = 0 /\ cpuCount' = item.data + 1
       ELSE cpuCount' = cpuCount
  /\ c < cpuCount' \/ (item.event = "VERSION" /\ cpuCount = 0)

Silent == out' = <<>> /\ UNCHANGED <<lastBt, cpuCount>>

\* What the writer does with the calls of one item.
LEMMA HandsPackets ==
  ASSUME TypeOK, TraceTyped, Packets, Opened, Handler, scaler' \in Nat \ {0},
         NEW c \in CPU, NEW u \in Uptime, NEW item \in Item, Hands(c, u, item)
  PROVE  /\ writer' \in Writer /\ writer'.files = cpuCount'
         /\ Packets' /\ PacketStep
<1> DEFINE bt == BtOf(Tick(u, item), scaler')
           top == IF bt >= lastBt[c] THEN bt ELSE lastBt[c]
           w == [writer EXCEPT !.written = <<>>]
           only == [bt |-> bt, cpu |-> c, item |-> item]
           adj == [event |-> "TIME_ADJUSTMENT", time |-> 0,
                   data |-> lastBt[c] - bt, seq |-> 0]
           first == [bt |-> lastBt[c], cpu |-> c, item |-> adj]
           second == [bt |-> lastBt[c], cpu |-> c, item |-> item]
<1>1. bt \in Bt /\ lastBt \in [CPU -> Bt] /\ lastBt[c] \in Bt /\ top \in Bt
  BY TickType, BtOfType DEF TypeOK
<1>2. lastBt' = [lastBt EXCEPT ![c] = top] /\ out' = Calls(c, bt, item)
  BY DEF Hands, CallHandler
<1>3. /\ w \in Writer /\ w.cpus = writer.cpus /\ w.files = writer.files
      /\ w.written = <<>> /\ writer.cpus \in [CPU -> Context]
  <2>1. <<>> \in Seq(Written)
    OBVIOUS
  <2> QED BY <2>1 DEF TraceTyped, Writer
<1>4. writer.files = cpuCount
  BY DEF TraceTyped, TraceTypeOK
<1>5. writer' = CASE Len(out') = 0 -> w
                  [] Len(out') = 1 -> PrintItem(w, out'[1])
                  [] Len(out') = 2 -> PrintItem(PrintItem(w, out'[1]), out'[2])
  BY DEF Handler
<1> HIDE DEF bt, w
(* What remains to be shown of the writer, once it has seen the time.      *)
<1>6. SUFFICES /\ writer' \in Writer /\ writer'.files = cpuCount'
               /\ \A d \in CPU \ {c} : /\ writer'.cpus[d].begin = writer.cpus[d].begin
                                       /\ writer'.cpus[d].end = writer.cpus[d].end
               /\ writer'.cpus[c].end = Ns(top)
               /\ writer'.cpus[c].begin = IF writer.cpus[c].begin = 0
                                            THEN Ns(top) ELSE writer.cpus[c].begin
               /\ \A i \in DOMAIN writer'.written :
                    /\ writer'.written[i].cpu = c
                    /\ writer'.written[i].ns = Ns(top)
                    /\ c < cpuCount'
  <2>1. \A d \in CPU : lastBt'[d] = IF d = c THEN top ELSE lastBt[d]
    BY <1>1, <1>2
  <2>2. lastBt[c] <= top
    BY <1>1 DEF Bt
  <2>3. Ns(lastBt[c]) <= Ns(top) /\ Ns(top) \in Nat /\ Ns(lastBt[c]) \in Nat
    BY <1>1, <2>2, NsMonotone, NsType
  <2>4. \A d \in CPU : /\ writer.cpus[d].begin \in Nat /\ writer.cpus[d].end \in Nat
                       /\ writer.cpus[d].begin <= writer.cpus[d].end
                       /\ writer.cpus[d].end = Ns(lastBt[d])
    BY <1>3 DEF Packets, Context
  <2> HIDE DEF top
  <2>5. Packets'
    BY <1>6, <2>1, <2>3, <2>4 DEF Packets
  <2>6. \A d \in CPU : /\ writer'.cpus[d].end >= writer.cpus[d].end
                       /\ writer.cpus[d].begin \in {0, writer'.cpus[d].begin}
    BY <1>6, <2>3, <2>4
  <2>7. \A i \in DOMAIN writer'.written :
          LET r == writer'.written[i]
              packet == writer'.cpus[r.cpu]
          IN r.cpu < writer'.files /\
             (r.ns # 0 => r.ns \in packet.begin .. packet.end)
    <3> SUFFICES ASSUME NEW i \in DOMAIN writer'.written
                 PROVE  LET r == writer'.written[i]
                            packet == writer'.cpus[r.cpu]
                        IN r.cpu < writer'.files /\
                           (r.ns # 0 => r.ns \in packet.begin .. packet.end)
      OBVIOUS
    <3>1. /\ writer'.written[i].cpu = c /\ writer'.written[i].ns = Ns(top)
          /\ c < writer'.files
      BY <1>6
    <3>2. writer'.cpus[c].begin <= Ns(top) /\ writer'.cpus[c].begin \in Nat
      BY <1>6, <2>3, <2>4
    <3> QED BY <1>6, <2>3, <3>1, <3>2
  <2> QED BY <1>6, <2>5, <2>6, <2>7 DEF PacketStep
<1>7. CASE bt >= lastBt[c]
  <2>1. out' = <<only>> /\ top = bt
    BY <1>2, <1>7 DEF Calls
  <2>2. /\ only \in Call /\ only.cpu = c /\ only.bt = bt /\ only.item = item
    BY <1>1 DEF Call
  <2> HIDE DEF only, top
  <2>3. Len(out') = 1 /\ out'[1] = only
    BY <2>1
  <2>4. writer' = PrintItem(w, only)
    BY <1>5, <2>3
  <2>5. Printed(writer', w, only)
    BY <1>3, <2>2, <2>4, PrintItemStep
  <2>6. \/ writer'.written = <<>>
        \/ /\ item.event \notin Unwritten
           /\ \E r \in Written : r.cpu = c /\ r.ns = Ns(bt) /\ writer'.written = <<r>>
    BY <1>3, <2>2, <2>5 DEF Printed
  <2>7. \A i \in DOMAIN writer'.written : /\ writer'.written[i].cpu = c
                                          /\ writer'.written[i].ns = Ns(bt)
                                          /\ c < cpuCount'
    BY <2>6 DEF Hands, Unwritten
  <2>8. writer'.files = cpuCount'
    BY <1>3, <1>4, <2>2, <2>5 DEF Printed, Hands
  <2> QED BY <1>3, <2>1, <2>2, <2>5, <2>7, <2>8 DEF Printed
<1>8. CASE ~(bt >= lastBt[c])
  <2>1. out' = <<first, second>> /\ top = lastBt[c]
    BY <1>2, <1>8 DEF Calls
  <2>2. adj \in Item
    <3>1. lastBt[c] - bt \in Nat /\ 0 \in Time
      BY <1>1, <1>8, RecordAssumption DEF Bt, Time
    <3> QED BY <3>1 DEF Item, Events, NoTimeEvents, ClientEvents
  <2>3. adj.event = "TIME_ADJUSTMENT"
    OBVIOUS
  <2> HIDE DEF adj
  <2>4. /\ first \in Call /\ first.cpu = c /\ first.bt = top /\ first.item = adj
        /\ second \in Call /\ second.cpu = c /\ second.bt = top /\ second.item = item
    BY <1>1, <2>1, <2>2 DEF Call
  <2>5. cpuCount # 0
    BY <1>1, <1>8 DEF Opened, Bt
  <2>6. cpuCount' = cpuCount /\ c < cpuCount' /\ item.event # "PROCESSOR_MAXIMUM"
    BY <2>5 DEF Hands
  <2> HIDE DEF first, second, top
  <2>7. Len(out') = 2 /\ out'[1] = first /\ out'[2] = second
    BY <2>1
  <2> DEFINE v == PrintItem(w, first)
  <2>8. writer' = PrintItem(v, second)
    BY <1>5, <2>7
  <2>9. Printed(v, w, first)
    BY <1>3, <2>4, PrintItemStep
  <2> HIDE DEF v
  <2>10. v \in Writer
    BY <2>9 DEF Printed
  <2>11. Printed(writer', v, second)
    BY <2>4, <2>8, <2>10, PrintItemStep
  <2>12. \/ v.written = <<>>
         \/ \E r \in Written : r.cpu = c /\ r.ns = Ns(top) /\ v.written = <<r>>
    BY <1>3, <2>4, <2>9 DEF Printed
  <2>13. v.written \in Seq(Written)
         /\ \A i \in DOMAIN v.written : v.written[i].cpu = c /\ v.written[i].ns = Ns(top)
    BY <2>10, <2>12 DEF Writer
  <2>14. \/ writer'.written = v.written
         \/ \E r \in Written : /\ r.cpu = c /\ r.ns = Ns(top)
                               /\ writer'.written = Append(v.written, r)
    BY <2>4, <2>11 DEF Printed
  <2>15. \A i \in DOMAIN writer'.written : /\ writer'.written[i].cpu = c
                                           /\ writer'.written[i].ns = Ns(top)
    <3>1. CASE writer'.written = v.written
      BY <3>1, <2>13
    <3>2. CASE writer'.written # v.written
      <4>1. PICK r \in Written : /\ r.cpu = c /\ r.ns = Ns(top)
                                 /\ writer'.written = Append(v.written, r)
        BY <3>2, <2>14
      <4> DEFINE s == v.written
                 t == writer'.written
      <4>2. s \in Seq(Written) /\ t = Append(s, r)
        BY <2>13, <4>1
      <4>3. \A i \in DOMAIN s : s[i].cpu = c /\ s[i].ns = Ns(top)
        BY <2>13
      <4> HIDE DEF s, t
      <4>4. \A i \in DOMAIN t : t[i] = r \/ (i \in DOMAIN s /\ t[i] = s[i])
        BY <4>2
      <4>5. \A i \in DOMAIN t : t[i].cpu = c /\ t[i].ns = Ns(top)
        BY <4>1, <4>3, <4>4
      <4> QED BY <4>5 DEF t
    <3> QED BY <3>1, <3>2
  <2>16. v.files = w.files /\ writer'.files = v.files
    BY <2>3, <2>4, <2>6, <2>9, <2>11 DEF Printed
  <2>17. /\ v.cpus[c].end = Ns(top) /\ writer'.cpus[c].end = Ns(top)
         /\ v.cpus[c].begin = IF w.cpus[c].begin = 0 THEN Ns(top) ELSE w.cpus[c].begin
         /\ writer'.cpus[c].begin = IF v.cpus[c].begin = 0 THEN Ns(top)
                                                           ELSE v.cpus[c].begin
         /\ \A d \in CPU \ {c} : /\ v.cpus[d].begin = w.cpus[d].begin
                                 /\ v.cpus[d].end = w.cpus[d].end
                                 /\ writer'.cpus[d].begin = v.cpus[d].begin
                                 /\ writer'.cpus[d].end = v.cpus[d].end
         /\ writer' \in Writer
    BY <2>4, <2>9, <2>11 DEF Printed
  <2> QED BY <1>3, <1>4, <2>6, <2>15, <2>16, <2>17
<1> QED BY <1>7, <1>8

-----------------------------------------------------------------------------
\* The number of an item changes nothing else of it.
LEMMA NumberSame ==
  ASSUME NEW c \in CPU, NEW item \in Item
  PROVE  /\ Number(c, item).event = item.event /\ Number(c, item).data = item.data
         /\ Number(c, item).time = item.time
  BY DEF Number, Item

(* Whom the end of visit() calls, and for what.                            *)
CallsOnce == \E c \in CPU, u \in Uptime, x \in Item : Hands(c, u, x)

LEMMA DeliverCalls ==
  ASSUME TypeOK, NEW c \in CPU, NEW u \in Uptime, NEW item \in Item,
         CallHandler(c, u, Number(c, item)),
         IF item.event = "PROCESSOR_MAXIMUM"
           THEN cpuCount = 0 /\ cpuCount' = item.data + 1
           ELSE cpuCount' = cpuCount,
         c < cpuCount' \/ (item.event = "VERSION" /\ cpuCount = 0)
  PROVE  CallsOnce
<1> DEFINE x == Number(c, item)
<1>1. x \in Item /\ x.event = item.event /\ x.data = item.data
  BY NumberType, NumberSame
<1> HIDE DEF x
<1>2. CallHandler(c, u, x)
  BY DEF x
<1>3. Hands(c, u, x)
  BY <1>1, <1>2 DEF Hands
<1> QED BY <1>1, <1>3 DEF CallsOnce

LEMMA PassOnCalls ==
  ASSUME TypeOK, NEW c \in CPU, NEW h, NEW item \in Item, PassOn(c, h, item),
         cpuCount' = cpuCount, c < cpuCount, item.event # "PROCESSOR_MAXIMUM"
  PROVE  Silent \/ CallsOnce
<1>1. uptime[c] \in Uptime
  BY DEF TypeOK
<1>2. CASE h
  BY <1>2 DEF PassOn, HoldBack, Full, Silent
<1>3. CASE ~h
  BY <1>1, <1>3, DeliverCalls DEF PassOn, Deliver
<1> QED BY <1>2, <1>3

LEMMA VisitCalls ==
  ASSUME IInv, TypeOK', NEW item \in Sendable, Visit(item)
  PROVE  Silent \/ CallsOnce
<1> USE DEF IInv
<1>0. item \in Item /\ item.data \in Nat
  BY SendableType DEF Item
<1>1. /\ item \in Item /\ item.data \in Nat /\ cpu \in CPU /\ cpu \in Nat
      /\ cpuCount \in 0 .. MaxCpu /\ uptime[cpu] \in Uptime
      /\ cpu = 0 \/ cpu < cpuCount
      /\ perCpuItems # 0 => cpuCount # 0
  <2>1. cpu \in CPU /\ cpu \in Nat
    BY DEF TypeOK, CPU
  <2> QED BY <1>0, <2>1 DEF TypeOK, StorageInv
<1>a. CASE VisitProcessor(item)
  <2>1. CASE item.data >= cpuCount
    BY <1>a, <2>1 DEF VisitProcessor, Error, Silent, header
  <2>2. CASE ~(item.data >= cpuCount)
    <3>1. item.data \in CPU /\ item.data < cpuCount
      BY <1>1, <2>2, RecordAssumption DEF CPU
    <3>2. PassOn(item.data, hold[cpu], item) /\ cpuCount' = cpuCount
      BY <1>a, <2>2 DEF VisitProcessor, header
    <3>3. item.event # "PROCESSOR_MAXIMUM"
      BY <1>a DEF VisitProcessor
    <3> QED BY <1>1, <3>1, <3>2, <3>3, PassOnCalls
  <2> QED BY <2>1, <2>2
<1>b. CASE VisitUptimeLow(item) \/ VisitFrequency(item) \/ VisitOther(item)
  <2>1. PassOn(cpu, hold[cpu], item) /\ cpuCount' = cpuCount
    BY <1>b DEF VisitUptimeLow, VisitFrequency, VisitOther, header
  <2>2. item.event \notin {"PROCESSOR_MAXIMUM", "VERSION", "PER_CPU_COUNT"}
    BY <1>b, RecordAssumption
       DEF VisitUptimeLow, VisitFrequency, VisitOther, NoTimeEvents, ClientEvents
  <2>3. cpuCount # 0
    BY <1>1, <2>2 DEF Visit, HeaderFirst
  <2> QED BY <1>1, <2>1, <2>2, <2>3, PassOnCalls
<1>c. CASE VisitUptimeHigh(item)
  <2> DEFINE base == [bt |-> (item.data * LowMod + low[cpu]) % BtMod,
                      last |-> item.time, acc |-> 0]
  <2>1. item.event = "UPTIME_HIGH" /\ cpuCount' = cpuCount
    BY <1>c DEF VisitUptimeHigh, header
  <2>2. cpuCount # 0
    BY <1>1, <2>1 DEF Visit, HeaderFirst
  <2>3. CASE low[cpu] # NoLow /\ ~hold[cpu]
    <3>1. base \in Uptime
      BY <1>1, <2>3, BaseType
    <3>2. CallHandler(cpu, base, Number(cpu, item))
      BY <1>c, <2>3 DEF VisitUptimeHigh, Deliver
    <3> HIDE DEF base
    <3> QED BY <1>1, <2>1, <2>2, <3>1, <3>2, DeliverCalls
  <2>4. CASE ~(low[cpu] # NoLow /\ ~hold[cpu])
    <3>1. PassOn(cpu, hold[cpu], item) \/ (out' = <<>> /\ UNCHANGED lastBt)
      BY <1>c, <2>4 DEF VisitUptimeHigh
    <3> QED BY <1>1, <2>1, <2>2, <3>1, PassOnCalls DEF Silent
  <2> QED BY <2>3, <2>4
<1>d. CASE VisitProcessorMaximum(item)
  <2>1. CASE item.data >= MaxCpu \/ cpuCount # 0
    BY <1>d, <2>1 DEF VisitProcessorMaximum, Error, Silent, header
  <2>2. CASE ~(item.data >= MaxCpu \/ cpuCount # 0)
    <3>1. /\ item.event = "PROCESSOR_MAXIMUM" /\ cpuCount = 0
          /\ cpuCount' = item.data + 1 /\ cpu < cpuCount'
          /\ CallHandler(cpu, uptime[cpu], Number(cpu, item))
      BY <1>1, <1>d, <2>2 DEF VisitProcessorMaximum, Deliver
    <3> QED BY <1>1, <3>1, DeliverCalls
  <2> QED BY <2>1, <2>2
<1>e. CASE VisitPerCpuCount(item)
  <2>1. CASE perCpuItems # 0 \/ cpuCount = 0
    BY <1>e, <2>1 DEF VisitPerCpuCount, Error, Silent, header
  <2>2. CASE ~(perCpuItems # 0 \/ cpuCount = 0)
    <3>1. /\ item.event = "PER_CPU_COUNT" /\ cpuCount' = cpuCount /\ cpu < cpuCount
          /\ \/ out' = <<>> /\ UNCHANGED lastBt
             \/ CallHandler(cpu, uptime[cpu], Number(cpu, item))
      BY <1>1, <1>e, <2>2 DEF VisitPerCpuCount, HoldBack, Full
    <3> QED BY <1>1, <3>1, DeliverCalls DEF Silent
  <2> QED BY <2>1, <2>2
<1>f. CASE VisitPerCpuOverflow(item)
  BY <1>f DEF VisitPerCpuOverflow, HoldBack, Full, Silent, header
<1>g. CASE VisitVersion(item)
  <2>1. CASE item.data # TheVersion
    BY <1>g, <2>1 DEF VisitVersion, Error, Silent, header
  <2>2. CASE item.data = TheVersion
    <3>1. /\ item.event = "VERSION" /\ cpuCount' = cpuCount
          /\ CallHandler(cpu, uptime[cpu], Number(cpu, item))
      BY <1>g, <2>2 DEF VisitVersion, Deliver, header
    <3> QED BY <1>1, <3>1, DeliverCalls
  <2> QED BY <2>1, <2>2
<1> QED BY <1>a, <1>b, <1>c, <1>d, <1>e, <1>f, <1>g DEF Visit

LEMMA LoopCalls ==
  ASSUME IInv, TypeOK', Opened, Loop \/ Destroy
  PROVE  Silent \/ CallsOnce
<1> USE DEF IInv
<1>1. /\ cpu \in CPU /\ uptime[cpu] \in Uptime /\ cpuCount \in Nat
      /\ walk.saved \in Uptime /\ walk.high \in Item /\ walk.index \in Nat
      /\ items[cpu] \in Seq(Item)
  BY DEF TypeOK, Walk
<1>2. ASSUME Loop PROVE cpu < cpuCount
  <2>1. phase \notin {"idle", "destroyed"}
    BY <1>2 DEF Loop, Scan, Rewind, Replay, Resolved, Drain, Forward, BestEffort
  <2> QED BY <1>1, <2>1 DEF DrainInv, StorageInv
<1>3. CASE Replay
  <2> DEFINE item == items[cpu][walk.index]
  <2>1. walk.index \in 1 .. Len(items[cpu])
    BY <1>3, <1>1 DEF Replay, LoopInv
  <2>2. item \in Item /\ item.event # "PROCESSOR_MAXIMUM"
    BY <2>1, <1>1 DEF Opened
  <2>3. CallHandler(cpu, uptime[cpu], item) /\ cpuCount' = cpuCount
    BY <1>3 DEF Replay, header
  <2>4. cpu < cpuCount
    BY <1>2, <1>3 DEF Loop
  <2> HIDE DEF item
  <2>5. Hands(cpu, uptime[cpu], item)
    BY <2>2, <2>3, <2>4 DEF Hands
  <2> QED BY <1>1, <2>2, <2>5 DEF CallsOnce
<1>4. CASE Resolved
  <2>1. cpuCount' = cpuCount /\ cpu < cpuCount
    BY <1>2, <1>4 DEF Resolved, header, Loop
  <2>2. \/ out' = <<>> /\ UNCHANGED lastBt
        \/ walk.high # NoItem /\ CallHandler(cpu, walk.saved, Number(cpu, walk.high))
    BY <1>4 DEF Resolved, ResetHoldBack
  <2>3. walk.high # NoItem => walk.high.event # "PROCESSOR_MAXIMUM"
    BY DEF LoopInv
  <2> QED BY <1>1, <2>1, <2>2, <2>3, DeliverCalls DEF Silent
<1>5. CASE Drain
  <2> DEFINE unreliable == [NoItem EXCEPT !.event = "UNRELIABLE_TIME"]
  <2>1. unreliable \in Item /\ unreliable.event = "UNRELIABLE_TIME"
    BY ZeroTypes DEF Item, Events, NoTimeEvents, ClientEvents
  <2>2. \/ out' = <<>> /\ UNCHANGED lastBt
        \/ CallHandler(cpu, uptime[cpu], unreliable)
    BY <1>5 DEF Drain, Undrained
  <2>3. cpuCount' = cpuCount /\ cpu < cpuCount
    BY <1>2, <1>5 DEF Drain, header, Loop
  <2> HIDE DEF unreliable
  <2>4. Silent \/ Hands(cpu, uptime[cpu], unreliable)
    BY <2>1, <2>2, <2>3 DEF Hands, Silent
  <2> QED BY <1>1, <2>1, <2>4 DEF CallsOnce
<1>6. CASE Scan \/ Rewind \/ Forward \/ BestEffort \/ Destroy
  BY <1>6 DEF Scan, Rewind, Forward, BestEffort, Destroy, Silent, header
<1> QED BY <1>3, <1>4, <1>5, <1>6 DEF Loop

-----------------------------------------------------------------------------
(* The target.                                                              *)
LEMMA TargetItemType ==
  ASSUME NEW event \in GroupEvents \cup {"PROCESSOR", "PER_CPU_OVERFLOW"},
         NEW ticks \in Nat, NEW data \in Nat
  PROVE  /\ TargetItem(event, ticks, data) \in Sendable
         /\ TargetItem(event, ticks, data).event = event
         /\ TargetItem(event, ticks, data).data = data
         /\ HasTime(event) => TargetItem(event, ticks, data).time = ticks % TimeMod
<1>1. ticks % TimeMod \in Time /\ 0 \in Time
  BY ModRange, RecordAssumption DEF Time
<1>2. event \in Events \ OwnEvents /\ event \notin {"PER_CPU_COUNT", "FREQUENCY"}
  BY RecordAssumption, TraceAssumption
     DEF GroupEvents, Events, NoTimeEvents, ClientEvents, OwnEvents
<1> QED BY <1>1, <1>2 DEF TargetItem, Sendable

LEMMA TimedEvents ==
  /\ \A event \in GroupEvents \ {"THREAD_NAME"} : HasTime(event)
  /\ \A event \in {"THREAD_NAME", "PROCESSOR", "PER_CPU_OVERFLOW", "VERSION",
                   "PROCESSOR_MAXIMUM", "PER_CPU_COUNT", "FREQUENCY",
                   "TIME_ADJUSTMENT", "UNRELIABLE_TIME"} : ~HasTime(event)
  BY RecordAssumption, TraceAssumption
     DEF GroupEvents, HasTime, NoTimeEvents, ClientEvents

\* A group begins with an item that has a time stamp, and an UPTIME_HIGH item
\* follows the other half.
LEMMA GroupShape ==
  ASSUME NEW ticks \in Nat, NEW from \in Threads, NEW g \in Groups(ticks, from)
  PROVE  /\ g \in Seq(Sendable) /\ Len(g) >= 2
         /\ g[1].event # "THREAD_NAME" /\ g[1].event # "UPTIME_HIGH"
         /\ \A i \in 1 .. Len(g) :
              /\ InGroup(g[i], ticks)
              /\ g[i].event = "UPTIME_HIGH" => i = 2 /\ g[1].event = "UPTIME_LOW"
         /\ Runs(g, from) \in Threads
<1>1. ticks * Scale \in Nat /\ Threads \subseteq Nat
  BY TraceAssumption
<1>2. /\ (ticks * Scale) % LowMod \in Nat /\ (ticks * Scale) \div LowMod \in Nat
  BY <1>1, RecordAssumption
<1>a. CASE g = UptimePair(ticks)
  <2> DEFINE a == TargetItem("UPTIME_LOW", ticks, (ticks * Scale) % LowMod)
             b == TargetItem("UPTIME_HIGH", ticks, (ticks * Scale) \div LowMod)
  <2>1. "UPTIME_LOW" \in GroupEvents /\ "UPTIME_HIGH" \in GroupEvents
    BY DEF GroupEvents
  <2>2. /\ a \in Sendable /\ InGroup(a, ticks) /\ a.event = "UPTIME_LOW"
        /\ b \in Sendable /\ InGroup(b, ticks) /\ b.event = "UPTIME_HIGH"
    BY <1>2, <2>1, TargetItemType DEF InGroup
  <2>3. g = <<a, b>>
    BY <1>a DEF UptimePair
  <2> HIDE DEF a, b
  <2>4. Runs(g, from) = from
    BY <2>2, <2>3 DEF Runs
  <2> QED BY <2>2, <2>3, <2>4
<1>b. ASSUME NEW to \in Threads, g = ThreadSwitch(ticks, from, to)
      PROVE  /\ g \in Seq(Sendable) /\ Len(g) >= 2
             /\ g[1].event # "THREAD_NAME" /\ g[1].event # "UPTIME_HIGH"
             /\ \A i \in 1 .. Len(g) :
                  /\ InGroup(g[i], ticks)
                  /\ g[i].event = "UPTIME_HIGH" => i = 2 /\ g[1].event = "UPTIME_LOW"
             /\ Runs(g, from) \in Threads
  <2> DEFINE a == TargetItem("THREAD_SWITCH_OUT", ticks, from)
             b == TargetItem("THREAD_SWITCH_IN", ticks, to)
  <2>1. "THREAD_SWITCH_OUT" \in GroupEvents /\ "THREAD_SWITCH_IN" \in GroupEvents
        /\ from \in Nat /\ to \in Nat
    BY <1>1 DEF GroupEvents
  <2>2. /\ a \in Sendable /\ InGroup(a, ticks) /\ a.event = "THREAD_SWITCH_OUT"
        /\ b \in Sendable /\ InGroup(b, ticks) /\ b.event = "THREAD_SWITCH_IN"
        /\ b.data = to
    BY <2>1, TargetItemType DEF InGroup
  <2>3. g = <<a, b>>
    BY <1>b DEF ThreadSwitch
  <2> HIDE DEF a, b
  <2>4. Runs(g, from) = to
    BY <2>2, <2>3 DEF Runs
  <2> QED BY <2>2, <2>3, <2>4
<1>c. ASSUME NEW t \in Created, g = Create(ticks, t)
      PROVE  /\ g \in Seq(Sendable) /\ Len(g) >= 2
             /\ g[1].event # "THREAD_NAME" /\ g[1].event # "UPTIME_HIGH"
             /\ \A i \in 1 .. Len(g) :
                  /\ InGroup(g[i], ticks)
                  /\ g[i].event = "UPTIME_HIGH" => i = 2 /\ g[1].event = "UPTIME_LOW"
             /\ Runs(g, from) \in Threads
  <2> DEFINE a == TargetItem("THREAD_CREATE", ticks, t)
             names == [i \in 1 .. NameChunks |->
                         TargetItem("THREAD_NAME", ticks, Chunk(t, i))]
  <2>1. "THREAD_CREATE" \in GroupEvents /\ "THREAD_NAME" \in GroupEvents
        /\ t \in Nat /\ NameChunks \in Nat \ {0}
    BY <1>1, TraceAssumption, WriterAssumption DEF GroupEvents
  <2>2. \A i \in 1 .. NameChunks : Chunk(t, i) \in Nat
    BY <2>1 DEF Chunk
  <2>3. a \in Sendable /\ InGroup(a, ticks) /\ a.event = "THREAD_CREATE"
    BY <2>1, TargetItemType DEF InGroup
  <2>4. \A i \in 1 .. NameChunks : /\ names[i] \in Sendable /\ InGroup(names[i], ticks)
                                   /\ names[i].event = "THREAD_NAME"
    BY <2>1, <2>2, TargetItemType DEF InGroup
  <2>5. g = <<a>> \o names
    BY <1>c DEF Create
  <2>6. names \in Seq(Sendable) /\ Len(names) = NameChunks
    BY <2>1, <2>4
  <2> HIDE DEF a, names
  <2>7. /\ g \in Seq(Sendable) /\ Len(g) = NameChunks + 1 /\ g[1] = a
        /\ \A i \in 2 .. Len(g) : g[i] = names[i - 1]
    BY <2>1, <2>3, <2>5, <2>6
  <2>8. \A i \in 2 .. Len(g) : i - 1 \in 1 .. NameChunks
    BY <2>1, <2>7
  <2>9. \A i \in 1 .. Len(g) : /\ InGroup(g[i], ticks)
                               /\ g[i].event \in {"THREAD_CREATE", "THREAD_NAME"}
    <3> SUFFICES ASSUME NEW i \in 1 .. Len(g)
                 PROVE  /\ InGroup(g[i], ticks)
                        /\ g[i].event \in {"THREAD_CREATE", "THREAD_NAME"}
      OBVIOUS
    <3>1. CASE i = 1
      BY <3>1, <2>3, <2>7
    <3>2. CASE i # 1
      <4>1. i \in 2 .. Len(g)
        BY <3>2, <2>7
      <4> QED BY <4>1, <2>4, <2>7, <2>8
    <3> QED BY <3>1, <3>2
  <2>10. Runs(g, from) = from
    <3>1. Head(g) = a
      BY <2>7
    <3> QED BY <3>1, <2>3 DEF Runs
  <2> QED BY <2>1, <2>3, <2>7, <2>9, <2>10
<1> QED BY <1>a, <1>b, <1>c DEF Groups

-----------------------------------------------------------------------------
(* The storage of a processor after a step.                                *)
Grows(c, item) ==
  /\ item.event \notin {"PROCESSOR_MAXIMUM", "TIME_ADJUSTMENT"}
  /\ \E x \in Item : /\ x.event = item.event
                     /\ items' = [items EXCEPT ![c] = Append(@, x)]

LEMMA HoldBackGrows ==
  ASSUME TypeOK, NEW c \in CPU, NEW caps, NEW item \in Item,
         HoldBack(c, caps, item), item.event \notin {"PROCESSOR_MAXIMUM", "TIME_ADJUSTMENT"}
  PROVE  items' = items \/ Grows(c, item)
<1>1. Number(c, item) \in Item /\ Number(c, item).event = item.event
  BY NumberType, NumberSame
<1>2. items' = items \/ items' = [items EXCEPT ![c] = Append(items[c], Number(c, item))]
  BY HoldBackCases
<1> QED BY <1>1, <1>2 DEF Grows

LEMMA PassOnGrows ==
  ASSUME TypeOK, NEW c \in CPU, NEW h, NEW item \in Item, PassOn(c, h, item),
         item.event \notin {"PROCESSOR_MAXIMUM", "TIME_ADJUSTMENT"}
  PROVE  items' = items \/ Grows(c, item)
  BY HoldBackGrows DEF PassOn, Deliver

LEMMA VisitGrows ==
  ASSUME TypeOK, NEW item \in Sendable, Visit(item)
  PROVE  items' = items \/ \E c \in CPU : Grows(c, item)
<1>1. item \in Item /\ item.data \in Nat /\ item.event # "TIME_ADJUSTMENT"
  BY SendableType DEF Item, OwnEvents
<1>2. cpu \in CPU /\ cpuCount \in 0 .. MaxCpu
  BY DEF TypeOK
<1>a. CASE VisitProcessor(item)
  <2>1. CASE item.data >= cpuCount
    BY <1>a, <2>1 DEF VisitProcessor, Error, store
  <2>2. CASE ~(item.data >= cpuCount)
    <3>1. item.data \in CPU
      BY <1>1, <1>2, <2>2, RecordAssumption DEF CPU
    <3>2. PassOn(item.data, hold[cpu], item) /\ item.event # "PROCESSOR_MAXIMUM"
      BY <1>a, <2>2 DEF VisitProcessor
    <3> QED BY <1>1, <3>1, <3>2, PassOnGrows
  <2> QED BY <2>1, <2>2
<1>b. CASE VisitUptimeLow(item) \/ VisitFrequency(item) \/ VisitOther(item)
  <2>1. PassOn(cpu, hold[cpu], item)
    BY <1>b DEF VisitUptimeLow, VisitFrequency, VisitOther
  <2>2. item.event # "PROCESSOR_MAXIMUM"
    BY <1>b, RecordAssumption
       DEF VisitUptimeLow, VisitFrequency, VisitOther, NoTimeEvents, ClientEvents
  <2> QED BY <1>1, <1>2, <2>1, <2>2, PassOnGrows
<1>c. CASE VisitUptimeHigh(item)
  <2>1. PassOn(cpu, hold[cpu], item) \/ items' = items
    BY <1>c DEF VisitUptimeHigh, Deliver
  <2>2. item.event # "PROCESSOR_MAXIMUM"
    BY <1>c DEF VisitUptimeHigh
  <2> QED BY <1>1, <1>2, <2>1, <2>2, PassOnGrows
<1>d. CASE VisitProcessorMaximum(item) \/ VisitVersion(item)
  BY <1>d DEF VisitProcessorMaximum, VisitVersion, Error, Deliver, store
<1>e. CASE VisitPerCpuCount(item)
  <2>1. items' = items \/ \E caps : HoldBack(cpu, caps, item)
    <3>1. CASE perCpuItems # 0 \/ cpuCount = 0
      BY <1>e, <3>1 DEF VisitPerCpuCount, Error, store
    <3>2. CASE ~(perCpuItems # 0 \/ cpuCount = 0)
      BY <1>e, <3>2, PerCpuCountCases
    <3> QED BY <3>1, <3>2
  <2>2. item.event # "PROCESSOR_MAXIMUM"
    BY <1>e DEF VisitPerCpuCount
  <2> QED BY <1>1, <1>2, <2>1, <2>2, HoldBackGrows
<1>f. CASE VisitPerCpuOverflow(item)
  <2>1. HoldBack(cpu, capacity, item) /\ item.event # "PROCESSOR_MAXIMUM"
    BY <1>f DEF VisitPerCpuOverflow
  <2> QED BY <1>1, <1>2, <2>1, HoldBackGrows
<1> QED BY <1>a, <1>b, <1>c, <1>d, <1>e, <1>f DEF Visit

LEMMA LoopShrinks ==
  ASSUME Loop \/ Destroy
  PROVE  items' = items \/ items' = [items EXCEPT ![cpu] = <<>>]
  BY DEF Loop, Destroy, Scan, Rewind, Replay, Resolved, ResetHoldBack, Drain,
         Forward, BestEffort, store

-----------------------------------------------------------------------------
\* What the target does is a visit of an item that a server may send.
TargetTypes ==
  /\ clock' \in [CPU -> 1 .. MaxClock] /\ running' \in [CPU -> Threads]
  /\ overflows' \in 0 .. MaxOverflows /\ turns' \in 0 .. MaxTurns
  /\ torn' \subseteq CPU /\ rest' \in [CPU -> Seq(Sendable)]

LEMMA TargetVisits ==
  ASSUME TraceTyped, Target
  PROVE  TargetTypes /\ \E item \in Sendable : Visit(item)
<1>1. /\ cpu \in CPU /\ clock \in [CPU -> 1 .. MaxClock] /\ running \in [CPU -> Threads]
      /\ overflows \in 0 .. MaxOverflows /\ turns \in 0 .. MaxTurns
      /\ torn \subseteq CPU /\ rest \in [CPU -> Seq(Sendable)]
      /\ rest[cpu] \in Seq(Sendable) /\ running[cpu] \in Threads
      /\ clock[cpu] \in 1 .. MaxClock
  BY DEF TraceTyped, TraceTypeOK, TypeOK
<1>2. MaxClock \in Nat /\ MaxOverflows \in Nat /\ MaxTurns \in Nat
  BY TraceAssumption
<1>a. CASE Send
  <2>1. Head(rest[cpu]) \in Sendable /\ Tail(rest[cpu]) \in Seq(Sendable)
    BY <1>a, <1>1 DEF Send
  <2>2. TargetTypes
    BY <1>a, <1>1, <2>1 DEF Send, TargetTypes
  <2> QED BY <1>a, <2>1, <2>2 DEF Send
<1>b. ASSUME NEW d \in Ticks, Record(d)
      PROVE  TargetTypes /\ \E item \in Sendable : Visit(item)
  <2>1. d \in Nat
    BY TraceAssumption, RecordAssumption
  <2>2. /\ clock' = [clock EXCEPT ![cpu] = @ + d]
        /\ clock[cpu] + d \in 1 .. MaxClock
    BY <1>b, <1>1, <1>2, <2>1 DEF Record
  <2>3. clock' \in [CPU -> 1 .. MaxClock] /\ clock'[cpu] \in Nat
    BY <1>1, <2>2
  <2>4. PICK g \in Groups(clock'[cpu], running[cpu]) :
          /\ Visit(Head(g))
          /\ rest' = [rest EXCEPT ![cpu] = Tail(g)]
          /\ running' = [running EXCEPT ![cpu] = Runs(g, running[cpu])]
    BY <1>b, <1>1 DEF Record
  <2>5. g \in Seq(Sendable) /\ Len(g) >= 2 /\ Runs(g, running[cpu]) \in Threads
    BY <1>1, <2>3, GroupShape
  <2>6. Head(g) \in Sendable /\ Tail(g) \in Seq(Sendable)
    BY <2>5
  <2>7. UNCHANGED <<overflows, turns, torn>>
    BY <1>b DEF Record
  <2>8. TargetTypes
    BY <1>1, <2>3, <2>4, <2>5, <2>6, <2>7 DEF TargetTypes
  <2> QED BY <2>4, <2>6, <2>8
<1>c. ASSUME NEW c \in CPU, TurnTo(c)
      PROVE  TargetTypes /\ \E item \in Sendable : Visit(item)
  <2>1. TargetItem("PROCESSOR", 0, c) \in Sendable
    <3>1. c \in Nat
      BY DEF CPU
    <3> QED BY <3>1, TargetItemType
  <2>2. TargetTypes
    BY <1>c, <1>1, <1>2 DEF TurnTo, TargetTypes
  <2> QED BY <1>c, <2>1, <2>2 DEF TurnTo
<1>d. ASSUME NEW d \in Gaps, Overflow(d)
      PROVE  TargetTypes /\ \E item \in Sendable : Visit(item)
  <2>1. d \in Nat
    BY TraceAssumption
  <2>2. /\ clock' = [clock EXCEPT ![cpu] = @ + d]
        /\ clock[cpu] + d \in 1 .. MaxClock
    BY <1>d, <1>1, <1>2, <2>1 DEF Overflow
  <2>3. clock' \in [CPU -> 1 .. MaxClock] /\ clock'[cpu] \in Nat
    BY <1>1, <2>2
  <2>q. PICK from \in Threads :
          \E g \in Groups(clock'[cpu], from), cut \in BOOLEAN :
            /\ running' = [running EXCEPT ![cpu] = Runs(g, from)]
            /\ rest' = [rest EXCEPT ![cpu] = IF cut THEN Tail(g) ELSE g]
            /\ torn' = IF cut /\ g[2].event = "UPTIME_HIGH" /\ low[cpu] # NoLow
                         THEN torn \cup {cpu} ELSE torn
    BY <1>d DEF Overflow
  <2>4. PICK g \in Groups(clock'[cpu], from), cut \in BOOLEAN :
          /\ running' = [running EXCEPT ![cpu] = Runs(g, from)]
          /\ rest' = [rest EXCEPT ![cpu] = IF cut THEN Tail(g) ELSE g]
          /\ torn' = IF cut /\ g[2].event = "UPTIME_HIGH" /\ low[cpu] # NoLow
                       THEN torn \cup {cpu} ELSE torn
    BY <2>q
  <2>5. g \in Seq(Sendable) /\ Len(g) >= 2 /\ Runs(g, from) \in Threads
    BY <2>3, GroupShape
  <2>6. (IF cut THEN Tail(g) ELSE g) \in Seq(Sendable)
    BY <2>5
  <2>7. overflows' \in 0 .. MaxOverflows /\ turns' = turns
    BY <1>d, <1>1, <1>2 DEF Overflow
  <2>8. /\ running' \in [CPU -> Threads] /\ rest' \in [CPU -> Seq(Sendable)]
        /\ torn' \subseteq CPU
    BY <1>1, <2>4, <2>5, <2>6
  <2>9. TargetTypes
    BY <1>1, <2>3, <2>7, <2>8 DEF TargetTypes
  <2>10. TargetItem("PER_CPU_OVERFLOW", 0, 0) \in Sendable
    BY TargetItemType
  <2>11. Visit(TargetItem("PER_CPU_OVERFLOW", 0, 0))
    BY <1>d DEF Overflow
  <2> QED BY <2>9, <2>10, <2>11
<1> QED BY <1>a, <1>b, <1>c, <1>d DEF Target

LEMMA HistoryType ==
  ASSUME TypeOK, TypeOK', TraceTyped, clock' \in [CPU -> 1 .. MaxClock], History,
         \A c \in CPU : \/ items'[c] = items[c] \/ items'[c] = <<>>
                        \/ \E x \in Item : items'[c] = Append(items[c], x)
  PROVE  /\ truth' \in [CPU -> Seq(Nat)] /\ lost' \in [CPU -> Nat]
         /\ \A c \in CPU : /\ Len(truth'[c]) = Len(items'[c])
                           /\ lost'[c] <= Len(items'[c])
<1>1. /\ truth \in [CPU -> Seq(Nat)] /\ lost \in [CPU -> Nat]
      /\ items \in [CPU -> Seq(Item)] /\ items' \in [CPU -> Seq(Item)]
      /\ \A c \in CPU : Len(truth[c]) = Len(items[c]) /\ lost[c] <= Len(items[c])
  BY DEF TraceTyped, TraceTypeOK, TypeOK
<1>2. \A c \in CPU : /\ truth'[c] \in Seq(Nat) /\ Len(truth'[c]) = Len(items'[c])
                     /\ lost'[c] \in Nat /\ lost'[c] <= Len(items'[c])
  <2> SUFFICES ASSUME NEW c \in CPU
               PROVE  /\ truth'[c] \in Seq(Nat) /\ Len(truth'[c]) = Len(items'[c])
                      /\ lost'[c] \in Nat /\ lost'[c] <= Len(items'[c])
    OBVIOUS
  <2> DEFINE s == items[c]
             t == items'[c]
  <2>1. truth[c] \in Seq(Nat) /\ Len(truth[c]) = Len(s) /\ s \in Seq(Item)
        /\ clock'[c] \in Nat /\ lost[c] \in Nat /\ lost[c] <= Len(s)
        /\ t \in Seq(Item)
    BY <1>1
  <2>2. /\ truth'[c] = CASE Len(t) > Len(s) -> Append(truth[c], clock'[c])
                         [] t = <<>> -> <<>>
                         [] OTHER -> truth[c]
        /\ lost'[c] = CASE t = <<>> -> 0
                        [] t # <<>> /\ overflows' > overflows /\ c = cpu -> Len(s)
                        [] OTHER -> lost[c]
    BY DEF History
  <2>3. t = s \/ t = <<>> \/ \E x \in Item : t = Append(s, x)
    OBVIOUS
  <2> HIDE DEF s, t
  <2>4. CASE t = <<>>
    <3>1. ~(Len(t) > Len(s)) /\ Len(t) = 0
      BY <2>1, <2>4
    <3>2. truth'[c] = <<>> /\ lost'[c] = 0
      BY <2>2, <2>4, <3>1
    <3> QED BY <3>1, <3>2 DEF t
  <2>5. CASE t = s /\ t # <<>>
    <3>1. ~(Len(t) > Len(s))
      BY <2>1, <2>5
    <3>2. truth'[c] = truth[c] /\ lost'[c] \in {Len(s), lost[c]}
      BY <2>2, <2>5, <3>1
    <3> QED BY <3>2, <2>1, <2>5 DEF t
  <2>6. CASE \E x \in Item : t = Append(s, x)
    <3>0. PICK x \in Item : t = Append(s, x)
      BY <2>6
    <3>1. Len(t) = Len(s) + 1 /\ Len(s) \in Nat /\ t # <<>>
      BY <3>0, <2>1
    <3>2. truth'[c] = Append(truth[c], clock'[c]) /\ lost'[c] \in {Len(s), lost[c]}
      BY <2>2, <3>1
    <3> QED BY <3>1, <3>2, <2>1 DEF t
  <2> QED BY <2>3, <2>4, <2>5, <2>6
<1>3. /\ truth' = [c \in CPU |-> truth'[c]]
      /\ lost' = [c \in CPU |-> lost'[c]]
  BY DEF History
<1> QED BY <1>2, <1>3

-----------------------------------------------------------------------------
\* Nothing has a time before PROCESSOR_MAXIMUM.
LEMMA UnopenedVisit ==
  ASSUME IInv, Opened, scaler' \in Nat \ {0}, cpuCount' = 0,
         NEW item \in Sendable, Visit(item)
  PROVE  \A c \in CPU : lastBt'[c] = 0 /\ uptime'[c] = NoUptime
<1>1. /\ item \in Item /\ item.data \in Nat /\ cpu \in CPU
      /\ uptime \in [CPU -> Uptime] /\ lastBt \in [CPU -> Bt]
  BY SendableType DEF Item, IInv, TypeOK
<1>2. cpuCount = 0
  <2>1. CASE item.event = "PROCESSOR_MAXIMUM"
    <3>1. VisitProcessorMaximum(item)
      BY <2>1, RecordAssumption
         DEF Visit, VisitProcessor, VisitUptimeLow, VisitUptimeHigh, VisitPerCpuCount,
             VisitPerCpuOverflow, VisitFrequency, VisitVersion, VisitOther,
             NoTimeEvents, ClientEvents
    <3> QED BY <1>1, <3>1 DEF VisitProcessorMaximum, Error, header
  <2>2. CASE item.event # "PROCESSOR_MAXIMUM"
    BY <2>2 DEF Visit, VisitProcessor, VisitUptimeLow, VisitUptimeHigh,
                VisitProcessorMaximum, VisitPerCpuCount, VisitPerCpuOverflow,
                VisitFrequency, VisitVersion, VisitOther, Error, header
  <2> QED BY <2>1, <2>2
<1>3. perCpuItems = 0
  BY <1>2 DEF IInv, StorageInv
<1>4. item.event \in {"VERSION", "PROCESSOR_MAXIMUM", "PER_CPU_COUNT"}
  BY <1>3 DEF Visit, HeaderFirst
<1>5. \A c \in CPU : lastBt[c] = 0 /\ uptime[c] = NoUptime
  BY <1>2 DEF Opened
<1>a. CASE item.event = "PROCESSOR_MAXIMUM"
  <2>1. VisitProcessorMaximum(item)
    BY <1>a, RecordAssumption
       DEF Visit, VisitProcessor, VisitUptimeLow, VisitUptimeHigh, VisitPerCpuCount,
           VisitPerCpuOverflow, VisitFrequency, VisitVersion, VisitOther,
           NoTimeEvents, ClientEvents
  <2> QED BY <1>1, <1>5, <2>1 DEF VisitProcessorMaximum, Error
<1>b. CASE item.event = "PER_CPU_COUNT"
  <2>1. VisitPerCpuCount(item)
    BY <1>b, RecordAssumption
       DEF Visit, VisitProcessor, VisitUptimeLow, VisitUptimeHigh,
           VisitProcessorMaximum, VisitPerCpuOverflow, VisitFrequency, VisitVersion,
           VisitOther, NoTimeEvents, ClientEvents
  <2> QED BY <1>2, <1>3, <1>5, <2>1 DEF VisitPerCpuCount, Error
<1>c. CASE item.event = "VERSION"
  <2>1. VisitVersion(item)
    BY <1>c, RecordAssumption
       DEF Visit, VisitProcessor, VisitUptimeLow, VisitUptimeHigh,
           VisitProcessorMaximum, VisitPerCpuCount, VisitPerCpuOverflow,
           VisitFrequency, VisitOther, NoTimeEvents, ClientEvents
  <2>2. CASE item.data # TheVersion
    BY <1>5, <2>1, <2>2 DEF VisitVersion, Error
  <2>3. CASE item.data = TheVersion
    <3> DEFINE x == Number(cpu, item)
    <3>1. CallHandler(cpu, NoUptime, x)
      BY <1>1, <1>5, <2>1, <2>3 DEF VisitVersion, Deliver
    <3>2. x.event = "VERSION"
      BY <1>1, <1>c, NumberSame
    <3> HIDE DEF x
    <3>3. Tick(NoUptime, x) = NoUptime
      BY <3>2 DEF Tick, HasTime, NoTimeEvents, ClientEvents
    <3>4. BtOf(NoUptime, scaler') = 0
      <4>1. BtMod \in Nat \ {0}
        BY RecordAssumption
      <4>2. 0 % BtMod = 0 /\ 0 % SpanMod = 0
        BY <4>1, RecordAssumption
      <4>3. \A n \in Nat : 0 * n = 0
        OBVIOUS
      <4>4. Span(0, scaler') = 0
        BY <4>2, <4>3 DEF Span
      <4> QED BY <4>2, <4>4 DEF BtOf, NoUptime
    <3>5. /\ uptime' = [uptime EXCEPT ![cpu] = NoUptime]
          /\ lastBt' = [lastBt EXCEPT ![cpu] = IF 0 >= @ THEN 0 ELSE @]
      BY <3>1, <3>3, <3>4 DEF CallHandler
    <3> QED BY <1>1, <1>5, <3>5
  <2> QED BY <2>2, <2>3
<1> QED BY <1>4, <1>a, <1>b, <1>c

(* What describes the stream: four items without a time stamp.             *)
HeaderEvents == {"VERSION", "PROCESSOR_MAXIMUM", "PER_CPU_COUNT", "FREQUENCY"}

LEMMA HeaderShape ==
  /\ HeaderItems \in Seq(Sendable) /\ Len(HeaderItems) = 4
  /\ \A i \in 1 .. 4 : /\ HeaderItems[i].event \in HeaderEvents
                       /\ HeaderItems[i].event = "FREQUENCY" <=> i = 4
  /\ HeaderItems[4].data = Scale
<1>1. /\ MaxCpu \in Nat \ {0} /\ HoldLimit \in Nat \ {0} /\ Scale \in Nat \ {0}
      /\ TheVersion \in Nat
  BY RecordAssumption, TraceAssumption
<1>2. \A event \in HeaderEvents \ {"PER_CPU_COUNT"}, data \in Nat \ {0} :
        /\ TargetItem(event, 0, data) \in Sendable
        /\ TargetItem(event, 0, data).event = event
        /\ TargetItem(event, 0, data).data = data
  BY TimedEvents, RecordAssumption
     DEF TargetItem, Sendable, Events, NoTimeEvents, ClientEvents, OwnEvents, Time,
         HeaderEvents
<1>7. HoldLimit % CountMod > 0
  <2>1. CountMod \in Nat \ {0} /\ HoldLimit \in 0 .. CountMod - 1
    BY RecordAssumption
  <2>2. HoldLimit % CountMod = HoldLimit
    BY <2>1, ModSmall
  <2> QED BY <1>1, <2>2
<1>8. /\ TargetItem("PER_CPU_COUNT", 0, HoldLimit) \in Sendable
      /\ TargetItem("PER_CPU_COUNT", 0, HoldLimit).event = "PER_CPU_COUNT"
  BY <1>1, <1>7, TimedEvents, RecordAssumption
     DEF TargetItem, Sendable, Events, NoTimeEvents, ClientEvents, OwnEvents, Time
<1>3. \A event \in {"VERSION", "PROCESSOR_MAXIMUM"}, data \in Nat :
        /\ TargetItem(event, 0, data) \in Sendable
        /\ TargetItem(event, 0, data).event = event
  BY TimedEvents, RecordAssumption
     DEF TargetItem, Sendable, Events, NoTimeEvents, ClientEvents, OwnEvents, Time
<1>4. MaxCpu - 1 \in Nat
  BY <1>1
<1> DEFINE a == TargetItem("VERSION", 0, TheVersion)
           b == TargetItem("PROCESSOR_MAXIMUM", 0, MaxCpu - 1)
           c == TargetItem("PER_CPU_COUNT", 0, HoldLimit)
           d == TargetItem("FREQUENCY", 0, Scale)
<1>5. /\ a \in Sendable /\ a.event = "VERSION"
      /\ b \in Sendable /\ b.event = "PROCESSOR_MAXIMUM"
      /\ c \in Sendable /\ c.event = "PER_CPU_COUNT"
      /\ d \in Sendable /\ d.event = "FREQUENCY" /\ d.data = Scale
  BY <1>1, <1>2, <1>3, <1>4, <1>8 DEF HeaderEvents
<1>6. HeaderItems = <<a, b, c, d>>
  BY DEF HeaderItems
<1> HIDE DEF a, b, c, d
<1> QED BY <1>5, <1>6 DEF HeaderEvents

(* The invariant that gives PacketsHold.                                   *)
LEMMA PacketInit == TraceInit => PacketInv
<1> SUFFICES ASSUME TraceInit PROVE PacketInv
  OBVIOUS
<1>1. IInv
  BY InitInvariant DEF TraceInit
<1>2. /\ MaxCpu \in Nat \ {0} /\ HoldLimit \in Nat \ {0} /\ Scale \in Nat \ {0}
      /\ TheVersion \in Nat /\ MaxClock \in Nat \ {0}
      /\ MaxOverflows \in Nat /\ MaxTurns \in Nat /\ IdleThreads \subseteq Threads
  BY RecordAssumption, TraceAssumption
<1>3. writer \in Writer /\ writer.files = 0
      /\ \A c \in CPU : writer.cpus[c].begin = 0 /\ writer.cpus[c].end = 0
  <2>1. NewCpu \in Context /\ NewCpu.begin = 0 /\ NewCpu.end = 0
    BY NoSwitchType DEF NewCpu, Context
  <2>2. NoName \in Names
    BY WriterAssumption DEF NoName, Names
  <2>3. <<>> \in Seq(Written)
    OBVIOUS
  <2> QED BY <2>1, <2>2, <2>3 DEF TraceInit, NewWriter, Writer
<1>4. HeaderItems \in Seq(Sendable)
  BY HeaderShape
<1>5. rest \in [CPU -> Seq(Sendable)]
  BY <1>4 DEF TraceInit
<1>6. truth \in [CPU -> Seq(Nat)] /\ lost \in [CPU -> Nat]
      /\ \A c \in CPU : Len(truth[c]) = Len(items[c]) /\ lost[c] <= Len(items[c])
  BY DEF TraceInit, Init
<1>7. clock \in [CPU -> 1 .. MaxClock] /\ running \in [CPU -> Threads]
      /\ overflows \in 0 .. MaxOverflows /\ turns \in 0 .. MaxTurns /\ torn \subseteq CPU
  BY <1>2 DEF TraceInit
<1>8. TraceTyped
  BY <1>1, <1>3, <1>5, <1>6, <1>7 DEF IInv, TraceTyped, TraceTypeOK, TraceInit, Init
<1>9. Ns(0) = 0
  BY WriterAssumption DEF Ns
<1>10. Opened /\ Packets
  BY <1>3, <1>9 DEF Opened, Packets, TraceInit, Init
<1> QED BY <1>1, <1>8, <1>10 DEF PacketInv

LEMMA PacketStutter == ASSUME PacketInv, UNCHANGED traceVars PROVE PacketInv'
<1>1. UNCHANGED vars
  BY DEF traceVars
<1>2. IInv'
  BY <1>1, StutterInvariant DEF PacketInv
<1>3. TraceTyped' /\ Opened' /\ Packets'
  BY <1>1, <1>2 DEF PacketInv, IInv, TraceTyped, TraceTypeOK, Opened, Packets, traceVars,
                    target, vars, header, store
<1> QED BY <1>2, <1>3 DEF PacketInv

\* A step of the target or of the client keeps it.
LEMMA PacketNext ==
  ASSUME PacketInv, TraceNext PROVE PacketInv' /\ PacketStep
<1> USE DEF PacketInv
<1>1. \/ (\E item \in Sendable : Visit(item)) /\ TargetTypes
      \/ (Loop \/ Destroy) /\ UNCHANGED target
  BY TargetVisits DEF TraceNext
<1>2. TargetTypes
  BY <1>1 DEF TargetTypes, TraceTyped, TraceTypeOK, target
<1>3. IInv' /\ TypeOK /\ TypeOK'
  BY <1>1, StepInvariant DEF IInv
<1>4. Silent \/ CallsOnce
  BY <1>1, <1>3, VisitCalls, LoopCalls
<1>5. \/ items' = items \/ items' = [items EXCEPT ![cpu] = <<>>]
      \/ \E c \in CPU, item \in Sendable : Grows(c, item)
  BY <1>1, <1>3, VisitGrows, LoopShrinks
<1>6. items \in [CPU -> Seq(Item)] /\ scaler' \in Nat \ {0} /\ cpu \in CPU
      /\ lastBt \in [CPU -> Bt] /\ uptime \in [CPU -> Uptime]
  BY <1>3 DEF TypeOK
<1>7. \A c \in CPU : \/ items'[c] = items[c] \/ items'[c] = <<>>
                     \/ \E x \in Item :
                          /\ x.event \notin {"PROCESSOR_MAXIMUM", "TIME_ADJUSTMENT"}
                          /\ items'[c] = Append(items[c], x)
  BY <1>5, <1>6 DEF Grows
<1>8. History /\ Handler
  BY DEF TraceNext
<1>9. /\ truth' \in [CPU -> Seq(Nat)] /\ lost' \in [CPU -> Nat]
      /\ \A c \in CPU : /\ Len(truth'[c]) = Len(items'[c])
                        /\ lost'[c] <= Len(items'[c])
  <2>1. clock' \in [CPU -> 1 .. MaxClock]
    BY <1>2 DEF TargetTypes
  <2> QED BY <1>3, <1>7, <1>8, <2>1, HistoryType
<1>10. /\ writer' \in Writer /\ writer'.files = cpuCount'
       /\ Packets' /\ PacketStep
  <2>1. CASE CallsOnce
    BY <1>3, <1>6, <1>8, <2>1, HandsPackets DEF CallsOnce
  <2>2. CASE Silent
    <3>1. writer' = [writer EXCEPT !.written = <<>>]
      BY <1>8, <2>2 DEF Silent, Handler
    <3>2. <<>> \in Seq(Written)
      OBVIOUS
    <3>3. /\ writer' \in Writer /\ writer'.files = writer.files
          /\ writer'.cpus = writer.cpus /\ writer'.written = <<>>
      BY <3>1, <3>2 DEF TraceTyped, Writer
    <3>4. /\ UNCHANGED <<lastBt, cpuCount>> /\ writer.files = cpuCount
          /\ writer.cpus \in [CPU -> Context]
      BY <2>2 DEF Silent, TraceTyped, TraceTypeOK, Writer
    <3>5. Packets'
      BY <3>3, <3>4 DEF Packets
    <3>6. \A c \in CPU : writer.cpus[c].end \in Nat
      BY <3>4 DEF Context
    <3>7. PacketStep
      BY <3>3, <3>4, <3>6 DEF PacketStep
    <3> QED BY <3>3, <3>4, <3>5, <3>7
  <2> QED BY <1>4, <2>1, <2>2
<1>14. wrapped' \subseteq CPU
  BY <1>8 DEF History, TraceTyped, TraceTypeOK
<1>11. TraceTyped'
  BY <1>2, <1>3, <1>9, <1>10, <1>14 DEF TraceTyped, TraceTypeOK, TargetTypes
<1>12. \A c \in CPU : \A i \in 1 .. Len(items'[c]) :
         items'[c][i].event \notin {"PROCESSOR_MAXIMUM", "TIME_ADJUSTMENT"}
  <2> SUFFICES ASSUME NEW c \in CPU, NEW i \in 1 .. Len(items'[c])
               PROVE  items'[c][i].event \notin {"PROCESSOR_MAXIMUM", "TIME_ADJUSTMENT"}
    OBVIOUS
  <2> DEFINE s == items[c]
             t == items'[c]
  <2>1. s \in Seq(Item) /\ \A j \in 1 .. Len(s) : s[j].event \notin {"PROCESSOR_MAXIMUM", "TIME_ADJUSTMENT"}
    BY <1>6 DEF Opened
  <2>2. \/ t = s \/ t = <<>>
        \/ \E x \in Item : /\ x.event \notin {"PROCESSOR_MAXIMUM", "TIME_ADJUSTMENT"}
                         /\ t = Append(s, x)
    BY <1>7
  <2> HIDE DEF s, t
  <2>3. \A j \in 1 .. Len(t) : t[j].event \notin {"PROCESSOR_MAXIMUM", "TIME_ADJUSTMENT"}
    BY <2>1, <2>2
  <2> QED BY <2>3 DEF t
<1>13. cpuCount' = 0 => \A c \in CPU : lastBt'[c] = 0 /\ uptime'[c] = NoUptime
  <2> SUFFICES ASSUME cpuCount' = 0
               PROVE  \A c \in CPU : lastBt'[c] = 0 /\ uptime'[c] = NoUptime
    OBVIOUS
  <2>1. CASE \E item \in Sendable : Visit(item)
    <3>1. PICK item \in Sendable : Visit(item)
      BY <2>1
    <3> QED BY <1>3, <1>6, <3>1, UnopenedVisit
  <2>2. CASE (Loop \/ Destroy) /\ UNCHANGED target
    <3>1. cpuCount = 0
      BY <2>2 DEF Loop, Destroy, Scan, Rewind, Replay, Resolved, Drain, Forward,
                  BestEffort, header
    <3>2. phase \in {"idle", "destroyed"}
      BY <3>1, <1>3 DEF IInv, DrainInv, TypeOK
    <3>3. Destroy
      BY <2>2, <3>2 DEF Loop, Scan, Rewind, Replay, Resolved, Drain, Forward, BestEffort
    <3>4. UNCHANGED <<lastBt, uptime>>
      BY <3>3 DEF Destroy
    <3> QED BY <3>1, <3>4 DEF Opened
  <2> QED BY <1>1, <2>1, <2>2
<1> QED BY <1>3, <1>10, <1>11, <1>12, <1>13 DEF Opened

(* Every event is written to an open file, in the time of its packet.      *)
THEOREM PacketsAreHeld == TraceSpec => PacketsHold
<1>1. TraceInit => PacketInv
  BY PacketInit
<1>2. PacketInv /\ TraceNext => PacketInv' /\ PacketStep
  BY PacketNext
<1>3. PacketInv /\ UNCHANGED traceVars => PacketInv'
  BY PacketStutter
<1>4. PacketInv => TraceTypeOK
  BY DEF PacketInv, TraceTyped
<1>5. PacketInv /\ [TraceNext]_traceVars => PacketInv' /\ [PacketStep]_traceVars
  BY <1>2, <1>3
<1> QED BY <1>1, <1>4, <1>5, PTL DEF TraceSpec, PacketsHold

-----------------------------------------------------------------------------
(* Numbers.                                                                *)
\* Multiples of the modulus do not count.
LEMMA ModShift ==
  ASSUME NEW m \in Nat \ {0}, NEW a \in Int, NEW k \in Int
  PROVE  (a + m * k) % m = a % m
<1> DEFINE q == a \div m
           r == a % m
           b == m * k
<1>1. q \in Int /\ r \in 0 .. m - 1 /\ a = m * q + r
  OBVIOUS
<1>2. m * (q + k) = m * q + b /\ b \in Int /\ m * q \in Int /\ q + k \in Int
  BY <1>1
<1> HIDE DEF q, r, b
<1>3. a + b = m * (q + k) + r /\ a + b \in Int
  BY <1>1, <1>2
<1>4. (a + b) % m = r
  BY <1>1, <1>2, <1>3, ModUnique
<1> QED BY <1>4 DEF r, b

\* What was taken modulo m may be added or subtracted as it is.
LEMMA ModPlus ==
  ASSUME NEW m \in Nat \ {0}, NEW a \in Int, NEW b \in Int
  PROVE  ((a % m) + b) % m = (a + b) % m
<1> DEFINE q == a \div m
           r == a % m
<1>1. q \in Int /\ r \in Int /\ a = m * q + r /\ m * q \in Int
  OBVIOUS
<1> HIDE DEF q, r
<1>2. a + b = (r + b) + m * q /\ r + b \in Int
  BY <1>1
<1>3. ((r + b) + m * q) % m = (r + b) % m
  BY <1>1, <1>2, ModShift
<1> QED BY <1>2, <1>3 DEF r

LEMMA ModMinus ==
  ASSUME NEW m \in Nat \ {0}, NEW a \in Int, NEW b \in Int
  PROVE  ((a % m) - (b % m)) % m = (a - b) % m
<1> DEFINE q == a \div m
           r == a % m
           p == b \div m
           s == b % m
<1>1. /\ q \in Int /\ r \in Int /\ a = m * q + r
      /\ p \in Int /\ s \in Int /\ b = m * p + s
  OBVIOUS
<1>2. m * (q - p) = m * q - m * p /\ m * q \in Int /\ m * p \in Int /\ q - p \in Int
  BY <1>1
<1> HIDE DEF q, r, p, s
<1>3. a - b = (r - s) + m * (q - p) /\ r - s \in Int
  BY <1>1, <1>2
<1>4. ((r - s) + m * (q - p)) % m = (r - s) % m
  BY <1>2, <1>3, ModShift
<1> QED BY <1>3, <1>4 DEF r, s

LEMMA ModAtMost ==
  ASSUME NEW m \in Nat \ {0}, NEW a \in Nat PROVE a % m \in Nat /\ a % m <= a
<1> DEFINE q == a \div m
           r == a % m
<1>1. q \in Int /\ r \in 0 .. m - 1 /\ a = m * q + r
  OBVIOUS
<1> HIDE DEF q, r
<1>2. q >= 0
  <2>1. CASE q < 0
    <3>1. m * q <= -m
      BY <2>1, <1>1
    <3> QED BY <3>1, <1>1
  <2> QED BY <2>1, <1>1
<1>3. m * q >= 0 /\ m * q \in Int
  BY <1>1, <1>2
<1> QED BY <1>1, <1>3 DEF r

\* The time stamps of two times tell how far they are apart.
LEMMA ElapsedTime ==
  ASSUME NEW a \in Nat, NEW b \in Nat
  PROVE  /\ Elapsed(a % TimeMod, b % TimeMod) = (b - a) % TimeMod
         /\ (b - a) % TimeMod \in Nat
         /\ a = b => (b - a) % TimeMod = 0
         /\ a <= b => (b - a) % TimeMod <= b - a
         /\ a <= b /\ b < a + TimeMod => (b - a) % TimeMod = b - a
<1>1. TimeMod \in Nat \ {0} /\ b - a \in Int
  BY RecordAssumption
<1>2. Elapsed(a % TimeMod, b % TimeMod) = (b - a) % TimeMod
  <2>1. Elapsed(a % TimeMod, b % TimeMod) = ((b % TimeMod) - (a % TimeMod)) % TimeMod
    BY DEF Elapsed
  <2>2. a \in Int /\ b \in Int
    OBVIOUS
  <2>3. ((b % TimeMod) - (a % TimeMod)) % TimeMod = (b - a) % TimeMod
    BY <1>1, <2>2, ModMinus
  <2> QED BY <2>1, <2>3
<1>3. (b - a) % TimeMod \in Nat
  BY <1>1, ModRange
<1>4. a <= b => (b - a) % TimeMod <= b - a
  <2>1. a <= b => b - a \in Nat
    OBVIOUS
  <2> QED BY <1>1, <2>1, ModAtMost
<1>5. a <= b /\ b < a + TimeMod => (b - a) % TimeMod = b - a
  <2>1. a <= b /\ b < a + TimeMod => b - a \in 0 .. TimeMod - 1
    BY <1>1
  <2> QED BY <1>1, <2>1, ModSmall
<1>6. a = b => b - a \in 0 .. TimeMod - 1 /\ b - a = 0
  BY <1>1
<1>7. a = b => (b - a) % TimeMod = 0
  BY <1>1, <1>6, ModSmall
<1> QED BY <1>2, <1>3, <1>4, <1>5, <1>7

\* A time of the clock as a binary time: later is more, and it fits.
LEMMA ScaleOrder ==
  ASSUME NEW a \in Nat, NEW b \in Nat, a <= b
  PROVE  /\ a * Scale \in Nat /\ b * Scale \in Nat /\ a * Scale <= b * Scale
         /\ (b - a) * Scale = b * Scale - a * Scale
<1>1. Scale \in Nat
  BY TraceAssumption
<1> DEFINE d == b - a
<1>2. d \in Nat /\ b = a + d
  OBVIOUS
<1> HIDE DEF d
<1>3. b * Scale = a * Scale + d * Scale
  BY <1>1, <1>2
<1>4. d * Scale \in Nat /\ a * Scale \in Nat
  BY <1>1, <1>2
<1> QED BY <1>3, <1>4 DEF d

LEMMA ScaleFits ==
  ASSUME NEW a \in Nat, a <= MaxClock
  PROVE  a * Scale \in Bt /\ (a * Scale) % BtMod = a * Scale
<1>1. MaxClock \in Nat /\ MaxClock * Scale < BtMod /\ BtMod \in Nat \ {0}
  BY TraceAssumption, RecordAssumption
<1>2. a * Scale \in Nat /\ a * Scale <= MaxClock * Scale /\ MaxClock * Scale \in Nat
  BY <1>1, ScaleOrder
<1>3. a * Scale \in 0 .. BtMod - 1
  BY <1>1, <1>2
<1> QED BY <1>1, <1>3, ModSmall DEF Bt

LEMMA SpanNothing == ASSUME NEW s \in Nat PROVE Span(0, s) = 0
<1>1. 0 * s = 0 /\ SpanMod \in Nat \ {0}
  BY RecordAssumption
<1>2. 0 % SpanMod = 0
  BY <1>1
<1> QED BY <1>1, <1>2 DEF Span

\* A span of time that fits into the product is not changed by it.
LEMMA SpanFits ==
  ASSUME NEW n \in Nat, n * Scale < SpanMod
  PROVE  Span(n, Scale) = n * Scale
<1>1. SpanMod \in Nat \ {0} /\ Scale \in Nat
  BY RecordAssumption, TraceAssumption
<1>2. n * Scale \in 0 .. SpanMod - 1
  BY <1>1
<1> QED BY <1>1, <1>2, ModSmall DEF Span

(* The uptime of an item with a time stamp, if the last one was at a.      *)
LEMMA TickTime ==
  ASSUME NEW u \in Uptime, NEW item \in Item, HasTime(item.event),
         NEW a \in Nat, NEW b \in Nat, NEW z \in Nat,
         u.last = a % TimeMod, item.time = b % TimeMod,
         BtOf(u, Scale) = z * Scale, z + ((b - a) % TimeMod) <= MaxClock,
         Tick(u, item).acc * Scale < SpanMod
  PROVE  /\ Tick(u, item).last = b % TimeMod
         /\ BtOf(Tick(u, item), Scale) = (z + ((b - a) % TimeMod)) * Scale
<1> DEFINE g == (b - a) % TimeMod
           x == u.bt + u.acc * Scale
           v == Tick(u, item)
<1>1. g \in Nat /\ Elapsed(u.last, item.time) = g
  BY ElapsedTime
<1>2. Scale \in Nat /\ BtMod \in Nat \ {0}
  BY TraceAssumption, RecordAssumption
<1>3. u.bt \in Nat /\ u.acc \in Nat
  BY DEF Uptime, Bt
<1>4. v = [bt |-> u.bt, last |-> item.time, acc |-> u.acc + g]
  BY <1>1 DEF Tick
<1> HIDE DEF g
<1>6. /\ g * Scale \in Nat /\ u.acc * Scale \in Nat
      /\ (u.acc + g) * Scale = u.acc * Scale + g * Scale
      /\ (z + g) * Scale = z * Scale + g * Scale
  BY <1>1, <1>2, <1>3
<1>12. v.acc = u.acc + g /\ u.acc + g \in Nat
  BY <1>1, <1>3, <1>4
<1>13. (u.acc + g) * Scale < SpanMod /\ u.acc * Scale < SpanMod
  <2>1. (u.acc + g) * Scale < SpanMod
    BY <1>12
  <2> QED BY <2>1, <1>6, RecordAssumption
<1>14. Span(u.acc + g, Scale) = (u.acc + g) * Scale /\ Span(u.acc, Scale) = u.acc * Scale
  BY <1>3, <1>12, <1>13, SpanFits
<1>5. /\ v.last = b % TimeMod
      /\ BtOf(v, Scale) = (u.bt + (u.acc + g) * Scale) % BtMod
  BY <1>4, <1>14 DEF BtOf
<1> HIDE DEF v
<1>7. x \in Int /\ u.bt + (u.acc + g) * Scale = x + g * Scale
  BY <1>3, <1>6
<1>8. x % BtMod = z * Scale
  BY <1>14 DEF BtOf
<1> HIDE DEF x
<1>9. (x + g * Scale) % BtMod = ((x % BtMod) + g * Scale) % BtMod
  <2> DEFINE y == g * Scale
  <2>1. y \in Int
    BY <1>6
  <2> HIDE DEF y
  <2>2. ((x % BtMod) + y) % BtMod = (x + y) % BtMod
    BY <1>2, <1>7, <2>1, ModPlus
  <2> QED BY <2>2 DEF y
<1>10. z + g \in Nat /\ z + g <= MaxClock
  BY <1>1 DEF g
<1>11. ((z + g) * Scale) % BtMod = (z + g) * Scale
  BY <1>10, ScaleFits
<1> QED BY <1>5, <1>6, <1>7, <1>8, <1>9, <1>11 DEF v, g

-----------------------------------------------------------------------------
(* What visit() makes of an item: it fails, or the item is held back or    *)
(* handed over, or the held back items get their times.                    *)
NotTaken == /\ out' = <<>> /\ status' # "SUCCESS"
           /\ UNCHANGED <<uptime, lastBt, phase>>

KeptBack(p, item) ==
  /\ out' = <<>> /\ UNCHANGED <<uptime, lastBt, phase, walk, passed>>
  /\ items' = [items EXCEPT ![p] = Append(@, Number(p, item))]
  /\ Count(p, item)
  /\ item.event # "PROCESSOR" => p = cpu /\ hold'[cpu]
  /\ hold' = IF item.event = "PER_CPU_OVERFLOW" THEN [hold EXCEPT ![cpu] = TRUE]
                                                ELSE hold

Base(item) == [bt |-> (item.data * LowMod + low[cpu]) % BtMod,
               last |-> item.time, acc |-> 0]

HandedOver(p, u, item) ==
  /\ CallHandler(p, u, Number(p, item)) /\ Count(p, item)
  /\ UNCHANGED <<items, hold, phase, walk>>
  /\ item.event # "PER_CPU_OVERFLOW"
  /\ \/ u = uptime[p] /\ ((p = cpu /\ ~hold[cpu]) \/ item.event \in OutOfBand)
     \/ /\ u = Base(item) /\ p = cpu /\ ~hold[cpu]
        /\ item.event = "UPTIME_HIGH" /\ low[cpu] # NoLow

Begun(item) ==
  /\ item.event = "UPTIME_HIGH" /\ low[cpu] # NoLow /\ hold[cpu]
  /\ phase' = "scan"
  /\ walk' = [index |-> Len(items[cpu]), last |-> item.time, acc |-> 0,
              saved |-> Base(item), high |-> item]
  /\ uptime' = [uptime EXCEPT ![cpu] = Base(item)]
  /\ out' = <<>>
  /\ UNCHANGED <<status, lastBt, items, hold, given, passed>>

Effect(item) ==
  \/ NotTaken
  \/ \E p \in CPU : KeptBack(p, item) \/ \E u \in Uptime : HandedOver(p, u, item)
  \/ Begun(item)

Switch(item) ==
  /\ scaler' = IF item.event = "FREQUENCY" THEN item.data ELSE scaler
  /\ low' = CASE item.event = "UPTIME_LOW" -> [low EXCEPT ![cpu] = item.data % LowMod]
              [] item.event = "UPTIME_HIGH" -> [low EXCEPT ![cpu] = NoLow]
              [] OTHER -> low
  /\ item.event # "PROCESSOR" => cpu' = cpu

LEMMA HoldBackEffect ==
  ASSUME TypeOK, NEW caps, NEW item \in Item, HoldBack(cpu, caps, item),
         UNCHANGED <<phase, walk>>, item.event # "PROCESSOR",
         hold' = IF item.event = "PER_CPU_OVERFLOW" THEN [hold EXCEPT ![cpu] = TRUE]
                                                    ELSE hold,
         hold'[cpu]
  PROVE  Effect(item)
<1>1. cpu \in CPU
  BY DEF TypeOK
<1>h. /\ out' = <<>>
      /\ uptime' = uptime /\ lastBt' = lastBt /\ passed' = passed
      /\ \/ status' \in {"PER_CPU_ITEMS_OVERFLOW", "NO_MEMORY"}
         \/ /\ items' = [items EXCEPT ![cpu] = Append(items[cpu], Number(cpu, item))]
            /\ Count(cpu, item)
  BY HoldBackCases
<1>2. NotTaken \/ KeptBack(cpu, item)
  BY <1>h DEF NotTaken, KeptBack
<1> QED BY <1>1, <1>2 DEF Effect

LEMMA PassOnEffect ==
  ASSUME TypeOK, NEW item \in Item, PassOn(cpu, hold[cpu], item),
         item.event \notin {"PROCESSOR", "PER_CPU_OVERFLOW"},
         UNCHANGED <<phase, walk, hold>>
  PROVE  Effect(item)
<1>1. cpu \in CPU /\ hold[cpu] \in BOOLEAN /\ uptime[cpu] \in Uptime
  BY DEF TypeOK
<1>2. CASE hold[cpu]
  BY <1>2, HoldBackEffect DEF PassOn
<1>3. CASE ~hold[cpu]
  <2>1. HandedOver(cpu, uptime[cpu], item)
    BY <1>3 DEF PassOn, Deliver, HandedOver
  <2> QED BY <1>1, <2>1 DEF Effect
<1> QED BY <1>2, <1>3

LEMMA VisitEffect ==
  ASSUME TypeOK, NEW item \in Sendable, Visit(item)
  PROVE  Effect(item) /\ Switch(item)
<1>1. /\ item \in Item /\ item.data \in Nat /\ cpu \in CPU /\ cpuCount \in 0 .. MaxCpu
      /\ hold[cpu] \in BOOLEAN /\ uptime \in [CPU -> Uptime]
      /\ hold \in [CPU -> BOOLEAN]
  BY SendableType DEF Item, TypeOK
<1>a. CASE VisitProcessor(item)
  <2>0. item.event = "PROCESSOR"
    BY <1>a DEF VisitProcessor
  <2>1. Switch(item)
    BY <1>a, <2>0 DEF VisitProcessor, Switch, Error, header
  <2>2. CASE item.data >= cpuCount
    BY <1>a, <2>1, <2>2 DEF VisitProcessor, Error, NotTaken, Effect
  <2>3. CASE ~(item.data >= cpuCount)
    <3> DEFINE p == item.data
    <3>1. p \in CPU
      BY <1>1, <2>3, RecordAssumption DEF CPU
    <3>2. PassOn(p, hold[cpu], item) /\ UNCHANGED <<hold, phase, walk>>
      BY <1>a, <2>3 DEF VisitProcessor
    <3> HIDE DEF p
    <3>3. CASE hold[cpu]
      <4>h. /\ out' = <<>>
            /\ uptime' = uptime /\ lastBt' = lastBt /\ passed' = passed
            /\ \/ status' \in {"PER_CPU_ITEMS_OVERFLOW", "NO_MEMORY"}
               \/ /\ items' = [items EXCEPT ![p] = Append(items[p], Number(p, item))]
                  /\ Count(p, item)
        <5>1. HoldBack(p, capacity, item)
          BY <3>2, <3>3 DEF PassOn
        <5> QED BY <5>1, HoldBackCases
      <4>1. NotTaken \/ KeptBack(p, item)
        BY <2>0, <3>2, <4>h DEF NotTaken, KeptBack
      <4> QED BY <2>1, <3>1, <4>1 DEF Effect
    <3>4. CASE ~hold[cpu]
      <4>1. HandedOver(p, uptime[p], item) /\ uptime[p] \in Uptime
        BY <1>1, <2>0, <3>1, <3>2, <3>4 DEF PassOn, Deliver, HandedOver, OutOfBand
      <4> QED BY <2>1, <3>1, <4>1 DEF Effect
    <3> QED BY <3>3, <3>4
  <2> QED BY <2>1, <2>2, <2>3
<1>b. CASE VisitUptimeLow(item) \/ VisitFrequency(item) \/ VisitOther(item)
  <2>0. item.event \notin {"PROCESSOR", "PER_CPU_OVERFLOW", "UPTIME_HIGH"}
    BY <1>b, RecordAssumption
       DEF VisitUptimeLow, VisitFrequency, VisitOther, NoTimeEvents, ClientEvents
  <2>1. PassOn(cpu, hold[cpu], item) /\ UNCHANGED <<phase, walk, hold>>
    BY <1>b DEF VisitUptimeLow, VisitFrequency, VisitOther
  <2>2. Switch(item)
    BY <1>b, <2>0, RecordAssumption
       DEF VisitUptimeLow, VisitFrequency, VisitOther, Switch, header, NoTimeEvents,
           ClientEvents
  <2> QED BY <1>1, <2>0, <2>1, <2>2, PassOnEffect
<1>c. CASE VisitUptimeHigh(item)
  <2>0. item.event = "UPTIME_HIGH"
    BY <1>c DEF VisitUptimeHigh
  <2>1. Switch(item)
    BY <1>c, <2>0 DEF VisitUptimeHigh, Switch, header
  <2>2. CASE low[cpu] = NoLow
    <3>1. PassOn(cpu, hold[cpu], item) /\ UNCHANGED <<phase, walk, hold>>
      BY <1>c, <2>2 DEF VisitUptimeHigh
    <3> QED BY <1>1, <2>0, <2>1, <3>1, PassOnEffect
  <2>3. CASE low[cpu] # NoLow /\ ~hold[cpu]
    <3>1. Base(item) \in Uptime
      BY <1>1, <2>3, BaseType DEF Base
    <3>2. HandedOver(cpu, Base(item), item)
      BY <1>c, <2>0, <2>3 DEF VisitUptimeHigh, Deliver, HandedOver, Base
    <3> QED BY <1>1, <2>1, <3>1, <3>2 DEF Effect
  <2>4. CASE low[cpu] # NoLow /\ hold[cpu]
    <3>1. Begun(item)
      BY <1>c, <2>0, <2>4 DEF VisitUptimeHigh, Begun, Base
    <3> QED BY <2>1, <3>1 DEF Effect
  <2> QED BY <2>2, <2>3, <2>4
<1>d. CASE VisitProcessorMaximum(item) \/ VisitVersion(item)
  <2>0. item.event \in OutOfBand /\ item.event \notin
          {"PROCESSOR", "UPTIME_LOW", "UPTIME_HIGH", "FREQUENCY", "PER_CPU_OVERFLOW"}
    BY <1>d DEF VisitProcessorMaximum, VisitVersion, OutOfBand
  <2>1. Switch(item)
    BY <1>d, <2>0 DEF VisitProcessorMaximum, VisitVersion, Switch, Error, header
  <2>2. NotTaken \/ HandedOver(cpu, uptime[cpu], item)
    BY <1>d, <2>0 DEF VisitProcessorMaximum, VisitVersion, Error, NotTaken,
                      HandedOver, Deliver, store
  <2> QED BY <1>1, <2>1, <2>2 DEF Effect
<1>e. CASE VisitPerCpuCount(item)
  <2>0. item.event = "PER_CPU_COUNT"
    BY <1>e DEF VisitPerCpuCount
  <2>1. Switch(item)
    BY <1>e, <2>0 DEF VisitPerCpuCount, Switch, Error, header
  <2>2. CASE perCpuItems # 0 \/ cpuCount = 0
    BY <1>e, <2>1, <2>2 DEF VisitPerCpuCount, Error, NotTaken, Effect
  <2>3. CASE ~(perCpuItems # 0 \/ cpuCount = 0)
    <3>h. /\ hold' = hold /\ phase' = phase /\ walk' = walk
          /\ \/ hold[cpu] /\ HoldBack(cpu, CountCaps(item), item)
             \/ /\ ~hold[cpu]
                /\ CallHandler(cpu, uptime[cpu], Number(cpu, item))
                /\ Count(cpu, item) /\ items' = items
             \/ /\ status' = "NO_MEMORY" /\ out' = <<>>
                /\ uptime' = uptime /\ lastBt' = lastBt
      BY <1>e, <2>3, PerCpuCountCases
    <3>1. UNCHANGED <<phase, walk, hold>>
      BY <3>h
    <3>2. CASE hold[cpu] /\ HoldBack(cpu, CountCaps(item), item)
      BY <1>1, <2>0, <2>1, <3>1, <3>2, HoldBackEffect
    <3>3. CASE /\ ~hold[cpu] /\ CallHandler(cpu, uptime[cpu], Number(cpu, item))
               /\ Count(cpu, item) /\ items' = items
      <4>1. HandedOver(cpu, uptime[cpu], item)
        BY <2>0, <3>1, <3>3 DEF HandedOver
      <4> QED BY <1>1, <2>1, <4>1 DEF Effect
    <3>4. CASE /\ status' = "NO_MEMORY" /\ out' = <<>>
               /\ uptime' = uptime /\ lastBt' = lastBt
      BY <2>1, <3>1, <3>4 DEF NotTaken, Effect
    <3> QED BY <3>h, <3>2, <3>3, <3>4
  <2> QED BY <2>2, <2>3
<1>f. CASE VisitPerCpuOverflow(item)
  <2>0. item.event = "PER_CPU_OVERFLOW"
    BY <1>f DEF VisitPerCpuOverflow
  <2>1. Switch(item)
    BY <1>f, <2>0 DEF VisitPerCpuOverflow, Switch, header
  <2>2. /\ HoldBack(cpu, capacity, item) /\ UNCHANGED <<phase, walk>>
        /\ hold' = [hold EXCEPT ![cpu] = TRUE]
    BY <1>f DEF VisitPerCpuOverflow
  <2>3. hold'[cpu]
    BY <1>1, <2>2
  <2> QED BY <1>1, <2>0, <2>1, <2>2, <2>3, HoldBackEffect
<1> QED BY <1>a, <1>b, <1>c, <1>d, <1>e, <1>f DEF Visit

-----------------------------------------------------------------------------
(* The item before a chunk of a name.                                      *)
Continues(x, y) ==
  \E t \in Threads, k \in 1 .. NameChunks :
    /\ y.data = Chunk(t, k)
    /\ IF k = 1 THEN x.event = "THREAD_CREATE" /\ x.data = t
                ELSE x.event = "THREAD_NAME" /\ x.data = Chunk(t, k - 1)

(* What may follow one another in a group.                                 *)
Shaped(s) ==
  /\ \A i \in 2 .. Len(s) :
       /\ s[i].event = "THREAD_SWITCH_IN" => s[i - 1].event = "THREAD_SWITCH_OUT"
       /\ s[i].event = "THREAD_NAME" => Continues(s[i - 1], s[i])
  /\ \A i \in 1 .. Len(s) : s[i].event = "UPTIME_HIGH" => i = Len(s)

LEMMA GroupShaped ==
  ASSUME NEW ticks \in Nat, NEW from \in Threads, NEW g \in Groups(ticks, from)
  PROVE  Shaped(g) /\ g[1].event \notin {"THREAD_SWITCH_IN", "THREAD_NAME"}
<1>1. ticks * Scale \in Nat /\ Threads \subseteq Nat
  BY TraceAssumption
<1>2. /\ (ticks * Scale) % LowMod \in Nat /\ (ticks * Scale) \div LowMod \in Nat
  BY <1>1, RecordAssumption
<1>a. CASE g = UptimePair(ticks)
  <2> DEFINE a == TargetItem("UPTIME_LOW", ticks, (ticks * Scale) % LowMod)
             b == TargetItem("UPTIME_HIGH", ticks, (ticks * Scale) \div LowMod)
  <2>1. "UPTIME_LOW" \in GroupEvents /\ "UPTIME_HIGH" \in GroupEvents
    BY DEF GroupEvents
  <2>2. a.event = "UPTIME_LOW" /\ b.event = "UPTIME_HIGH"
    BY <1>2, <2>1, TargetItemType
  <2>3. g = <<a, b>>
    BY <1>a DEF UptimePair
  <2> HIDE DEF a, b
  <2> QED BY <2>2, <2>3 DEF Shaped
<1>b. ASSUME NEW to \in Threads, g = ThreadSwitch(ticks, from, to)
      PROVE  Shaped(g) /\ g[1].event \notin {"THREAD_SWITCH_IN", "THREAD_NAME"}
  <2> DEFINE a == TargetItem("THREAD_SWITCH_OUT", ticks, from)
             b == TargetItem("THREAD_SWITCH_IN", ticks, to)
  <2>1. "THREAD_SWITCH_OUT" \in GroupEvents /\ "THREAD_SWITCH_IN" \in GroupEvents
        /\ from \in Nat /\ to \in Nat
    BY <1>1 DEF GroupEvents
  <2>2. a.event = "THREAD_SWITCH_OUT" /\ b.event = "THREAD_SWITCH_IN"
    BY <2>1, TargetItemType
  <2>3. g = <<a, b>>
    BY <1>b DEF ThreadSwitch
  <2> HIDE DEF a, b
  <2> QED BY <2>2, <2>3 DEF Shaped
<1>c. ASSUME NEW t \in Created, g = Create(ticks, t)
      PROVE  Shaped(g) /\ g[1].event \notin {"THREAD_SWITCH_IN", "THREAD_NAME"}
  <2> DEFINE a == TargetItem("THREAD_CREATE", ticks, t)
             names == [i \in 1 .. NameChunks |->
                         TargetItem("THREAD_NAME", ticks, Chunk(t, i))]
  <2>1. "THREAD_CREATE" \in GroupEvents /\ "THREAD_NAME" \in GroupEvents
        /\ t \in Nat /\ t \in Threads /\ NameChunks \in Nat \ {0}
    BY <1>1, TraceAssumption, WriterAssumption DEF GroupEvents
  <2>2. \A i \in 1 .. NameChunks : Chunk(t, i) \in Nat
    BY <2>1 DEF Chunk
  <2>3. a \in Sendable /\ a.event = "THREAD_CREATE" /\ a.data = t
    BY <2>1, TargetItemType
  <2>4. \A i \in 1 .. NameChunks : /\ names[i] \in Sendable
                                   /\ names[i].event = "THREAD_NAME"
                                   /\ names[i].data = Chunk(t, i)
    BY <2>1, <2>2, TargetItemType
  <2>5. g = <<a>> \o names
    BY <1>c DEF Create
  <2>6. names \in Seq(Sendable) /\ Len(names) = NameChunks
    BY <2>1, <2>4
  <2> HIDE DEF a, names
  <2>7. /\ g \in Seq(Sendable) /\ Len(g) = NameChunks + 1 /\ g[1] = a
        /\ \A i \in 2 .. Len(g) : g[i] = names[i - 1]
    BY <2>1, <2>3, <2>5, <2>6
  <2>8. \A i \in 2 .. Len(g) : /\ g[i].event = "THREAD_NAME" /\ i - 1 \in 1 .. NameChunks
                              /\ g[i].data = Chunk(t, i - 1)
    BY <2>1, <2>4, <2>7
  <2>9. ASSUME NEW i \in 2 .. Len(g) PROVE Continues(g[i - 1], g[i])
    <3> DEFINE k == i - 1
    <3>1. k \in 1 .. NameChunks /\ g[i].data = Chunk(t, k)
      BY <2>8
    <3>2. CASE k = 1
      BY <2>1, <2>3, <2>7, <3>1, <3>2 DEF Continues
    <3>3. CASE k # 1
      <4>1. k \in 2 .. Len(g)
        BY <2>1, <2>7, <3>1, <3>3
      <4>2. g[k].event = "THREAD_NAME" /\ g[k].data = Chunk(t, k - 1)
        BY <2>8, <4>1
      <4> QED BY <2>1, <3>1, <3>3, <4>2 DEF Continues
    <3> QED BY <3>2, <3>3
  <2>10. \A i \in 1 .. Len(g) : g[i].event \in {"THREAD_CREATE", "THREAD_NAME"}
    <3> SUFFICES ASSUME NEW i \in 1 .. Len(g)
                 PROVE  g[i].event \in {"THREAD_CREATE", "THREAD_NAME"}
      OBVIOUS
    <3>1. CASE i = 1
      BY <3>1, <2>3, <2>7
    <3>2. CASE i # 1
      <4>1. i \in 2 .. Len(g)
        BY <3>2, <2>7
      <4> QED BY <4>1, <2>8
    <3> QED BY <3>1, <3>2
  <2>11. Shaped(g)
    BY <2>8, <2>9, <2>10 DEF Shaped
  <2> QED BY <2>3, <2>7, <2>11
<1> QED BY <1>a, <1>b, <1>c DEF Groups

LEMMA HeaderShaped == Shaped(HeaderItems)
<1>1. \A i \in 1 .. Len(HeaderItems) : HeaderItems[i].event \in HeaderEvents
  BY HeaderShape
<1> QED BY <1>1, HeaderShape DEF Shaped, HeaderEvents

LEMMA TailShaped ==
  ASSUME NEW S, NEW s \in Seq(S), s # <<>>, Shaped(s)
  PROVE  /\ Shaped(Tail(s))
         /\ Tail(s) # <<>> =>
              /\ s[1].event # "UPTIME_HIGH"
              /\ Tail(s)[1].event = "THREAD_SWITCH_IN" => s[1].event = "THREAD_SWITCH_OUT"
              /\ Tail(s)[1].event = "THREAD_NAME" => Continues(s[1], Tail(s)[1])
<1> DEFINE t == Tail(s)
<1>1. /\ t \in Seq(S) /\ Len(t) = Len(s) - 1 /\ Len(s) \in Nat /\ Len(t) \in Nat
      /\ \A i \in 1 .. Len(t) : t[i] = s[i + 1]
  OBVIOUS
<1> HIDE DEF t
<1>2. ASSUME NEW i \in 2 .. Len(t)
      PROVE  /\ t[i].event = "THREAD_SWITCH_IN" => t[i - 1].event = "THREAD_SWITCH_OUT"
             /\ t[i].event = "THREAD_NAME" => Continues(t[i - 1], t[i])
  <2> DEFINE j == i + 1
  <2>1. j \in 2 .. Len(s) /\ t[i] = s[j] /\ t[i - 1] = s[j - 1]
    BY <1>1
  <2> HIDE DEF j
  <2> QED BY <2>1 DEF Shaped
<1>3. ASSUME NEW i \in 1 .. Len(t), t[i].event = "UPTIME_HIGH" PROVE i = Len(t)
  <2> DEFINE j == i + 1
  <2>1. j \in 1 .. Len(s) /\ t[i] = s[j]
    BY <1>1
  <2>2. j = Len(s)
    BY <1>3, <2>1 DEF Shaped
  <2> QED BY <1>1, <2>2
<1>4. Shaped(t)
  BY <1>2, <1>3 DEF Shaped
<1>5. ASSUME t # <<>>
      PROVE  /\ s[1].event # "UPTIME_HIGH"
             /\ t[1].event = "THREAD_SWITCH_IN" => s[1].event = "THREAD_SWITCH_OUT"
             /\ t[1].event = "THREAD_NAME" => Continues(s[1], t[1])
  <2>1. Len(t) # 0
    BY <1>1, <1>5, EmptySeq
  <2>2. 1 \in 1 .. Len(t) /\ t[1] = s[2] /\ 2 \in 2 .. Len(s) /\ 1 \in 1 .. Len(s)
        /\ Len(s) # 1 /\ 2 - 1 = 1
    BY <1>1, <2>1
  <2>3. s[1].event # "UPTIME_HIGH"
    BY <2>2 DEF Shaped
  <2>4. /\ s[2].event = "THREAD_SWITCH_IN" => s[2 - 1].event = "THREAD_SWITCH_OUT"
        /\ s[2].event = "THREAD_NAME" => Continues(s[2 - 1], s[2])
    BY <2>2 DEF Shaped
  <2> QED BY <2>2, <2>3, <2>4
<1> QED BY <1>4, <1>5 DEF t

(* What the target still has to send after an item.                        *)
Leaves(item) ==
  \/ item.event = "PROCESSOR" /\ UNCHANGED <<rest, clock, overflows>>
  \/ /\ item.event = "PER_CPU_OVERFLOW"
     /\ clock'[cpu] > clock[cpu] /\ overflows' > overflows
     /\ \E s \in Seq(Sendable) : rest' = [rest EXCEPT ![cpu] = s] /\ Shaped(s)
  \/ /\ overflows' = overflows
     /\ \E s \in Seq(Sendable) :
          /\ s # <<>> /\ item = s[1] /\ rest' = [rest EXCEPT ![cpu] = Tail(s)]
          /\ \/ s = rest[cpu] /\ clock' = clock
             \/ Shaped(s) /\ item.event \notin {"THREAD_SWITCH_IN", "THREAD_NAME"}

-----------------------------------------------------------------------------
(* What the target sends: the item and what the clock says of it.          *)
Sent(item) ==
  /\ \A c \in CPU : clock[c] <= clock'[c] /\ (c # cpu => clock'[c] = clock[c])
  /\ torn \subseteq torn'
  /\ IF item.event = "PER_CPU_OVERFLOW"
       THEN overflows' > overflows
       ELSE /\ overflows' = overflows /\ torn' = torn
            /\ IF HasTime(item.event)
                 THEN /\ item.time = clock'[cpu] % TimeMod
                      /\ clock'[cpu] < clock[cpu] + TimeMod
                 ELSE clock' = clock
            /\ (item.event = "UPTIME_HIGH" /\ low[cpu] # NoLow /\ cpu \notin torn) =>
                 item.data * LowMod + low[cpu] = clock'[cpu] * Scale
            /\ item.event = "UPTIME_HIGH" => clock' = clock
  /\ IF taken < 4 THEN ~HasTime(item.event) /\ item.event # "PER_CPU_OVERFLOW"
                  ELSE item.event # "FREQUENCY"

LEMMA TailChain ==
  ASSUME NEW s \in Seq(Sendable), s # <<>>, NEW ticks \in Nat, Chain(s, ticks)
  PROVE  /\ Chain(Tail(s), ticks)
         /\ (Tail(s) # <<>> /\ Tail(s)[1].event = "UPTIME_HIGH") =>
              s[1].event = "UPTIME_LOW"
<1> DEFINE t == Tail(s)
<1>1. /\ t \in Seq(Sendable) /\ Len(t) = Len(s) - 1 /\ Len(s) \in Nat
      /\ \A i \in 1 .. Len(t) : t[i] = s[i + 1] /\ i + 1 \in 1 .. Len(s)
  OBVIOUS
<1> HIDE DEF t
<1>2. Chain(t, ticks)
  <2> SUFFICES ASSUME NEW i \in 1 .. Len(t)
               PROVE  /\ InGroup(t[i], ticks)
                      /\ (t[i].event = "UPTIME_HIGH" /\ i > 1) =>
                           t[i - 1].event = "UPTIME_LOW"
    BY DEF Chain
  <2>1. InGroup(t[i], ticks)
    BY <1>1 DEF Chain
  <2>2. ASSUME t[i].event = "UPTIME_HIGH", i > 1 PROVE t[i - 1].event = "UPTIME_LOW"
    <3>1. i - 1 \in 1 .. Len(t) /\ t[i - 1] = s[i] /\ t[i] = s[i + 1]
      BY <1>1, <2>2
    <3>2. i + 1 \in 1 .. Len(s) /\ i + 1 > 1 /\ (i + 1) - 1 = i
      BY <1>1
    <3>3. s[(i + 1) - 1].event = "UPTIME_LOW"
      BY <2>2, <3>1, <3>2 DEF Chain
    <3> QED BY <3>1, <3>2, <3>3
  <2> QED BY <2>1, <2>2
<1>3. ASSUME t # <<>>, t[1].event = "UPTIME_HIGH" PROVE s[1].event = "UPTIME_LOW"
  <2>1. 1 \in 1 .. Len(t)
    BY <1>1, <1>3
  <2>2. t[1] = s[2] /\ 2 \in 1 .. Len(s)
    BY <1>1, <2>1
  <2>3. s[2 - 1].event = "UPTIME_LOW"
    BY <1>3, <2>2 DEF Chain
  <2> QED BY <2>3
<1> QED BY <1>2, <1>3 DEF t

\* The first item of a group was sent.
LEMMA HeadSent ==
  ASSUME TypeOK, NEW s \in Seq(Sendable), s # <<>>, NEW ticks \in Nat,
         Chain(s, ticks), Switch(Head(s))
  PROVE  Chain(Tail(s), ticks) /\ Joins(Tail(s), low'[cpu], ticks)
<1>1. Chain(Tail(s), ticks)
  BY TailChain
<1>2. ASSUME Tail(s) # <<>>, Tail(s)[1].event = "UPTIME_HIGH"
      PROVE  low'[cpu] = (ticks * Scale) % LowMod
  <2> DEFINE n == ticks * Scale
  <2>1. s[1].event = "UPTIME_LOW"
    BY <1>2, TailChain
  <2>2. 1 \in 1 .. Len(s) /\ Head(s) = s[1]
    OBVIOUS
  <2>3. InGroup(s[1], ticks)
    BY <2>2 DEF Chain
  <2>4. s[1].data = n % LowMod
    BY <2>1, <2>3 DEF InGroup
  <2>5. n \in Int /\ LowMod \in Nat \ {0}
    BY TraceAssumption, RecordAssumption
  <2> HIDE DEF n
  <2>6. n % LowMod \in 0 .. LowMod - 1
    BY <2>5, ModRange
  <2>7. (n % LowMod) % LowMod = n % LowMod
    BY <2>5, <2>6, ModSmall
  <2>8. low' = [low EXCEPT ![cpu] = s[1].data % LowMod]
    BY <2>1, <2>2 DEF Switch
  <2>9. low'[cpu] = s[1].data % LowMod
    BY <2>8 DEF TypeOK
  <2> QED BY <2>4, <2>7, <2>9 DEF n
<1> QED BY <1>1, <1>2 DEF Joins

\* An uptime in halves.
LEMMA HalvesJoin ==
  ASSUME NEW ticks \in Nat
  PROVE  ((ticks * Scale) \div LowMod) * LowMod + ((ticks * Scale) % LowMod)
           = ticks * Scale
<1> DEFINE n == ticks * Scale
           q == n \div LowMod
           r == n % LowMod
<1>1. n \in Nat /\ LowMod \in Nat \ {0}
  BY TraceAssumption, RecordAssumption
<1> HIDE DEF n
<1>2. q \in Int /\ r \in Int /\ n = LowMod * q + r
  BY <1>1
<1> HIDE DEF q, r
<1>3. q * LowMod = LowMod * q
  BY <1>1, <1>2
<1>4. q * LowMod + r = n
  BY <1>2, <1>3
<1> QED BY <1>4 DEF n, q, r

LEMMA GroupChain ==
  ASSUME NEW ticks \in Nat, NEW from \in Threads, NEW g \in Groups(ticks, from)
  PROVE  g \in Seq(Sendable) /\ g # <<>> /\ Len(g) >= 2 /\ Chain(g, ticks)
<1>1. g \in Seq(Sendable) /\ Len(g) >= 2
  BY GroupShape
<1>2. \A i \in 1 .. Len(g) :
        /\ InGroup(g[i], ticks)
        /\ g[i].event = "UPTIME_HIGH" => i = 2 /\ g[1].event = "UPTIME_LOW"
  BY GroupShape
<1>3. Chain(g, ticks)
  BY <1>1, <1>2 DEF Chain
<1> QED BY <1>1, <1>3

-----------------------------------------------------------------------------
LEMMA HeaderRest ==
  ASSUME NEW n \in 0 .. 3
  PROVE  LET s == SubSeq(HeaderItems, n + 1, 4)
         IN /\ s # <<>> /\ Head(s) = HeaderItems[n + 1]
            /\ Tail(s) = SubSeq(HeaderItems, n + 2, 4)
            /\ n = 3 => Tail(s) = <<>>
<1>1. HeaderItems \in Seq(Sendable) /\ Len(HeaderItems) = 4
  BY HeaderShape
<1> DEFINE s == SubSeq(HeaderItems, n + 1, 4)
           t == SubSeq(HeaderItems, n + 2, 4)
<1>2. n \in Nat /\ n <= 3
  OBVIOUS
<1>i. \A i \in 1 .. 4 : HeaderItems[i] \in Sendable
  <2> DEFINE h == HeaderItems
  <2> HIDE DEF h
  <2>1. h \in Seq(Sendable) /\ Len(h) = 4
    BY <1>1 DEF h
  <2>2. \A i \in 1 .. 4 : h[i] \in Sendable
    BY <2>1, ElementOfSeq
  <2> QED BY <2>2 DEF h
<1>3. /\ s \in Seq(Sendable) /\ Len(s) = 4 - n
      /\ \A i \in 1 .. 4 - n : s[i] = HeaderItems[n + i]
  <2>1. n + 1 \in Int /\ \A i \in n + 1 .. 4 : HeaderItems[i] \in Sendable
    BY <1>2, <1>i
  <2>2. /\ s \in Seq(Sendable)
        /\ Len(s) = IF n + 1 <= 4 THEN 4 - (n + 1) + 1 ELSE 0
        /\ \A i \in 1 .. 4 - (n + 1) + 1 : s[i] = HeaderItems[(n + 1) + i - 1]
    BY <2>1, SubSeqProperties
  <2>3. 4 - (n + 1) + 1 = 4 - n /\ \A i \in 1 .. 4 - n : (n + 1) + i - 1 = n + i
    BY <1>2
  <2> QED BY <1>2, <2>2, <2>3
<1>4. /\ t \in Seq(Sendable) /\ Len(t) = 3 - n
      /\ \A i \in 1 .. 3 - n : t[i] = HeaderItems[n + 1 + i]
  <2>1. n + 2 \in Int /\ \A i \in n + 2 .. 4 : HeaderItems[i] \in Sendable
    BY <1>2, <1>i
  <2>2. /\ t \in Seq(Sendable)
        /\ Len(t) = IF n + 2 <= 4 THEN 4 - (n + 2) + 1 ELSE 0
        /\ \A i \in 1 .. 4 - (n + 2) + 1 : t[i] = HeaderItems[(n + 2) + i - 1]
    BY <2>1, SubSeqProperties
  <2>3. 4 - (n + 2) + 1 = 3 - n /\ \A i \in 1 .. 3 - n : (n + 2) + i - 1 = n + 1 + i
    BY <1>2
  <2> QED BY <1>2, <2>2, <2>3
<1> HIDE DEF s, t
<1>5. s # <<>> /\ Head(s) = HeaderItems[n + 1]
  BY <1>2, <1>3
<1>6. /\ Tail(s) \in Seq(Sendable) /\ Len(Tail(s)) = 3 - n
      /\ \A i \in 1 .. 3 - n : Tail(s)[i] = HeaderItems[n + 1 + i]
  <2>1. /\ Tail(s) \in Seq(Sendable) /\ Len(Tail(s)) = 3 - n
        /\ \A i \in 1 .. 3 - n : Tail(s)[i] = s[i + 1]
    BY <1>2, <1>3, <1>5
  <2>2. \A i \in 1 .. 3 - n : i + 1 \in 1 .. 4 - n /\ n + (i + 1) = n + 1 + i
    BY <1>2
  <2> QED BY <1>3, <2>1, <2>2
<1>7. Tail(s) = t
  BY <1>4, <1>6, SeqEqual
<1>8. n = 3 => Tail(s) = <<>>
  <2> DEFINE r == Tail(s)
  <2>1. r \in Seq(Sendable) /\ Len(r) = 3 - n
    BY <1>6
  <2> HIDE DEF r
  <2>2. n = 3 => Len(r) = 0
    BY <2>1
  <2>3. n = 3 => r = <<>>
    BY <2>1, <2>2, EmptySeq
  <2> QED BY <2>3 DEF r
<1> QED BY <1>5, <1>7, <1>8 DEF s, t

\* An item without a time stamp that is handed over at once changes no time.
LEMMA TimelessHanded ==
  ASSUME TypeOK, scaler' \in Nat, NEW p \in CPU, NEW item \in Item,
         CallHandler(p, uptime[p], item), ~HasTime(item.event),
         BtOf(uptime[p], scaler') = lastBt[p]
  PROVE  /\ UNCHANGED <<uptime, lastBt>>
         /\ out' = <<[bt |-> lastBt[p], cpu |-> p, item |-> item]>>
<1>1. uptime \in [CPU -> Uptime] /\ lastBt \in [CPU -> Bt] /\ lastBt[p] \in Int
  BY DEF TypeOK, Bt
<1>2. Tick(uptime[p], item) = uptime[p]
  BY DEF Tick
<1>3. /\ uptime' = [uptime EXCEPT ![p] = uptime[p]]
      /\ lastBt' = [lastBt EXCEPT ![p] = IF lastBt[p] >= @ THEN lastBt[p] ELSE @]
      /\ out' = Calls(p, lastBt[p], item)
  BY <1>2 DEF CallHandler
<1>4. lastBt[p] >= lastBt[p]
  BY <1>1
<1>5. UNCHANGED <<uptime, lastBt>>
  BY <1>1, <1>3, <1>4
<1>6. out' = <<[bt |-> lastBt[p], cpu |-> p, item |-> item]>>
  BY <1>3, <1>4 DEF Calls
<1> QED BY <1>5, <1>6

LEMMA NoUptimeBt == ASSUME NEW n \in Nat PROVE BtOf(NoUptime, n) = 0
<1>1. BtMod \in Nat \ {0} /\ 0 % BtMod = 0
  BY RecordAssumption
<1>2. Span(0, n) = 0
  BY SpanNothing
<1> QED BY <1>1, <1>2 DEF BtOf, NoUptime

\* The description of the stream is sent.
LEMMA HeaderSends ==
  ASSUME PacketInv, TypeOK', Beginning, taken < 4, Target
  PROVE  /\ Beginning' /\ Sending'
         /\ \E item \in Sendable : Visit(item) /\ Sent(item) /\ Leaves(item)
<1>0. /\ TypeOK /\ cpu \in CPU /\ taken \in Nat /\ scaler' \in Nat
      /\ uptime \in [CPU -> Uptime] /\ lastBt \in [CPU -> Bt]
      /\ low \in [CPU -> {NoLow} \cup 0 .. LowMod - 1]
      /\ rest \in [CPU -> Seq(Sendable)] /\ clock \in [CPU -> 1 .. MaxClock]
  <2>1. TypeOK /\ TraceTyped
    BY DEF PacketInv, IInv
  <2>2. scaler' \in Nat
    BY DEF TypeOK
  <2> HIDE DEF PacketInv
  <2>3. cpu \in CPU /\ taken \in Nat
    BY <2>1 DEF TypeOK
  <2>4. uptime \in [CPU -> Uptime] /\ lastBt \in [CPU -> Bt]
    BY <2>1 DEF TypeOK
  <2>5. low \in [CPU -> {NoLow} \cup 0 .. LowMod - 1]
    BY <2>1 DEF TypeOK
  <2> QED BY <2>1, <2>2, <2>3, <2>4, <2>5 DEF TraceTyped, TraceTypeOK
<1>1. phase = "idle" /\ ~Draining
  BY DEF Target, Send, Record, TurnTo, Overflow, Visit, Draining
<1>2. /\ cpu = 0 /\ overflows = 0
      /\ \A c \in CPU : /\ rest[c] = IF c = 0 THEN SubSeq(HeaderItems, taken + 1, 4)
                                              ELSE <<>>
                        /\ uptime[c] = NoUptime /\ lastBt[c] = 0 /\ low[c] = NoLow
  BY <1>1 DEF Beginning
<1>3. taken \in 0 .. 3 /\ Len(HeaderItems) = 4
  BY <1>0, HeaderShape
<1>4. /\ rest[cpu] # <<>> /\ Head(rest[cpu]) = HeaderItems[taken + 1]
      /\ Tail(rest[cpu]) = SubSeq(HeaderItems, taken + 2, 4)
      /\ taken = 3 => Tail(rest[cpu]) = <<>>
  BY <1>0, <1>2, <1>3, HeaderRest
<1>5. Send
  BY <1>3, <1>4 DEF Target, Record, TurnTo, Overflow, HeaderSent
<1> DEFINE item == HeaderItems[taken + 1]
<1>6. /\ Visit(item) /\ rest' = [rest EXCEPT ![cpu] = Tail(@)]
      /\ UNCHANGED <<clock, running, overflows, turns, torn>>
  BY <1>4, <1>5 DEF Send
<1>7. /\ item \in Sendable /\ item.event \in HeaderEvents /\ item \in Item
      /\ item.event = "FREQUENCY" <=> taken = 3
      /\ taken = 3 => item.data = Scale
  <2>1. taken + 1 \in 1 .. 4 /\ (taken = 3 => taken + 1 = 4) /\ (taken + 1 = 4 => taken = 3)
    BY <1>3
  <2>2. item \in Sendable
    BY <2>1, HeaderShape, ElementOfSeq DEF item
  <2> QED BY <2>1, <2>2, HeaderShape, SendableType DEF item
<1> HIDE DEF item
<1>8. ~HasTime(item.event) /\ item.event \notin {"PROCESSOR", "PER_CPU_OVERFLOW",
                                                 "UPTIME_LOW", "UPTIME_HIGH"}
  BY <1>7, TimedEvents DEF HeaderEvents
<1>9. Sent(item)
  BY <1>0, <1>2, <1>6, <1>8 DEF Sent
<1>10. Effect(item) /\ Switch(item)
  BY <1>0, <1>6, <1>7, VisitEffect
<1>11. taken' = taken + 1
  BY <1>6 DEF Visit
<1>12. low' = low /\ cpu' = 0
  BY <1>2, <1>8, <1>10 DEF Switch
<1>13. UNCHANGED <<uptime, lastBt, phase>>
  <2>1. ~Begun(item)
    BY <1>8 DEF Begun
  <2>2. ASSUME NEW p \in CPU, NEW u \in Uptime, HandedOver(p, u, item)
        PROVE  UNCHANGED <<uptime, lastBt, phase>>
    <3> DEFINE x == Number(p, item)
    <3>1. x \in Item /\ x.event = item.event
      BY <1>0, <1>7, NumberType, NumberSame
    <3>2. CallHandler(p, uptime[p], x) /\ UNCHANGED phase
      BY <1>8, <2>2 DEF HandedOver
    <3>3. BtOf(uptime[p], scaler') = lastBt[p]
      BY <1>0, <1>2, NoUptimeBt
    <3> HIDE DEF x
    <3> QED BY <1>0, <1>8, <3>1, <3>2, <3>3, TimelessHanded
  <2> QED BY <1>10, <2>1, <2>2 DEF Effect, NotTaken, KeptBack
<1>14. \A c \in CPU : rest'[c] = IF c = 0 THEN SubSeq(HeaderItems, taken + 2, 4) ELSE <<>>
  BY <1>0, <1>2, <1>4, <1>6
<1>15. Beginning'
  <2>1. taken' + 1 = taken + 2
    BY <1>0, <1>11
  <2>2. taken' >= 4 => scaler' = Scale
    BY <1>3, <1>7, <1>10, <1>11 DEF Switch
  <2>3. phase' = "idle"
    BY <1>1, <1>13
  <2>4. /\ cpu' = 0 /\ overflows' = 0
        /\ \A c \in CPU : rest'[c] = IF c = 0 THEN SubSeq(HeaderItems, taken' + 1, 4)
                                              ELSE <<>>
        /\ \A c \in CPU : uptime'[c] = NoUptime /\ lastBt'[c] = 0 /\ low'[c] = NoLow
    BY <1>2, <1>6, <1>12, <1>13, <1>14, <2>1
  <2> QED BY <2>2, <2>3, <2>4 DEF Beginning
<1>16. Sending'
  <2> SUFFICES ASSUME taken' >= 4 PROVE Sending'
    BY DEF Sending
  <2>1. taken = 3
    BY <1>3, <1>11
  <2>2. \A c \in CPU : rest'[c] = <<>>
    BY <1>0, <1>2, <1>4, <1>6, <2>1
  <2> QED BY <2>2 DEF Sending, Chain, Joins
<1>17. Leaves(item)
  <2>1. rest[cpu] \in Seq(Sendable) /\ item = rest[cpu][1]
    BY <1>0, <1>4 DEF item
  <2> QED BY <1>4, <1>6, <2>1 DEF Leaves
<1> QED BY <1>6, <1>7, <1>9, <1>15, <1>16, <1>17

LEMMA SendingOn ==
  ASSUME Sending, taken >= 4, cpu \in CPU, rest \in [CPU -> Seq(Sendable)],
         NEW s, rest' = [rest EXCEPT ![cpu] = s], torn \subseteq torn',
         \A c \in CPU : c # cpu => clock'[c] = clock[c] /\ low'[c] = low[c],
         Chain(s, clock'[cpu]),
         cpu \notin torn' => Joins(s, low'[cpu], clock'[cpu])
  PROVE  Sending'
<1> SUFFICES ASSUME NEW c \in CPU
             PROVE  /\ Chain(rest'[c], clock'[c])
                    /\ c \notin torn' => Joins(rest'[c], low'[c], clock'[c])
  BY DEF Sending, Chain, InGroup, Joins
<1>1. CASE c = cpu
  BY <1>1
<1>2. CASE c # cpu
  <2>1. rest'[c] = rest[c] /\ clock'[c] = clock[c] /\ low'[c] = low[c]
    BY <1>2
  <2>2. Chain(rest[c], clock[c]) /\ (c \notin torn => Joins(rest[c], low[c], clock[c]))
    BY DEF Sending
  <2> QED BY <2>1, <2>2
<1> QED BY <1>1, <1>2

\* What the target sends of what it recorded.
LEMMA GroupSends ==
  ASSUME PacketInv, Sending, taken >= 4, Target
  PROVE  /\ Sending'
         /\ \E item \in Sendable : Visit(item) /\ Sent(item) /\ Leaves(item)
<1>0. TypeOK /\ TraceTyped
  BY DEF PacketInv, IInv
<1>1. /\ cpu \in CPU /\ clock \in [CPU -> 1 .. MaxClock] /\ running \in [CPU -> Threads]
      /\ rest \in [CPU -> Seq(Sendable)] /\ rest[cpu] \in Seq(Sendable)
      /\ clock[cpu] \in Nat /\ overflows \in Nat
      /\ \A c \in CPU : clock[c] \in Nat
      /\ running[cpu] \in Threads
  <2>1. cpu \in CPU
    BY <1>0 DEF TypeOK
  <2>2. /\ clock \in [CPU -> 1 .. MaxClock] /\ running \in [CPU -> Threads]
        /\ rest \in [CPU -> Seq(Sendable)] /\ overflows \in 0 .. MaxOverflows
    BY <1>0 DEF TraceTyped, TraceTypeOK
  <2>3. overflows \in Nat /\ \A c \in CPU : clock[c] \in Nat
    BY <2>2
  <2> QED BY <2>1, <2>2, <2>3
<1>2. low \in [CPU -> {NoLow} \cup 0 .. LowMod - 1]
  BY <1>0 DEF TypeOK
<1>3. TimeMod \in Nat \ {0} /\ ~(taken < 4)
  BY <1>0, RecordAssumption DEF TypeOK
<1>4. \A c \in CPU : /\ Chain(rest[c], clock[c])
                     /\ c \notin torn => Joins(rest[c], low[c], clock[c])
  BY DEF Sending
<1>5. \A e \in GroupEvents : e \notin {"PER_CPU_OVERFLOW", "PROCESSOR", "FREQUENCY"}
  BY DEF GroupEvents
<1>a. CASE Send
  <2> DEFINE s == rest[cpu]
             item == Head(s)
             ticks == clock[cpu]
  <2>1. /\ s # <<>> /\ Visit(item) /\ rest' = [rest EXCEPT ![cpu] = Tail(s)]
        /\ UNCHANGED <<clock, overflows, torn>>
    BY <1>a, <1>1 DEF Send
  <2>2. item \in Sendable /\ 1 \in 1 .. Len(s) /\ item = s[1]
    BY <1>1, <2>1
  <2>3. InGroup(item, ticks)
    BY <1>1, <1>4, <2>2 DEF Chain
  <2>4. Switch(item)
    BY <1>0, <2>1, <2>2, VisitEffect
  <2>5. Chain(Tail(s), ticks) /\ Joins(Tail(s), low'[cpu], ticks)
    BY <1>0, <1>1, <1>4, <2>1, <2>4, HeadSent
  <2>6. \A c \in CPU : c # cpu => clock'[c] = clock[c] /\ low'[c] = low[c]
    BY <1>2, <2>1, <2>4 DEF Switch
  <2>7. Sending'
    BY <1>1, <2>1, <2>5, <2>6, SendingOn
  <2>8. ASSUME item.event = "UPTIME_HIGH", low[cpu] # NoLow, cpu \notin torn
        PROVE  item.data * LowMod + low[cpu] = ticks * Scale
    <3>1. low[cpu] = (ticks * Scale) % LowMod
      BY <1>1, <1>4, <2>1, <2>2, <2>8 DEF Joins
    <3>2. item.data = (ticks * Scale) \div LowMod
      BY <2>3, <2>8 DEF InGroup
    <3> QED BY <1>1, <3>1, <3>2, HalvesJoin
  <2>9. ticks < ticks + TimeMod /\ item.event \in GroupEvents
        /\ (HasTime(item.event) => item.time = ticks % TimeMod)
    BY <1>1, <1>3, <2>3 DEF InGroup
  <2> HIDE DEF item
  <2>10. Sent(item)
    BY <1>1, <1>3, <1>5, <2>1, <2>8, <2>9 DEF Sent
  <2>11. Leaves(item)
    BY <1>1, <2>1, <2>2 DEF Leaves
  <2> QED BY <2>1, <2>2, <2>7, <2>10, <2>11
<1>b. ASSUME NEW d \in Ticks, Record(d)
      PROVE  /\ Sending'
             /\ \E item \in Sendable : Visit(item) /\ Sent(item) /\ Leaves(item)
  <2> DEFINE ticks == clock'[cpu]
  <2>1. d \in Nat /\ d < TimeMod
    BY <1>3, TraceAssumption
  <2>2. /\ clock' = [clock EXCEPT ![cpu] = @ + d]
        /\ UNCHANGED <<overflows, torn>>
    BY <1>b DEF Record
  <2>3. /\ ticks \in Nat /\ clock[cpu] <= ticks /\ ticks < clock[cpu] + TimeMod
        /\ \A c \in CPU : clock[c] <= clock'[c] /\ (c # cpu => clock'[c] = clock[c])
    BY <1>1, <1>3, <2>1, <2>2
  <2>4. PICK g \in Groups(ticks, running[cpu]) :
          Visit(Head(g)) /\ rest' = [rest EXCEPT ![cpu] = Tail(g)]
    BY <1>b DEF Record
  <2> HIDE DEF ticks
  <2>5. /\ g \in Seq(Sendable) /\ g # <<>> /\ Len(g) >= 2 /\ Chain(g, ticks)
        /\ g[1].event # "THREAD_NAME" /\ g[1].event # "UPTIME_HIGH"
    BY <1>1, <2>3, GroupChain, GroupShape
  <2> DEFINE item == Head(g)
  <2>6. item \in Sendable /\ item = g[1] /\ 1 \in 1 .. Len(g)
    BY <2>5
  <2>7. InGroup(item, ticks)
    BY <2>5, <2>6 DEF Chain
  <2>8. Switch(item)
    BY <1>0, <2>4, <2>6, VisitEffect
  <2>9. Chain(Tail(g), ticks) /\ Joins(Tail(g), low'[cpu], ticks)
    BY <1>0, <2>3, <2>5, <2>8, HeadSent
  <2>10. \A c \in CPU : c # cpu => clock'[c] = clock[c] /\ low'[c] = low[c]
    BY <1>2, <2>3, <2>8 DEF Switch
  <2>11. Sending'
    BY <1>1, <2>2, <2>4, <2>9, <2>10, SendingOn DEF ticks
  <2>12. /\ item.event \in GroupEvents /\ item.event # "UPTIME_HIGH"
         /\ HasTime(item.event) /\ item.time = ticks % TimeMod
    BY <2>5, <2>6, <2>7, TimedEvents DEF InGroup
  <2> HIDE DEF item
  <2>13. Sent(item)
    BY <1>3, <1>5, <2>2, <2>3, <2>12 DEF Sent, ticks
  <2>14. Leaves(item)
    <3>1. Shaped(g) /\ g[1].event \notin {"THREAD_SWITCH_IN", "THREAD_NAME"}
      BY <1>1, <2>3, GroupShaped
    <3> QED BY <2>2, <2>4, <2>5, <2>6, <3>1 DEF Leaves
  <2> QED BY <2>4, <2>6, <2>11, <2>13, <2>14 DEF item
<1>c. ASSUME NEW c \in CPU, TurnTo(c)
      PROVE  /\ Sending'
             /\ \E item \in Sendable : Visit(item) /\ Sent(item) /\ Leaves(item)
  <2> DEFINE item == TargetItem("PROCESSOR", 0, c)
  <2>1. /\ Visit(item) /\ UNCHANGED <<clock, running, rest, overflows, torn>>
    BY <1>c DEF TurnTo
  <2>2. item \in Sendable /\ item.event = "PROCESSOR"
    <3>1. c \in Nat
      BY DEF CPU
    <3> QED BY <3>1, TargetItemType
  <2> HIDE DEF item
  <2>3. Switch(item)
    BY <1>0, <2>1, <2>2, VisitEffect
  <2>4. low' = low
    BY <2>2, <2>3 DEF Switch
  <2>5. Sending'
    BY <1>4, <2>1, <2>4 DEF Sending, Chain, Joins, InGroup
  <2>6. Sent(item)
    BY <1>1, <1>3, <2>1, <2>2, TimedEvents DEF Sent
  <2>7. Leaves(item)
    BY <2>1, <2>2 DEF Leaves
  <2> QED BY <2>1, <2>2, <2>5, <2>6, <2>7
<1>d. ASSUME NEW d \in Gaps, Overflow(d)
      PROVE  /\ Sending'
             /\ \E item \in Sendable : Visit(item) /\ Sent(item) /\ Leaves(item)
  <2> DEFINE ticks == clock'[cpu]
             item == TargetItem("PER_CPU_OVERFLOW", 0, 0)
  <2>1. d \in Nat
    BY TraceAssumption
  <2>2. /\ clock' = [clock EXCEPT ![cpu] = @ + d] /\ Visit(item)
        /\ overflows' = overflows + 1
    BY <1>d DEF Overflow
  <2>3. /\ ticks \in Nat
        /\ \A c \in CPU : clock[c] <= clock'[c] /\ (c # cpu => clock'[c] = clock[c])
    BY <1>1, <2>1, <2>2
  <2>q. PICK from \in Threads :
          \E g \in Groups(clock'[cpu], from), cut \in BOOLEAN :
            /\ rest' = [rest EXCEPT ![cpu] = IF cut THEN Tail(g) ELSE g]
            /\ torn' = IF cut /\ g[2].event = "UPTIME_HIGH" /\ low[cpu] # NoLow
                         THEN torn \cup {cpu} ELSE torn
    BY <1>d DEF Overflow
  <2>4. PICK g \in Groups(ticks, from), cut \in BOOLEAN :
          /\ rest' = [rest EXCEPT ![cpu] = IF cut THEN Tail(g) ELSE g]
          /\ torn' = IF cut /\ g[2].event = "UPTIME_HIGH" /\ low[cpu] # NoLow
                       THEN torn \cup {cpu} ELSE torn
    BY <2>q
  <2>5. item \in Sendable /\ item.event = "PER_CPU_OVERFLOW"
    BY TargetItemType
  <2> HIDE DEF ticks, item
  <2>6. /\ g \in Seq(Sendable) /\ g # <<>> /\ Len(g) >= 2 /\ Chain(g, ticks)
        /\ g[1].event # "UPTIME_HIGH"
    BY <2>3, GroupChain, GroupShape
  <2>7. Switch(item)
    BY <1>0, <2>2, <2>5, VisitEffect
  <2>8. low' = low
    BY <2>5, <2>7 DEF Switch
  <2> DEFINE s == IF cut THEN Tail(g) ELSE g
  <2>9. Chain(s, ticks)
    BY <2>3, <2>6, TailChain
  <2>10. ASSUME cpu \notin torn' PROVE Joins(s, low'[cpu], ticks)
    <3>1. CASE ~cut
      BY <3>1, <2>6 DEF Joins
    <3>2. CASE cut
      <4>1. Tail(g)[1] = g[2]
        BY <2>6
      <4>2. ~(g[2].event = "UPTIME_HIGH" /\ low[cpu] # NoLow)
        BY <3>2, <2>4, <2>10, <1>1
      <4> QED BY <3>2, <4>1, <4>2, <2>8 DEF Joins
    <3> QED BY <3>1, <3>2
  <2>11. torn \subseteq torn'
    BY <2>4
  <2>12. rest' = [rest EXCEPT ![cpu] = s]
    BY <2>4
  <2> HIDE DEF s
  <2>13. \A c \in CPU : c # cpu => clock'[c] = clock[c] /\ low'[c] = low[c]
    BY <2>3, <2>8
  <2>14. Sending'
    BY <1>1, <2>9, <2>10, <2>11, <2>12, <2>13, SendingOn DEF ticks
  <2>15. overflows' > overflows
    BY <1>1, <2>2
  <2>16. Sent(item)
    BY <1>3, <2>3, <2>5, <2>11, <2>15 DEF Sent
  <2>17. Leaves(item)
    <3>1. s \in Seq(Sendable) /\ Shaped(s)
      <4>1. Shaped(g)
        BY <1>1, <2>3, GroupShaped
      <4>2. Shaped(Tail(g)) /\ Tail(g) \in Seq(Sendable)
        BY <2>6, <4>1, TailShaped
      <4> QED BY <2>6, <4>1, <4>2 DEF s
    <3>2. clock'[cpu] > clock[cpu]
      <4>1. d \in Nat \ {0}
        BY TraceAssumption
      <4> QED BY <1>1, <2>2, <4>1
    <3> QED BY <2>5, <2>12, <2>15, <3>1, <3>2 DEF Leaves
  <2> QED BY <2>2, <2>5, <2>14, <2>16, <2>17
<1> QED BY <1>a, <1>b, <1>c, <1>d DEF Target

LEMMA TakenType == TypeOK => taken \in Nat
  BY DEF TypeOK

LEMMA TargetSends ==
  ASSUME PacketInv, TypeOK', Beginning, Sending, Target
  PROVE  /\ Beginning' /\ Sending'
         /\ \E item \in Sendable : Visit(item) /\ Sent(item) /\ Leaves(item)
<1>0. TypeOK /\ taken \in Nat
  BY TakenType DEF PacketInv, IInv
<1>1. CASE taken < 4
  BY <1>1, HeaderSends
<1>2. CASE ~(taken < 4)
  <2>1. taken >= 4
    BY <1>0, <1>2
  <2>2. /\ Sending'
        /\ \E item \in Sendable : Visit(item) /\ Sent(item) /\ Leaves(item)
    BY <2>1, GroupSends
  <2>3. PICK item \in Sendable : Visit(item) /\ Sent(item)
    BY <2>2
  <2>4. Effect(item) /\ Switch(item)
    BY <1>0, <2>3, VisitEffect
  <2>5. taken' = taken + 1 /\ phase = "idle" /\ status = "SUCCESS"
    BY <2>3 DEF Visit
  <2>6. taken' >= 4 /\ ~(taken' < 4)
    BY <1>0, <2>1, <2>5
  <2>7. scaler' = Scale
    BY <1>2, <2>1, <2>3, <2>4 DEF Sent, Switch, Beginning
  <2>8. phase' # "idle" => status' = "SUCCESS"
    BY <2>4, <2>5 DEF Effect, NotTaken, KeptBack, HandedOver, Begun
  <2> QED BY <2>2, <2>6, <2>7, <2>8 DEF Beginning
<1> QED BY <1>1, <1>2

\* What destroy() began it goes on with.
LEMMA DrainingStays ==
  ASSUME TypeOK, Loop \/ Destroy, Draining \/ Destroy PROVE Draining'
<1>1. walk \in Walk
  BY DEF TypeOK
<1>2. CASE Destroy
  BY <1>2 DEF Destroy, Draining
<1>3. CASE Draining /\ (Scan \/ Rewind \/ Replay)
  BY <1>1, <1>3 DEF Draining, Scan, Rewind, Replay, Walked, Walk
<1>4. CASE Draining /\ (Resolved \/ Drain \/ Forward \/ BestEffort)
  <2>1. CASE Resolved
    <3>1. walk.high = NoItem
      BY <1>4, <2>1 DEF Draining, Resolved
    <3> QED BY <2>1, <3>1 DEF Draining, Resolved, NextProcessor
  <2>2. CASE Drain
    BY <2>2 DEF Draining, Drain, NextProcessor
  <2>3. CASE Forward
    BY <2>3 DEF Draining, Forward
  <2>4. CASE BestEffort
    BY <2>4 DEF Draining, BestEffort
  <2> QED BY <1>4, <2>1, <2>2, <2>3, <2>4
<1> QED BY <1>2, <1>3, <1>4 DEF Loop

LEMMA LoopSends ==
  ASSUME TypeOK, Beginning, Sending, Loop \/ Destroy, UNCHANGED target
  PROVE  Beginning' /\ Sending'
<1>1. UNCHANGED <<clock, rest, overflows, torn>>
  BY DEF target
<1>2. UNCHANGED <<taken, low, scaler>>
  BY DEF Loop, Destroy, Scan, Rewind, Replay, Resolved, Drain, Forward, BestEffort, header
<1>3. Sending'
  BY <1>1, <1>2 DEF Sending, Chain, Joins, InGroup
<1>4. Beginning'
  <2>1. CASE Draining \/ Destroy
    <3>1. Draining'
      BY <2>1, DrainingStays
    <3> QED BY <1>2, <3>1 DEF Beginning
  <2>2. CASE ~Draining /\ ~Destroy
    <3>1. Loop
      BY <2>2
    <3>2. phase # "idle"
      BY <3>1 DEF Loop, Scan, Rewind, Replay, Resolved, Drain, Forward, BestEffort
    <3>3. taken >= 4 /\ status = "SUCCESS"
      BY <2>2, <3>2 DEF Beginning
    <3>4. taken \in Nat
      BY DEF TypeOK
    <3>5. status' = "SUCCESS"
      BY <3>1, <3>3 DEF Loop, Scan, Rewind, Replay, Resolved, Drain, Forward, BestEffort
    <3> QED BY <1>2, <3>3, <3>4, <3>5 DEF Beginning
  <2> QED BY <2>1, <2>2
<1> QED BY <1>3, <1>4

-----------------------------------------------------------------------------
(* The times of the items held back, over a step.                          *)
LEMMA StoredSame ==
  ASSUME NEW c \in CPU, Stored(c), ~Walks(c),
         items'[c] = items[c], truth'[c] = truth[c], lost'[c] = lost[c],
         clock'[c] = clock[c], hold'[c] = hold[c], hold[c] => lastBt'[c] = lastBt[c]
  PROVE  Stored(c)'
  BY DEF Stored, Stamped

LEMMA StampedAppend ==
  ASSUME NEW s \in Seq(Item), NEW times \in Seq(Nat), Len(times) = Len(s), NEW x \in Item,
         NEW now \in Nat, NEW new \in Nat, now <= new, NEW l \in Nat, NEW k \in Nat,
         Stamped(s, times, now, l),
         HasTime(x.event) => x.time = new % TimeMod,
         \/ k = Len(s)
         \/ k = l /\ (new = now \/ (HasTime(x.event) /\ new < now + TimeMod))
  PROVE  Stamped(Append(s, x), Append(times, new), new, k)
<1> DEFINE n == Len(s)
           a == Append(s, x)
           b == Append(times, new)
<1>1. /\ n \in Nat /\ Len(a) = n + 1
      /\ \A i \in 1 .. n : a[i] = s[i] /\ b[i] = times[i] /\ times[i] \in Nat
      /\ a[n + 1] = x /\ b[n + 1] = new
  OBVIOUS
<1>2. TimeMod \in Nat
  BY RecordAssumption
<1> HIDE DEF a, b
<1> SUFFICES ASSUME NEW i \in 1 .. n + 1
             PROVE  /\ b[i] <= new
                    /\ HasTime(a[i].event) =>
                         /\ a[i].time = b[i] % TimeMod
                         /\ \A j \in i .. n + 1 : b[i] <= b[j]
                         /\ i > k =>
                              \/ b[i] = new
                              \/ \E j \in i + 1 .. n + 1 :
                                   HasTime(a[j].event) /\ b[j] < b[i] + TimeMod
  BY <1>1 DEF Stamped, a, b
<1>3. CASE i = n + 1
  <2>1. a[i] = x /\ b[i] = new
    BY <1>1, <1>3
  <2>2. \A j \in i .. n + 1 : j = n + 1
    BY <1>1, <1>3
  <2>3. \A j \in i .. n + 1 : b[i] <= b[j]
    BY <1>1, <2>1, <2>2
  <2> QED BY <2>1, <2>3
<1>4. CASE i # n + 1
  <2>1. i \in 1 .. n
    BY <1>1, <1>4
  <2>2. a[i] = s[i] /\ b[i] = times[i] /\ times[i] \in Nat
    BY <1>1, <2>1
  <2>3. times[i] <= now /\ times[i] <= new
    BY <2>1, <2>2 DEF Stamped
  <2> SUFFICES ASSUME HasTime(s[i].event)
               PROVE  /\ s[i].time = times[i] % TimeMod
                      /\ \A j \in i .. n + 1 : times[i] <= b[j]
                      /\ i > k =>
                           \/ times[i] = new
                           \/ \E j \in i + 1 .. n + 1 :
                                HasTime(a[j].event) /\ b[j] < times[i] + TimeMod
    BY <2>2, <2>3
  <2>4. /\ s[i].time = times[i] % TimeMod
        /\ \A j \in i .. n : times[i] <= times[j]
        /\ i > l => \/ times[i] = now
                    \/ \E j \in i + 1 .. n :
                         HasTime(s[j].event) /\ times[j] < times[i] + TimeMod
    BY <2>1 DEF Stamped
  <2>5. \A j \in i .. n + 1 : times[i] <= b[j]
    <3> SUFFICES ASSUME NEW j \in i .. n + 1 PROVE times[i] <= b[j]
      OBVIOUS
    <3>1. CASE j = n + 1
      BY <1>1, <2>3, <3>1
    <3>2. CASE j # n + 1
      <4>1. j \in i .. n /\ j \in 1 .. n
        BY <1>1, <2>1, <3>2
      <4> QED BY <1>1, <2>4, <4>1
    <3> QED BY <3>1, <3>2
  <2>6. ASSUME i > k
        PROVE  \/ times[i] = new
               \/ \E j \in i + 1 .. n + 1 :
                    HasTime(a[j].event) /\ b[j] < times[i] + TimeMod
    <3>1. k = l /\ (new = now \/ (HasTime(x.event) /\ new < now + TimeMod))
      BY <1>1, <2>1, <2>6
    <3>2. CASE times[i] = now /\ new = now
      BY <3>2
    <3>3. CASE times[i] = now /\ new # now
      <4>1. HasTime(a[n + 1].event) /\ b[n + 1] < times[i] + TimeMod
        BY <1>1, <3>1, <3>3
      <4>2. n + 1 \in i + 1 .. n + 1
        BY <1>1, <2>1
      <4> QED BY <4>1, <4>2
    <3>4. CASE times[i] # now
      <4>1. PICK j \in i + 1 .. n : HasTime(s[j].event) /\ times[j] < times[i] + TimeMod
        BY <2>4, <2>6, <3>1, <3>4
      <4>2. j \in 1 .. n /\ j \in i + 1 .. n + 1
        BY <1>1, <2>1
      <4>3. a[j] = s[j] /\ b[j] = times[j]
        BY <1>1, <4>2
      <4> QED BY <4>1, <4>2, <4>3
    <3> QED BY <3>2, <3>3, <3>4
  <2> QED BY <2>4, <2>5, <2>6
<1> QED BY <1>3, <1>4

LEMMA StoredAppend ==
  ASSUME TypeOK, TraceTyped, NEW c \in CPU, Stored(c), ~Walks(c), NEW x \in Item,
         clock'[c] \in Nat, clock[c] <= clock'[c], lastBt'[c] = lastBt[c],
         lastBt[c] <= clock[c] * Scale,
         items'[c] = Append(items[c], x), truth'[c] = Append(truth[c], clock'[c]),
         hold[c] => hold'[c],
         HasTime(x.event) => hold'[c] /\ x.time = clock'[c] % TimeMod,
         \/ lost'[c] = Len(items[c])
         \/ /\ lost'[c] = lost[c]
            /\ \/ clock'[c] = clock[c]
               \/ HasTime(x.event) /\ clock'[c] < clock[c] + TimeMod
  PROVE  Stored(c)'
<1> DEFINE s == items[c]
           times == truth[c]
           new == clock'[c]
<1>1. /\ s \in Seq(Item) /\ times \in Seq(Nat) /\ Len(times) = Len(s)
      /\ clock[c] \in Nat /\ new \in Nat /\ lost[c] \in Nat
  <2>1. s \in Seq(Item)
    BY DEF TypeOK
  <2>2. times \in Seq(Nat) /\ Len(times) = Len(s) /\ clock[c] \in Nat /\ lost[c] \in Nat
    BY DEF TraceTyped, TraceTypeOK
  <2> QED BY <2>1, <2>2
<1>2. lost'[c] \in Nat
  BY <1>1
<1>3. Stamped(s, times, clock[c], lost[c])
  BY DEF Stored
<1>4. Stamped(Append(s, x), Append(times, new), new, lost'[c])
  BY <1>1, <1>2, <1>3, StampedAppend
<1>5. lastBt[c] <= new * Scale
  <2>1. clock[c] * Scale \in Nat /\ new * Scale \in Nat
        /\ clock[c] * Scale <= new * Scale
    BY <1>1, ScaleOrder
  <2>2. lastBt[c] \in Int
    BY DEF TypeOK, Bt
  <2> QED BY <2>1, <2>2
<1>6. \A i \in 1 .. Len(s) : HasTime(s[i].event) => hold[c] /\ lastBt[c] <= times[i] * Scale
  BY DEF Stored
<1> DEFINE n == Len(s)
           a == Append(s, x)
           b == Append(times, new)
<1>7. /\ n \in Nat /\ Len(a) = n + 1
      /\ \A i \in 1 .. n : a[i] = s[i] /\ b[i] = times[i]
      /\ a[n + 1] = x /\ b[n + 1] = new
  BY <1>1
<1>8. items'[c] = a /\ truth'[c] = b
  OBVIOUS
<1>9. \A i \in 1 .. n : HasTime(s[i].event) => hold'[c] /\ lastBt'[c] <= times[i] * Scale
  BY <1>6
<1>10. HasTime(x.event) => hold'[c] /\ lastBt'[c] <= new * Scale
  BY <1>5
<1> HIDE DEF n, s, times, new, a, b
<1>11. \A i \in 1 .. n + 1 :
         HasTime(a[i].event) => hold'[c] /\ lastBt'[c] <= b[i] * Scale
  <2> SUFFICES ASSUME NEW i \in 1 .. n + 1
               PROVE  HasTime(a[i].event) => hold'[c] /\ lastBt'[c] <= b[i] * Scale
    OBVIOUS
  <2>1. CASE i = n + 1
    BY <1>7, <1>10, <2>1
  <2>2. CASE i # n + 1
    <3>1. i \in 1 .. n
      BY <1>7, <2>2
    <3> QED BY <1>7, <1>9, <3>1
  <2> QED BY <2>1, <2>2
<1> QED BY <1>4, <1>7, <1>8, <1>11 DEF Stored, a, b, new

\* How the histories follow the storage.
LEMMA HistoryCases ==
  ASSUME TypeOK, TraceTyped, History, NEW c \in CPU
  PROVE  /\ (items'[c] = items[c] /\ (c # cpu \/ overflows' = overflows)) =>
              truth'[c] = truth[c] /\ lost'[c] = lost[c]
         /\ \A x \in Item : items'[c] = Append(items[c], x) =>
              /\ truth'[c] = Append(truth[c], clock'[c])
              /\ lost'[c] = IF overflows' > overflows /\ c = cpu THEN Len(items[c])
                                                                 ELSE lost[c]
         /\ items'[c] = <<>> => truth'[c] = <<>> /\ lost'[c] = 0
<1> DEFINE s == items[c]
           t == items'[c]
<1>1. s \in Seq(Item) /\ overflows \in Int
  <2>1. s \in Seq(Item)
    BY DEF TypeOK
  <2> QED BY <2>1 DEF TraceTyped, TraceTypeOK
<1>2. truth[c] \in Seq(Nat) /\ Len(truth[c]) = Len(s) /\ lost[c] \in Nat
      /\ lost[c] <= Len(s)
  BY DEF TraceTyped, TraceTypeOK
<1>3. /\ truth'[c] = CASE Len(t) > Len(s) -> Append(truth[c], clock'[c])
                       [] t = <<>> -> <<>>
                       [] OTHER -> truth[c]
      /\ lost'[c] = CASE t = <<>> -> 0
                      [] t # <<>> /\ overflows' > overflows /\ c = cpu -> Len(s)
                      [] OTHER -> lost[c]
  BY DEF History
<1> HIDE DEF s, t
<1>4. ASSUME t = <<>> PROVE truth'[c] = <<>> /\ lost'[c] = 0
  <2>1. ~(Len(t) > Len(s))
    BY <1>1, <1>4
  <2> QED BY <1>3, <1>4, <2>1
<1>5. ASSUME NEW x \in Item, t = Append(s, x)
      PROVE  /\ truth'[c] = Append(truth[c], clock'[c])
             /\ lost'[c] = IF overflows' > overflows /\ c = cpu THEN Len(s) ELSE lost[c]
  <2>1. Len(t) > Len(s) /\ t # <<>>
    BY <1>1, <1>5
  <2> QED BY <1>3, <2>1
<1>6. ASSUME t = s, c # cpu \/ overflows' = overflows
      PROVE  truth'[c] = truth[c] /\ lost'[c] = lost[c]
  <2>1. ~(Len(t) > Len(s)) /\ ~(overflows' > overflows /\ c = cpu)
    BY <1>1, <1>6
  <2>2. CASE t = <<>>
    <3>1. Len(truth[c]) = 0 /\ lost[c] = 0
      BY <1>2, <1>6, <2>2
    <3>2. truth[c] = <<>>
      BY <1>2, <3>1, EmptySeq
    <3> QED BY <1>4, <2>2, <3>1, <3>2
  <2>3. CASE t # <<>>
    BY <1>3, <2>1, <2>3
  <2> QED BY <2>2, <2>3
<1> QED BY <1>4, <1>5, <1>6 DEF s, t

\* A processor to which nothing happens.
LEMMA TimesSame ==
  ASSUME NEW c \in CPU, Stored(c), Direct(c), ~Walks(c), ~Walks(c)',
         items'[c] = items[c], truth'[c] = truth[c], lost'[c] = lost[c],
         clock'[c] = clock[c], hold'[c] = hold[c], lastBt'[c] = lastBt[c],
         uptime'[c] = uptime[c], BtOf(uptime[c], scaler') = BtOf(uptime[c], scaler)
  PROVE  Stored(c)' /\ Direct(c)'
<1>1. Stored(c)'
  BY StoredSame
<1>2. lastBt'[c] <= clock'[c] * Scale
  BY DEF Direct
<1>3. ~hold'[c] => /\ uptime'[c].last = clock'[c] % TimeMod
                   /\ BtOf(uptime'[c], scaler') = clock'[c] * Scale
  BY DEF Direct
<1>4. lastBt'[c] = BtOf(uptime'[c], scaler')
  BY DEF Direct
<1> QED BY <1>1, <1>2, <1>3, <1>4 DEF Direct

\* With a new time of which something is said the products fit.
LEMMA Unwrapped ==
  ASSUME History, torn \subseteq torn'
  PROVE  /\ Astray \subseteq Astray' /\ \A c : c \notin Astray => c \notin torn
         /\ \A c \in CPU : c \notin Astray' =>
              /\ uptime'[c].acc * scaler' < SpanMod
              /\ phase' = "scan" /\ c = cpu' => walk'.acc * scaler' < SpanMod
<1>1. wrapped' = wrapped \cup {c \in CPU : ~Fits(c)'}
  BY DEF History
<1>2. \A c \in CPU : Fits(c)' =>
        /\ uptime'[c].acc * scaler' < SpanMod
        /\ phase' = "scan" /\ c = cpu' => walk'.acc * scaler' < SpanMod
  BY DEF Fits
<1> QED BY <1>1, <1>2 DEF Astray

(* What is known when an item of the target is visited.                    *)
Visiting(item) ==
  /\ TimeInv /\ History /\ Visit(item) /\ Sent(item)
  /\ Effect(item) /\ Switch(item)
  /\ TypeOK' /\ clock' \in [CPU -> 1 .. MaxClock]

LEMMA VisitingFacts ==
  ASSUME NEW item \in Sendable, Visiting(item)
  PROVE  /\ TypeOK /\ TraceTyped /\ cpu \in CPU /\ item \in Item
         /\ phase = "idle" /\ status = "SUCCESS" /\ ~Draining
         /\ \A c \in CPU : ~Walks(c)
         /\ \A c \in CPU \ Astray : Stored(c) /\ Direct(c)
         /\ \A c \in CPU : /\ clock[c] \in Nat /\ clock'[c] \in Nat
                           /\ clock'[c] <= MaxClock /\ clock[c] <= clock'[c]
         /\ \A c \in CPU : BtOf(uptime[c], scaler') = BtOf(uptime[c], scaler)
         /\ HasTime(item.event) => scaler = Scale /\ scaler' = Scale
         /\ torn \subseteq torn' /\ Astray \subseteq Astray'
<1>1. TypeOK /\ TraceTyped
  BY DEF Visiting, TimeInv, PacketInv, IInv
<1>11. torn \subseteq torn' /\ Astray \subseteq Astray'
  <2>1. torn \subseteq torn' /\ History
    BY DEF Visiting, Sent
  <2> QED BY <2>1, Unwrapped
<1>2. cpu \in CPU
  BY <1>1 DEF TypeOK
<1>3. phase = "idle" /\ status = "SUCCESS" /\ ~Draining
  BY DEF Visiting, Visit, Draining
<1>4. \A c \in CPU : ~Walks(c)
  BY <1>3 DEF Walks
<1>5. \A c \in CPU \ Astray : Stored(c) /\ Direct(c)
  BY <1>3 DEF Visiting, TimeInv, Timely, Sound
<1>6. \A c \in CPU : /\ clock[c] \in Nat /\ clock'[c] \in Nat
                     /\ clock'[c] <= MaxClock /\ clock[c] <= clock'[c]
  <2>1. clock \in [CPU -> 1 .. MaxClock]
    BY <1>1 DEF TraceTyped, TraceTypeOK
  <2>2. MaxClock \in Nat
    BY TraceAssumption
  <2> QED BY <2>1, <2>2 DEF Visiting, Sent
<1>7. Beginning /\ Sent(item) /\ Switch(item)
  BY DEF Visiting, TimeInv
<1>8. scaler \in Nat /\ scaler' \in Nat /\ taken \in Nat
  <2>1. scaler \in Nat /\ taken \in Nat
    BY <1>1 DEF TypeOK
  <2>2. TypeOK'
    BY DEF Visiting
  <2>3. scaler' \in Nat
    BY <2>2 DEF TypeOK
  <2> QED BY <2>1, <2>3
<1>9. CASE taken < 4
  <2>1. \A c \in CPU : uptime[c] = NoUptime
    BY <1>3, <1>7, <1>9 DEF Beginning
  <2>2. ~HasTime(item.event)
    BY <1>7, <1>9 DEF Sent
  <2>3. BtOf(NoUptime, scaler') = BtOf(NoUptime, scaler)
    BY <1>8, NoUptimeBt
  <2> QED BY <1>1, <1>2, <1>3, <1>4, <1>5, <1>6, <1>11, <2>1, <2>2, <2>3, SendableType
<1>10. CASE ~(taken < 4)
  <2>1. scaler = Scale /\ scaler' = Scale
    BY <1>7, <1>8, <1>10 DEF Beginning, Sent, Switch
  <2> QED BY <1>1, <1>2, <1>3, <1>4, <1>5, <1>6, <1>11, <2>1, SendableType
<1> QED BY <1>9, <1>10

\* An item that is held back.
LEMMA KeptTimely ==
  ASSUME NEW item \in Sendable, Visiting(item), NEW p \in CPU, KeptBack(p, item)
  PROVE  Timely' /\ TrueTimesStep
<1> DEFINE x == Number(p, item)
<1>1. /\ TypeOK /\ TraceTyped /\ cpu \in CPU /\ item \in Item
      /\ \A c \in CPU : ~Walks(c)
      /\ \A c \in CPU \ Astray : Stored(c) /\ Direct(c)
      /\ \A c \in CPU : /\ clock[c] \in Nat /\ clock'[c] \in Nat
                        /\ clock[c] <= clock'[c]
      /\ \A c \in CPU : BtOf(uptime[c], scaler') = BtOf(uptime[c], scaler)
      /\ Astray \subseteq Astray'
  BY VisitingFacts
<1>2. /\ out' = <<>> /\ UNCHANGED <<uptime, lastBt, phase, walk>>
      /\ items' = [items EXCEPT ![p] = Append(@, x)]
      /\ item.event # "PROCESSOR" => p = cpu /\ hold'[cpu]
      /\ hold' = IF item.event = "PER_CPU_OVERFLOW" THEN [hold EXCEPT ![cpu] = TRUE]
                                                    ELSE hold
  BY DEF KeptBack
<1>3. x \in Item /\ x.event = item.event /\ x.time = item.time
  BY <1>1, NumberType, NumberSame
<1> HIDE DEF x
<1>4. items \in [CPU -> Seq(Item)] /\ hold \in [CPU -> BOOLEAN]
      /\ lastBt \in [CPU -> Bt]
  BY <1>1 DEF TypeOK
<1>5. Sent(item) /\ History /\ phase = "idle"
  BY DEF Visiting, Visit
<1>6. ~HasTime("PROCESSOR") /\ ~HasTime("PER_CPU_OVERFLOW")
  BY TimedEvents
<1>7. ASSUME NEW c \in CPU \ Astray' PROVE Stored(c)' /\ Direct(c)' /\ ~Walks(c)'
  <2>1. /\ c \in CPU /\ c \notin Astray /\ Stored(c) /\ Direct(c) /\ ~Walks(c)
    BY <1>1, <1>5 DEF Sent
  <2>2. ~Walks(c)'
    BY <1>2, <1>5 DEF Walks
  <2>3. \/ clock'[c] = clock[c]
        \/ c = cpu /\ p = cpu /\ hold'[cpu]
    BY <1>2, <1>5, <1>6, <2>1 DEF Sent
  <2>4. lastBt[c] <= clock'[c] * Scale
    <3>1. clock[c] * Scale \in Nat /\ clock'[c] * Scale \in Nat
          /\ clock[c] * Scale <= clock'[c] * Scale
      BY <1>1, <2>1, ScaleOrder
    <3>2. lastBt[c] \in Int /\ lastBt[c] <= clock[c] * Scale
      BY <1>4, <2>1 DEF Bt, Direct
    <3> QED BY <3>1, <3>2
  <2>5. hold'[c] = hold[c] \/ hold'[c]
    BY <1>2, <1>4, <2>1
  <2>6. Direct(c)'
    <3>1. ~hold'[c] => clock'[c] = clock[c] /\ ~hold[c]
      BY <2>3, <2>5
    <3>2. lastBt'[c] = lastBt[c] /\ uptime'[c] = uptime[c]
          /\ BtOf(uptime[c], scaler') = BtOf(uptime[c], scaler)
      BY <1>1, <1>2, <2>1
    <3>3. lastBt'[c] <= clock'[c] * Scale
      BY <2>4, <3>2
    <3>4. ~hold'[c] => /\ uptime'[c].last = clock'[c] % TimeMod
                       /\ BtOf(uptime'[c], scaler') = clock'[c] * Scale
      BY <2>1, <3>1, <3>2 DEF Direct
    <3>5. lastBt'[c] = BtOf(uptime'[c], scaler')
      BY <2>1, <3>2 DEF Direct
    <3> QED BY <3>3, <3>4, <3>5 DEF Direct
  <2>7. Stored(c)'
    <3>1. CASE c = p
      <4>1. items'[c] = Append(items[c], x)
        BY <1>2, <1>4, <2>1, <3>1
      <4>2. /\ truth'[c] = Append(truth[c], clock'[c])
            /\ lost'[c] = IF overflows' > overflows /\ c = cpu THEN Len(items[c])
                                                               ELSE lost[c]
        BY <1>1, <1>3, <1>5, <2>1, <4>1, HistoryCases
      <4>3. hold[c] => hold'[c]
        BY <2>5
      <4>4. HasTime(x.event) => /\ hold'[c] /\ x.time = clock'[c] % TimeMod
                                /\ clock'[c] < clock[c] + TimeMod
        BY <1>2, <1>3, <1>5, <1>6, <3>1 DEF Sent
      <4>5. \/ lost'[c] = Len(items[c])
            \/ /\ lost'[c] = lost[c]
               /\ \/ clock'[c] = clock[c]
                  \/ HasTime(x.event) /\ clock'[c] < clock[c] + TimeMod
        BY <1>2, <1>3, <1>5, <1>6, <2>1, <3>1, <4>2, <4>4 DEF Sent
      <4>6. lastBt'[c] = lastBt[c] /\ lastBt[c] <= clock[c] * Scale
        BY <1>2, <2>1 DEF Direct
      <4> QED BY <1>1, <1>3, <2>1, <4>1, <4>2, <4>3, <4>4, <4>5, <4>6, StoredAppend
    <3>2. CASE c # p
      <4>1. items'[c] = items[c]
        BY <1>2, <1>4, <2>1, <3>2
      <4>2. clock'[c] = clock[c]
        BY <2>3, <3>2
      <4>3. c = cpu => item.event = "PROCESSOR"
        BY <1>2, <3>2
      <4>4. c # cpu \/ overflows' = overflows
        BY <1>5, <4>3 DEF Sent
      <4>5. truth'[c] = truth[c] /\ lost'[c] = lost[c]
        BY <1>1, <1>5, <2>1, <4>1, <4>4, HistoryCases
      <4>6. hold'[c] = hold[c]
        BY <1>2, <1>4, <2>1, <4>3
      <4> QED BY <1>2, <2>1, <4>1, <4>2, <4>5, <4>6, StoredSame
    <3> QED BY <3>1, <3>2
  <2> QED BY <2>2, <2>6, <2>7
<1>8. Timely'
  BY <1>7 DEF Timely
<1>9. TrueTimesStep
  BY <1>2 DEF TrueTimesStep
<1> QED BY <1>8, <1>9

\* A call at a time that is not before the last one.
LEMMA HandedAt ==
  ASSUME NEW p \in CPU, NEW u, NEW x, CallHandler(p, u, x),
         NEW bt, bt = BtOf(Tick(u, x), scaler'), bt >= lastBt[p]
  PROVE  /\ out' = <<[bt |-> bt, cpu |-> p, item |-> x]>>
         /\ lastBt' = [lastBt EXCEPT ![p] = bt]
         /\ uptime' = [uptime EXCEPT ![p] = Tick(u, x)]
<1>1. /\ lastBt' = [lastBt EXCEPT ![p] = IF bt >= @ THEN bt ELSE @]
      /\ uptime' = [uptime EXCEPT ![p] = Tick(u, x)]
      /\ out' = Calls(p, bt, x)
  BY DEF CallHandler
<1> QED BY <1>1 DEF Calls

LEMMA OneCall ==
  ASSUME NEW p \in CPU, NEW bt, NEW x,
         out' = <<[bt |-> bt, cpu |-> p, item |-> x]>>,
         x.event # "TIME_ADJUSTMENT",
         HasTime(x.event) /\ Reliable([bt |-> bt, cpu |-> p, item |-> x]) =>
           bt = Recorded([bt |-> bt, cpu |-> p, item |-> x]) * Scale
  PROVE  TrueTimesStep
<1> DEFINE call == [bt |-> bt, cpu |-> p, item |-> x]
<1>1. call.item = x /\ call.bt = bt
  OBVIOUS
<1>2. \A i \in DOMAIN out' : out'[i] = call
  OBVIOUS
<1> HIDE DEF call
<1> QED BY <1>1, <1>2 DEF TrueTimesStep, call

\* Nothing is said of a processor that lost a half of an uptime, or that
\* was without one for too long.
LEMMA AstrayCalls ==
  ASSUME TypeOK, scaler' \in Nat \ {0}, NEW p \in CPU, NEW u \in Uptime, NEW x \in Item,
         CallHandler(p, u, x), p \in Astray'
  PROVE  TrueTimesStep
<1>1. out' \in Seq(Call) /\ \A i \in 1 .. Len(out') : out'[i].cpu = p
  BY CallHandlerStep
<1>2. \A i \in DOMAIN out' : out'[i].cpu = p
  BY <1>1
<1> QED BY <1>2 DEF TrueTimesStep, Reliable, Astray

\* The uptime of the base that is in the two halves.
LEMMA BaseTime ==
  ASSUME NEW item \in Item, NEW ticks \in Nat, ticks <= MaxClock,
         item.data * LowMod + low[cpu] = ticks * Scale
  PROVE  Base(item).bt = ticks * Scale /\ BtOf(Base(item), Scale) = ticks * Scale
<1>1. (ticks * Scale) % BtMod = ticks * Scale
  BY ScaleFits
<1>2. Base(item).bt = ticks * Scale
  BY <1>1 DEF Base
<1>3. Base(item).acc = 0
  BY DEF Base
<1>4. Scale \in Nat /\ ticks * Scale \in Nat
  BY TraceAssumption
<1>5. Span(0, Scale) = 0
  BY SpanNothing, <1>4
<1>6. ticks * Scale + 0 = ticks * Scale
  BY <1>4
<1> QED BY <1>1, <1>2, <1>3, <1>5, <1>6 DEF BtOf

\* An item that is handed over at once.
LEMMA HandedTimely ==
  ASSUME NEW item \in Sendable, Visiting(item), NEW p \in CPU, NEW u \in Uptime,
         HandedOver(p, u, item)
  PROVE  Timely' /\ TrueTimesStep
<1> DEFINE x == Number(p, item)
<1>1. /\ TypeOK /\ TraceTyped /\ cpu \in CPU /\ item \in Item
      /\ phase = "idle" /\ status = "SUCCESS" /\ ~Draining
      /\ \A c \in CPU : ~Walks(c)
      /\ \A c \in CPU \ Astray : Stored(c) /\ Direct(c)
      /\ \A c \in CPU : /\ clock[c] \in Nat /\ clock'[c] \in Nat
                        /\ clock'[c] <= MaxClock /\ clock[c] <= clock'[c]
      /\ \A c \in CPU : BtOf(uptime[c], scaler') = BtOf(uptime[c], scaler)
      /\ HasTime(item.event) => scaler = Scale /\ scaler' = Scale
      /\ Astray \subseteq Astray'
  BY VisitingFacts
<1>2. /\ CallHandler(p, u, x)
      /\ UNCHANGED <<items, hold, phase, walk>>
      /\ item.event # "PER_CPU_OVERFLOW"
      /\ \/ u = uptime[p] /\ ((p = cpu /\ ~hold[cpu]) \/ item.event \in OutOfBand)
         \/ /\ u = Base(item) /\ p = cpu /\ ~hold[cpu]
            /\ item.event = "UPTIME_HIGH" /\ low[cpu] # NoLow
  BY DEF HandedOver
<1>3. /\ x \in Item /\ x.event = item.event /\ x.time = item.time
      /\ x.event # "TIME_ADJUSTMENT"
  BY <1>1, NumberType, NumberSame, SendableType DEF OwnEvents
<1> HIDE DEF x
<1>4. Sent(item) /\ History
  BY DEF Visiting
<1>5. /\ overflows' = overflows
      /\ IF HasTime(item.event)
           THEN /\ item.time = clock'[cpu] % TimeMod
                /\ clock'[cpu] < clock[cpu] + TimeMod
           ELSE clock' = clock
      /\ (item.event = "UPTIME_HIGH" /\ low[cpu] # NoLow /\ cpu \notin Astray) =>
           item.data * LowMod + low[cpu] = clock'[cpu] * Scale
      /\ \A c \in CPU : c # cpu => clock'[c] = clock[c]
  BY <1>2, <1>4 DEF Sent, Astray
<1>6. scaler' \in Nat \ {0}
  <2>1. TypeOK'
    BY DEF Visiting
  <2> QED BY <2>1 DEF TypeOK
<1>7. uptime \in [CPU -> Uptime] /\ lastBt \in [CPU -> Bt] /\ uptime[p] \in Uptime
      /\ lastBt[p] \in Nat
  BY <1>1 DEF TypeOK, Bt
<1>8. \A c \in CPU : ~Walks(c)'
  BY <1>1, <1>2 DEF Walks
(* The processors for which the handler is not called.                     *)
<1>9. \A c \in CPU : /\ items'[c] = items[c] /\ hold'[c] = hold[c]
                     /\ truth'[c] = truth[c] /\ lost'[c] = lost[c]
  BY <1>1, <1>2, <1>4, <1>5, HistoryCases
<1>10. ASSUME NEW c \in CPU \ Astray', c # p
       PROVE  Stored(c)' /\ Direct(c)'
  <2>1. uptime'[c] = uptime[c] /\ lastBt'[c] = lastBt[c]
    BY <1>7, <1>10, <1>2 DEF CallHandler
  <2>2. c = cpu => ~HasTime(item.event)
    <3>1. ASSUME c = cpu PROVE item.event \in OutOfBand
      BY <1>2, <1>10, <3>1
    <3> QED BY <3>1, TimedEvents DEF OutOfBand
  <2>3. clock'[c] = clock[c]
    BY <1>5, <2>2
  <2> QED BY <1>1, <1>5, <1>8, <1>9, <2>1, <2>3, TimesSame
<1>11. CASE p \in Astray'
  <2>1. TrueTimesStep
    BY <1>1, <1>2, <1>3, <1>5, <1>6, <1>11, AstrayCalls
  <2>2. Timely'
    BY <1>5, <1>8, <1>10, <1>11 DEF Timely
  <2> QED BY <2>1, <2>2
<1>12. CASE p \notin Astray' /\ ~HasTime(item.event)
  <2>1. u = uptime[p]
    BY <1>2, <1>12, TimedEvents DEF GroupEvents
  <2>2. BtOf(uptime[p], scaler') = lastBt[p]
    BY <1>1, <1>12 DEF Direct
  <2>3. /\ UNCHANGED <<uptime, lastBt>>
        /\ out' = <<[bt |-> lastBt[p], cpu |-> p, item |-> x]>>
    BY <1>1, <1>2, <1>3, <1>6, <1>12, <2>1, <2>2, TimelessHanded
  <2>4. TrueTimesStep
    BY <1>3, <1>12, <2>3, OneCall
  <2>5. Stored(p)' /\ Direct(p)'
    BY <1>1, <1>5, <1>8, <1>9, <1>12, <2>3, TimesSame
  <2>6. Timely'
    BY <1>5, <1>8, <1>10, <2>5 DEF Timely
  <2> QED BY <2>4, <2>6
<1>13. CASE p \notin Astray' /\ HasTime(item.event)
  <2> DEFINE v == Tick(u, x)
             now == clock[cpu]
             new == clock'[cpu]
  <2>1. p = cpu /\ ~hold[cpu] /\ Direct(cpu)
    BY <1>1, <1>2, <1>13, TimedEvents DEF OutOfBand
  <2>2. /\ now \in Nat /\ new \in Nat /\ now <= new /\ new <= MaxClock
        /\ x.time = new % TimeMod /\ new < now + TimeMod /\ HasTime(x.event)
        /\ scaler = Scale /\ scaler' = Scale /\ cpu \notin Astray
    BY <1>1, <1>3, <1>5, <1>13, <2>1
  <2>3. /\ lastBt[cpu] <= now * Scale /\ uptime[cpu].last = now % TimeMod
        /\ BtOf(uptime[cpu], Scale) = now * Scale
    BY <2>1, <2>2 DEF Direct
  <2>13. v.acc * Scale < SpanMod
    <3>1. uptime'[p] = v
      BY <1>2, <1>7 DEF CallHandler
    <3>2. uptime'[p].acc * scaler' < SpanMod
      <4>1. History /\ torn \subseteq torn'
        BY <1>4, VisitingFacts
      <4> QED BY <1>13, <4>1, Unwrapped
    <3> QED BY <2>2, <3>1, <3>2
  <2>4. v.last = new % TimeMod /\ BtOf(v, Scale) = new * Scale
    <3>1. CASE u = uptime[p]
      <4>1. (new - now) % TimeMod = new - now
        BY <2>2, ElapsedTime
      <4>2. now + (new - now) = new
        BY <2>2
      <4>3. u \in Uptime /\ u.last = now % TimeMod /\ BtOf(u, Scale) = now * Scale
        BY <2>1, <2>3, <3>1
      <4> QED BY <1>3, <2>2, <2>13, <4>1, <4>2, <4>3, TickTime
    <3>2. CASE u = Base(item) /\ item.event = "UPTIME_HIGH" /\ low[cpu] # NoLow
      <4>1. item.data * LowMod + low[cpu] = new * Scale
        BY <1>5, <2>2, <3>2
      <4>2. BtOf(u, Scale) = new * Scale
        BY <1>1, <2>2, <3>2, <4>1, BaseTime
      <4>3. u.last = new % TimeMod
        BY <1>3, <2>2, <3>2 DEF Base
      <4> HIDE DEF new
      <4>4. (new - new) % TimeMod = 0
        BY <2>2, ElapsedTime
      <4>5. new + 0 = new /\ new \in Nat
        BY <2>2
      <4> QED BY <1>3, <2>2, <2>13, <4>2, <4>3, <4>4, <4>5, TickTime
    <3> QED BY <1>2, <3>1, <3>2
  <2>5. lastBt[cpu] <= new * Scale
    <3>1. now * Scale \in Nat /\ new * Scale \in Nat /\ now * Scale <= new * Scale
      BY <2>2, ScaleOrder
    <3> QED BY <1>7, <2>1, <2>3, <3>1
  <2> DEFINE bt == new * Scale
  <2>6. bt = BtOf(Tick(u, x), scaler') /\ bt >= lastBt[p]
    <3>1. bt \in Nat
      BY <2>2, ScaleOrder
    <3> QED BY <1>7, <2>1, <2>2, <2>4, <2>5, <3>1
  <2> HIDE DEF bt
  <2>7. /\ out' = <<[bt |-> bt, cpu |-> p, item |-> x]>>
        /\ lastBt' = [lastBt EXCEPT ![p] = bt]
        /\ uptime' = [uptime EXCEPT ![p] = v]
    BY <1>2, <2>6, HandedAt
  <2> HIDE DEF v
  <2>8. TrueTimesStep
    <3>1. Recorded([bt |-> bt, cpu |-> p, item |-> x]) = clock'[p]
      BY <1>1 DEF Recorded
    <3> QED BY <1>3, <2>1, <2>7, <3>1, OneCall DEF bt
  <2>9. /\ lastBt'[cpu] = bt /\ uptime'[cpu] = v
    BY <1>7, <2>1, <2>7
  <2>10. Direct(p)'
    <3>1. lastBt'[p] <= clock'[p] * Scale
      <4>1. bt \in Nat
        BY <2>2, ScaleOrder DEF bt
      <4> QED BY <2>1, <2>9, <4>1 DEF bt
    <3>2. /\ uptime'[p].last = clock'[p] % TimeMod
          /\ BtOf(uptime'[p], scaler') = clock'[p] * Scale
          /\ lastBt'[p] = BtOf(uptime'[p], scaler')
      BY <2>1, <2>2, <2>4, <2>9 DEF bt
    <3> QED BY <3>1, <3>2 DEF Direct
  <2>11. Stored(p)'
    <3>1. Stored(p) /\ ~hold[p] /\ items'[p] = items[p] /\ hold'[p] = hold[p]
          /\ truth'[p] = truth[p]
      BY <1>1, <1>9, <2>1, <2>2
    <3>2. \A i \in 1 .. Len(items[p]) : truth[p][i] <= clock[p] /\ ~HasTime(items[p][i].event)
      BY <3>1 DEF Stored, Stamped
    <3>3. \A i \in 1 .. Len(items[p]) : truth[p][i] <= clock'[p]
      <4>1. /\ truth[p] \in Seq(Nat) /\ Len(truth[p]) = Len(items[p])
            /\ clock[p] \in Nat /\ clock'[p] \in Nat /\ clock[p] <= clock'[p]
        BY <1>1 DEF TraceTyped, TraceTypeOK
      <4>2. \A i \in 1 .. Len(items[p]) : truth[p][i] \in Nat
        BY <4>1
      <4> QED BY <3>2, <4>1, <4>2
    <3> QED BY <3>1, <3>2, <3>3 DEF Stored, Stamped
  <2>12. Timely'
    BY <1>5, <1>8, <1>10, <2>1, <2>10, <2>11 DEF Timely
  <2> QED BY <2>8, <2>12
<1> QED BY <1>11, <1>12, <1>13


-----------------------------------------------------------------------------
(* The loops of resolve_hold_back().                                       *)
LEMMA WalkSame ==
  ASSUME cpu' = cpu, items'[cpu] = items[cpu], truth'[cpu] = truth[cpu],
         clock'[cpu] = clock[cpu], lost'[cpu] = lost[cpu],
         NEW Z, NEW index, NEW i
  PROVE  /\ Last' = Last
         /\ (Timed(i)' <=> Timed(i))
         /\ At(i)' = At(i)
         /\ (Claimed(Z, index)' <=> Claimed(Z, index))
<1>1. Last' = Last
  BY DEF Last
<1>2. ASSUME NEW k PROVE (Timed(k)' <=> Timed(k)) /\ At(k)' = At(k)
  BY <1>1 DEF Timed, At
<1>3. ASSUME NEW k, NEW m PROVE Next2(k, m)' <=> Next2(k, m)
  BY <1>2 DEF Next2
<1>4. Claimed(Z, index)' <=> Claimed(Z, index)
  BY <1>1, <1>2, <1>3 DEF Claimed
<1> QED BY <1>1, <1>2, <1>4

\* The first loop begins: the last item is at the time of the clock.
LEMMA BegunTimely ==
  ASSUME NEW item \in Sendable, Visiting(item), Begun(item)
  PROVE  Timely' /\ TrueTimesStep
<1>1. /\ TypeOK /\ TraceTyped /\ cpu \in CPU /\ item \in Item
      /\ \A c \in CPU : ~Walks(c)
      /\ \A c \in CPU \ Astray : Stored(c) /\ Direct(c)
      /\ \A c \in CPU : /\ clock[c] \in Nat /\ clock'[c] <= MaxClock
      /\ \A c \in CPU : BtOf(uptime[c], scaler') = BtOf(uptime[c], scaler)
      /\ HasTime(item.event) => scaler = Scale /\ scaler' = Scale
      /\ torn \subseteq torn' /\ Astray \subseteq Astray'
  BY VisitingFacts
<1>2. /\ item.event = "UPTIME_HIGH" /\ low[cpu] # NoLow /\ hold[cpu]
      /\ phase' = "scan"
      /\ walk' = [index |-> Len(items[cpu]), last |-> item.time, acc |-> 0,
                  saved |-> Base(item), high |-> item]
      /\ uptime' = [uptime EXCEPT ![cpu] = Base(item)]
      /\ out' = <<>>
      /\ UNCHANGED <<status, lastBt, items, hold>>
  BY DEF Begun
<1>3. HasTime("UPTIME_HIGH") /\ "UPTIME_HIGH" \notin {"PER_CPU_OVERFLOW", "PROCESSOR"}
  BY TimedEvents DEF GroupEvents
<1>4. /\ clock' = clock /\ overflows' = overflows
      /\ item.time = clock[cpu] % TimeMod
      /\ cpu \notin Astray => item.data * LowMod + low[cpu] = clock[cpu] * Scale
      /\ cpu' = cpu
  BY <1>2, <1>3 DEF Visiting, Sent, Switch, Astray
<1>5. \A c \in CPU : truth'[c] = truth[c] /\ lost'[c] = lost[c]
  BY <1>1, <1>2, <1>4, HistoryCases DEF Visiting
<1>6. uptime \in [CPU -> Uptime]
  BY <1>1 DEF TypeOK
<1>7. ASSUME NEW c \in CPU \ Astray', c # cpu
      PROVE  Stored(c)' /\ Direct(c)' /\ ~Walks(c)'
  <2>1. ~Walks(c)' /\ uptime'[c] = uptime[c]
    BY <1>2, <1>4, <1>6, <1>7 DEF Walks
  <2> QED BY <1>1, <1>2, <1>4, <1>5, <1>7, <2>1, TimesSame
<1>8. ASSUME NEW c \in CPU \ Astray', c = cpu
      PROVE  Stored(c)' /\ Direct(c)' /\ Walking'
  <2>1. /\ Stored(c) /\ Direct(c) /\ ~Walks(c) /\ Walks(c)' /\ hold[c]
        /\ lastBt'[c] = lastBt[c] /\ hold'[c] = hold[c] /\ items'[c] = items[c]
    BY <1>1, <1>2, <1>4, <1>8 DEF Walks
  <2>2. Stored(c)'
    BY <1>2, <1>4, <1>5, <2>1 DEF Stored, Stamped
  <2>3. Direct(c)'
    BY <1>4, <2>1 DEF Direct
  <2>4. Base(item).bt = clock[cpu] * Scale
    BY <1>1, <1>4, <1>8, BaseTime
  <2>5. Base(item) = [bt |-> clock[cpu] * Scale, last |-> clock[cpu] % TimeMod, acc |-> 0]
    BY <1>4, <2>4 DEF Base
  <2>6. uptime'[cpu] = Base(item) /\ walk'.saved = Base(item) /\ walk'.high = item
        /\ walk'.index = Len(items[cpu]) /\ walk'.last = item.time /\ walk'.acc = 0
    BY <1>1, <1>2, <1>6
  <2>7. Scanning'
    <3>1. PICK n \in Nat \ {0} : n = Last /\ n = Len(items[cpu]) + 1
      <4>1. items[cpu] \in Seq(Item)
        BY <1>1 DEF TypeOK
      <4> QED BY <4>1 DEF Last
    <3>2. PICK now \in Nat : now = clock[cpu]
      BY <1>1
    <3>3. Timed(n) /\ At(n) = now
      BY <3>1, <3>2 DEF Timed, At
    <3>4. PICK Z \in Functions(n) : Z[n] = now
      <4>1. [i \in 1 .. n |-> now] \in Functions(n) /\ [i \in 1 .. n |-> now][n] = now
        BY <3>1, <3>2 DEF Functions
      <4> QED BY <4>1
    <3>5. Claimed(Z, n)
      <4>1. \A i \in n .. Last : i = n
        BY <3>1
      <4>2. \A i, j \in n .. Last : ~Next2(i, j)
        BY <3>1, <4>1 DEF Next2
      <4>3. At(n) <= Z[n] /\ Z[n] <= clock[cpu] /\ Z[n] = At(n)
        BY <3>2, <3>3, <3>4
      <4> QED BY <4>1, <4>2, <4>3 DEF Claimed
    <3>6. /\ cpu' = cpu /\ items'[cpu] = items[cpu] /\ truth'[cpu] = truth[cpu]
          /\ clock'[cpu] = clock[cpu] /\ lost'[cpu] = lost[cpu]
      BY <1>1, <1>2, <1>4, <1>5
    <3>7. /\ Last' = Last /\ (Timed(n)' <=> Timed(n)) /\ At(n)' = At(n)
          /\ (Claimed(Z, n)' <=> Claimed(Z, n))
      BY <3>6, WalkSame
    <3>8. walk'.index + 1 = n /\ n \in n .. n
      BY <2>6, <3>1
    <3>9. /\ walk'.last = now % TimeMod /\ clock'[cpu'] = now
          /\ walk'.acc = now - Z[n]
      BY <1>4, <2>6, <3>2, <3>4
    <3>10. \A m \in n .. n - 1 : ~Timed(m)'
      BY <3>1
    <3>11. Last' = n /\ Timed(n)' /\ At(n)' = now /\ Claimed(Z, n)'
      BY <3>1, <3>3, <3>5, <3>7
    <3>12. walk'.acc * scaler' < SpanMod
      <4>1. phase' = "scan" /\ History /\ cpu = cpu'
        BY <1>2, <1>4 DEF Visiting
      <4> QED BY <1>1, <1>8, <4>1, Unwrapped
    <3> QED BY <3>4, <3>8, <3>9, <3>10, <3>11, <3>12 DEF Scanning
  <2>8. Walking'
    <3>1. phase' # "replay"
      BY <1>2
    <3> QED BY <1>2, <1>4, <2>5, <2>6, <2>7, <3>1 DEF Walking
  <2> QED BY <2>2, <2>3, <2>8
<1>9. Timely'
  <2>1. \A c \in CPU \ Astray' : Stored(c)' /\ Direct(c)' /\ (Walks(c)' => Walking')
    BY <1>4, <1>7, <1>8
  <2> QED BY <2>1 DEF Timely
<1>10. TrueTimesStep
  BY <1>2 DEF TrueTimesStep
<1> QED BY <1>9, <1>10

LEMMA VisitTimely ==
  ASSUME NEW item \in Sendable, Visiting(item)
  PROVE  Timely' /\ TrueTimesStep
<1>1. CASE NotTaken
  BY <1>1 DEF NotTaken, Timely, Sound, TrueTimesStep
<1> QED BY <1>1, KeptTimely, HandedTimely, BegunTimely DEF Visiting, Effect

(* What is known at a step of these loops, and of whom they are not.       *)
Looping ==
  /\ TimeInv /\ History /\ TypeOK' /\ UNCHANGED <<clock, overflows, torn>>
  /\ Astray \subseteq Astray' /\ ~Draining /\ phase \in {"scan", "replay"}

LEMMA LoopingFacts ==
  ASSUME Looping
  PROVE  /\ TypeOK /\ TraceTyped /\ cpu \in CPU /\ hold[cpu] /\ scaler = Scale
         /\ items[cpu] \in Seq(Item) /\ uptime \in [CPU -> Uptime]
         /\ lastBt \in [CPU -> Bt] /\ hold \in [CPU -> BOOLEAN]
         /\ items \in [CPU -> Seq(Item)]
         /\ walk \in Walk /\ walk.high # NoItem /\ walk.high.event = "UPTIME_HIGH"
         /\ clock[cpu] \in Nat /\ clock[cpu] <= MaxClock
         /\ truth[cpu] \in Seq(Nat) /\ Len(truth[cpu]) = Len(items[cpu])
         /\ lost[cpu] \in Nat /\ lost[cpu] <= Len(items[cpu])
         /\ \A c \in CPU : Walks(c) <=> c = cpu
         /\ \A c \in CPU \ Astray : Stored(c) /\ Direct(c)
         /\ cpu \notin Astray => Walking
         /\ phase = "scan" => walk.index <= Len(items[cpu])
         /\ phase = "replay" => walk.index \in 1 .. Len(items[cpu]) + 1
<1>1. TypeOK /\ TraceTyped /\ LoopInv
  BY DEF Looping, TimeInv, PacketInv, IInv
<1>2. /\ cpu \in CPU /\ uptime \in [CPU -> Uptime] /\ lastBt \in [CPU -> Bt]
      /\ walk \in Walk /\ hold \in [CPU -> BOOLEAN]
  BY <1>1 DEF TypeOK
<1>3. items[cpu] \in Seq(Item) /\ items \in [CPU -> Seq(Item)]
  BY <1>1 DEF TypeOK
<1>4. /\ truth[cpu] \in Seq(Nat) /\ Len(truth[cpu]) = Len(items[cpu])
      /\ lost[cpu] \in Nat /\ lost[cpu] <= Len(items[cpu])
  BY <1>1, <1>2 DEF TraceTyped, TraceTypeOK
<1>5. clock[cpu] \in Nat /\ clock[cpu] <= MaxClock
  <2>1. clock \in [CPU -> 1 .. MaxClock] /\ MaxClock \in Nat
    BY <1>1, TraceAssumption DEF TraceTyped, TraceTypeOK
  <2> QED BY <1>2, <2>1
<1>6. /\ phase \in {"scan", "replay"} /\ walk.high # NoItem
      /\ walk.high.event = "UPTIME_HIGH" /\ hold[cpu]
  BY <1>1 DEF Looping, Draining, LoopInv
<1>7. \A c \in CPU : Walks(c) <=> c = cpu
  BY <1>6 DEF Walks
<1>8. /\ phase = "scan" => walk.index <= Len(items[cpu])
      /\ phase = "replay" => walk.index \in 1 .. Len(items[cpu]) + 1
  BY <1>1 DEF LoopInv
<1>9. Sound /\ scaler = Scale
  BY <1>6 DEF Looping, TimeInv, Beginning, Sound
<1>10. \A c \in CPU \ Astray : Stored(c) /\ Direct(c) /\ (Walks(c) => Walking)
  BY <1>9 DEF Looping, TimeInv, Timely
<1>11. cpu \notin Astray => Walking
  BY <1>2, <1>7, <1>10
<1> QED BY <1>1, <1>2, <1>3, <1>4, <1>5, <1>6, <1>7, <1>8, <1>9, <1>10, <1>11

LEMMA OthersTimely ==
  ASSUME Looping, cpu' = cpu, scaler' = scaler,
         \A c \in CPU : c # cpu =>
           /\ items'[c] = items[c] /\ hold'[c] = hold[c]
           /\ uptime'[c] = uptime[c] /\ lastBt'[c] = lastBt[c],
         cpu \notin Astray' => Stored(cpu)' /\ Direct(cpu)' /\ (phase' # "idle" => Walking')
  PROVE  Timely'
<1>1. /\ TypeOK /\ TraceTyped /\ cpu \in CPU
      /\ \A c \in CPU : Walks(c) <=> c = cpu
      /\ \A c \in CPU \ Astray : Stored(c) /\ Direct(c)
  BY LoopingFacts
<1>2. UNCHANGED <<clock, overflows>> /\ Astray \subseteq Astray' /\ History
  BY DEF Looping
<1>3. ASSUME NEW c \in CPU \ Astray', c # cpu
      PROVE  Stored(c)' /\ Direct(c)' /\ ~Walks(c)'
  <2>1. ~Walks(c) /\ ~Walks(c)'
    BY <1>1, <1>3 DEF Walks
  <2>2. truth'[c] = truth[c] /\ lost'[c] = lost[c]
    BY <1>1, <1>2, <1>3, HistoryCases
  <2> QED BY <1>1, <1>2, <1>3, <2>1, <2>2, TimesSame
<1>4. ASSUME NEW c \in CPU \ Astray', c = cpu
      PROVE  Stored(c)' /\ Direct(c)' /\ (Walks(c)' => Walking')
  <2>1. Stored(cpu)' /\ Direct(cpu)' /\ (phase' # "idle" => Walking')
    BY <1>4
  <2>2. Stored(c)' /\ Direct(c)'
    BY <1>4, <2>1 DEF Stored, Direct, Walks
  <2> QED BY <2>1, <2>2 DEF Walks
<1>5. \A c \in CPU \ Astray' : Stored(c)' /\ Direct(c)' /\ (Walks(c)' => Walking')
  BY <1>2, <1>3, <1>4
<1> QED BY <1>5 DEF Timely

(* One item more of the first loop: it lies before the timed item after it *)
(* by what the stamps tell.                                                *)
LEMMA ScanClaims ==
  ASSUME Looping, cpu \notin Astray, NEW k \in 1 .. Len(items[cpu]), Timed(k),
         NEW Z \in Functions(Last), NEW j \in k + 1 .. Last, Claimed(Z, k + 1),
         Timed(j), \A m \in k + 1 .. j - 1 : ~Timed(m)
  PROVE  /\ items[cpu][k].time = At(k) % TimeMod
         /\ (At(j) - At(k)) % TimeMod \in Nat
         /\ \E Y \in Functions(Last) :
              Claimed(Y, k) /\ Y[k] = Z[j] - ((At(j) - At(k)) % TimeMod)
<1> DEFINE n == Len(items[cpu])
           now == clock[cpu]
           a == At(k)
           b == At(j)
           g == (b - a) % TimeMod
           y == Z[j] - g
           Y == [Z EXCEPT ![k] = y]
<1>1. /\ n \in Nat /\ Last = n + 1 /\ k \in Nat /\ j \in Nat /\ k < j /\ k # Last
      /\ k \in 1 .. n /\ k >= 1 /\ j <= n + 1 /\ lost[cpu] \in Nat /\ now \in Nat
      /\ \A i \in 1 .. n : truth[cpu][i] \in Nat
      /\ Stamped(items[cpu], truth[cpu], now, lost[cpu])
  <2>1. /\ items[cpu] \in Seq(Item) /\ truth[cpu] \in Seq(Nat) /\ Len(truth[cpu]) = n
        /\ lost[cpu] \in Nat /\ now \in Nat /\ cpu \in CPU
        /\ \A c \in CPU \ Astray : Stored(c)
    BY LoopingFacts
  <2>2. n \in Nat /\ Last = n + 1
    BY <2>1 DEF Last
  <2>3. k \in Nat /\ j \in Nat /\ k < j /\ j <= n + 1 /\ k # Last
        /\ k \in 1 .. n /\ k >= 1
    BY <2>2
  <2>4. \A i \in 1 .. n : truth[cpu][i] \in Nat
    BY <2>1
  <2> QED BY <2>1, <2>2, <2>3, <2>4 DEF Stored
<1> HIDE DEF n, now
<1>2. /\ HasTime(items[cpu][k].event) /\ a = truth[cpu][k] /\ a \in Nat /\ a <= now
      /\ items[cpu][k].time = a % TimeMod
      /\ \A i \in k .. n : a <= truth[cpu][i]
      /\ k > lost[cpu] => \/ a = now
                          \/ \E i \in k + 1 .. n : /\ HasTime(items[cpu][i].event)
                                                   /\ truth[cpu][i] < a + TimeMod
  BY <1>1 DEF Stamped, Timed, At, n
<1>3. b \in Nat /\ a <= b /\ b <= now
  <2>1. CASE j = Last
    BY <1>1, <1>2, <2>1 DEF At, now
  <2>2. CASE j # Last
    <3>1. j <= n
      BY <1>1, <2>2
    <3>2. j \in k .. n /\ j \in 1 .. n
      BY <1>1, <3>1
    <3>3. b = truth[cpu][j]
      BY <2>2 DEF At
    <3>4. b \in Nat /\ a <= b
      BY <1>1, <1>2, <3>2, <3>3
    <3>5. b <= now
      BY <1>1, <3>2, <3>3 DEF Stamped, n
    <3> QED BY <3>4, <3>5
  <2> QED BY <2>1, <2>2
<1>4. TimeMod \in Nat
  BY RecordAssumption
<1>5. k > lost[cpu] => b < a + TimeMod
  <2> SUFFICES ASSUME k > lost[cpu] PROVE b < a + TimeMod
    OBVIOUS
  <2>1. CASE a = now
    <3>1. TimeMod > 0
      BY RecordAssumption
    <3> QED BY <1>2, <1>3, <1>4, <2>1, <3>1
  <2>2. CASE a # now
    <3>1. PICK i \in k + 1 .. n : HasTime(items[cpu][i].event) /\ truth[cpu][i] < a + TimeMod
      BY <1>2, <2>2
    <3>2. i \in Nat /\ i \in 1 .. n /\ i # Last /\ Timed(i) /\ At(i) = truth[cpu][i]
      BY <1>1, <3>1 DEF Timed, At
    <3>3. ~(i \in k + 1 .. j - 1)
      BY <3>2
    <3>4. j <= i /\ j \in 1 .. n /\ i \in j .. n
      BY <1>1, <3>1, <3>2, <3>3
    <3>5. j # Last /\ HasTime(items[cpu][j].event) /\ b = truth[cpu][j]
      BY <1>1, <3>4 DEF Timed, At
    <3>6. b <= truth[cpu][i]
      BY <1>1, <3>4, <3>5 DEF Stamped, n
    <3> QED BY <1>1, <1>2, <1>3, <1>4, <3>1, <3>2, <3>6
  <2> QED BY <2>1, <2>2
<1> HIDE DEF a, b
<1>6. /\ g \in Nat /\ g <= b - a
      /\ k > lost[cpu] => g = b - a
  BY <1>2, <1>3, <1>5, ElapsedTime
<1> HIDE DEF g
<1>7. /\ Z \in [1 .. n + 1 -> Nat] /\ j \in 1 .. n + 1 /\ k \in 1 .. n + 1
  BY <1>1 DEF Functions
<1>8. /\ b <= Z[j] /\ Z[j] <= now /\ Z[j] \in Nat
      /\ j > lost[cpu] => Z[j] = b
  BY <1>1, <1>7 DEF Claimed, b, now
<1>9. /\ y \in Nat /\ a <= y /\ y <= now
      /\ k > lost[cpu] => y = a
  <2> DEFINE z == Z[j]
  <2>1. /\ b <= z /\ z <= now /\ z \in Nat /\ g \in Nat /\ g <= b - a /\ y = z - g
        /\ a \in Nat /\ b \in Nat /\ a <= b /\ now \in Nat
    BY <1>1, <1>2, <1>3, <1>6, <1>8
  <2>2. k > lost[cpu] => z = b /\ g = b - a
    BY <1>1, <1>6, <1>8
  <2> HIDE DEF z, y
  <2> QED BY <2>1, <2>2
<1> HIDE DEF y
<1>10. /\ Y \in [1 .. n + 1 -> Nat] /\ Y[k] = y
       /\ \A i \in k + 1 .. n + 1 : Y[i] = Z[i]
  <2>1. Y \in [1 .. n + 1 -> Nat] /\ Y[k] = y
    BY <1>7, <1>9
  <2>2. \A i \in k + 1 .. n + 1 : i \in 1 .. n + 1 /\ i # k
    BY <1>1
  <2> QED BY <1>7, <2>1, <2>2
<1> HIDE DEF Y
<1>11. Claimed(Y, k)
  <2>1. ASSUME NEW i \in k .. n + 1, Timed(i)
        PROVE  /\ At(i) <= Y[i] /\ Y[i] <= now
               /\ i > lost[cpu] => Y[i] = At(i)
    <3>1. CASE i = k
      BY <1>9, <1>10, <3>1 DEF a
    <3>2. CASE i # k
      <4>1. i \in k + 1 .. Last /\ i \in k + 1 .. n + 1
        BY <1>1, <3>2
      <4> QED BY <1>10, <2>1, <4>1 DEF Claimed, now
    <3> QED BY <3>1, <3>2
  <2>2. ASSUME NEW i \in k .. n + 1, NEW m \in k .. n + 1, Next2(i, m)
        PROVE  Y[m] = Y[i] + ((At(m) - At(i)) % TimeMod)
    <3>1. i \in Nat /\ m \in Nat /\ i < m /\ Timed(m)
      BY <1>1, <2>2 DEF Next2
    <3>2. m \in k + 1 .. n + 1 /\ m \in k + 1 .. Last
      BY <1>1, <3>1
    <3>3. CASE i = k
      <4>1. ~(j \in k + 1 .. m - 1) /\ ~(m \in k + 1 .. j - 1)
        BY <2>2, <3>1, <3>3 DEF Next2
      <4>2. m = j
        BY <1>1, <3>1, <3>2, <4>1
      <4>3. Y[m] = Z[j] /\ Y[i] = y /\ (At(m) - At(i)) % TimeMod = g
        BY <1>10, <3>2, <3>3, <4>2 DEF g, a, b
      <4> QED BY <1>6, <1>8, <4>3 DEF y
    <3>4. CASE i # k
      <4>1. i \in k + 1 .. n + 1 /\ i \in k + 1 .. Last
        BY <1>1, <3>4
      <4> QED BY <1>10, <2>2, <3>2, <4>1 DEF Claimed
    <3> QED BY <3>3, <3>4
  <2> QED BY <1>1, <2>1, <2>2 DEF Claimed, now
<1>12. Y \in Functions(Last)
  BY <1>1, <1>10 DEF Functions
<1> QED BY <1>2, <1>6, <1>10, <1>11, <1>12 DEF y, g, a, b

\* The storage stays as it is while the loops are in it.
LEMMA LoopingSame ==
  ASSUME Looping, UNCHANGED <<cpu, items, hold>>, cpu \notin Astray,
         NEW Z, NEW index, NEW i
  PROVE  /\ items'[cpu] = items[cpu] /\ truth'[cpu] = truth[cpu]
         /\ lost'[cpu] = lost[cpu] /\ hold'[cpu] /\ clock'[cpu] = clock[cpu]
         /\ Last' = Last /\ (Timed(i)' <=> Timed(i)) /\ At(i)' = At(i)
         /\ (Claimed(Z, index)' <=> Claimed(Z, index))
         /\ Stored(cpu) /\ Direct(cpu)
<1>1. /\ TypeOK /\ TraceTyped /\ cpu \in CPU /\ hold[cpu]
      /\ \A c \in CPU \ Astray : Stored(c) /\ Direct(c)
  BY LoopingFacts
<1>2. UNCHANGED <<clock, overflows, torn>> /\ History
  BY DEF Looping
<1>3. truth'[cpu] = truth[cpu] /\ lost'[cpu] = lost[cpu]
  BY <1>1, <1>2, HistoryCases
<1>4. items'[cpu] = items[cpu] /\ clock'[cpu] = clock[cpu] /\ hold'[cpu]
  BY <1>1, <1>2
<1> QED BY <1>1, <1>3, <1>4, WalkSame

LEMMA StoredStays ==
  ASSUME Looping, UNCHANGED <<cpu, items, hold>>, cpu \notin Astray,
         \/ phase' = "replay"
         \/ phase = "scan" /\ phase' = "scan" /\ lastBt'[cpu] = lastBt[cpu]
  PROVE  Stored(cpu)'
<1>1. cpu \in CPU /\ Walks(cpu)
  BY LoopingFacts
<1>2. /\ items'[cpu] = items[cpu] /\ truth'[cpu] = truth[cpu] /\ Stored(cpu)
      /\ lost'[cpu] = lost[cpu] /\ hold'[cpu] /\ clock'[cpu] = clock[cpu] /\ cpu' = cpu
  BY LoopingSame
<1>3. Stamped(items'[cpu], truth'[cpu], clock'[cpu], lost'[cpu])
  BY <1>2 DEF Stored
<1>4. \A i \in 1 .. Len(items'[cpu]) : HasTime(items'[cpu][i].event) =>
        /\ hold'[cpu]
        /\ ~(Walks(cpu)' /\ phase' = "replay") => lastBt'[cpu] <= truth'[cpu][i] * Scale
  <2>1. CASE phase' = "replay"
    <3>1. Walks(cpu)'
      BY <1>2, <2>1 DEF Walks
    <3> QED BY <1>2, <2>1, <3>1
  <2>2. CASE phase = "scan" /\ lastBt'[cpu] = lastBt[cpu]
    BY <1>2, <2>2 DEF Stored
  <2> QED BY <2>1, <2>2
<1> QED BY <1>2, <1>3, <1>4 DEF Stored

\* One iteration of the first loop.
LEMMA ScanTimely ==
  ASSUME Looping, Scan PROVE Timely' /\ TrueTimesStep
<1>1. /\ cpu \in CPU /\ walk \in Walk /\ items[cpu] \in Seq(Item)
      /\ clock[cpu] \in Nat /\ walk.index <= Len(items[cpu])
      /\ cpu \notin Astray => Walking
  BY LoopingFacts DEF Scan
<1> DEFINE gap == IF HasTime(items[cpu][walk.index].event)
                    THEN Elapsed(items[cpu][walk.index].time, walk.last) ELSE 0
<1>2. /\ phase = "scan" /\ walk.index > 0 /\ out' = <<>>
      /\ walk' = Walked(walk.index - 1, items[cpu][walk.index], gap)
      /\ UNCHANGED <<cpu, scaler, uptime, lastBt, hold, items, phase>>
  BY DEF Scan, header, store
<1> HIDE DEF gap
<1>3. ASSUME cpu \notin Astray' PROVE Stored(cpu)' /\ Direct(cpu)' /\ Walking'
  <2>a. cpu \notin Astray
    BY <1>3 DEF Looping
  <2>1. Stored(cpu)'
    BY <1>2, <2>a, StoredStays
  <2>2. /\ clock'[cpu] = clock[cpu] /\ Direct(cpu) /\ Stored(cpu) /\ hold'[cpu]
        /\ Last' = Last
    BY <1>2, <2>a, LoopingSame
  <2>3. Direct(cpu)'
    BY <1>2, <2>2 DEF Direct, Walks
  <2>4. PICK k \in 1 .. Len(items[cpu]) : k = walk.index
    BY <1>1, <1>2 DEF Walk
  <2>5. Walking /\ Scanning
    BY <1>1, <1>2, <2>a DEF Walking
  <2>6. PICK Z \in Functions(Last), j \in k + 1 .. Last :
          /\ Claimed(Z, k + 1)
          /\ Timed(j) /\ \A m \in k + 1 .. j - 1 : ~Timed(m)
          /\ walk.last = At(j) % TimeMod /\ walk.acc = clock[cpu] - Z[j]
    BY <2>4, <2>5 DEF Scanning
  <2>7. /\ walk'.index = k - 1 /\ walk'.saved = walk.saved /\ walk'.high = walk.high
        /\ walk'.last = IF HasTime(items[cpu][k].event) THEN items[cpu][k].time
                                                        ELSE walk.last
        /\ walk'.acc = walk.acc + gap
    BY <1>2, <2>4 DEF Walked
  <2>8. /\ k \in Nat /\ j \in Nat /\ Last = Len(items[cpu]) + 1 /\ k # Last /\ k < j
        /\ Len(items[cpu]) \in Nat /\ j <= Last
    BY <1>1, <2>4 DEF Last
  <2>9. Timed(k) <=> HasTime(items[cpu][k].event)
    BY <2>8 DEF Timed
  <2>10. \E Y \in Functions(Last), i \in k .. Last :
           /\ Claimed(Y, k)
           /\ Timed(i) /\ \A m \in k .. i - 1 : ~Timed(m)
           /\ walk'.last = At(i) % TimeMod /\ walk'.acc = clock[cpu] - Y[i]
    <3>1. CASE Timed(k)
      <4> DEFINE g == (At(j) - At(k)) % TimeMod
      <4>1. /\ items[cpu][k].time = At(k) % TimeMod /\ g \in Nat
            /\ \E Y \in Functions(Last) : Claimed(Y, k) /\ Y[k] = Z[j] - g
        BY <2>a, <2>4, <2>6, <3>1, ScanClaims
      <4>2. PICK Y \in Functions(Last) : Claimed(Y, k) /\ Y[k] = Z[j] - g
        BY <4>1
      <4>3. gap = Elapsed(At(k) % TimeMod, At(j) % TimeMod)
        BY <2>4, <2>6, <2>9, <3>1, <4>1 DEF gap
      <4>4. At(k) \in Nat /\ At(j) \in Nat
        <5>1. truth[cpu] \in Seq(Nat) /\ Len(truth[cpu]) = Len(items[cpu])
          BY LoopingFacts
        <5>2. \A i \in 1 .. Len(items[cpu]) : truth[cpu][i] \in Nat
          BY <5>1
        <5>3. j # Last => j \in 1 .. Len(items[cpu])
          BY <2>8
        <5> QED BY <1>1, <2>4, <2>8, <5>2, <5>3 DEF At
      <4>5. gap = g
        BY <4>3, <4>4, ElapsedTime
      <4> HIDE DEF g
      <4>6. Z[j] \in Nat
        <5>1. j \in 1 .. Last
          BY <2>8
        <5> QED BY <5>1 DEF Functions
      <4>7. walk'.acc = clock[cpu] - Y[k] /\ walk'.last = At(k) % TimeMod
        BY <1>1, <2>6, <2>7, <2>9, <3>1, <4>1, <4>2, <4>5, <4>6
      <4>8. k \in k .. Last /\ \A m \in k .. k - 1 : ~Timed(m)
        BY <2>8
      <4> QED BY <3>1, <4>2, <4>7, <4>8
    <3>2. CASE ~Timed(k)
      <4>1. gap = 0 /\ walk'.last = walk.last /\ walk'.acc = walk.acc + 0
        BY <2>4, <2>7, <2>9, <3>2 DEF gap
      <4>2. walk.acc \in Nat
        BY <1>1 DEF Walk
      <4>3. walk'.acc = clock[cpu] - Z[j]
        BY <2>6, <4>1, <4>2
      <4>4. \A m \in k .. j - 1 : ~Timed(m)
        <5>1. \A m \in k .. j - 1 : m = k \/ m \in k + 1 .. j - 1
          BY <2>8
        <5> QED BY <2>6, <3>2, <5>1
      <4>5. Claimed(Z, k)
        <5>1. \A i \in k .. Last : Timed(i) => i \in k + 1 .. Last
          <6>1. \A i \in k .. Last : i = k \/ i \in k + 1 .. Last
            BY <2>8
          <6> QED BY <3>2, <6>1
        <5> QED BY <2>6, <5>1 DEF Claimed, Next2
      <4>6. j \in k .. Last
        BY <2>8
      <4> QED BY <2>6, <4>1, <4>3, <4>4, <4>5, <4>6
    <3> QED BY <3>1, <3>2
  <2>11. PICK Y \in Functions(Last), i \in k .. Last :
           /\ Claimed(Y, k)
           /\ Timed(i) /\ \A m \in k .. i - 1 : ~Timed(m)
           /\ walk'.last = At(i) % TimeMod /\ walk'.acc = clock[cpu] - Y[i]
    BY <2>10
  <2>12. Claimed(Y, k)' /\ Timed(i)' /\ At(i)' = At(i)
    BY <1>2, <2>a, <2>11, LoopingSame
  <2>13. \A m \in k .. i - 1 : ~Timed(m)'
    BY <1>2, <2>a, <2>11, LoopingSame
  <2>14. walk'.index + 1 = k /\ cpu' = cpu
    BY <1>2, <2>7, <2>8
  <2>17. walk'.acc * scaler' < SpanMod
    <3>1. History /\ torn \subseteq torn' /\ phase' = "scan"
      BY <1>2 DEF Looping
    <3> QED BY <1>1, <1>3, <2>14, <3>1, Unwrapped
  <2>15. Scanning'
    BY <2>2, <2>11, <2>12, <2>13, <2>14, <2>17 DEF Scanning
  <2>16. Walking'
    <3>1. phase' = "scan" /\ uptime'[cpu'] = uptime[cpu] /\ clock'[cpu'] = clock[cpu]
      BY <1>2, <2>2
    <3> QED BY <1>2, <2>5, <2>7, <2>15, <3>1 DEF Walking
  <2> QED BY <2>1, <2>3, <2>16
<1>4. Timely'
  BY <1>2, <1>3, OthersTimely
<1>5. TrueTimesStep
  BY <1>2 DEF TrueTimesStep
<1> QED BY <1>4, <1>5

\* Times that are claimed are times of the clock.
LEMMA ClaimedType ==
  ASSUME Looping, NEW Z \in Functions(Last), NEW i \in 1 .. Last
  PROVE  /\ Z[i] \in Nat /\ At(i) \in Nat /\ Last \in Nat /\ i \in Nat
         /\ Last = Len(items[cpu]) + 1 /\ (i # Last => i \in 1 .. Len(items[cpu]))
<1>1. /\ items[cpu] \in Seq(Item) /\ clock[cpu] \in Nat
      /\ truth[cpu] \in Seq(Nat) /\ Len(truth[cpu]) = Len(items[cpu])
  BY LoopingFacts
<1>2. Last \in Nat /\ Last = Len(items[cpu]) + 1 /\ Len(items[cpu]) \in Nat
  BY <1>1 DEF Last
<1>3. i \in Nat /\ (i # Last => i \in 1 .. Len(items[cpu]))
  BY <1>2
<1>4. \A m \in 1 .. Len(items[cpu]) : truth[cpu][m] \in Nat
  BY <1>1
<1>5. At(i) \in Nat
  BY <1>1, <1>3, <1>4 DEF At
<1>6. Z[i] \in Nat
  BY DEF Functions
<1> QED BY <1>2, <1>3, <1>5, <1>6

\* The base of the items held back is the time of the first of them.
LEMMA RewindTimely ==
  ASSUME Looping, Rewind PROVE Timely' /\ TrueTimesStep
<1>1. /\ cpu \in CPU /\ walk \in Walk /\ items[cpu] \in Seq(Item) /\ scaler = Scale
      /\ clock[cpu] \in Nat /\ clock[cpu] <= MaxClock /\ uptime \in [CPU -> Uptime]
      /\ lastBt \in [CPU -> Bt]
      /\ cpu \notin Astray => Walking
  BY LoopingFacts
<1>2. /\ phase = "scan" /\ walk.index = 0 /\ out' = <<>> /\ phase' = "replay"
      /\ uptime' = [uptime EXCEPT ![cpu] =
                      [bt |-> (@.bt - Span(walk.acc, scaler)) % BtMod,
                       last |-> walk.last, acc |-> 0]]
      /\ walk' = [walk EXCEPT !.index = 1]
      /\ UNCHANGED <<cpu, scaler, lastBt, hold, items>>
  BY DEF Rewind, header, store
<1>3. ASSUME cpu \notin Astray' PROVE Stored(cpu)' /\ Direct(cpu)' /\ Walking'
  <2>a. cpu \notin Astray
    BY <1>3 DEF Looping
  <2>1. Stored(cpu)'
    BY <1>2, <2>a, StoredStays
  <2>2. /\ clock'[cpu] = clock[cpu] /\ Direct(cpu) /\ Stored(cpu) /\ hold'[cpu]
        /\ Last' = Last
    BY <1>2, <2>a, LoopingSame
  <2>3. Direct(cpu)'
    BY <1>2, <2>2 DEF Direct, Walks
  <2>4. Walking /\ Scanning /\ uptime[cpu] = walk.saved /\ 0 + 1 = 1
    BY <1>2, <2>a, <1>1 DEF Walking
  <2>5. PICK Z \in Functions(Last), p \in 1 .. Last :
          /\ Claimed(Z, 1)
          /\ Timed(p) /\ \A m \in 1 .. p - 1 : ~Timed(m)
          /\ walk.last = At(p) % TimeMod /\ walk.acc = clock[cpu] - Z[p]
          /\ walk.acc * scaler < SpanMod
    BY <1>2, <2>4 DEF Scanning
  <2> DEFINE now == clock[cpu]
             z == Z[p]
             x == now * Scale
             y == z * Scale
  <2>6. z \in Nat /\ At(p) \in Nat /\ At(p) <= z /\ z <= now /\ p \in Nat /\ p >= 1
    BY <2>5, ClaimedType DEF Claimed
  <2>7. /\ x \in Nat /\ y \in Nat /\ (now - z) * Scale = x - y
    BY <1>1, <2>6, ScaleOrder
  <2>8. y % BtMod = y
    <3>1. z <= MaxClock
      BY <1>1, <2>6, TraceAssumption
    <3> QED BY <2>6, <3>1, ScaleFits
  <2>9. uptime'[cpu] = [bt |-> (x - (now - z) * Scale) % BtMod, last |-> walk.last, acc |-> 0]
    <3>1. walk.acc \in Nat
      BY <1>1 DEF Walk
    <3>2. Span(walk.acc, scaler) = (now - z) * Scale
      BY <1>1, <2>5, <3>1, SpanFits
    <3> QED BY <1>1, <1>2, <2>4, <3>2 DEF Walking
  <2> HIDE DEF x, y
  <2>10. x - (x - y) = y
    BY <2>7
  <2>11. uptime'[cpu] = [bt |-> y, last |-> walk.last, acc |-> 0]
    BY <2>7, <2>8, <2>9, <2>10
  <2>12. BtOf(uptime'[cpu], scaler') = y
    <3>1. Span(0, Scale) = 0 /\ y + 0 = y
      BY <2>7, SpanNothing, TraceAssumption
    <3> QED BY <1>1, <1>2, <2>8, <2>11, <3>1 DEF BtOf
  <2>13. lastBt[cpu] <= y
    <3>1. lastBt[cpu] \in Nat
      BY <1>1 DEF Bt
    <3>2. CASE p = Last
      <4>1. z = now
        BY <1>1, <2>6, <3>2 DEF At
      <4> QED BY <2>2, <4>1 DEF Direct, x, y
    <3>3. CASE p # Last
      <4>1. p \in 1 .. Len(items[cpu])
        BY <2>5, <3>3, ClaimedType
      <4>2. HasTime(items[cpu][p].event) /\ At(p) = truth[cpu][p]
        BY <2>5, <3>3 DEF Timed, At
      <4>3. lastBt[cpu] <= At(p) * Scale
        BY <1>2, <2>2, <4>1, <4>2 DEF Stored
      <4>4. At(p) * Scale \in Nat /\ At(p) * Scale <= y
        BY <2>6, ScaleOrder DEF y
      <4> QED BY <2>7, <3>1, <4>3, <4>4
    <3> QED BY <3>2, <3>3
  <2>14. Claimed(Z, 1)' /\ Timed(p)' /\ At(p)' = At(p)
    BY <1>2, <2>a, <2>5, LoopingSame
  <2>15. \A m \in 1 .. p - 1 : ~Timed(m)'
    BY <1>2, <2>a, <2>5, LoopingSame
  <2>16. walk'.index = 1 /\ walk'.saved = walk.saved /\ walk'.high = walk.high
    BY <1>1, <1>2 DEF Walk
  <2>17. /\ uptime'[cpu'].last = At(p) % TimeMod /\ cpu' = cpu
         /\ BtOf(uptime'[cpu'], scaler') = Z[p] * Scale
         /\ lastBt'[cpu'] <= Z[p] * Scale
    BY <1>2, <2>5, <2>11, <2>12, <2>13 DEF y
  <2>18. ~(p < 1)
    BY <2>6
  <2>19. Replaying'
    BY <2>2, <2>5, <2>14, <2>15, <2>16, <2>17, <2>18 DEF Replaying
  <2>20. Walking'
    <3>1. clock'[cpu'] = clock[cpu] /\ phase' = "replay"
      BY <1>2, <2>2
    <3> QED BY <2>4, <2>16, <2>19, <3>1 DEF Walking
  <2> QED BY <2>1, <2>3, <2>20
<1>4. Timely'
  <2>1. \A c \in CPU : c # cpu => uptime'[c] = uptime[c]
    BY <1>1, <1>2
  <2> QED BY <1>2, <1>3, <2>1, OthersTimely
<1>5. TrueTimesStep
  BY <1>2 DEF TrueTimesStep
<1> QED BY <1>4, <1>5

\* One item of the second loop: the time that was claimed for it.
LEMMA ReplayTime ==
  ASSUME Looping, Replay, cpu \notin Astray,
         Tick(uptime[cpu], items[cpu][walk.index]).acc * Scale < SpanMod
  PROVE  \E Z \in Functions(Last), p \in 1 .. Last :
           LET k == walk.index
               u == Tick(uptime[cpu], items[cpu][k])
           IN /\ Claimed(Z, 1) /\ Timed(p) /\ Z[p] <= clock[cpu]
              /\ IF p < k + 1 THEN \A m \in p + 1 .. k : ~Timed(m)
                              ELSE \A m \in 1 .. p - 1 : ~Timed(m)
              /\ u.last = At(p) % TimeMod /\ BtOf(u, Scale) = Z[p] * Scale
              /\ lastBt[cpu] <= Z[p] * Scale
              /\ Timed(k) => p = k
<1> DEFINE s == items[cpu]
           u == uptime[cpu]
           now == clock[cpu]
<1>1. /\ s \in Seq(Item) /\ scaler = Scale /\ now \in Nat /\ now <= MaxClock
      /\ u \in Uptime /\ lastBt[cpu] \in Nat /\ Walking
      /\ walk.index \in 1 .. Len(s) + 1 /\ phase = "replay" /\ walk.index <= Len(s)
  <2>1. /\ cpu \in CPU /\ s \in Seq(Item) /\ scaler = Scale /\ now \in Nat /\ now <= MaxClock
        /\ uptime \in [CPU -> Uptime] /\ lastBt \in [CPU -> Bt] /\ Walking
    BY LoopingFacts
  <2>2. phase = "replay" /\ walk.index <= Len(s) /\ walk.index \in 1 .. Len(s) + 1
    BY LoopingFacts DEF Replay
  <2> QED BY <2>1, <2>2 DEF Bt
<1>2. PICK k \in 1 .. Len(s) : k = walk.index
  BY <1>1
<1>3. PICK Z \in Functions(Last), p \in 1 .. Last :
        /\ Claimed(Z, 1)
        /\ Timed(p)
        /\ IF p < k THEN \A m \in p + 1 .. k - 1 : ~Timed(m)
                    ELSE \A m \in 1 .. p - 1 : ~Timed(m)
        /\ u.last = At(p) % TimeMod
        /\ BtOf(u, scaler) = Z[p] * Scale
        /\ lastBt[cpu] <= Z[p] * Scale
  BY <1>1, <1>2 DEF Walking, Replaying
<1>4. /\ Last \in Nat /\ Last = Len(s) + 1 /\ Len(s) \in Nat /\ k \in Nat /\ k >= 1
      /\ k \in 1 .. Last /\ k # Last /\ k < Last /\ s[k] \in Item
      /\ p \in Nat /\ p >= 1 /\ p <= Last /\ Z[p] \in Nat /\ At(p) \in Nat
  <2>1. Last \in Nat /\ Last = Len(s) + 1 /\ p \in Nat /\ Z[p] \in Nat /\ At(p) \in Nat
    BY ClaimedType
  <2>2. Len(s) \in Nat /\ s[k] \in Item
    BY <1>1, ElementOfSeq
  <2> QED BY <2>1, <2>2
<1>5. (Timed(k) <=> HasTime(s[k].event)) /\ At(k) = truth[cpu][k]
  BY <1>4 DEF Timed, At
<1>6. Z[p] <= now /\ At(p) <= Z[p]
  BY <1>3, <1>4 DEF Claimed
<1>7. CASE ~Timed(k)
  <2>1. Tick(u, s[k]) = u
    BY <1>5, <1>7 DEF Tick
  <2>2. p # k
    BY <1>3, <1>7
  <2>3. IF p < k + 1 THEN \A m \in p + 1 .. k : ~Timed(m)
                     ELSE \A m \in 1 .. p - 1 : ~Timed(m)
    <3>1. p < k + 1 <=> p < k
      BY <1>4, <2>2
    <3>2. p < k => \A m \in p + 1 .. k : m = k \/ m \in p + 1 .. k - 1
      BY <1>4
    <3> QED BY <1>3, <1>7, <3>1, <3>2
  <2> QED BY <1>1, <1>2, <1>3, <1>6, <1>7, <2>1, <2>3
<1>8. CASE Timed(k)
  <2> DEFINE g == (At(k) - At(p)) % TimeMod
  <2>1. /\ Z[k] \in Nat /\ At(k) \in Nat /\ Z[k] <= now
    BY <1>1, <1>3, <1>4, <1>8, ClaimedType DEF Claimed
  <2>2. g \in Nat
    BY <1>4, <2>1, ElapsedTime
  <2>3. Z[k] = Z[p] + g
    <3>1. CASE p < k
      <4>1. Next2(p, k)
        BY <1>3, <1>8, <3>1 DEF Next2
      <4>2. p \in 1 .. Last
        BY <1>4
      <4> QED BY <1>3, <1>4, <4>1, <4>2 DEF Claimed
    <3>2. CASE ~(p < k)
      <4>1. ~(k \in 1 .. p - 1)
        BY <1>3, <1>8, <3>2
      <4>2. p = k
        BY <1>4, <3>2, <4>1
      <4>3. g = 0
        BY <1>4, <4>2, ElapsedTime
      <4> QED BY <2>1, <4>2, <4>3
    <3> QED BY <3>1, <3>2
  <2>4. s[k].time = At(k) % TimeMod
    <3>1. Stored(cpu)
      BY LoopingFacts
    <3> QED BY <1>5, <1>8, <3>1 DEF Stored, Stamped
  <2>5. Z[p] + g <= MaxClock
    BY <1>1, <2>1, <2>3, TraceAssumption
  <2>6. /\ Tick(u, s[k]).last = At(k) % TimeMod
        /\ BtOf(Tick(u, s[k]), Scale) = Z[k] * Scale
    <3> DEFINE z == Z[p]
               a == At(p)
               b == At(k)
               x == s[k]
    <3>1. /\ u \in Uptime /\ x \in Item /\ HasTime(x.event)
          /\ a \in Nat /\ b \in Nat /\ z \in Nat /\ u.last = a % TimeMod
          /\ x.time = b % TimeMod /\ BtOf(u, Scale) = z * Scale
          /\ z + ((b - a) % TimeMod) <= MaxClock
          /\ Tick(u, x).acc * Scale < SpanMod
      BY <1>1, <1>2, <1>3, <1>4, <1>5, <1>8, <2>1, <2>4, <2>5
    <3> HIDE DEF u, x, a, b, z
    <3>2. /\ Tick(u, x).last = b % TimeMod
          /\ BtOf(Tick(u, x), Scale) = (z + ((b - a) % TimeMod)) * Scale
      BY <3>1, TickTime
    <3> QED BY <2>3, <3>2 DEF x, a, b, z
  <2>7. lastBt[cpu] <= Z[k] * Scale
    <3>1. Z[p] <= Z[k]
      BY <1>4, <2>1, <2>2, <2>3
    <3>2. Z[p] * Scale \in Nat /\ Z[k] * Scale \in Nat /\ Z[p] * Scale <= Z[k] * Scale
      BY <1>4, <2>1, <3>1, ScaleOrder
    <3> QED BY <1>1, <1>3, <3>2
  <2>8. k < k + 1 /\ \A m \in k + 1 .. k : ~Timed(m)
    BY <1>4
  <2> QED BY <1>2, <1>3, <1>4, <1>8, <2>1, <2>6, <2>7, <2>8
<1> QED BY <1>7, <1>8

LEMMA ReplayTimely ==
  ASSUME Looping, Replay PROVE Timely' /\ TrueTimesStep
<1>1. /\ cpu \in CPU /\ walk \in Walk /\ items[cpu] \in Seq(Item) /\ scaler = Scale
      /\ clock[cpu] \in Nat /\ uptime \in [CPU -> Uptime] /\ lastBt \in [CPU -> Bt]
      /\ walk.index \in 1 .. Len(items[cpu]) + 1 /\ TypeOK
      /\ cpu \notin Astray => Walking
  BY LoopingFacts DEF Replay
<1>2. PICK k \in 1 .. Len(items[cpu]) : k = walk.index
  BY <1>1 DEF Replay
<1> DEFINE x == items[cpu][k]
           u == Tick(uptime[cpu], x)
<1>3. /\ phase = "replay" /\ phase' = "replay"
      /\ walk' = [walk EXCEPT !.index = @ + 1]
      /\ UNCHANGED <<cpu, scaler, hold, items>>
      /\ CallHandler(cpu, uptime[cpu], x)
  BY <1>2 DEF Replay, header, store
<1>4. x \in Item /\ x.event # "TIME_ADJUSTMENT" /\ uptime[cpu] \in Uptime
  <2>1. x \in Item
    BY <1>1, ElementOfSeq
  <2>2. Opened
    BY DEF Looping, TimeInv, PacketInv
  <2> QED BY <1>1, <2>1, <2>2 DEF Opened
<1> HIDE DEF x
<1>5. CASE cpu \in Astray'
  <2>1. scaler' \in Nat \ {0}
    BY <1>1, <1>3, TraceAssumption
  <2>2. TrueTimesStep
    BY <1>1, <1>3, <1>4, <1>5, <2>1, AstrayCalls
  <2>3. \A c \in CPU : c # cpu => uptime'[c] = uptime[c] /\ lastBt'[c] = lastBt[c]
    BY <1>1, <1>3 DEF CallHandler
  <2>4. Timely'
    BY <1>3, <1>5, <2>3, OthersTimely
  <2> QED BY <2>2, <2>4
<1>6. CASE cpu \notin Astray'
  <2>a. cpu \notin Astray
    BY <1>6 DEF Looping
  <2>b. u.acc * Scale < SpanMod
    <3>1. uptime'[cpu] = u
      BY <1>1, <1>3 DEF CallHandler
    <3>2. History /\ torn \subseteq torn'
      BY DEF Looping
    <3>3. uptime'[cpu].acc * scaler' < SpanMod
      BY <1>1, <1>6, <3>2, Unwrapped
    <3> QED BY <1>1, <1>3, <3>1, <3>3
  <2>1. PICK Z \in Functions(Last), p \in 1 .. Last :
          /\ Claimed(Z, 1) /\ Timed(p) /\ Z[p] <= clock[cpu]
          /\ IF p < k + 1 THEN \A m \in p + 1 .. k : ~Timed(m)
                          ELSE \A m \in 1 .. p - 1 : ~Timed(m)
          /\ u.last = At(p) % TimeMod /\ BtOf(u, Scale) = Z[p] * Scale
          /\ lastBt[cpu] <= Z[p] * Scale
          /\ Timed(k) => p = k
    BY <1>2, <2>a, <2>b, ReplayTime DEF x
  <2>2. Z[p] \in Nat /\ At(p) \in Nat /\ p \in Nat /\ k \in Nat /\ Last = Len(items[cpu]) + 1
        /\ Last \in Nat
    BY ClaimedType
  <2>3. PICK bt \in Nat : bt = Z[p] * Scale
    BY <2>2, TraceAssumption
  <2>4. bt = BtOf(u, scaler') /\ bt >= lastBt[cpu]
    <3>1. lastBt[cpu] \in Nat
      BY <1>1 DEF Bt
    <3> QED BY <1>1, <1>3, <2>1, <2>3, <3>1
  <2>5. /\ out' = <<[bt |-> bt, cpu |-> cpu, item |-> x]>>
        /\ lastBt' = [lastBt EXCEPT ![cpu] = bt]
        /\ uptime' = [uptime EXCEPT ![cpu] = u]
    BY <1>1, <1>3, <2>4, HandedAt
  <2> HIDE DEF u
  <2>6. TrueTimesStep
    <3>1. /\ Recorded([bt |-> bt, cpu |-> cpu, item |-> x]) = truth[cpu][k]
          /\ Reliable([bt |-> bt, cpu |-> cpu, item |-> x]) => k > lost[cpu]
      BY <1>2, <1>3, <2>2 DEF Recorded, Reliable
    <3>2. k # Last /\ (HasTime(x.event) <=> Timed(k)) /\ At(k) = truth[cpu][k]
      BY <2>2 DEF Timed, At, x
    <3>3. Timed(k) /\ k > lost[cpu] => Z[k] = At(k)
      <4>1. k \in 1 .. Last
        BY <2>2
      <4> QED BY <2>1, <4>1 DEF Claimed
    <3>4. HasTime(x.event) /\ Reliable([bt |-> bt, cpu |-> cpu, item |-> x]) =>
            bt = truth[cpu][k] * Scale
      BY <2>1, <2>3, <3>1, <3>2, <3>3
    <3> QED BY <1>1, <1>4, <2>5, <3>1, <3>4, OneCall
  <2>7. Stored(cpu)'
    BY <1>3, <2>a, StoredStays
  <2>8. /\ clock'[cpu] = clock[cpu] /\ hold'[cpu] /\ Last' = Last
    BY <1>3, <2>a, LoopingSame
  <2>9. lastBt'[cpu] = bt /\ uptime'[cpu] = u /\ cpu' = cpu
    BY <1>1, <1>3, <2>5
  <2>10. Direct(cpu)'
    <3>1. Z[p] * Scale <= clock[cpu] * Scale
      BY <1>1, <2>1, <2>2, ScaleOrder
    <3>2. Walks(cpu)'
      BY <1>3 DEF Walks
    <3> QED BY <2>3, <2>8, <2>9, <3>1, <3>2 DEF Direct
  <2>11. Claimed(Z, 1)' /\ Timed(p)' /\ At(p)' = At(p)
    BY <1>3, <2>a, <2>1, LoopingSame
  <2>12. ASSUME NEW m PROVE Timed(m)' <=> Timed(m)
    BY <1>3, <2>a, LoopingSame
  <2>13. walk'.index = k + 1 /\ walk'.saved = walk.saved /\ walk'.high = walk.high
    BY <1>1, <1>2, <1>3 DEF Walk
  <2>14. IF p < k + 1 THEN \A m \in p + 1 .. (k + 1) - 1 : ~Timed(m)'
                      ELSE \A m \in 1 .. p - 1 : ~Timed(m)'
    <3>1. (k + 1) - 1 = k
      BY <2>2
    <3> QED BY <2>1, <2>12, <3>1
  <2>15. Replaying'
    <3>1. /\ uptime'[cpu'].last = At(p) % TimeMod
          /\ BtOf(uptime'[cpu'], scaler') = Z[p] * Scale
          /\ lastBt'[cpu'] <= Z[p] * Scale
      BY <1>1, <1>3, <2>1, <2>3, <2>9
    <3> QED BY <2>1, <2>8, <2>11, <2>13, <2>14, <3>1 DEF Replaying
  <2>16. Walking'
    <3>1. clock'[cpu'] = clock[cpu] /\ phase' = "replay" /\ Walking
      BY <1>1, <1>3, <2>a, <2>8
    <3> QED BY <2>13, <2>15, <3>1 DEF Walking
  <2>17. Timely'
    <3>1. \A c \in CPU : c # cpu => uptime'[c] = uptime[c] /\ lastBt'[c] = lastBt[c]
      BY <1>1, <2>5
    <3> QED BY <1>3, <2>7, <2>10, <2>16, <3>1, OthersTimely
  <2> QED BY <2>6, <2>17
<1> QED BY <1>5, <1>6

\* The uptime item itself, at the time that it told.
LEMMA ResolvedTimely ==
  ASSUME Looping, Resolved PROVE Timely' /\ TrueTimesStep
<1> DEFINE x == Number(cpu, walk.high)
<1>1. /\ cpu \in CPU /\ walk \in Walk /\ items[cpu] \in Seq(Item) /\ scaler = Scale
      /\ items \in [CPU -> Seq(Item)] /\ hold \in [CPU -> BOOLEAN]
      /\ clock[cpu] \in Nat /\ clock[cpu] <= MaxClock
      /\ uptime \in [CPU -> Uptime] /\ lastBt \in [CPU -> Bt]
      /\ walk.high # NoItem /\ walk.high.event = "UPTIME_HIGH" /\ TypeOK /\ TraceTyped
      /\ \A c \in CPU \ Astray : Stored(c) /\ Direct(c)
      /\ cpu \notin Astray => Walking
  BY LoopingFacts
<1>2. /\ phase = "replay" /\ phase' = "idle" /\ walk.index > Len(items[cpu])
      /\ hold' = [hold EXCEPT ![cpu] = FALSE] /\ items' = [items EXCEPT ![cpu] = <<>>]
      /\ UNCHANGED <<cpu, scaler>>
      /\ CallHandler(cpu, walk.saved, x)
  BY <1>1 DEF Resolved, ResetHoldBack, header
<1>3. /\ x \in Item /\ x.event = "UPTIME_HIGH" /\ x.time = walk.high.time
      /\ walk.saved \in Uptime /\ HasTime(x.event) /\ x.event # "TIME_ADJUSTMENT"
  <2>1. walk.high \in Item /\ walk.saved \in Uptime
    BY <1>1 DEF Walk
  <2>2. HasTime("UPTIME_HIGH")
    BY TimedEvents DEF GroupEvents
  <2> QED BY <1>1, <2>1, <2>2, NumberType, NumberSame
<1> HIDE DEF x
<1>4. UNCHANGED <<clock, overflows>> /\ Astray \subseteq Astray' /\ History /\ torn \subseteq torn'
  BY DEF Looping
<1>5. \A c \in CPU : c # cpu =>
        /\ items'[c] = items[c] /\ hold'[c] = hold[c]
        /\ uptime'[c] = uptime[c] /\ lastBt'[c] = lastBt[c]
  BY <1>1, <1>2 DEF CallHandler
<1>6. CASE cpu \in Astray'
  <2>1. scaler' \in Nat \ {0}
    BY <1>1, <1>2, TraceAssumption
  <2>2. TrueTimesStep
    BY <1>1, <1>2, <1>3, <1>6, <2>1, AstrayCalls
  <2>3. Timely'
    BY <1>2, <1>5, <1>6, OthersTimely
  <2> QED BY <2>2, <2>3
<1>7. CASE cpu \notin Astray'
  <2>a. cpu \notin Astray
    BY <1>4, <1>7
  <2>b. Tick(walk.saved, x).acc * Scale < SpanMod
    <3>1. uptime'[cpu] = Tick(walk.saved, x)
      BY <1>1, <1>2 DEF CallHandler
    <3>2. uptime'[cpu].acc * scaler' < SpanMod
      BY <1>1, <1>4, <1>7, Unwrapped
    <3> QED BY <1>1, <1>2, <3>1, <3>2
  <2>1. PICK now \in Nat : now = clock[cpu]
    BY <1>1
  <2>2. PICK bt \in Nat : bt = now * Scale
    BY <2>1, TraceAssumption
  <2> DEFINE u == Tick(walk.saved, x)
  <2>3. u.last = now % TimeMod /\ BtOf(u, Scale) = bt
    <3> DEFINE w == walk.saved
    <3>1. w = [bt |-> now * Scale, last |-> now % TimeMod, acc |-> 0]
          /\ x.time = now % TimeMod
      BY <1>1, <1>3, <2>a, <2>1 DEF Walking
    <3>2. BtOf(w, Scale) = now * Scale /\ w.last = now % TimeMod
      <4>1. (now * Scale) % BtMod = now * Scale
        BY <1>1, <2>1, ScaleFits
      <4>2. Span(0, Scale) = 0 /\ bt + 0 = bt
        BY <2>2, SpanNothing, TraceAssumption
      <4>3. bt % BtMod = bt /\ w = [bt |-> bt, last |-> now % TimeMod, acc |-> 0]
        BY <2>2, <3>1, <4>1
      <4>4. BtOf(w, Scale) = bt
        BY <4>2, <4>3 DEF BtOf
      <4> QED BY <2>2, <3>1, <4>4
    <3>7. Tick(w, x).acc * Scale < SpanMod
      BY <2>b
    <3> HIDE DEF w
    <3>3. (now - now) % TimeMod = 0
      BY <2>1, ElapsedTime
    <3>4. now + 0 = now /\ now <= MaxClock
      BY <1>1, <2>1
    <3>5. w \in Uptime
      BY <1>3 DEF w
    <3>6. /\ Tick(w, x).last = now % TimeMod
          /\ BtOf(Tick(w, x), Scale) = (now + ((now - now) % TimeMod)) * Scale
      BY <1>3, <3>1, <3>2, <3>3, <3>4, <3>5, <3>7, TickTime
    <3> QED BY <2>2, <3>3, <3>4, <3>6 DEF w
  <2>4. bt = BtOf(u, scaler') /\ bt >= lastBt[cpu]
    <3>1. lastBt[cpu] \in Nat /\ lastBt[cpu] <= bt
      BY <1>1, <2>a, <2>1, <2>2 DEF Bt, Direct
    <3> QED BY <1>1, <1>2, <2>3, <3>1
  <2>5. /\ out' = <<[bt |-> bt, cpu |-> cpu, item |-> x]>>
        /\ lastBt' = [lastBt EXCEPT ![cpu] = bt]
        /\ uptime' = [uptime EXCEPT ![cpu] = u]
    BY <1>1, <1>2, <2>4, HandedAt
  <2> HIDE DEF u
  <2>6. TrueTimesStep
    <3>1. Recorded([bt |-> bt, cpu |-> cpu, item |-> x]) = clock'[cpu]
      <4>1. ~(walk.index <= Len(items[cpu]))
        <5>1. Len(items[cpu]) \in Nat /\ walk.index \in Nat
          BY <1>1 DEF Walk
        <5> QED BY <1>2, <5>1
      <4> QED BY <4>1 DEF Recorded
    <3>2. clock'[cpu] = now
      BY <1>4, <2>1
    <3> QED BY <1>1, <1>3, <2>2, <2>5, <3>1, <3>2, OneCall
  <2>7. /\ items'[cpu] = <<>> /\ hold'[cpu] = FALSE /\ lastBt'[cpu] = bt
        /\ uptime'[cpu] = u /\ cpu' = cpu /\ clock'[cpu] = now
    BY <1>1, <1>2, <1>4, <2>1, <2>5
  <2>8. Stored(cpu)'
    <3>1. Len(items'[cpu]) = 0
      BY <2>7
    <3>2. \A i \in 1 .. Len(items'[cpu]) : FALSE
      BY <3>1
    <3> QED BY <2>7, <3>2 DEF Stored, Stamped
  <2>9. Direct(cpu)'
    BY <1>1, <1>2, <2>2, <2>3, <2>7 DEF Direct
  <2>10. Timely'
    BY <1>2, <1>5, <2>8, <2>9, OthersTimely
  <2> QED BY <2>6, <2>10
<1> QED BY <1>6, <1>7

-----------------------------------------------------------------------------
LEMMA TimeInit == TraceInit => TimeInv
<1> SUFFICES ASSUME TraceInit PROVE TimeInv
  OBVIOUS
<1>1. PacketInv
  BY PacketInit
<1>2. Init /\ taken = 0 /\ phase = "idle"
  BY DEF TraceInit, Init
<1>3. SubSeq(HeaderItems, 0 + 1, 4) = HeaderItems
  <2>1. HeaderItems \in Seq(Sendable) /\ Len(HeaderItems) = 4
    BY HeaderShape
  <2>2. SubSeq(HeaderItems, 1, Len(HeaderItems)) = HeaderItems
    BY <2>1
  <2> QED BY <2>1, <2>2
<1>4. Beginning
  <2>1. ~(taken >= 4) /\ SubSeq(HeaderItems, taken + 1, 4) = HeaderItems
    BY <1>2, <1>3
  <2>2. \A c \in CPU : rest[c] = IF c = 0 THEN HeaderItems ELSE <<>>
    BY DEF TraceInit
  <2>3. /\ cpu = 0 /\ overflows = 0
        /\ \A c \in CPU : uptime[c] = NoUptime /\ lastBt[c] = 0 /\ low[c] = NoLow
    BY DEF TraceInit, Init
  <2> QED BY <1>2, <2>1, <2>2, <2>3 DEF Beginning
<1>5. Sending
  BY <1>2 DEF Sending
<1>6. ASSUME NEW c \in CPU PROVE Stored(c) /\ Direct(c) /\ ~Walks(c)
  <2>1. /\ items[c] = <<>> /\ hold[c] = TRUE /\ lastBt[c] = 0 /\ uptime[c] = NoUptime
        /\ clock[c] = 1 /\ scaler = 1
    BY DEF TraceInit, Init
  <2>2. ~Walks(c)
    BY <1>2 DEF Walks
  <2>3. \A i \in 1 .. Len(items[c]) : FALSE
    BY <2>1
  <2>4. Stored(c)
    BY <2>3 DEF Stored, Stamped
  <2>5. BtOf(NoUptime, 1) = 0
    BY NoUptimeBt
  <2>6. 0 <= 1 * Scale
    BY TraceAssumption
  <2> QED BY <2>1, <2>2, <2>4, <2>5, <2>6 DEF Direct
<1>7. Timely
  BY <1>6 DEF Timely
<1> QED BY <1>1, <1>4, <1>5, <1>7 DEF TimeInv

LEMMA TimeStutter == ASSUME TimeInv, UNCHANGED traceVars PROVE TimeInv'
<1>1. PacketInv'
  BY PacketStutter DEF TimeInv
<1>2. UNCHANGED <<status, cpu, scaler, uptime, lastBt, low, hold, items, phase, walk, taken>>
      /\ UNCHANGED <<clock, rest, overflows, torn, truth, lost, wrapped>>
  BY DEF traceVars, vars, target, header, store
<1>3. Beginning' /\ Sending'
  BY <1>2 DEF TimeInv, Beginning, Sending, Chain, Joins, InGroup, Draining
<1>4. Timely'
  <2>1. (Sound' <=> Sound) /\ Astray' = Astray
    BY <1>2 DEF Sound, Draining, Astray
  <2>2. ASSUME NEW c \in CPU, Stored(c), Direct(c)
        PROVE  Stored(c)' /\ Direct(c)' /\ (Walks(c)' <=> Walks(c))
    BY <1>2, <2>2 DEF Stored, Stamped, Direct, Walks
  <2>3. Last' = Last
    BY <1>2 DEF Last
  <2>4. ASSUME NEW Z, NEW index, NEW i
        PROVE  /\ (Timed(i)' <=> Timed(i)) /\ At(i)' = At(i)
               /\ (Claimed(Z, index)' <=> Claimed(Z, index))
    BY <1>2, WalkSame
  <2>5. Scanning => Scanning'
    BY <1>2, <2>3, <2>4 DEF Scanning
  <2>6. Replaying => Replaying'
    BY <1>2, <2>3, <2>4 DEF Replaying
  <2>7. Walking => Walking'
    BY <1>2, <2>5, <2>6 DEF Walking
  <2> QED BY <2>1, <2>2, <2>7 DEF TimeInv, Timely
<1> QED BY <1>1, <1>3, <1>4 DEF TimeInv

\* What destroy() tells is not claimed to be true.
LEMMA DrainingTimely ==
  ASSUME TypeOK, Loop \/ Destroy, Draining \/ Destroy
  PROVE  Timely' /\ TrueTimesStep
<1>1. Draining'
  BY DrainingStays
<1>2. Timely'
  BY <1>1 DEF Timely, Sound
<1>3. TrueTimesStep
  <2>1. CASE Draining
    BY <2>1 DEF TrueTimesStep, Reliable
  <2>2. CASE Destroy
    <3>1. out' = <<>>
      BY <2>2 DEF Destroy
    <3> QED BY <3>1 DEF TrueTimesStep
  <2> QED BY <2>1, <2>2
<1> QED BY <1>2, <1>3

LEMMA TimeNext ==
  ASSUME TimeInv, TraceNext PROVE TimeInv' /\ TrueTimesStep
<1>1. PacketInv /\ Beginning /\ Sending /\ TypeOK /\ History
  BY DEF TimeInv, PacketInv, IInv, TraceNext
<1>2. PacketInv'
  BY <1>1, PacketNext
<1>3. TypeOK' /\ TraceTyped'
  BY <1>2 DEF PacketInv, IInv
<1>4. CASE Target
  <2>1. Beginning' /\ Sending' /\ \E item \in Sendable : Visit(item) /\ Sent(item)
    BY <1>1, <1>3, <1>4, TargetSends
  <2>2. PICK item \in Sendable : Visit(item) /\ Sent(item)
    BY <2>1
  <2>3. Effect(item) /\ Switch(item)
    BY <1>1, <2>2, VisitEffect
  <2>4. clock' \in [CPU -> 1 .. MaxClock]
    BY <1>3 DEF TraceTyped, TraceTypeOK
  <2>5. Timely' /\ TrueTimesStep
    BY <1>1, <1>3, <2>2, <2>3, <2>4, VisitTimely DEF Visiting
  <2> QED BY <1>2, <2>1, <2>5 DEF TimeInv
<1>5. CASE (Loop \/ Destroy) /\ UNCHANGED target
  <2>1. Beginning' /\ Sending'
    BY <1>1, <1>5, LoopSends
  <2>2. CASE Draining \/ Destroy
    <3>1. Timely' /\ TrueTimesStep
      BY <1>1, <1>5, <2>2, DrainingTimely
    <3> QED BY <1>2, <2>1, <3>1 DEF TimeInv
  <2>3. CASE ~Draining /\ ~Destroy
    <3>1. Scan \/ Rewind \/ Replay \/ Resolved
      BY <1>5, <2>3 DEF Loop, Drain, Forward, BestEffort, Draining
    <3>2. phase \in {"scan", "replay"} /\ UNCHANGED <<clock, overflows, torn>>
      BY <1>5, <3>1 DEF Scan, Rewind, Replay, Resolved, target
    <3>5. Astray \subseteq Astray'
      BY <1>1, <3>2, Unwrapped
    <3>3. Looping
      BY <1>1, <1>3, <2>3, <3>2, <3>5 DEF Looping
    <3>4. Timely' /\ TrueTimesStep
      BY <3>1, <3>3, ScanTimely, RewindTimely, ReplayTimely, ResolvedTimely
    <3> QED BY <1>2, <2>1, <3>4 DEF TimeInv
  <2> QED BY <2>2, <2>3
<1> QED BY <1>4, <1>5 DEF TraceNext

(* The handler gets every item at the time at which the target recorded    *)
(* it, and no time is adjusted: whether the item was held back for the     *)
(* first uptime or over an overflow, was handled at once or came after a   *)
(* turn to another processor.  Not so what destroy() has to guess, what    *)
(* was held back when an overflow came, a processor that heard the halves  *)
(* of two uptimes, and one that was without an uptime for so long that the *)
(* product of time_bt() or resolve_hold_back() lost its upper bits.        *)
THEOREM TimesAreTrue == TraceSpec => TrueTimes
<1>1. TraceInit => TimeInv
  BY TimeInit
<1>2. TimeInv /\ TraceNext => TimeInv' /\ TrueTimesStep
  BY TimeNext
<1>3. TimeInv /\ UNCHANGED traceVars => TimeInv'
  BY TimeStutter
<1>4. TimeInv /\ [TraceNext]_traceVars => TimeInv' /\ [TrueTimesStep]_traceVars
  BY <1>2, <1>3
<1> QED BY <1>1, <1>4, PTL DEF TraceSpec, TrueTimes

-----------------------------------------------------------------------------
(* The number of an item is its place in what the processor recorded.  A    *)
(* log of these items says what each was, and when.                        *)
Entry == [event : Events, time : Nat, data : Nat]
Logs == [Nat -> Entry]
EntryOf(item, ticks) == [event |-> item.event, time |-> ticks, data |-> item.data]

(* The second half of a switch has the time of the first, if that comes    *)
(* just before it, and is later than every other.                          *)
Pairs(L, n, e) ==
  e.event = "THREAD_SWITCH_IN" =>
    /\ n > 1
    /\ IF L[n - 1].event = "THREAD_SWITCH_OUT"
         THEN L[n - 1].time = e.time
         ELSE \A k \in 1 .. n - 1 :
                L[k].event = "THREAD_SWITCH_OUT" => L[k].time < e.time
(* A chunk of a name comes just after the one before it.                   *)
Spells(L, n, e) ==
  e.event = "THREAD_NAME" => n > 1 /\ Continues(L[n - 1], e)

(* An entry may be number n of the log.                                    *)
May(L, n, e) == Pairs(L, n, e) /\ (overflows = 0 => Spells(L, n, e))

(* The log of a processor: what was given, what the target still has to     *)
(* send of a group, and what is held back.                                  *)
Listed(L, c) ==
  /\ \A n \in 1 .. given[c] : L[n].time \in 1 .. clock[c] /\ May(L, n, L[n])
  /\ rest[c] # <<>> => May(L, given[c] + 1, EntryOf(rest[c][1], clock[c]))
Matched(L, c) ==
  \A i \in Waiting(c) : L[items[c][i].seq] = EntryOf(items[c][i], truth[c][i])

(* The last SWITCH_OUT that was handled, and what the writer kept of it.   *)
Remembered(L, c) ==
  LET o == lastOut[c]
      prev == writer.cpus[c].prev
  IN /\ o.seq \in 0 .. passed[c]
     /\ o.seq # 0 => L[o.seq].event = "THREAD_SWITCH_OUT" /\ Tells(prev, c, o.data)
     /\ \A k \in o.seq + 1 .. passed[c] : L[k].event # "THREAD_SWITCH_OUT"
     /\ (o.known /\ c \notin Astray) =>
          prev.ns = IF o.seq = 0 THEN 0 ELSE Ns(L[o.seq].time * Scale)

(* The thread that gets a name, and how much of it came.                   *)
Naming(e, context) ==
  /\ e.event = "THREAD_CREATE" => context.thread = e.data /\ context.chunks = 0
  /\ \A t \in Threads, k \in 1 .. NameChunks :
       (e.event = "THREAD_NAME" /\ e.data = Chunk(t, k)) =>
         /\ context.thread = t
         /\ t \in NamedThreads => context.chunks = k
Named(L, c) ==
  (overflows = 0 /\ passed[c] # 0) => Naming(L[passed[c]], writer.cpus[c])

(* Where the time of the last SWITCH_OUT is not known, its other half came, *)
(* or its time is not known either.                                        *)
Parted(c) ==
  (~lastOut[c].known /\ c \notin Astray) =>
    /\ given[c] > lastOut[c].seq
    /\ \A i \in Waiting(c) :
         (i > lost[c] /\ items[c][i].event = "THREAD_SWITCH_IN") =>
           items[c][i].seq > lastOut[c].seq + 1

(* An overflow is held back, after what it makes unknown.                  *)
Marked(c) ==
  lost[c] > 0 => /\ lost[c] < Len(items[c])
                 /\ items[c][lost[c] + 1].event = "PER_CPU_OVERFLOW"

NamesTrue ==
  overflows = 0 => \A t \in NamedThreads : \A i \in 1 .. NameChunks :
                     writer.names[t][i] \in {0, Chunk(t, i)}

Heard(c) ==
  \E L \in Logs : Listed(L, c) /\ Matched(L, c) /\ Remembered(L, c) /\ Named(L, c)

LastOuts == [CPU -> [seq : Nat, data : Nat, known : BOOLEAN]]
Switching ==
  Sound =>
    /\ phase # "idle" => rest[cpu] = <<>>
    /\ NamesTrue
    /\ \A c \in CPU : Heard(c) /\ Parted(c) /\ Marked(c)

SwitchInv ==
  /\ TimeInv
  /\ lastOut \in LastOuts
  /\ \A c \in CPU : Shaped(rest[c])
  /\ Switching

-----------------------------------------------------------------------------
\* The chunks of different names, or places in one, differ.
LEMMA ChunkUnique ==
  ASSUME NEW t \in Nat, NEW u \in Nat, NEW i \in 1 .. NameChunks, NEW j \in 1 .. NameChunks,
         Chunk(t, i) = Chunk(u, j)
  PROVE  t = u /\ i = j
<1> DEFINE m == NameChunks + 1
<1>1. m \in Nat \ {0} /\ i \in 0 .. m - 1 /\ j \in 0 .. m - 1
  BY WriterAssumption
<1>2. t * m + i = u * m + j
  BY DEF Chunk
<1> HIDE DEF m
<1>3. t * m = m * t /\ u * m = m * u
  BY <1>1
<1>4. CASE t < u
  <2> DEFINE d == u - t
  <2>1. d \in Nat /\ d >= 1 /\ u = t + d
    BY <1>4
  <2> HIDE DEF d
  <2>2. m * u = m * t + m * d /\ m * d >= m
    BY <1>1, <2>1
  <2>3. m * t \in Nat /\ m * d \in Nat
    BY <1>1, <2>1
  <2> QED BY <1>1, <1>2, <1>3, <2>2, <2>3
<1>5. CASE u < t
  <2> DEFINE d == t - u
  <2>1. d \in Nat /\ d >= 1 /\ t = u + d
    BY <1>5
  <2> HIDE DEF d
  <2>2. m * t = m * u + m * d /\ m * d >= m
    BY <1>1, <2>1
  <2>3. m * u \in Nat /\ m * d \in Nat
    BY <1>1, <2>1
  <2> QED BY <1>1, <1>2, <1>3, <2>2, <2>3
<1>6. CASE t = u
  <2>1. t * m \in Nat
    BY <1>1
  <2> QED BY <1>1, <1>2, <1>6, <2>1
<1> QED BY <1>4, <1>5, <1>6

\* Ticks are no shorter than nanoseconds.
LEMMA NsStrict ==
  ASSUME NEW a \in Nat, NEW b \in Nat, a < b
  PROVE  Ns(a * Scale) # Ns(b * Scale)
<1> DEFINE d == BtPerNs
           x == a * Scale
           y == b * Scale
           p == x \div d
           q == y \div d
           e == b - a
<1>1. Scale \in Nat /\ d \in Nat \ {0} /\ Scale >= d /\ e \in Nat /\ e >= 1
  BY TraceAssumption, WriterAssumption
<1>2. x \in Nat /\ y \in Nat
  BY <1>1
<1>3. y = x + e * Scale
  <2>1. b = a + e
    OBVIOUS
  <2> HIDE DEF e
  <2> QED BY <1>1, <2>1
<1>4. e * Scale >= Scale
  <2> HIDE DEF e
  <2> QED BY <1>1
<1>5. y >= x + d
  <2>1. e * Scale \in Nat
    BY <1>1
  <2> HIDE DEF x, y, d
  <2> QED BY <1>1, <1>2, <1>3, <1>4, <2>1
<1> HIDE DEF x, y, e
<1>6. p \in Nat /\ q \in Nat /\ x = d * p + (x % d) /\ y = d * q + (y % d)
      /\ x % d \in 0 .. d - 1 /\ y % d \in 0 .. d - 1
  BY <1>1, <1>2
<1>7. p # q
  <2> DEFINE r == x % d
             s == y % d
  <2> HIDE DEF p, q, r, s, d
  <2> SUFFICES ASSUME p = q PROVE FALSE
    OBVIOUS
  <2>1. x = d * p + r /\ y = d * p + s /\ r \in 0 .. d - 1 /\ s \in 0 .. d - 1
    BY <1>6 DEF r, s
  <2>2. d * p \in Nat
    BY <1>1, <1>6
  <2> QED BY <1>1, <1>5, <2>1, <2>2
<1> QED BY <1>7 DEF Ns, x, y

\* The first nanosecond is after 0.
LEMMA NsPositive == ASSUME NEW a \in Nat, a > 0 PROVE Ns(a * Scale) # 0
<1>1. Ns(0 * Scale) # Ns(a * Scale)
  BY NsStrict
<1>2. 0 * Scale = 0 /\ BtPerNs \in Nat \ {0}
  BY TraceAssumption, WriterAssumption
<1>3. Ns(0) = 0
  BY <1>2 DEF Ns
<1> QED BY <1>1, <1>2, <1>3

-----------------------------------------------------------------------------
(* What an item changes of what the writer knows of threads, and what is    *)
(* written for the second half of a switch.                                 *)
SameNames(v, w, c) ==
  /\ v.names = w.names
  /\ v.cpus[c].thread = w.cpus[c].thread /\ v.cpus[c].chunks = w.cpus[c].chunks

Heeds(v, w, c, item, ns) ==
  /\ \A d \in CPU \ {c} : v.cpus[d] = w.cpus[d]
  /\ v.cpus[c].prev = IF item.event = "THREAD_SWITCH_OUT"
                        THEN Switched(w, c, ns, item.data) ELSE w.cpus[c].prev
  /\ item.event \notin {"THREAD_CREATE", "THREAD_ID", "THREAD_NAME"} => SameNames(v, w, c)
  /\ item.event \in {"THREAD_CREATE", "THREAD_ID"} =>
       /\ v.cpus[c].thread = item.data /\ v.cpus[c].chunks = 0
       /\ v.names = [t \in NamedThreads |-> IF t = item.data THEN NoName ELSE w.names[t]]
  /\ item.event = "THREAD_NAME" =>
       LET t == w.cpus[c].thread
           n == w.cpus[c].chunks
       IN IF n >= NameChunks \/ t \notin NamedThreads
            THEN SameNames(v, w, c)
            ELSE /\ v.cpus[c].thread = t /\ v.cpus[c].chunks = n + 1
                 /\ v.names = [w.names EXCEPT ![t][n + 1] = item.data]
Writes(v, w, c, item, ns) ==
  item.event = "THREAD_SWITCH_IN" =>
    IF ns = w.cpus[c].prev.ns
      THEN v.written = Append(w.written,
                              [cpu |-> c, ns |-> ns, kind |-> "sched_switch",
                               prev |-> w.cpus[c].prev,
                               next |-> Switched(w, c, ns, item.data)])
      ELSE v.written = w.written

LEMMA PrintItemHeeds ==
  ASSUME NEW writer0 \in Writer, NEW call \in Call
  PROVE  /\ Heeds(PrintItem(writer0, call), writer0, call.cpu, call.item, Ns(call.bt))
         /\ Writes(PrintItem(writer0, call), writer0, call.cpu, call.item, Ns(call.bt))
<1> DEFINE c == call.cpu
           ns == Ns(call.bt)
           data == call.item.data
           item == call.item
           event == call.item.event
           seen == Seen(writer0.cpus[c], ns)
           cpus == [writer0.cpus EXCEPT ![c] = seen]
           w == [writer0 EXCEPT !.cpus[c] = Seen(@, ns)]
           v == PrintItem(writer0, call)
<1>1. c \in CPU /\ ns \in Nat /\ data \in Nat /\ event \in Events
  BY NsType DEF Call, Item
<1>2. writer0.cpus \in [CPU -> Context] /\ writer0.cpus[c] \in Context
  BY <1>1 DEF Writer
<1>3. /\ seen \in Context /\ seen.prev = writer0.cpus[c].prev
      /\ seen.thread = writer0.cpus[c].thread /\ seen.chunks = writer0.cpus[c].chunks
  BY <1>1, <1>2 DEF Seen, Context
<1>4. w = [writer0 EXCEPT !.cpus = cpus]
  BY <1>1, <1>2 DEF Writer
<1> HIDE DEF seen
<1>5. cpus \in [CPU -> Context]
  BY <1>1, <1>2, <1>3
<1>6. \A d \in CPU : cpus[d] = IF d = c THEN seen ELSE writer0.cpus[d]
  BY <1>1, <1>2
<1>7. v = CASE event = "THREAD_SWITCH_OUT" ->
                 [w EXCEPT !.cpus[c].prev = Switched(w, c, ns, data)]
            [] event = "THREAD_SWITCH_IN" -> SwitchIn(w, c, ns, data)
            [] event \in {"THREAD_CREATE", "THREAD_ID"} -> ResetThreadName(w, c, data)
            [] event = "THREAD_NAME" -> AddThreadName(w, c, data)
            [] event = "PROCESSOR_MAXIMUM" -> [w EXCEPT !.files = data + 1]
            [] event \in {"PROCESSOR", "VERSION"} -> w
            [] OTHER -> Write(w, c, ns, event, NoSwitch, NoSwitch)
  BY DEF PrintItem
<1> HIDE DEF cpus, w, v
<1>8. /\ w \in Writer /\ w.names = writer0.names /\ w.written = writer0.written
      /\ w.cpus = cpus
  BY <1>4, <1>5 DEF Writer
<1>9. \A n, t : Switched(w, c, n, t) = Switched(writer0, c, n, t)
  BY <1>8 DEF Switched, CopyThreadName
<1>10. /\ \A d \in CPU \ {c} : w.cpus[d] = writer0.cpus[d]
       /\ w.cpus[c].prev = writer0.cpus[c].prev /\ SameNames(w, writer0, c)
  BY <1>1, <1>3, <1>6, <1>8 DEF SameNames
<1>11. SUFFICES Heeds(v, w, c, item, ns) /\ Writes(v, w, c, item, ns)
  <2> HIDE DEF c, ns, item
  <2>1. /\ w.names = writer0.names /\ w.written = writer0.written
        /\ w.cpus[c].thread = writer0.cpus[c].thread
        /\ w.cpus[c].chunks = writer0.cpus[c].chunks
    BY <1>8, <1>10 DEF SameNames
  <2>2. \A y : SameNames(v, w, c) <=> SameNames(v, writer0, c)
    BY <2>1 DEF SameNames
  <2>3. Heeds(v, writer0, c, item, ns)
    BY <1>9, <1>10, <1>11, <2>1, <2>2 DEF Heeds
  <2>4. Writes(v, writer0, c, item, ns)
    BY <1>9, <1>10, <1>11, <2>1 DEF Writes
  <2> QED BY <2>3, <2>4 DEF v, c, ns, item
<1>12. w.cpus \in [CPU -> Context] /\ w.cpus[c] \in Context
       /\ w.names \in [NamedThreads -> Names] /\ w.written \in Seq(Written)
  BY <1>1, <1>8 DEF Writer
<1>a. CASE event = "THREAD_SWITCH_OUT"
  <2> DEFINE half == Switched(w, c, ns, data)
             new == [w.cpus[c] EXCEPT !.prev = half]
  <2>1. v = [w EXCEPT !.cpus[c].prev = half]
    BY <1>a, <1>7
  <2> HIDE DEF half
  <2>2. v = [w EXCEPT !.cpus = [w.cpus EXCEPT ![c] = new]]
    BY <2>1, <1>1, <1>8, <1>12 DEF Writer
  <2>3. /\ new.prev = half /\ new.thread = w.cpus[c].thread
        /\ new.chunks = w.cpus[c].chunks
    BY <1>12 DEF Context
  <2>4. /\ v.cpus = [w.cpus EXCEPT ![c] = new] /\ v.names = w.names
    BY <2>2, <1>8 DEF Writer
  <2> HIDE DEF new
  <2>5. v.cpus[c] = new /\ \A d \in CPU \ {c} : v.cpus[d] = w.cpus[d]
    BY <2>4, <1>1, <1>12
  <2> QED BY <1>a, <2>3, <2>4, <2>5 DEF Heeds, Writes, SameNames, half
<1>b. CASE event = "THREAD_SWITCH_IN"
  <2> DEFINE prev == w.cpus[c].prev
             next == Switched(w, c, ns, data)
             r == [cpu |-> c, ns |-> ns, kind |-> "sched_switch",
                   prev |-> prev, next |-> next]
  <2>1. v = IF ns = prev.ns THEN Write(w, c, ns, "sched_switch", prev, next) ELSE w
    BY <1>b, <1>7 DEF SwitchIn
  <2>2. CASE ns = prev.ns
    <3>1. v = [w EXCEPT !.written = Append(w.written, r)]
      BY <2>1, <2>2, <1>8 DEF Write, Writer
    <3>2. v.cpus = w.cpus /\ v.names = w.names /\ v.written = Append(w.written, r)
      <4> HIDE DEF r
      <4> QED BY <3>1, <1>8 DEF Writer
    <3> QED BY <1>b, <2>2, <3>2 DEF Heeds, Writes, SameNames
  <2>3. CASE ns # prev.ns
    <3>1. v = w
      BY <2>1, <2>3
    <3> QED BY <1>b, <2>3, <3>1 DEF Heeds, Writes, SameNames
  <2> QED BY <2>2, <2>3
<1>c. CASE event \in {"THREAD_CREATE", "THREAD_ID"}
  <2> DEFINE new == [w.cpus[c] EXCEPT !.thread = data, !.chunks = 0]
             names == [t \in NamedThreads |-> IF t = data THEN NoName ELSE w.names[t]]
  <2>1. v = [w EXCEPT !.cpus = [w.cpus EXCEPT ![c] = new], !.names = names]
    BY <1>c, <1>1, <1>7, <1>8, <1>12 DEF ResetThreadName, Writer
  <2>2. new.prev = w.cpus[c].prev /\ new.thread = data /\ new.chunks = 0
    BY <1>12 DEF Context
  <2> HIDE DEF new, names
  <2>3. v.cpus = [w.cpus EXCEPT ![c] = new] /\ v.names = names
    BY <2>1, <1>8 DEF Writer
  <2>4. v.cpus[c] = new /\ \A d \in CPU \ {c} : v.cpus[d] = w.cpus[d]
    BY <2>3, <1>1, <1>12
  <2> QED BY <1>c, <2>2, <2>3, <2>4 DEF Heeds, Writes, names
<1>d. CASE event = "THREAD_NAME"
  <2> DEFINE t == w.cpus[c].thread
             n == w.cpus[c].chunks
  <2>1. CASE n >= NameChunks \/ t \notin NamedThreads
    <3>1. v = w
      BY <1>d, <2>1, <1>7 DEF AddThreadName
    <3> QED BY <1>d, <2>1, <3>1 DEF Heeds, Writes, SameNames
  <2>2. CASE ~(n >= NameChunks \/ t \notin NamedThreads)
    <3> DEFINE new == [w.cpus[c] EXCEPT !.chunks = n + 1]
               names == [w.names EXCEPT ![t][n + 1] = data]
    <3>1. v = [w EXCEPT !.cpus = [w.cpus EXCEPT ![c] = new], !.names = names]
      BY <1>d, <2>2, <1>1, <1>7, <1>8, <1>12 DEF AddThreadName, Writer
    <3>2. new.prev = w.cpus[c].prev /\ new.thread = t /\ new.chunks = n + 1
      BY <1>12 DEF Context
    <3> HIDE DEF new, names
    <3>3. v.cpus = [w.cpus EXCEPT ![c] = new] /\ v.names = names
      BY <3>1, <1>8 DEF Writer
    <3>4. v.cpus[c] = new /\ \A d \in CPU \ {c} : v.cpus[d] = w.cpus[d]
      BY <3>3, <1>1, <1>12
    <3> QED BY <1>d, <2>2, <3>2, <3>3, <3>4 DEF Heeds, Writes, names
  <2> QED BY <2>1, <2>2
<1>e. CASE event \notin {"THREAD_SWITCH_OUT", "THREAD_SWITCH_IN", "THREAD_CREATE",
                         "THREAD_ID", "THREAD_NAME"}
  <2>1. v.cpus = w.cpus /\ v.names = w.names
    <3>1. CASE event = "PROCESSOR_MAXIMUM"
      BY <3>1, <1>7, <1>8 DEF Writer
    <3>2. CASE event \in {"PROCESSOR", "VERSION"}
      <4>1. v = w
        BY <3>2, <1>7
      <4> QED BY <4>1
    <3>3. CASE event \notin {"PROCESSOR_MAXIMUM", "PROCESSOR", "VERSION"}
      <4>1. v = Write(w, c, ns, event, NoSwitch, NoSwitch)
        BY <1>e, <3>3, <1>7
      <4> DEFINE wrote == Append(w.written, [cpu |-> c, ns |-> ns, kind |-> event,
                                             prev |-> NoSwitch, next |-> NoSwitch])
      <4>2. v = [w EXCEPT !.written = wrote]
        BY <4>1, <1>8 DEF Write, Writer
      <4> HIDE DEF wrote
      <4> QED BY <4>2, <1>8 DEF Writer
    <3> QED BY <3>1, <3>2, <3>3
  <2> QED BY <1>e, <2>1 DEF Heeds, Writes, SameNames
<1> QED BY <1>a, <1>b, <1>c, <1>d, <1>e

(* The calls for an item: the last one is for it, and another one before it *)
(* adjusts the time.                                                        *)
Told(call) ==
  call.item.event = "THREAD_SWITCH_IN" =>
    LET c == call.cpu
        prev == writer.cpus[c].prev
        ns == Ns(call.bt)
    IN writer'.written =
         IF ns = prev.ns
           THEN <<[cpu |-> c, ns |-> ns, kind |-> "sched_switch", prev |-> prev,
                   next |-> Switched(writer, c, ns, call.item.data)]>>
           ELSE <<>>

Calling(c, x, call) ==
  /\ call \in Call /\ call.cpu = c /\ call.item = x
  /\ Heeds(writer', writer, c, x, Ns(call.bt))
  /\ \/ out' = <<call>> /\ Told(call)
     \/ \E first \in Call : /\ first.cpu = c /\ first.item.event = "TIME_ADJUSTMENT"
                            /\ out' = <<first, call>>

LEMMA HandsHeeds ==
  ASSUME TypeOK, TraceTyped, Handler, scaler' \in Nat \ {0},
         NEW c \in CPU, NEW u \in Uptime, NEW x \in Item, CallHandler(c, u, x)
  PROVE  \E call \in Call : Calling(c, x, call)
<1> DEFINE bt == BtOf(Tick(u, x), scaler')
           w == [writer EXCEPT !.written = <<>>]
           only == [bt |-> bt, cpu |-> c, item |-> x]
           adj == [event |-> "TIME_ADJUSTMENT", time |-> 0,
                   data |-> lastBt[c] - bt, seq |-> 0]
           first == [bt |-> lastBt[c], cpu |-> c, item |-> adj]
           second == [bt |-> lastBt[c], cpu |-> c, item |-> x]
<1>1. bt \in Bt /\ lastBt[c] \in Bt
  BY TickType, BtOfType DEF TypeOK
<1>2. out' = Calls(c, bt, x)
  BY DEF CallHandler
<1>3. /\ w \in Writer /\ w.cpus = writer.cpus /\ w.names = writer.names
      /\ w.written = <<>>
  <2>1. <<>> \in Seq(Written)
    OBVIOUS
  <2> QED BY <2>1 DEF TraceTyped, Writer
<1>4. writer' = CASE Len(out') = 0 -> w
                  [] Len(out') = 1 -> PrintItem(w, out'[1])
                  [] Len(out') = 2 -> PrintItem(PrintItem(w, out'[1]), out'[2])
  BY DEF Handler
<1> HIDE DEF bt, w
<1>5. \A n, t : Switched(w, c, n, t) = Switched(writer, c, n, t)
  BY <1>3 DEF Switched, CopyThreadName
<1>6. ASSUME NEW v, NEW n, Heeds(v, w, c, x, n) PROVE Heeds(v, writer, c, x, n)
  <2>1. SameNames(v, w, c) <=> SameNames(v, writer, c)
    BY <1>3 DEF SameNames
  <2> QED BY <1>3, <1>5, <1>6, <2>1 DEF Heeds
<1>7. CASE bt >= lastBt[c]
  <2>1. out' = <<only>>
    BY <1>2, <1>7 DEF Calls
  <2>2. only \in Call /\ only.cpu = c /\ only.item = x
    BY <1>1 DEF Call
  <2> HIDE DEF only
  <2>3. writer' = PrintItem(w, only)
    <3>1. Len(out') = 1 /\ out'[1] = only
      BY <2>1
    <3> QED BY <1>4, <3>1
  <2>4. Heeds(writer', w, c, x, Ns(only.bt)) /\ Writes(writer', w, c, x, Ns(only.bt))
    BY <1>3, <2>2, <2>3, PrintItemHeeds
  <2>5. Told(only)
    <3> SUFFICES ASSUME x.event = "THREAD_SWITCH_IN" PROVE Told(only)
      BY <2>2 DEF Told
    <3> DEFINE ns == Ns(only.bt)
               r == [cpu |-> c, ns |-> ns, kind |-> "sched_switch",
                     prev |-> w.cpus[c].prev, next |-> Switched(w, c, ns, x.data)]
    <3>1. IF ns = w.cpus[c].prev.ns THEN writer'.written = Append(w.written, r)
                                    ELSE writer'.written = w.written
      BY <2>4 DEF Writes
    <3>2. Append(w.written, r) = <<r>>
      <4> HIDE DEF r
      <4> QED BY <1>3
    <3>3. r = [cpu |-> c, ns |-> ns, kind |-> "sched_switch",
               prev |-> writer.cpus[c].prev, next |-> Switched(writer, c, ns, x.data)]
      BY <1>3, <1>5
    <3> HIDE DEF r, ns
    <3>4. writer'.written = IF ns = writer.cpus[c].prev.ns THEN <<r>> ELSE <<>>
      BY <1>3, <3>1, <3>2
    <3> QED BY <2>2, <3>3, <3>4 DEF Told, ns
  <2>6. Heeds(writer', writer, c, x, Ns(only.bt))
    BY <1>6, <2>4
  <2>7. Calling(c, x, only)
    BY <2>1, <2>2, <2>5, <2>6 DEF Calling
  <2> QED BY <2>2, <2>7
<1>8. CASE ~(bt >= lastBt[c])
  <2>1. out' = <<first, second>>
    BY <1>2, <1>8 DEF Calls
  <2>2. adj \in Item
    <3>1. lastBt[c] - bt \in Nat /\ 0 \in Time
      BY <1>1, <1>8, RecordAssumption DEF Bt, Time
    <3> QED BY <3>1 DEF Item, Events, NoTimeEvents, ClientEvents
  <2>3. adj.event = "TIME_ADJUSTMENT"
    OBVIOUS
  <2> HIDE DEF adj
  <2>4. /\ first \in Call /\ first.cpu = c /\ first.item = adj
        /\ second \in Call /\ second.cpu = c /\ second.item = x
    BY <1>1, <2>2 DEF Call
  <2> HIDE DEF first, second
  <2> DEFINE v == PrintItem(w, first)
  <2>5. writer' = PrintItem(v, second)
    <3>1. Len(out') = 2 /\ out'[1] = first /\ out'[2] = second
      BY <2>1
    <3> QED BY <1>4, <3>1
  <2>6. Heeds(v, w, c, adj, Ns(first.bt)) /\ v \in Writer
    BY <1>3, <2>4, PrintItemHeeds, PrintItemStep DEF Printed
  <2> HIDE DEF v
  <2>7. Heeds(writer', v, c, x, Ns(second.bt))
    BY <2>4, <2>5, <2>6, PrintItemHeeds
  <2>8. /\ \A d \in CPU \ {c} : v.cpus[d] = w.cpus[d]
        /\ v.cpus[c].prev = w.cpus[c].prev /\ SameNames(v, w, c)
    BY <2>3, <2>6 DEF Heeds
  <2>9. \A n, t : Switched(v, c, n, t) = Switched(w, c, n, t)
    BY <2>8 DEF Switched, CopyThreadName, SameNames
  <2>10. Heeds(writer', w, c, x, Ns(second.bt))
    <3>1. SameNames(writer', v, c) <=> SameNames(writer', w, c)
      BY <2>8 DEF SameNames
    <3>2. v.names = w.names /\ v.cpus[c].thread = w.cpus[c].thread
          /\ v.cpus[c].chunks = w.cpus[c].chunks
      BY <2>8 DEF SameNames
    <3> QED BY <2>7, <2>8, <2>9, <3>1, <3>2 DEF Heeds
  <2>11. Calling(c, x, second)
    BY <1>6, <2>1, <2>3, <2>4, <2>10 DEF Calling
  <2> QED BY <2>4, <2>11
<1> QED BY <1>7, <1>8

\* What history keeps of the calls: the last SWITCH_OUT.
LEMMA LastOutCalls ==
  ASSUME History, NEW c \in CPU, NEW x \in Item, NEW call \in Call, Calling(c, x, call),
         x.event # "TIME_ADJUSTMENT"
  PROVE  /\ \A d \in CPU \ {c} : lastOut'[d] = lastOut[d]
         /\ lastOut'[c] = IF x.event = "THREAD_SWITCH_OUT"
                            THEN [seq |-> x.seq, data |-> x.data, known |-> Reliable(call)]
                            ELSE lastOut[c]
<1> DEFINE Outs(d) == {i \in DOMAIN out' : out'[i].cpu = d /\
                         out'[i].item.event = "THREAD_SWITCH_OUT"}
<1>1. \A d \in CPU : lastOut'[d] =
        IF Outs(d) = {} THEN lastOut[d]
        ELSE [seq |-> out'[CHOOSE i \in Outs(d) : TRUE].item.seq,
              data |-> out'[CHOOSE i \in Outs(d) : TRUE].item.data,
              known |-> Reliable(out'[CHOOSE i \in Outs(d) : TRUE])]
  BY DEF History
<1>2. call.cpu = c /\ call.item = x
  BY DEF Calling
<1>3. PICK n \in {1, 2} : /\ DOMAIN out' = 1 .. n /\ out'[n] = call
                          /\ n = 2 => /\ out'[1].cpu = c
                                      /\ out'[1].item.event = "TIME_ADJUSTMENT"
  <2>1. CASE out' = <<call>>
    <3>1. DOMAIN out' = 1 .. 1 /\ out'[1] = call
      BY <2>1
    <3> QED BY <3>1
  <2>2. CASE out' # <<call>>
    <3>1. PICK first \in Call : /\ first.cpu = c
                                /\ first.item.event = "TIME_ADJUSTMENT"
                                /\ out' = <<first, call>>
      BY <2>2 DEF Calling
    <3>2. DOMAIN out' = 1 .. 2 /\ out'[1] = first /\ out'[2] = call
      BY <3>1
    <3> QED BY <3>1, <3>2
  <2> QED BY <2>1, <2>2
<1>4. \A i \in DOMAIN out' : i = n \/ (out'[i].cpu = c /\ out'[i].item.event = "TIME_ADJUSTMENT")
  BY <1>3
<1>5. n \in DOMAIN out'
  BY <1>3
<1>6. \A d \in CPU : Outs(d) = IF d = c /\ x.event = "THREAD_SWITCH_OUT" THEN {n} ELSE {}
  BY <1>2, <1>3, <1>4, <1>5
<1> HIDE DEF Outs
<1>7. \A d \in CPU \ {c} : lastOut'[d] = lastOut[d]
  BY <1>1, <1>6
<1>8. CASE x.event = "THREAD_SWITCH_OUT"
  <2>1. Outs(c) = {n} /\ {n} # {}
    BY <1>6, <1>8
  <2>2. (CHOOSE i \in Outs(c) : TRUE) = n
    BY <2>1
  <2>3. lastOut'[c] = [seq |-> out'[n].item.seq, data |-> out'[n].item.data,
                       known |-> Reliable(out'[n])]
    BY <1>1, <2>1, <2>2
  <2> QED BY <1>2, <1>3, <1>7, <1>8, <2>3
<1>9. CASE x.event # "THREAD_SWITCH_OUT"
  BY <1>1, <1>6, <1>7, <1>9
<1> QED BY <1>8, <1>9

LEMMA LastOutSilent ==
  ASSUME History, out' = <<>> PROVE \A c \in CPU : lastOut'[c] = lastOut[c]
<1>1. DOMAIN out' = {}
  OBVIOUS
<1> QED BY <1>1 DEF History

\* The history keeps its type.
LEMMA LastOutType ==
  ASSUME TypeOK', lastOut \in LastOuts, History PROVE lastOut' \in LastOuts
<1>1. out' \in Seq(Call)
  BY DEF TypeOK
<1> DEFINE Outs(d) == {i \in DOMAIN out' : out'[i].cpu = d /\
                         out'[i].item.event = "THREAD_SWITCH_OUT"}
           LastCall(d) == LET call == out'[CHOOSE i \in Outs(d) : TRUE]
                       IN [seq |-> call.item.seq, data |-> call.item.data,
                           known |-> Reliable(call)]
<1>2. lastOut' = [d \in CPU |-> IF Outs(d) = {} THEN lastOut[d] ELSE LastCall(d)]
  BY DEF History
<1>3. ASSUME NEW d \in CPU, Outs(d) # {}
      PROVE  LastCall(d) \in [seq : Nat, data : Nat, known : BOOLEAN]
  <2>1. PICK i \in DOMAIN out' : i = CHOOSE j \in Outs(d) : TRUE
    BY <1>3
  <2> HIDE DEF Outs
  <2>2. out'[i] \in Call
    BY <1>1
  <2>3. out'[i].item.seq \in Nat /\ out'[i].item.data \in Nat
    BY <2>2 DEF Call, Item
  <2>4. Reliable(out'[i]) \in BOOLEAN
    BY DEF Reliable
  <2> QED BY <2>1, <2>3, <2>4
<1> HIDE DEF Outs, LastCall
<1> QED BY <1>2, <1>3 DEF LastOuts

-----------------------------------------------------------------------------
(* The handler gets an item, and the log has an entry for it.               *)
Heeding(M, c, x, call) ==
  /\ TraceTyped /\ lastOut \in LastOuts /\ passed \in [CPU -> Nat]
  /\ M \in Logs /\ c \in CPU /\ x \in Item /\ Calling(c, x, call)
  /\ overflows' = overflows /\ Astray \subseteq Astray'
  /\ TrueTimesStep
  /\ passed' = IF Numbered(x) THEN [passed EXCEPT ![c] = x.seq] ELSE passed
  /\ lastOut'[c] = IF x.event = "THREAD_SWITCH_OUT"
                     THEN [seq |-> x.seq, data |-> x.data, known |-> Reliable(call)]
                     ELSE lastOut[c]
  /\ Numbered(x) =>
       /\ x.seq = passed[c] + 1
       /\ M[x.seq].event = x.event /\ M[x.seq].data = x.data /\ M[x.seq].time > 0
       /\ May(M, x.seq, M[x.seq])
       /\ Reliable(call) => Recorded(call) = M[x.seq].time

LEMMA NumberedEvents ==
  \A x : x.event \in {"THREAD_SWITCH_OUT", "THREAD_SWITCH_IN", "THREAD_CREATE",
                      "THREAD_ID", "THREAD_NAME", "UPTIME_LOW", "UPTIME_HIGH",
                      "PER_CPU_OVERFLOW"} => Numbered(x)
  BY DEF Numbered, OutOfBand, OwnEvents

\* A reliable call comes alone, at the time of its entry.
LEMMA ReliableCall ==
  ASSUME NEW M, NEW c, NEW x, NEW call, Heeding(M, c, x, call), Reliable(call)
  PROVE  /\ out' = <<call>> /\ Told(call) /\ c \notin Astray' /\ c \notin Astray
         /\ Numbered(x) /\ HasTime(x.event) => call.bt = M[x.seq].time * Scale
<1>1. call.cpu = c /\ call.item = x
  BY DEF Heeding, Calling
<1>2. c \notin Astray' /\ c \notin Astray
  BY <1>1 DEF Reliable, Heeding, Astray
<1>3. out' = <<call>> /\ Told(call)
  <2> SUFFICES ASSUME NEW first \in Call, first.cpu = c,
                      first.item.event = "TIME_ADJUSTMENT", out' = <<first, call>>
               PROVE  FALSE
    BY DEF Heeding, Calling
  <2>1. 1 \in DOMAIN out' /\ out'[1] = first
    OBVIOUS
  <2>2. Reliable(first)
    BY <1>1 DEF Reliable
  <2> QED BY <2>1, <2>2 DEF Heeding, TrueTimesStep
<1>4. Numbered(x) /\ HasTime(x.event) => call.bt = M[x.seq].time * Scale
  <2>1. 1 \in DOMAIN out' /\ out'[1] = call
    BY <1>3
  <2>2. HasTime(x.event) => call.bt = Recorded(call) * Scale
    BY <1>1, <2>1 DEF Heeding, TrueTimesStep
  <2> QED BY <2>2 DEF Heeding
<1> QED BY <1>2, <1>3, <1>4

\* What the writer tells of a thread is true as far as it has its name.
LEMMA SwitchedTells ==
  ASSUME NEW c \in CPU, NEW ns, NEW thread, NamesTrue
  PROVE  Tells(Switched(writer, c, ns, thread), c, thread)
<1> DEFINE told == Switched(writer, c, ns, thread)
<1>1. /\ told.tid = Tid(thread)
      /\ told.comm.name = IF thread \in NamedThreads THEN writer.names[thread] ELSE NoName
      /\ told.comm.cpu = IF thread \in IdleThreads THEN c ELSE NoCpu
  BY DEF Switched, CopyThreadName, Comm
<1>2. \A i \in 1 .. NameChunks : NoName[i] = 0
  BY DEF NoName
<1>3. overflows = 0 => NameOf(told.comm, thread)
  BY <1>1, <1>2 DEF NamesTrue, NameOf
<1> QED BY <1>1, <1>3 DEF Tells

\* The last SWITCH_OUT, after an item.
LEMMA SwitchedOn ==
  ASSUME NEW M, NEW c, NEW x, NEW call, Heeding(M, c, x, call), Remembered(M, c), NamesTrue
  PROVE  Remembered(M, c)'
<1> DEFINE o == lastOut[c]
           prev == writer.cpus[c].prev
           ns == Ns(call.bt)
<1>1. /\ c \in CPU /\ passed[c] \in Nat /\ o.seq \in Nat /\ o.seq \in 0 .. passed[c]
      /\ x.seq \in Nat /\ overflows' = overflows /\ Astray \subseteq Astray'
      /\ call.cpu = c /\ call.item = x
  BY DEF Heeding, LastOuts, Item, Remembered, Calling
<1>2. writer'.cpus[c].prev = IF x.event = "THREAD_SWITCH_OUT"
                               THEN Switched(writer, c, ns, x.data) ELSE prev
  BY DEF Heeding, Calling, Heeds
<1>3. CASE x.event = "THREAD_SWITCH_OUT"
  <2>1. Numbered(x) /\ HasTime(x.event)
    BY <1>3, NumberedEvents, TimedEvents DEF GroupEvents
  <2>2. /\ passed'[c] = x.seq /\ x.seq = passed[c] + 1
        /\ M[x.seq].event = "THREAD_SWITCH_OUT"
        /\ lastOut'[c] = [seq |-> x.seq, data |-> x.data, known |-> Reliable(call)]
    BY <1>1, <1>3, <2>1 DEF Heeding
  <2>3. Tells(Switched(writer, c, ns, x.data), c, x.data)
    BY <1>1, SwitchedTells
  <2>4. Tells(writer.cpus[c].prev, c, lastOut[c].data)'
    BY <1>1, <1>2, <1>3, <2>2, <2>3 DEF Tells
  <2>5. lastOut'[c].known => writer'.cpus[c].prev.ns = Ns(M[x.seq].time * Scale)
    <3> SUFFICES ASSUME Reliable(call)
                 PROVE  writer'.cpus[c].prev.ns = Ns(M[x.seq].time * Scale)
      BY <2>2
    <3>1. call.bt = M[x.seq].time * Scale
      BY <2>1, ReliableCall
    <3> QED BY <1>2, <1>3, <3>1 DEF Switched
  <2>6. lastOut'[c].seq = x.seq /\ x.seq # 0 /\ x.seq \in 0 .. passed'[c]
        /\ \A k \in x.seq + 1 .. passed'[c] : FALSE
    BY <1>1, <2>2
  <2> QED BY <2>2, <2>4, <2>5, <2>6 DEF Remembered
<1>4. CASE x.event # "THREAD_SWITCH_OUT"
  <2>1. writer'.cpus[c].prev = prev /\ lastOut'[c] = o
    BY <1>2, <1>4 DEF Heeding
  <2>2. /\ passed'[c] \in Nat /\ passed'[c] >= passed[c]
        /\ \A k \in passed[c] + 1 .. passed'[c] : M[k].event # "THREAD_SWITCH_OUT"
    <3>1. CASE Numbered(x)
      <4>1. passed'[c] = x.seq /\ x.seq = passed[c] + 1 /\ M[x.seq].event = x.event
        BY <1>1, <3>1 DEF Heeding
      <4> QED BY <1>1, <1>4, <4>1
    <3>2. CASE ~Numbered(x)
      <4>1. passed'[c] = passed[c]
        BY <3>2 DEF Heeding
      <4> QED BY <1>1, <4>1
    <3> QED BY <3>1, <3>2
  <2>3. \A k \in o.seq + 1 .. passed'[c] : M[k].event # "THREAD_SWITCH_OUT"
    <3> SUFFICES ASSUME NEW k \in o.seq + 1 .. passed'[c]
                 PROVE  M[k].event # "THREAD_SWITCH_OUT"
      OBVIOUS
    <3>1. CASE k <= passed[c]
      <4>1. k \in o.seq + 1 .. passed[c]
        BY <1>1, <2>2, <3>1
      <4> QED BY <4>1 DEF Remembered
    <3>2. CASE ~(k <= passed[c])
      <4>1. k \in passed[c] + 1 .. passed'[c]
        BY <1>1, <2>2, <3>2
      <4> QED BY <2>2, <4>1
    <3> QED BY <3>1, <3>2
  <2>4. o.seq \in 0 .. passed'[c]
    BY <1>1, <2>2
  <2>5. o.seq # 0 => M[o.seq].event = "THREAD_SWITCH_OUT" /\ Tells(prev, c, o.data)
    BY DEF Remembered
  <2>6. Tells(writer.cpus[c].prev, c, lastOut[c].data)' <=> Tells(prev, c, o.data)
    BY <1>1, <2>1 DEF Tells
  <2>7. (o.known /\ c \notin Astray') =>
           prev.ns = IF o.seq = 0 THEN 0 ELSE Ns(M[o.seq].time * Scale)
    BY <1>1 DEF Remembered
  <2> QED BY <2>1, <2>3, <2>4, <2>5, <2>6, <2>7 DEF Remembered
<1> QED BY <1>3, <1>4

\* The names, after an item.
LEMMA NamedOn ==
  ASSUME NEW M, NEW c, NEW x, NEW call, Heeding(M, c, x, call), Named(M, c), NamesTrue
  PROVE  Named(M, c)' /\ NamesTrue'
<1> SUFFICES ASSUME overflows = 0
             PROVE  /\ passed'[c] # 0 => Naming(M[passed'[c]], writer'.cpus[c])
                    /\ \A t \in NamedThreads : \A i \in 1 .. NameChunks :
                         writer'.names[t][i] \in {0, Chunk(t, i)}
  BY DEF Heeding, Named, NamesTrue
<1> DEFINE t0 == writer.cpus[c].thread
           n == writer.cpus[c].chunks
           e == M[x.seq]
           last == M[passed[c]]
           q == writer'.cpus[c]
           ns == Ns(call.bt)
           Spelt(names) == \A t \in NamedThreads : \A i \in 1 .. NameChunks :
                             names[t][i] \in {0, Chunk(t, i)}
<1>1. /\ c \in CPU /\ passed \in [CPU -> Nat] /\ passed[c] \in Nat
      /\ x.seq \in Nat /\ x.data \in Nat
      /\ Heeds(writer', writer, c, x, ns)
  BY DEF Heeding, Item, Calling
<1>2. /\ writer.names \in [NamedThreads -> Names] /\ n \in Nat /\ t0 \in Nat
  <2>1. writer \in Writer
    BY DEF Heeding, TraceTyped
  <2>2. writer.cpus[c] \in Context
    BY <1>1, <2>1 DEF Writer
  <2> QED BY <2>1, <2>2 DEF Writer, Context
<1>3. Spelt(writer.names) /\ (passed[c] # 0 => Naming(last, writer.cpus[c]))
  BY DEF Named, NamesTrue
<1>4. Numbered(x) => /\ passed'[c] = x.seq /\ x.seq = passed[c] + 1
                     /\ e.event = x.event /\ e.data = x.data /\ May(M, x.seq, e)
  BY <1>1 DEF Heeding
<1> SUFFICES (passed'[c] # 0 => Naming(M[passed'[c]], q)) /\ Spelt(writer'.names)
  OBVIOUS
<1>5. CASE x.event \in {"THREAD_CREATE", "THREAD_ID"}
  <2>1. /\ q.thread = x.data /\ q.chunks = 0
        /\ writer'.names = [t \in NamedThreads |-> IF t = x.data THEN NoName
                                                                 ELSE writer.names[t]]
    BY <1>1, <1>5 DEF Heeds
  <2>2. \A i \in 1 .. NameChunks : NoName[i] = 0
    BY DEF NoName
  <2>3. Spelt(writer'.names)
    BY <1>3, <2>1, <2>2
  <2>4. Numbered(x)
    BY <1>5, NumberedEvents
  <2>5. Naming(e, q)
    BY <1>4, <1>5, <2>1, <2>4 DEF Naming
  <2> QED BY <1>4, <2>3, <2>4, <2>5
<1>6. CASE x.event = "THREAD_NAME"
  <2>1. Numbered(x)
    BY <1>6, NumberedEvents
  <2>2. /\ x.seq > 1 /\ Continues(M[x.seq - 1], e)
    BY <1>4, <1>6, <2>1 DEF May, Spells
  <2>3. x.seq - 1 = passed[c] /\ passed[c] # 0
    BY <1>1, <1>4, <2>1, <2>2
  <2>4. PICK t \in Threads, k \in 1 .. NameChunks :
          /\ x.data = Chunk(t, k)
          /\ IF k = 1 THEN last.event = "THREAD_CREATE" /\ last.data = t
                      ELSE last.event = "THREAD_NAME" /\ last.data = Chunk(t, k - 1)
    <3>1. Continues(last, e) /\ e.data = x.data
      BY <1>4, <2>1, <2>2, <2>3
    <3> HIDE DEF last, e
    <3> QED BY <3>1 DEF Continues
  <2>5. NameChunks \in Nat /\ k \in Nat /\ Threads \subseteq Nat /\ NamedThreads \subseteq Nat
        /\ t \in Nat
    BY WriterAssumption, TraceAssumption
  <2>6. t0 = t /\ (t \in NamedThreads => n = k - 1)
    <3>1. Naming(last, writer.cpus[c])
      BY <1>3, <2>3
    <3>2. CASE k = 1
      BY <2>4, <3>1, <3>2 DEF Naming
    <3>3. CASE k # 1
      <4>1. k - 1 \in 1 .. NameChunks
        BY <2>5, <3>3
      <4> QED BY <2>4, <3>1, <3>3, <4>1 DEF Naming
    <3> QED BY <3>2, <3>3
  <2>7. \A u \in Threads, j \in 1 .. NameChunks : x.data = Chunk(u, j) => u = t /\ j = k
    BY <2>4, <2>5, ChunkUnique
  <2>8. CASE t \notin NamedThreads
    <3>1. SameNames(writer', writer, c)
      BY <1>1, <1>6, <2>6, <2>8 DEF Heeds
    <3>2. Naming(e, q)
      BY <1>4, <1>6, <2>1, <2>6, <2>7, <2>8, <3>1 DEF Naming, SameNames
    <3> QED BY <1>3, <1>4, <2>1, <3>1, <3>2 DEF SameNames
  <2>9. CASE t \in NamedThreads
    <3>1. n = k - 1 /\ ~(n >= NameChunks \/ t0 \notin NamedThreads) /\ n + 1 = k
      BY <1>2, <2>5, <2>6, <2>9
    <3>2. /\ q.thread = t /\ q.chunks = k
          /\ writer'.names = [writer.names EXCEPT ![t][k] = x.data]
      BY <1>1, <1>6, <2>6, <3>1 DEF Heeds
    <3>3. Naming(e, q)
      BY <1>4, <1>6, <2>1, <2>7, <3>2 DEF Naming
    <3>4. Spelt(writer'.names)
      <4> SUFFICES ASSUME NEW u \in NamedThreads, NEW i \in 1 .. NameChunks
                   PROVE  writer'.names[u][i] \in {0, Chunk(u, i)}
        OBVIOUS
      <4>1. CASE u = t
        <5>1. writer.names[t] \in [1 .. NameChunks -> Nat]
          BY <1>2, <2>9 DEF Names
        <5>2. writer'.names[t] = [writer.names[t] EXCEPT ![k] = x.data]
          BY <1>2, <2>9, <3>2
        <5>3. writer'.names[t][i] = IF i = k THEN x.data ELSE writer.names[t][i]
          BY <5>1, <5>2
        <5> QED BY <1>3, <2>4, <4>1, <5>3
      <4>2. CASE u # t
        <5>1. writer'.names[u] = writer.names[u]
          BY <1>2, <3>2, <4>2
        <5> QED BY <1>3, <5>1
      <4> QED BY <4>1, <4>2
    <3> QED BY <1>4, <2>1, <3>3, <3>4
  <2> QED BY <2>8, <2>9
<1>7. CASE x.event \notin {"THREAD_CREATE", "THREAD_ID", "THREAD_NAME"}
  <2>1. SameNames(writer', writer, c)
    BY <1>1, <1>7 DEF Heeds
  <2>2. CASE Numbered(x)
    <3>1. Naming(e, q)
      BY <1>4, <1>7, <2>2 DEF Naming
    <3> QED BY <1>3, <1>4, <2>1, <2>2, <3>1 DEF SameNames
  <2>3. CASE ~Numbered(x)
    <3>1. passed'[c] = passed[c]
      BY <2>3 DEF Heeding
    <3> QED BY <1>3, <2>1, <3>1 DEF SameNames, Naming
  <2> QED BY <2>2, <2>3
<1> QED BY <1>5, <1>6, <1>7

\* A switch is written exactly if its halves came one after the other.
LEMMA SwitchOn ==
  ASSUME NEW M, NEW c, NEW x, NEW call, Heeding(M, c, x, call), Remembered(M, c), NamesTrue,
         (x.event = "THREAD_SWITCH_IN" /\ Reliable(call) /\ ~lastOut[c].known) =>
           x.seq > lastOut[c].seq + 1
  PROVE  SwitchStep
<1> DEFINE o == lastOut[c]
           prev == writer.cpus[c].prev
           ns == Ns(call.bt)
           next == Switched(writer, c, ns, x.data)
           r == [cpu |-> c, ns |-> ns, kind |-> "sched_switch", prev |-> prev, next |-> next]
           written == writer'.written
           switches == {j \in DOMAIN written : written[j].kind = "sched_switch"}
           Right == IF x.seq = o.seq + 1
                      THEN \E j \in switches : /\ switches = {j}
                                               /\ Tells(written[j].prev, c, o.data)
                                               /\ Tells(written[j].next, c, x.data)
                      ELSE o.known => switches = {}
<1>1. call.cpu = c /\ call.item = x /\ c \in CPU /\ passed[c] \in Nat /\ o.seq \in Nat
      /\ x.seq \in Nat
  BY DEF Heeding, Calling, LastOuts, Item
<1>2. SUFFICES ASSUME x.event = "THREAD_SWITCH_IN", Reliable(call) PROVE Right
  <2> SUFFICES ASSUME NEW i \in DOMAIN out', out'[i].item.event = "THREAD_SWITCH_IN",
                      Reliable(out'[i])
               PROVE  out'[i] = call
    BY <1>1, <1>2 DEF SwitchStep
  <2>1. CASE out' = <<call>>
    BY <2>1
  <2>2. CASE out' # <<call>>
    <3>1. PICK first \in Call : /\ first.item.event = "TIME_ADJUSTMENT"
                                /\ out' = <<first, call>>
      BY <2>2 DEF Heeding, Calling
    <3> QED BY <3>1
  <2> QED BY <2>1, <2>2
<1>3. Numbered(x) /\ HasTime(x.event)
  BY <1>2, NumberedEvents, TimedEvents DEF GroupEvents
<1>4. Told(call) /\ c \notin Astray /\ call.bt = M[x.seq].time * Scale
  BY <1>2, <1>3, ReliableCall
<1>5. /\ x.seq = passed[c] + 1 /\ M[x.seq].event = "THREAD_SWITCH_IN"
      /\ M[x.seq].time > 0 /\ Pairs(M, x.seq, M[x.seq])
  BY <1>2, <1>3 DEF Heeding, May
<1>6. /\ o.seq \in 0 .. passed[c]
      /\ o.seq # 0 => M[o.seq].event = "THREAD_SWITCH_OUT" /\ Tells(prev, c, o.data)
      /\ \A k \in o.seq + 1 .. passed[c] : M[k].event # "THREAD_SWITCH_OUT"
      /\ o.known => prev.ns = IF o.seq = 0 THEN 0 ELSE Ns(M[o.seq].time * Scale)
  BY <1>4 DEF Remembered
<1>7. M \in Logs /\ \A k \in Nat : M[k].time \in Nat
  BY DEF Heeding, Logs, Entry
<1>8. written = IF ns = prev.ns THEN <<r>> ELSE <<>>
  BY <1>1, <1>2, <1>4 DEF Told
<1>9. CASE x.seq = o.seq + 1
  <2>1. o.known
    BY <1>1, <1>2, <1>9
  <2>2. x.seq > 1 /\ x.seq - 1 = o.seq /\ o.seq # 0
    BY <1>1, <1>5, <1>9 DEF Pairs
  <2>3. M[o.seq].event = "THREAD_SWITCH_OUT" /\ Tells(prev, c, o.data)
    BY <1>6, <2>2
  <2>4. M[o.seq].time = M[x.seq].time
    BY <1>5, <2>2, <2>3 DEF Pairs
  <2>5. ns = prev.ns
    BY <1>4, <1>6, <2>1, <2>2, <2>4
  <2>6. written = <<r>> /\ r.kind = "sched_switch" /\ r.prev = prev /\ r.next = next
    BY <1>8, <2>5
  <2> HIDE DEF r
  <2>7. switches = {1} /\ written[1] = r
    BY <2>6
  <2>8. Tells(next, c, x.data)
    BY <1>1, SwitchedTells
  <2> QED BY <1>9, <2>3, <2>6, <2>7, <2>8
<1>10. CASE x.seq # o.seq + 1 /\ o.known
  <2>1. x.seq - 1 \in o.seq + 1 .. passed[c] /\ x.seq - 1 = passed[c]
    BY <1>1, <1>5, <1>6, <1>10
  <2>2. M[x.seq - 1].event # "THREAD_SWITCH_OUT"
    BY <1>6, <2>1
  <2>3. \A k \in 1 .. passed[c] : M[k].event = "THREAD_SWITCH_OUT" => M[k].time < M[x.seq].time
    BY <1>5, <2>1, <2>2 DEF Pairs
  <2>4. ns # prev.ns
    <3>1. CASE o.seq = 0
      <4>1. Ns(M[x.seq].time * Scale) # 0
        BY <1>1, <1>5, <1>7, NsPositive
      <4> QED BY <1>4, <1>6, <1>10, <3>1, <4>1
    <3>2. CASE o.seq # 0
      <4>1. M[o.seq].time < M[x.seq].time
        BY <1>1, <1>6, <2>3, <3>2
      <4>2. Ns(M[o.seq].time * Scale) # Ns(M[x.seq].time * Scale)
        BY <1>1, <1>7, <4>1, NsStrict
      <4> QED BY <1>4, <1>6, <1>10, <3>2, <4>2
    <3> QED BY <3>1, <3>2
  <2>5. written = <<>>
    BY <1>8, <2>4
  <2> HIDE DEF written
  <2>6. switches = {}
    BY <2>5
  <2> QED BY <1>10, <2>6
<1> QED BY <1>9, <1>10

-----------------------------------------------------------------------------
(* Logs that agree on what was given.                                       *)
Agree(L, M, n) == \A k \in 1 .. n : M[k] = L[k]

LEMMA MaySame ==
  ASSUME NEW L, NEW M, NEW n \in Nat, Agree(L, M, n), NEW e
  PROVE  /\ Pairs(M, n + 1, e) <=> Pairs(L, n + 1, e)
         /\ Spells(M, n + 1, e) <=> Spells(L, n + 1, e)
<1>1. (n + 1) - 1 = n /\ \A k \in 1 .. (n + 1) - 1 : M[k] = L[k]
  BY DEF Agree
<1>2. n + 1 > 1 => M[(n + 1) - 1] = L[(n + 1) - 1]
  <2>1. n + 1 > 1 => n \in 1 .. n
    OBVIOUS
  <2> QED BY <1>1, <2>1 DEF Agree
<1> QED BY <1>1, <1>2 DEF Pairs, Spells

LEMMA AgreeSame ==
  ASSUME TypeOK, NEW c \in CPU, passed[c] <= given[c], NEW L, NEW M, Agree(L, M, given[c])
  PROVE  /\ Remembered(L, c) => Remembered(M, c)
         /\ Named(L, c) => Named(M, c)
<1>1. passed[c] \in Nat /\ given[c] \in Nat
  BY DEF TypeOK
<1>2. \A k \in 1 .. passed[c] : M[k] = L[k]
  BY <1>1 DEF Agree
<1>3. ASSUME Remembered(L, c) PROVE Remembered(M, c)
  <2>1. lastOut[c].seq \in 0 .. passed[c]
    BY <1>3 DEF Remembered
  <2>2. lastOut[c].seq # 0 => M[lastOut[c].seq] = L[lastOut[c].seq]
    BY <1>1, <1>2, <2>1
  <2>3. \A k \in lastOut[c].seq + 1 .. passed[c] : M[k] = L[k]
    BY <1>1, <1>2, <2>1
  <2> QED BY <1>3, <2>2, <2>3 DEF Remembered
<1>4. ASSUME Named(L, c) PROVE Named(M, c)
  <2>1. passed[c] # 0 => M[passed[c]] = L[passed[c]]
    BY <1>1, <1>2
  <2> QED BY <1>4, <2>1 DEF Named
<1> QED BY <1>3, <1>4

\* The handler got nothing.
LEMMA QuietSame ==
  ASSUME NEW c \in CPU, NEW M, passed'[c] = passed[c], lastOut'[c] = lastOut[c],
         writer'.cpus[c] = writer.cpus[c], Astray \subseteq Astray',
         overflows' = 0 => overflows = 0
  PROVE  /\ Remembered(M, c) => Remembered(M, c)'
         /\ Named(M, c) => Named(M, c)'
<1>1. Tells(writer.cpus[c].prev, c, lastOut[c].data)
        => Tells(writer.cpus[c].prev, c, lastOut[c].data)'
  BY DEF Tells
<1>2. Remembered(M, c) => Remembered(M, c)'
  BY <1>1 DEF Remembered
<1>3. Named(M, c) => Named(M, c)'
  BY DEF Named
<1> QED BY <1>2, <1>3

\* ... and nothing else happened to the processor.
LEMMA HeardSame ==
  ASSUME NEW c \in CPU, Heard(c), Parted(c), Marked(c),
         items'[c] = items[c], truth'[c] = truth[c], lost'[c] = lost[c],
         given'[c] = given[c], passed'[c] = passed[c],
         rest'[c] = rest[c] \/ rest'[c] = <<>>, clock'[c] = clock[c],
         lastOut'[c] = lastOut[c],
         writer'.cpus[c] = writer.cpus[c], From(c)' = From(c),
         Astray \subseteq Astray', overflows' = 0 => overflows = 0
  PROVE  Heard(c)' /\ Parted(c)' /\ Marked(c)'
<1>1. Waiting(c)' = Waiting(c)
  BY DEF Waiting
<1>2. PICK L \in Logs : Listed(L, c) /\ Matched(L, c) /\ Remembered(L, c) /\ Named(L, c)
  BY DEF Heard
<1>3. ASSUME NEW n, NEW e, May(L, n, e) PROVE May(L, n, e)'
  BY <1>3 DEF May
<1>4. Listed(L, c)'
  BY <1>2, <1>3 DEF Listed
<1>5. Matched(L, c)'
  BY <1>1, <1>2 DEF Matched
<1>6. Remembered(L, c)' /\ Named(L, c)'
  BY <1>2, QuietSame
<1>7. Heard(c)'
  BY <1>4, <1>5, <1>6 DEF Heard
<1>8. Parted(c)'
  BY <1>1 DEF Parted
<1>9. Marked(c)'
  BY DEF Marked
<1> QED BY <1>7, <1>8, <1>9

-----------------------------------------------------------------------------
\* The log is continued by an item of the target.
LEMMA ListedOn ==
  ASSUME NEW item \in Sendable, Visiting(item), Leaves(item),
         NEW p \in CPU, Count(p, item), Numbered(item) => p = cpu,
         NEW c \in CPU, Shaped(rest[c]), NEW L \in Logs, Listed(L, c), overflows' \in Nat
  PROVE  \E M \in Logs :
           /\ Agree(L, M, given[c]) /\ Listed(M, c)'
           /\ (Numbered(item) /\ c = cpu) =>
                M[given[c] + 1] = EntryOf(item, clock'[cpu])
<1>1. /\ TypeOK /\ TraceTyped /\ cpu \in CPU /\ item \in Item
      /\ clock[c] \in Nat /\ clock'[c] \in Nat /\ clock[c] <= clock'[c]
  BY VisitingFacts
<1>2. PICK n \in Nat : n = given[c]
  BY <1>1 DEF TypeOK
<1>3. given'[c] = IF Numbered(item) /\ p = c THEN n + 1 ELSE n
  <2>1. given \in [CPU -> Nat]
    BY <1>1 DEF TypeOK
  <2> QED BY <1>2, <2>1 DEF Count
<1>4. overflows \in Nat /\ overflows' \in Nat /\ (overflows' = 0 => overflows = 0)
      /\ rest \in [CPU -> Seq(Sendable)]
  <2>1. overflows \in Nat /\ rest \in [CPU -> Seq(Sendable)]
    BY <1>1, TraceAssumption DEF TraceTyped, TraceTypeOK
  <2>2. overflows' = overflows \/ overflows' > overflows
    BY DEF Visiting, Sent
  <2> QED BY <2>1, <2>2
<1>5. ASSUME NEW k, NEW e, May(L, k, e) PROVE May(L, k, e)'
  BY <1>4, <1>5 DEF May
<1>6. CASE c # cpu
  <2>1. clock'[c] = clock[c] /\ rest'[c] = rest[c] /\ given'[c] = given[c]
    BY <1>2, <1>3, <1>4, <1>6 DEF Visiting, Sent, Leaves
  <2>2. Listed(L, c)'
    BY <1>5, <2>1 DEF Listed
  <2> QED BY <1>6, <2>2 DEF Agree
<1>7. CASE c = cpu
  <2>0. PICK now \in Nat : now = clock'[c]
    BY <1>1
  <2> DEFINE entry == EntryOf(item, now)
             M == [L EXCEPT ![n + 1] = entry]
  <2>1. entry \in Entry /\ entry.event = item.event /\ entry.data = item.data
        /\ entry.time = now
    BY <1>1, <2>0 DEF EntryOf, Entry, Item
  <2> HIDE DEF entry
  <2>2. M \in Logs /\ M[n + 1] = entry /\ Agree(L, M, n)
    BY <2>1 DEF Logs, Agree
  <2> HIDE DEF M
  <2>3. ASSUME NEW k \in 1 .. n
        PROVE  M[k].time \in 1 .. now /\ M[k].time <= clock[c] /\ May(M, k, M[k])'
    <3>1. M[k] = L[k] /\ L[k].time \in 1 .. clock[c] /\ May(L, k, L[k])
      BY <1>2, <2>2 DEF Agree, Listed
    <3>2. Agree(L, M, k - 1) /\ k - 1 \in Nat /\ (k - 1) + 1 = k
      BY <2>2 DEF Agree
    <3>3. May(M, k, M[k])
      BY <3>1, <3>2, MaySame DEF May
    <3>4. May(M, k, M[k])'
      BY <1>4, <3>3 DEF May
    <3> QED BY <1>1, <2>0, <3>1, <3>4
  <2>4. now >= 1
    <3>1. clock[c] \in 1 .. MaxClock
      BY <1>1 DEF TraceTyped, TraceTypeOK
    <3> QED BY <1>1, <2>0, <3>1
  <2> DEFINE Allowed(k, e) == Pairs(M, k, e) /\ (overflows' = 0 => Spells(M, k, e))
  <2>5. ASSUME rest[c] # <<>>
        PROVE  Allowed(n + 1, EntryOf(rest[c][1], clock[c]))
    <3>1. May(L, n + 1, EntryOf(rest[c][1], clock[c]))
      BY <1>2, <2>5 DEF Listed
    <3> QED BY <1>4, <2>2, <3>1, MaySame DEF May
  <2>6. (Numbered(item) => Allowed(n + 1, entry))
        /\ (rest'[c] # <<>> => Allowed(given'[c] + 1, EntryOf(rest'[c][1], now)))
    <3>1. CASE item.event = "PROCESSOR" /\ UNCHANGED <<rest, clock, overflows>>
      <4>1. ~Numbered(item)
        BY <3>1 DEF Numbered, OutOfBand
      <4> QED BY <1>3, <2>0, <2>5, <3>1, <4>1
    <3>2. CASE /\ item.event = "PER_CPU_OVERFLOW"
               /\ clock'[cpu] > clock[cpu] /\ overflows' > overflows
      <4>1. Numbered(item) /\ given'[c] = n + 1
        BY <1>3, <1>7, <3>2, NumberedEvents
      <4>2. Allowed(n + 1, entry)
        BY <2>1, <3>2 DEF Pairs, Spells
      <4>3. ASSUME NEW e, e.time = now PROVE Allowed((n + 1) + 1, e)
        <5>1. (n + 1) + 1 > 1 /\ ((n + 1) + 1) - 1 = n + 1
          OBVIOUS
        <5>2. M[n + 1].event = "PER_CPU_OVERFLOW"
          BY <2>1, <2>2, <3>2
        <5>3. \A k \in 1 .. n + 1 : M[k].event = "THREAD_SWITCH_OUT" => M[k].time < now
          <6> SUFFICES ASSUME NEW k \in 1 .. n + 1, M[k].event = "THREAD_SWITCH_OUT"
                       PROVE  M[k].time < now
            OBVIOUS
          <6>1. k \in 1 .. n
            BY <5>2
          <6>2. M[k].time \in 1 .. now /\ M[k].time <= clock[c]
            BY <2>3, <6>1
          <6> QED BY <1>1, <1>7, <2>0, <3>2, <6>2
        <5>4. Pairs(M, (n + 1) + 1, e)
          BY <4>3, <5>1, <5>2, <5>3 DEF Pairs
        <5>5. overflows' # 0
          BY <1>4, <3>2
        <5> QED BY <5>4, <5>5
      <4>4. EntryOf(rest'[c][1], now).time = now
        BY DEF EntryOf
      <4> QED BY <4>1, <4>2, <4>3, <4>4
    <3>3. CASE /\ overflows' = overflows
               /\ \E s \in Seq(Sendable) :
                    /\ s # <<>> /\ item = s[1] /\ rest' = [rest EXCEPT ![cpu] = Tail(s)]
                    /\ \/ s = rest[cpu] /\ clock' = clock
                       \/ Shaped(s) /\ item.event \notin {"THREAD_SWITCH_IN", "THREAD_NAME"}
      <4>1. PICK s \in Seq(Sendable) :
              /\ s # <<>> /\ item = s[1] /\ rest' = [rest EXCEPT ![cpu] = Tail(s)]
              /\ \/ s = rest[cpu] /\ clock' = clock
                 \/ Shaped(s) /\ item.event \notin {"THREAD_SWITCH_IN", "THREAD_NAME"}
        BY <3>3
      <4>2. Allowed(n + 1, entry)
        <5>1. CASE s = rest[cpu] /\ clock' = clock
          BY <1>7, <2>0, <2>5, <4>1, <5>1 DEF entry
        <5>2. CASE item.event \notin {"THREAD_SWITCH_IN", "THREAD_NAME"}
          BY <2>1, <5>2 DEF Pairs, Spells
        <5> QED BY <4>1, <5>1, <5>2
      <4>3. Shaped(s)
        BY <1>7, <4>1
      <4> DEFINE t == Tail(s)
      <4>4. rest'[c] = t
        BY <1>4, <1>7, <4>1
      <4>5. t # <<>> => /\ t[1].event = "THREAD_SWITCH_IN" => item.event = "THREAD_SWITCH_OUT"
                        /\ t[1].event = "THREAD_NAME" => Continues(item, t[1])
        BY <4>1, <4>3, TailShaped
      <4> HIDE DEF t
      <4> DEFINE e == EntryOf(t[1], now)
      <4>6. e.event = t[1].event /\ e.data = t[1].data /\ e.time = now
        BY DEF EntryOf
      <4>7. ASSUME t # <<>> PROVE Allowed(given'[c] + 1, e)
        <5>1. CASE Numbered(item)
          <6>1. given'[c] = n + 1 /\ (n + 1) + 1 > 1 /\ ((n + 1) + 1) - 1 = n + 1
            BY <1>3, <1>7, <5>1
          <6> HIDE DEF e
          <6>2. Pairs(M, (n + 1) + 1, e)
            BY <2>1, <2>2, <4>5, <4>6, <4>7, <6>1 DEF Pairs
          <6>3. Spells(M, (n + 1) + 1, e)
            BY <2>1, <2>2, <4>5, <4>6, <4>7, <6>1 DEF Spells, Continues
          <6> QED BY <6>1, <6>2, <6>3
        <5>2. CASE ~Numbered(item)
          <6>1. item.event \notin {"THREAD_SWITCH_OUT", "THREAD_CREATE", "THREAD_NAME"}
            BY <5>2, NumberedEvents
          <6>2. e.event \notin {"THREAD_SWITCH_IN", "THREAD_NAME"}
            BY <4>5, <4>6, <4>7, <6>1 DEF Continues
          <6> HIDE DEF e
          <6> QED BY <6>2 DEF Pairs, Spells
        <5> QED BY <5>1, <5>2
      <4> QED BY <4>2, <4>4, <4>7
    <3> QED BY <3>1, <3>2, <3>3 DEF Leaves
  <2>7. Listed(M, c)'
    <3>1. ASSUME NEW k \in 1 .. given'[c]
          PROVE  M[k].time \in 1 .. now /\ May(M, k, M[k])'
      <4>1. CASE k \in 1 .. n
        BY <2>3, <4>1
      <4>2. CASE k \notin 1 .. n
        <5>1. k = n + 1 /\ Numbered(item)
          BY <1>3, <4>2
        <5>2. M[k].time = now /\ now \in 1 .. now
          BY <1>1, <2>1, <2>2, <2>4, <5>1
        <5>3. May(M, k, M[k])'
          BY <2>2, <2>6, <5>1 DEF May
        <5> QED BY <5>2, <5>3
      <4> QED BY <4>1, <4>2
    <3>2. rest'[c] # <<>> => May(M, given[c] + 1, EntryOf(rest[c][1], clock[c]))'
      BY <2>0, <2>6 DEF May
    <3> QED BY <2>0, <3>1, <3>2 DEF Listed
  <2> QED BY <1>2, <1>7, <2>0, <2>2, <2>7 DEF entry
<1> QED BY <1>6, <1>7

-----------------------------------------------------------------------------
\* An item more that waits.
LEMMA WaitingAppend ==
  ASSUME TypeOK, NEW c \in CPU, NEW x \in Item, items'[c] = Append(items[c], x),
         From(c) = 1, From(c)' = 1
  PROVE  \A i \in Waiting(c)' :
           \/ i \in Waiting(c) /\ i \in 1 .. Len(items[c]) /\ items'[c][i] = items[c][i]
           \/ i = Len(items[c]) + 1 /\ items'[c][i] = x /\ Numbered(x)
<1> DEFINE s == items[c]
           t == items'[c]
<1>1. s \in Seq(Item)
  BY DEF TypeOK
<1>2. t = Append(s, x) /\ Waiting(c) = {i \in 1 .. Len(s) : Numbered(s[i])}
      /\ Waiting(c)' = {i \in 1 .. Len(t) : Numbered(t[i])}
  BY DEF Waiting, Numbered
<1> HIDE DEF s, t
<1>3. Len(t) = Len(s) + 1 /\ t[Len(s) + 1] = x /\ \A i \in 1 .. Len(s) : t[i] = s[i]
      /\ Len(s) \in Nat
  BY <1>1, <1>2
<1>4. ASSUME NEW i \in 1 .. Len(t), Numbered(t[i])
      PROVE  \/ i \in Waiting(c) /\ i \in 1 .. Len(s) /\ t[i] = s[i]
             \/ i = Len(s) + 1 /\ t[i] = x /\ Numbered(x)
  <2>1. CASE i \in 1 .. Len(s)
    BY <1>2, <1>3, <1>4, <2>1
  <2>2. CASE i \notin 1 .. Len(s)
    <3>1. i = Len(s) + 1
      BY <1>3, <2>2
    <3> QED BY <1>3, <1>4, <3>1
  <2> QED BY <2>1, <2>2
<1> QED BY <1>2, <1>4 DEF s, t

LEMMA MatchedOn ==
  ASSUME TypeOK, TraceTyped, OrderInv, NEW c \in CPU, NEW L, NEW M,
         Agree(L, M, given[c]), Matched(L, c), From(c) = 1, From(c)' = 1,
         \/ items'[c] = items[c] /\ truth'[c] = truth[c]
         \/ \E x \in Item :
              /\ items'[c] = Append(items[c], x)
              /\ truth'[c] = Append(truth[c], clock'[c])
              /\ Numbered(x) => M[x.seq] = EntryOf(x, clock'[c])
  PROVE  Matched(M, c)'
<1>1. \A i \in Waiting(c) : M[items[c][i].seq] = EntryOf(items[c][i], truth[c][i])
  <2> SUFFICES ASSUME NEW i \in Waiting(c)
               PROVE  M[items[c][i].seq] = EntryOf(items[c][i], truth[c][i])
    OBVIOUS
  <2>1. items[c][i].seq \in passed[c] + 1 .. given[c] /\ passed[c] \in Nat /\ given[c] \in Nat
    BY DEF OrderInv, TypeOK
  <2>2. items[c][i].seq \in 1 .. given[c]
    BY <2>1
  <2> QED BY <2>2 DEF Agree, Matched
<1>2. CASE items'[c] = items[c] /\ truth'[c] = truth[c]
  <2>1. Waiting(c)' = Waiting(c)
    BY <1>2 DEF Waiting
  <2> QED BY <1>1, <1>2, <2>1 DEF Matched
<1>3. ASSUME NEW x \in Item, items'[c] = Append(items[c], x),
             truth'[c] = Append(truth[c], clock'[c]),
             Numbered(x) => M[x.seq] = EntryOf(x, clock'[c])
      PROVE  Matched(M, c)'
  <2>1. \A i \in Waiting(c)' :
           \/ i \in Waiting(c) /\ i \in 1 .. Len(items[c]) /\ items'[c][i] = items[c][i]
           \/ i = Len(items[c]) + 1 /\ items'[c][i] = x /\ Numbered(x)
    BY <1>3, WaitingAppend
  <2>2. truth[c] \in Seq(Nat) /\ Len(truth[c]) = Len(items[c])
    BY DEF TraceTyped, TraceTypeOK
  <2>3. /\ \A i \in 1 .. Len(items[c]) : truth'[c][i] = truth[c][i]
        /\ truth'[c][Len(items[c]) + 1] = clock'[c]
    <3> DEFINE t == truth[c]
    <3>1. t \in Seq(Nat) /\ Len(t) = Len(items[c])
      BY <2>2
    <3> HIDE DEF t
    <3>2. /\ \A i \in 1 .. Len(t) : Append(t, clock'[c])[i] = t[i]
          /\ Append(t, clock'[c])[Len(t) + 1] = clock'[c]
      BY <3>1
    <3> QED BY <1>3, <3>1, <3>2 DEF t
  <2>4. \A i \in Waiting(c)' : M[items'[c][i].seq] = EntryOf(items'[c][i], truth'[c][i])
    BY <1>1, <1>3, <2>1, <2>3
  <2> QED BY <2>4 DEF Matched
<1> QED BY <1>2, <1>3

(* What is known when the client is sound.                                  *)
SwitchFacts ==
  /\ lastOut \in LastOuts /\ \A c \in CPU : Shaped(rest[c])
  /\ phase # "idle" => rest[cpu] = <<>>
  /\ NamesTrue
  /\ \A c \in CPU : Heard(c) /\ Parted(c) /\ Marked(c)

(* ... and of a visit.                                                      *)
VisitSwitching(item) ==
  Visiting(item) /\ Leaves(item) /\ Handler /\ SwitchFacts /\ overflows' \in Nat

LEMMA VisitSwitchingFacts ==
  ASSUME NEW item \in Sendable, VisitSwitching(item)
  PROVE  /\ OrderInv /\ Astray \subseteq Astray' /\ (overflows' = 0 => overflows = 0)
         /\ \A c \in CPU : /\ From(c) = 1 /\ passed[c] \in Nat /\ given[c] \in Nat
                           /\ passed[c] <= given[c]
                           /\ lastOut[c].seq \in Nat /\ lastOut[c].seq <= passed[c]
         /\ writer \in Writer
<1>1. TypeOK /\ TraceTyped /\ OrderInv /\ Sent(item) /\ phase = "idle"
  BY VisitingFacts DEF VisitSwitching, Visiting, TimeInv, PacketInv, IInv
<1>2. Astray \subseteq Astray' /\ (overflows' = 0 => overflows = 0)
  <2>1. overflows \in Nat /\ Astray \subseteq Astray'
    BY <1>1, VisitingFacts, TraceAssumption DEF TraceTyped, TraceTypeOK, VisitSwitching
  <2> QED BY <1>1, <2>1 DEF Sent, VisitSwitching
<1>3. ASSUME NEW c \in CPU
      PROVE  /\ From(c) = 1 /\ passed[c] \in Nat /\ given[c] \in Nat
             /\ passed[c] <= given[c]
             /\ lastOut[c].seq \in Nat /\ lastOut[c].seq <= passed[c]
  <2>1. From(c) = 1
    BY <1>1 DEF From
  <2>2. passed[c] \in Nat /\ given[c] \in Nat /\ passed[c] <= given[c]
    BY <1>1 DEF TypeOK, OrderInv
  <2>3. lastOut[c].seq \in 0 .. passed[c]
    BY DEF VisitSwitching, SwitchFacts, Heard, Remembered
  <2> QED BY <2>1, <2>2, <2>3
<1> QED BY <1>1, <1>2, <1>3 DEF TraceTyped

\* An item that is held back.
LEMMA KeptSwitches ==
  ASSUME NEW item \in Sendable, VisitSwitching(item), NEW p \in CPU, KeptBack(p, item)
  PROVE  Switching' /\ SwitchStep
<1> DEFINE x == Number(p, item)
<1>1. /\ TypeOK /\ TraceTyped /\ cpu \in CPU /\ item \in Item /\ phase = "idle"
      /\ \A c \in CPU : clock[c] \in Nat /\ clock'[c] \in Nat
      /\ Visiting(item) /\ Leaves(item) /\ Handler /\ SwitchFacts /\ overflows' \in Nat
      /\ Sent(item) /\ History
  BY VisitingFacts DEF VisitSwitching, Visiting
<1>2. /\ OrderInv /\ Astray \subseteq Astray' /\ (overflows' = 0 => overflows = 0)
      /\ \A c \in CPU : /\ From(c) = 1 /\ passed[c] \in Nat /\ given[c] \in Nat
                        /\ passed[c] <= given[c]
                        /\ lastOut[c].seq \in Nat /\ lastOut[c].seq <= passed[c]
      /\ writer \in Writer
  BY VisitSwitchingFacts
<1>3. /\ out' = <<>> /\ UNCHANGED <<phase, walk, passed>>
      /\ items' = [items EXCEPT ![p] = Append(@, x)]
      /\ Count(p, item)
      /\ item.event # "PROCESSOR" => p = cpu
  BY DEF KeptBack
<1>4. /\ x \in Item /\ x.event = item.event /\ (Numbered(x) <=> Numbered(item))
      /\ Numbered(item) => x.seq = given[p] + 1
  BY <1>1, NumberType, NumberSame DEF Number, Numbered, Item
<1>e. \A t : EntryOf(x, t) = EntryOf(item, t)
  BY <1>1, NumberSame DEF EntryOf
<1> HIDE DEF x
<1>5. writer'.cpus = writer.cpus /\ writer'.names = writer.names /\ writer'.written = <<>>
  <2>1. writer' = [writer EXCEPT !.written = <<>>]
    BY <1>1, <1>3 DEF Handler
  <2> QED BY <1>2, <2>1 DEF Writer
<1>6. \A c \in CPU : lastOut'[c] = lastOut[c]
  BY <1>1, <1>3, LastOutSilent
<1>7. \A c \in CPU : From(c)' = 1
  BY <1>1, <1>3 DEF From
<1>8. Numbered(item) => p = cpu
  BY <1>3 DEF Numbered, OutOfBand
<1>9. items \in [CPU -> Seq(Item)] /\ given \in [CPU -> Nat]
  BY <1>1 DEF TypeOK
<1>10. \A c \in CPU : given'[c] = IF Numbered(item) /\ c = p THEN given[c] + 1 ELSE given[c]
  BY <1>3, <1>9 DEF Count
<1>11. ASSUME NEW c \in CPU
       PROVE  \/ /\ c # p /\ items'[c] = items[c] /\ truth'[c] = truth[c]
                 /\ lost'[c] = lost[c] /\ Waiting(c)' = Waiting(c)
              \/ /\ c = p /\ items'[c] = Append(items[c], x)
                 /\ truth'[c] = Append(truth[c], clock'[c])
                 /\ lost'[c] = IF overflows' > overflows /\ c = cpu THEN Len(items[c])
                                                                    ELSE lost[c]
  <2>1. CASE c # p
    <3>1. items'[c] = items[c]
      BY <1>3, <1>9, <2>1
    <3>2. c # cpu \/ overflows' = overflows
      <4>1. CASE c = cpu
        <5>1. item.event = "PROCESSOR"
          BY <1>3, <2>1, <4>1
        <5> QED BY <1>1, <5>1 DEF Sent
      <4> QED BY <4>1
    <3>3. truth'[c] = truth[c] /\ lost'[c] = lost[c]
      BY <1>1, <3>1, <3>2, HistoryCases
    <3>4. Waiting(c)' = Waiting(c)
      BY <1>2, <1>7, <3>1 DEF Waiting
    <3> QED BY <2>1, <3>1, <3>3, <3>4
  <2>2. CASE c = p
    <3>1. items'[c] = Append(items[c], x)
      BY <1>3, <1>9, <2>2
    <3> QED BY <1>1, <1>4, <2>2, <3>1, HistoryCases
  <2> QED BY <2>1, <2>2
<1>12. ASSUME NEW c \in CPU PROVE Heard(c)'
  <2>1. PICK L \in Logs : Listed(L, c) /\ Matched(L, c) /\ Remembered(L, c) /\ Named(L, c)
    BY <1>1 DEF SwitchFacts, Heard
  <2>2. PICK M \in Logs :
          /\ Agree(L, M, given[c]) /\ Listed(M, c)'
          /\ (Numbered(item) /\ c = cpu) => M[given[c] + 1] = EntryOf(item, clock'[cpu])
    BY <1>1, <1>3, <1>8, <2>1, ListedOn DEF SwitchFacts
  <2>3. Remembered(M, c)' /\ Named(M, c)'
    <3>1. Remembered(M, c) /\ Named(M, c)
      BY <1>1, <1>2, <2>1, <2>2, AgreeSame
    <3> QED BY <1>2, <1>3, <1>5, <1>6, <3>1, QuietSame
  <2>4. Matched(M, c)'
    <3>1. (c = p /\ Numbered(x)) => M[x.seq] = EntryOf(x, clock'[c])
      BY <1>4, <1>8, <1>e, <2>2
    <3> QED BY <1>1, <1>2, <1>4, <1>7, <1>11, <2>1, <2>2, <3>1, MatchedOn
  <2> QED BY <2>2, <2>3, <2>4 DEF Heard
<1>13. ASSUME NEW c \in CPU PROVE Parted(c)' /\ Marked(c)'
  <2>1. Parted(c) /\ Marked(c)
    BY <1>1 DEF SwitchFacts
  <2>2. lost[c] \in Nat /\ Len(items[c]) \in Nat
    BY <1>1, <1>9 DEF TraceTyped
  <2>3. CASE c # p
    <3>1. items'[c] = items[c] /\ lost'[c] = lost[c] /\ Waiting(c)' = Waiting(c)
          /\ given'[c] = given[c] /\ lastOut'[c] = lastOut[c]
      BY <1>6, <1>10, <1>11, <2>3
    <3> QED BY <1>2, <2>1, <3>1 DEF Parted, Marked
  <2>4. CASE c = p
    <3> DEFINE s == items[c]
               t == items'[c]
    <3>1. /\ t = Append(s, x) /\ lastOut'[c] = lastOut[c]
          /\ lost'[c] = IF overflows' > overflows /\ c = cpu THEN Len(s) ELSE lost[c]
          /\ \A i \in Waiting(c)' : \/ i \in Waiting(c) /\ i \in 1 .. Len(s) /\ t[i] = s[i]
                                    \/ i = Len(s) + 1 /\ t[i] = x /\ Numbered(x)
      BY <1>1, <1>2, <1>4, <1>6, <1>7, <1>11, <2>4, WaitingAppend
    <3>2. s \in Seq(Item)
      BY <1>9
    <3> HIDE DEF s, t
    <3>3. Len(t) = Len(s) + 1 /\ t[Len(s) + 1] = x /\ \A i \in 1 .. Len(s) : t[i] = s[i]
          /\ Len(s) \in Nat
      BY <3>1, <3>2
    <3>4. CASE overflows' > overflows /\ c = cpu
      <4>1. item.event = "PER_CPU_OVERFLOW"
        <5>1. overflows \in Nat
          BY <1>1, TraceAssumption DEF TraceTyped, TraceTypeOK
        <5> QED BY <1>1, <3>4, <5>1 DEF Sent
      <4>2. Numbered(item) /\ x.event # "THREAD_SWITCH_IN" /\ lost'[c] = Len(s)
        BY <1>4, <3>1, <3>4, <4>1, NumberedEvents
      <4>3. given'[c] = given[c] + 1 /\ given'[c] > lastOut'[c].seq
        BY <1>2, <1>10, <2>4, <3>1, <4>2
      <4>4. \A i \in Waiting(c)' : i > lost'[c] => t[i].event # "THREAD_SWITCH_IN"
        BY <3>1, <3>3, <4>2
      <4>5. Parted(c)'
        BY <4>3, <4>4 DEF Parted, t
      <4>6. Marked(c)'
        BY <1>4, <3>3, <4>1, <4>2 DEF Marked, t
      <4> QED BY <4>5, <4>6
    <3>5. CASE ~(overflows' > overflows /\ c = cpu)
      <4>1. lost'[c] = lost[c]
        BY <3>1, <3>5
      <4>2. Marked(c)'
        <5>1. lost[c] > 0 => /\ lost[c] + 1 \in 1 .. Len(s)
                             /\ s[lost[c] + 1].event = "PER_CPU_OVERFLOW"
          BY <2>1, <2>2 DEF Marked, s
        <5> QED BY <2>2, <3>3, <4>1, <5>1 DEF Marked, t
      <4>3. Parted(c)'
        <5> SUFFICES ASSUME ~lastOut'[c].known, c \notin Astray'
                     PROVE  /\ given'[c] > lastOut'[c].seq
                            /\ \A i \in Waiting(c)' :
                                 (i > lost'[c] /\ t[i].event = "THREAD_SWITCH_IN") =>
                                   t[i].seq > lastOut'[c].seq + 1
          BY DEF Parted, t
        <5>1. /\ given[c] > lastOut[c].seq
              /\ \A i \in Waiting(c) :
                   (i > lost[c] /\ s[i].event = "THREAD_SWITCH_IN") =>
                     s[i].seq > lastOut[c].seq + 1
          BY <1>2, <2>1, <3>1 DEF Parted, s
        <5>2. given'[c] >= given[c]
          BY <1>2, <1>10
        <5>3. ASSUME NEW i \in Waiting(c)', i > lost'[c], t[i].event = "THREAD_SWITCH_IN"
              PROVE  t[i].seq > lastOut'[c].seq + 1
          <6>1. CASE i \in Waiting(c) /\ t[i] = s[i]
            BY <3>1, <4>1, <5>1, <5>3, <6>1
          <6>2. CASE t[i] = x /\ Numbered(x)
            <7>1. t[i].seq = given[c] + 1
              BY <1>4, <2>4, <6>2
            <7> QED BY <1>2, <3>1, <5>1, <7>1
          <6> QED BY <3>1, <6>1, <6>2
        <5> QED BY <1>2, <1>10, <3>1, <5>1, <5>2, <5>3
      <4> QED BY <4>2, <4>3
    <3> QED BY <3>4, <3>5
  <2> QED BY <2>3, <2>4
<1>14. NamesTrue'
  BY <1>1, <1>2, <1>5 DEF NamesTrue, SwitchFacts
<1>15. phase' = "idle"
  BY <1>1, <1>3
<1>16. SwitchStep
  BY <1>3 DEF SwitchStep
<1> QED BY <1>12, <1>13, <1>14, <1>15, <1>16 DEF Switching

\* An item that is handed over at once.
LEMMA HandedSwitches ==
  ASSUME NEW item \in Sendable, VisitSwitching(item), NEW p \in CPU, NEW u \in Uptime,
         HandedOver(p, u, item)
  PROVE  Switching' /\ SwitchStep
<1> DEFINE x == Number(p, item)
<1>1. /\ TypeOK /\ TraceTyped /\ cpu \in CPU /\ item \in Item /\ phase = "idle" /\ ~Draining
      /\ \A c \in CPU : clock[c] \in Nat /\ clock'[c] \in Nat
      /\ Visiting(item) /\ Leaves(item) /\ Handler /\ SwitchFacts /\ overflows' \in Nat
      /\ Sent(item) /\ History /\ TypeOK'
  BY VisitingFacts DEF VisitSwitching, Visiting
<1>2. /\ OrderInv /\ Astray \subseteq Astray' /\ (overflows' = 0 => overflows = 0)
      /\ \A c \in CPU : /\ From(c) = 1 /\ passed[c] \in Nat /\ given[c] \in Nat
                        /\ passed[c] <= given[c]
                        /\ lastOut[c].seq \in Nat /\ lastOut[c].seq <= passed[c]
      /\ writer \in Writer
  BY VisitSwitchingFacts
<1>3. /\ CallHandler(p, u, x) /\ Count(p, item)
      /\ UNCHANGED <<items, hold, phase, walk>> /\ item.event # "PER_CPU_OVERFLOW"
      /\ Numbered(item) => p = cpu /\ ~hold[cpu]
  BY DEF HandedOver, Numbered
<1>t. TrueTimesStep
  BY <1>1, HandedTimely
<1>4. /\ x \in Item /\ x.event = item.event /\ (Numbered(x) <=> Numbered(item))
      /\ Numbered(item) => x.seq = given[p] + 1
      /\ x.event # "TIME_ADJUSTMENT"
  <2>1. item.event \notin OwnEvents
    BY DEF Sendable
  <2> QED BY <1>1, <2>1, NumberType, NumberSame DEF Number, Numbered, Item, OwnEvents
<1>e. \A t : EntryOf(x, t) = EntryOf(item, t)
  BY <1>1, NumberSame DEF EntryOf
<1> HIDE DEF x
<1>5. overflows' = overflows /\ lastOut \in LastOuts
  BY <1>1, <1>3 DEF Sent, SwitchFacts
<1>6. PICK call \in Call : Calling(p, x, call)
  <2>1. scaler' \in Nat \ {0}
    BY <1>1 DEF TypeOK
  <2> QED BY <1>1, <1>3, <1>4, <2>1, HandsHeeds
<1>7. /\ \A d \in CPU \ {p} : lastOut'[d] = lastOut[d]
      /\ lastOut'[p] = IF x.event = "THREAD_SWITCH_OUT"
                         THEN [seq |-> x.seq, data |-> x.data, known |-> Reliable(call)]
                         ELSE lastOut[p]
  BY <1>1, <1>4, <1>6, LastOutCalls
<1>8. \A d \in CPU \ {p} : writer'.cpus[d] = writer.cpus[d]
  BY <1>6 DEF Calling, Heeds
<1>9. passed \in [CPU -> Nat] /\ given \in [CPU -> Nat] /\ items \in [CPU -> Seq(Item)]
  BY <1>1 DEF TypeOK
<1>10. passed' = IF Numbered(x) THEN [passed EXCEPT ![p] = x.seq] ELSE passed
  BY <1>3 DEF CallHandler
<1>11. \A c \in CPU : given'[c] = IF Numbered(item) /\ c = p THEN given[c] + 1 ELSE given[c]
  BY <1>3, <1>9 DEF Count
<1>12. \A c \in CPU : /\ From(c)' = 1 /\ items'[c] = items[c] /\ truth'[c] = truth[c]
                      /\ lost'[c] = lost[c] /\ Waiting(c)' = Waiting(c)
  <2> SUFFICES ASSUME NEW c \in CPU
               PROVE  /\ From(c)' = 1 /\ items'[c] = items[c] /\ truth'[c] = truth[c]
                      /\ lost'[c] = lost[c] /\ Waiting(c)' = Waiting(c)
    OBVIOUS
  <2>1. From(c)' = 1 /\ items'[c] = items[c]
    BY <1>1, <1>3 DEF From
  <2>2. truth'[c] = truth[c] /\ lost'[c] = lost[c]
    BY <1>1, <1>5, <2>1, HistoryCases
  <2>3. Waiting(c)' = Waiting(c)
    BY <1>2, <2>1 DEF Waiting
  <2> QED BY <2>1, <2>2, <2>3
<1>13. Numbered(x) => given[p] = passed[p]
  <2> SUFFICES ASSUME Numbered(x) PROVE given[p] = passed[p]
    OBVIOUS
  <2>1. Waiting(p) = {}
    BY <1>2, <1>3, <1>4 DEF OrderInv
  <2>2. \A n \in passed[p] + 1 .. given[p] : FALSE
    BY <1>2, <2>1 DEF OrderInv
  <2>3. ~(passed[p] < given[p])
    <3> SUFFICES ASSUME passed[p] < given[p] PROVE FALSE
      OBVIOUS
    <3>1. given[p] \in passed[p] + 1 .. given[p]
      BY <1>2
    <3> QED BY <2>2, <3>1
  <2> QED BY <1>2, <2>3
<1>14. /\ Reliable(call) <=> p \notin Astray'
       /\ Recorded(call) = clock'[p]
  <2>1. call.cpu = p
    BY <1>6 DEF Calling
  <2> QED BY <1>1, <2>1 DEF Reliable, Recorded, Astray
<1>15. ASSUME NEW c \in CPU PROVE Heard(c)' /\ (c = p => NamesTrue' /\ SwitchStep)
  <2>1. PICK L \in Logs : Listed(L, c) /\ Matched(L, c) /\ Remembered(L, c) /\ Named(L, c)
    BY <1>1 DEF SwitchFacts, Heard
  <2>2. PICK M \in Logs :
          /\ Agree(L, M, given[c]) /\ Listed(M, c)'
          /\ (Numbered(item) /\ c = cpu) => M[given[c] + 1] = EntryOf(item, clock'[cpu])
    BY <1>1, <1>3, <2>1, ListedOn DEF SwitchFacts
  <2>3. Remembered(M, c) /\ Named(M, c)
    BY <1>1, <1>2, <2>1, <2>2, AgreeSame
  <2>4. Matched(M, c)'
    BY <1>1, <1>2, <1>12, <2>1, <2>2, MatchedOn
  <2>5. CASE c # p
    <3>1. passed'[c] = passed[c] /\ lastOut'[c] = lastOut[c]
          /\ writer'.cpus[c] = writer.cpus[c]
      BY <1>7, <1>8, <1>9, <1>10, <2>5
    <3>2. Remembered(M, c)' /\ Named(M, c)'
      BY <1>2, <2>3, <3>1, QuietSame
    <3> QED BY <2>2, <2>4, <2>5, <3>2 DEF Heard
  <2>6. CASE c = p
    <3>1. ASSUME Numbered(x)
          PROVE  /\ x.seq = passed[p] + 1 /\ M[x.seq] = EntryOf(x, clock'[p])
                 /\ M[x.seq].time > 0 /\ May(M, x.seq, M[x.seq])
      <4>1. Numbered(item) /\ p = cpu /\ x.seq = given[p] + 1 /\ given'[p] = given[p] + 1
        BY <1>3, <1>4, <1>11, <3>1
      <4>2. M[x.seq] = EntryOf(x, clock'[p])
        BY <1>e, <2>2, <2>6, <4>1
      <4>3. PICK n \in Nat : n = x.seq
        BY <1>4 DEF Item
      <4>4. n \in 1 .. given'[p]
        BY <1>2, <4>1, <4>3
      <4>5. M[n].time \in 1 .. clock'[p] /\ May(M, n, M[n])'
        BY <2>2, <2>6, <4>4 DEF Listed
      <4>6. May(M, n, M[n])
        BY <1>5, <4>5 DEF May
      <4> QED BY <1>1, <1>13, <3>1, <4>1, <4>2, <4>3, <4>5, <4>6
    <3>2. Numbered(x) =>
            /\ x.seq = passed[p] + 1
            /\ M[x.seq].event = x.event /\ M[x.seq].data = x.data /\ M[x.seq].time > 0
            /\ May(M, x.seq, M[x.seq])
            /\ Reliable(call) => Recorded(call) = M[x.seq].time
      BY <1>14, <3>1 DEF EntryOf
    <3>3. Heeding(M, p, x, call)
      BY <1>1, <1>2, <1>t, <1>4, <1>5, <1>6, <1>7, <1>9, <1>10, <3>2 DEF Heeding
    <3>4. Remembered(M, p) /\ Named(M, p) /\ NamesTrue
      BY <1>1, <2>3, <2>6 DEF SwitchFacts
    <3>5. (x.event = "THREAD_SWITCH_IN" /\ Reliable(call) /\ ~lastOut[p].known) =>
            x.seq > lastOut[p].seq + 1
      <4> SUFFICES ASSUME x.event = "THREAD_SWITCH_IN", Reliable(call), ~lastOut[p].known
                   PROVE  x.seq > lastOut[p].seq + 1
        OBVIOUS
      <4>1. p \notin Astray /\ Numbered(x)
        BY <1>2, <1>14, NumberedEvents
      <4>2. given[p] > lastOut[p].seq
        BY <1>1, <4>1 DEF SwitchFacts, Parted
      <4> QED BY <1>2, <1>4, <4>1, <4>2
    <3>6. Remembered(M, p)' /\ Named(M, p)' /\ NamesTrue' /\ SwitchStep
      BY <3>3, <3>4, <3>5, SwitchedOn, NamedOn, SwitchOn
    <3> QED BY <2>2, <2>4, <2>6, <3>6 DEF Heard
  <2> QED BY <2>5, <2>6
<1>16. ASSUME NEW c \in CPU PROVE Parted(c)' /\ Marked(c)'
  <2>1. Parted(c) /\ Marked(c)
    BY <1>1 DEF SwitchFacts
  <2>2. Marked(c)'
    BY <1>12, <2>1 DEF Marked
  <2>3. given'[c] >= given[c]
    BY <1>2, <1>11
  <2>4. CASE c = p /\ x.event = "THREAD_SWITCH_OUT"
    <3>1. lastOut'[c].known <=> c \notin Astray'
      BY <1>7, <1>14, <2>4
    <3> QED BY <2>2, <3>1 DEF Parted
  <2>5. CASE ~(c = p /\ x.event = "THREAD_SWITCH_OUT")
    <3>1. lastOut'[c] = lastOut[c]
      BY <1>7, <2>5
    <3>2. Parted(c)'
      <4> SUFFICES ASSUME ~lastOut'[c].known, c \notin Astray'
                   PROVE  /\ given'[c] > lastOut'[c].seq
                          /\ \A i \in Waiting(c)' :
                               (i > lost'[c] /\ items'[c][i].event = "THREAD_SWITCH_IN") =>
                                 items'[c][i].seq > lastOut'[c].seq + 1
        BY DEF Parted
      <4>1. /\ given[c] > lastOut[c].seq
            /\ \A i \in Waiting(c) :
                 (i > lost[c] /\ items[c][i].event = "THREAD_SWITCH_IN") =>
                   items[c][i].seq > lastOut[c].seq + 1
        BY <1>2, <2>1, <3>1 DEF Parted
      <4>2. given'[c] > lastOut'[c].seq
        BY <1>2, <1>11, <3>1, <4>1
      <4> QED BY <1>12, <3>1, <4>1, <4>2
    <3> QED BY <2>2, <3>2
  <2> QED BY <2>4, <2>5
<1>17. NamesTrue' /\ SwitchStep
  BY <1>15
<1>18. phase' = "idle"
  BY <1>1, <1>3
<1> QED BY <1>15, <1>16, <1>17, <1>18 DEF Switching

\* What is left of a group keeps its shape; nothing follows an UPTIME_HIGH item.
LEMMA RestShaped ==
  ASSUME NEW item \in Sendable, Visiting(item), Leaves(item), \A c \in CPU : Shaped(rest[c])
  PROVE  /\ \A c \in CPU : Shaped(rest'[c])
         /\ \A c \in CPU \ {cpu} : rest'[c] = rest[c]
         /\ item.event = "UPTIME_HIGH" => rest'[cpu] = <<>>
<1>1. rest \in [CPU -> Seq(Sendable)] /\ cpu \in CPU
  BY VisitingFacts DEF TraceTyped
<1>2. CASE item.event = "PROCESSOR" /\ UNCHANGED <<rest, clock, overflows>>
  BY <1>1, <1>2
<1>3. CASE /\ item.event = "PER_CPU_OVERFLOW"
           /\ \E s \in Seq(Sendable) : rest' = [rest EXCEPT ![cpu] = s] /\ Shaped(s)
  <2>1. PICK s \in Seq(Sendable) : rest' = [rest EXCEPT ![cpu] = s] /\ Shaped(s)
    BY <1>3
  <2> QED BY <1>1, <1>3, <2>1
<1>4. CASE \E s \in Seq(Sendable) :
             /\ s # <<>> /\ item = s[1] /\ rest' = [rest EXCEPT ![cpu] = Tail(s)]
             /\ \/ s = rest[cpu] /\ clock' = clock
                \/ Shaped(s) /\ item.event \notin {"THREAD_SWITCH_IN", "THREAD_NAME"}
  <2>1. PICK s \in Seq(Sendable) :
          /\ s # <<>> /\ item = s[1] /\ rest' = [rest EXCEPT ![cpu] = Tail(s)]
          /\ s = rest[cpu] \/ Shaped(s)
    BY <1>4
  <2> DEFINE t == Tail(s)
  <2>2. Shaped(t) /\ (t # <<>> => s[1].event # "UPTIME_HIGH")
    BY <1>1, <2>1, TailShaped
  <2> HIDE DEF t
  <2>3. rest' = [rest EXCEPT ![cpu] = t]
    BY <2>1 DEF t
  <2> QED BY <1>1, <2>1, <2>2, <2>3
<1> QED BY <1>2, <1>3, <1>4 DEF Leaves

\* The held back items are about to get their times.
LEMMA BegunSwitches ==
  ASSUME NEW item \in Sendable, VisitSwitching(item), Begun(item)
  PROVE  Switching' /\ SwitchStep
<1>1. /\ TypeOK /\ TraceTyped /\ cpu \in CPU /\ phase = "idle"
      /\ Visiting(item) /\ Leaves(item) /\ Handler /\ SwitchFacts
      /\ Sent(item) /\ History /\ Switch(item)
  BY VisitingFacts DEF VisitSwitching, Visiting
<1>2. /\ Astray \subseteq Astray' /\ (overflows' = 0 => overflows = 0)
      /\ \A c \in CPU : From(c) = 1
      /\ writer \in Writer
  BY VisitSwitchingFacts
<1>3. /\ out' = <<>> /\ phase' = "scan" /\ item.event = "UPTIME_HIGH"
      /\ UNCHANGED <<items, given, passed>>
  BY DEF Begun
<1>4. /\ cpu' = cpu /\ overflows' = overflows /\ clock' = clock
  BY <1>1, <1>3 DEF Sent, Switch
<1>5. /\ rest'[cpu] = <<>> /\ \A c \in CPU \ {cpu} : rest'[c] = rest[c]
  BY <1>1, <1>3, RestShaped DEF SwitchFacts
<1>6. writer'.cpus = writer.cpus /\ writer'.names = writer.names
  <2>1. writer' = [writer EXCEPT !.written = <<>>]
    BY <1>1, <1>3 DEF Handler
  <2> QED BY <1>2, <2>1 DEF Writer
<1>7. ASSUME NEW c \in CPU PROVE Heard(c)' /\ Parted(c)' /\ Marked(c)'
  <2>1. items'[c] = items[c] /\ given'[c] = given[c] /\ passed'[c] = passed[c]
        /\ clock'[c] = clock[c] /\ From(c)' = From(c) /\ lastOut'[c] = lastOut[c]
    BY <1>1, <1>2, <1>3, <1>4, LastOutSilent DEF From
  <2>2. truth'[c] = truth[c] /\ lost'[c] = lost[c]
    BY <1>1, <1>4, <2>1, HistoryCases
  <2>3. Heard(c) /\ Parted(c) /\ Marked(c) /\ (rest'[c] = rest[c] \/ rest'[c] = <<>>)
    BY <1>1, <1>5 DEF SwitchFacts
  <2> QED BY <1>2, <1>6, <2>1, <2>2, <2>3, HeardSame
<1>8. NamesTrue'
  BY <1>1, <1>2, <1>6 DEF NamesTrue, SwitchFacts
<1>9. SwitchStep
  BY <1>3 DEF SwitchStep
<1> QED BY <1>4, <1>5, <1>7, <1>8, <1>9 DEF Switching

LEMMA VisitSwitches ==
  ASSUME NEW item \in Sendable, VisitSwitching(item)
  PROVE  Switching' /\ SwitchStep
<1>1. CASE NotTaken
  BY <1>1 DEF NotTaken, Switching, Sound, SwitchStep
<1>2. Effect(item)
  BY DEF VisitSwitching, Visiting
<1> QED BY <1>1, <1>2, KeptSwitches, HandedSwitches, BegunSwitches DEF Effect

-----------------------------------------------------------------------------
(* What is known at a step of the loops of resolve_hold_back().             *)
LoopSwitching == Looping /\ Handler /\ SwitchFacts /\ (Scan \/ Rewind \/ Replay \/ Resolved)

LEMMA LoopSwitchingFacts ==
  ASSUME LoopSwitching, UNCHANGED target
  PROVE  /\ TypeOK /\ TraceTyped /\ OrderInv /\ cpu \in CPU /\ cpu' = cpu /\ History
         /\ writer \in Writer /\ lastOut \in LastOuts /\ scaler' \in Nat \ {0}
         /\ UNCHANGED <<rest, clock, overflows>> /\ rest[cpu] = <<>>
         /\ Astray \subseteq Astray'
         /\ phase \in {"scan", "replay"} /\ ~Draining
         /\ \A c \in CPU : /\ Heard(c) /\ Parted(c) /\ Marked(c)
                           /\ passed[c] \in Nat /\ given[c] \in Nat /\ passed[c] <= given[c]
                           /\ lastOut[c].seq \in Nat
         /\ NamesTrue
<1>1. Looping /\ SwitchFacts
  BY DEF LoopSwitching
<1>2. TypeOK /\ TraceTyped /\ cpu \in CPU
  BY <1>1, LoopingFacts
<1>3. OrderInv /\ TypeOK'
  BY <1>1 DEF Looping, TimeInv, PacketInv, IInv
<1>4. scaler' \in Nat \ {0}
  BY <1>3 DEF TypeOK
<1>5. cpu' = cpu
  <2>1. walk.high # NoItem
    BY <1>1, LoopingFacts
  <2> QED BY <2>1 DEF LoopSwitching, Scan, Rewind, Replay, Resolved
<1>6. writer \in Writer
  BY <1>2 DEF TraceTyped
<1>7. \A c \in CPU : /\ passed[c] \in Nat /\ given[c] \in Nat /\ passed[c] <= given[c]
                     /\ lastOut[c].seq \in Nat
  BY <1>1, <1>2, <1>3 DEF TypeOK, OrderInv, SwitchFacts, LastOuts
<1>8. UNCHANGED <<rest, clock, overflows>>
  BY DEF target
<1>9. /\ phase \in {"scan", "replay"} /\ ~Draining /\ History
      /\ Astray \subseteq Astray'
  BY <1>1 DEF Looping
<1> QED BY <1>1, <1>2, <1>3, <1>4, <1>5, <1>6, <1>7, <1>8, <1>9 DEF SwitchFacts

\* The processors whose items are not walked hear nothing.
LEMMA OthersHeard ==
  ASSUME LoopSwitching, UNCHANGED target, NEW c \in CPU,
         items'[c] = items[c], given'[c] = given[c], passed'[c] = passed[c],
         From(c)' = From(c), lastOut'[c] = lastOut[c], writer'.cpus[c] = writer.cpus[c]
  PROVE  Heard(c)' /\ Parted(c)' /\ Marked(c)'
<1>1. /\ TypeOK /\ TraceTyped /\ History /\ Heard(c) /\ Parted(c) /\ Marked(c)
      /\ UNCHANGED <<rest, clock, overflows>> /\ Astray \subseteq Astray'
  BY LoopSwitchingFacts
<1>2. truth'[c] = truth[c] /\ lost'[c] = lost[c]
  BY <1>1, HistoryCases
<1> QED BY <1>1, <1>2, HeardSame

\* The first loop calls nobody.
LEMMA ScanSwitches ==
  ASSUME LoopSwitching, UNCHANGED target, Scan \/ Rewind
  PROVE  Switching' /\ SwitchStep
<1>1. /\ TypeOK /\ cpu \in CPU /\ cpu' = cpu /\ History /\ writer \in Writer /\ NamesTrue
      /\ UNCHANGED <<rest, overflows>> /\ rest[cpu] = <<>>
  BY LoopSwitchingFacts
<1>2. /\ out' = <<>> /\ UNCHANGED <<items, given, passed>>
  BY DEF Scan, Rewind, store
<1>3. walk \in Walk
  BY <1>1 DEF TypeOK
<1>4. \A c \in CPU : From(c) = 1 /\ From(c)' = 1
  <2>1. CASE Scan
    BY <2>1 DEF Scan, From
  <2>2. CASE Rewind
    <3>1. phase = "scan" /\ walk'.index = 1
      BY <1>3, <2>2 DEF Rewind, Walk
    <3> QED BY <3>1 DEF From
  <2> QED BY <2>1, <2>2
<1>5. writer'.cpus = writer.cpus /\ writer'.names = writer.names
  <2>1. writer' = [writer EXCEPT !.written = <<>>]
    BY <1>2 DEF LoopSwitching, Handler
  <2> QED BY <1>1, <2>1 DEF Writer
<1>6. \A c \in CPU : Heard(c)' /\ Parted(c)' /\ Marked(c)'
  BY <1>1, <1>2, <1>4, <1>5, LastOutSilent, OthersHeard
<1>7. NamesTrue' /\ SwitchStep
  BY <1>1, <1>2, <1>5 DEF NamesTrue, SwitchStep
<1> QED BY <1>1, <1>6, <1>7 DEF Switching

\* The second loop hands over an item that was held back.
LEMMA ReplaySwitches ==
  ASSUME LoopSwitching, UNCHANGED target, Replay, TrueTimesStep, InOrderStep, Opened
  PROVE  Switching' /\ SwitchStep
<1>1. /\ TypeOK /\ TraceTyped /\ OrderInv /\ cpu \in CPU /\ cpu' = cpu /\ History
      /\ writer \in Writer /\ lastOut \in LastOuts /\ scaler' \in Nat \ {0}
      /\ UNCHANGED <<rest, clock, overflows>> /\ rest[cpu] = <<>> /\ ~Draining
      /\ Astray \subseteq Astray'
      /\ \A c \in CPU : /\ Heard(c) /\ Parted(c) /\ Marked(c)
                        /\ passed[c] \in Nat /\ given[c] \in Nat /\ passed[c] <= given[c]
                        /\ lastOut[c].seq \in Nat
      /\ NamesTrue /\ Handler
  BY LoopSwitchingFacts DEF LoopSwitching
<1>2. /\ items \in [CPU -> Seq(Item)] /\ walk \in Walk /\ uptime \in [CPU -> Uptime]
      /\ passed \in [CPU -> Nat] /\ lost[cpu] \in Nat
      /\ phase = "replay" => walk.index \in 1 .. Len(items[cpu]) + 1
  BY LoopingFacts DEF LoopSwitching, Looping, TimeInv, PacketInv, IInv, TypeOK
<1>3. PICK k \in 1 .. Len(items[cpu]) : k = walk.index
  BY <1>2 DEF Replay
<1>4. PICK x \in Item : x = items[cpu][k]
  BY <1>1, <1>2, ElementOfSeq
<1>5. /\ phase = "replay" /\ phase' = "replay" /\ walk' = [walk EXCEPT !.index = @ + 1]
      /\ UNCHANGED <<items, given>> /\ CallHandler(cpu, uptime[cpu], x)
  BY <1>3, <1>4 DEF Replay, store
<1>6. x.event # "TIME_ADJUSTMENT"
  BY <1>1, <1>4, <1>3 DEF Opened
<1>7. PICK call \in Call : Calling(cpu, x, call)
  BY <1>1, <1>2, <1>4, <1>5, HandsHeeds
<1>8. /\ \A d \in CPU \ {cpu} : lastOut'[d] = lastOut[d]
      /\ lastOut'[cpu] = IF x.event = "THREAD_SWITCH_OUT"
                           THEN [seq |-> x.seq, data |-> x.data, known |-> Reliable(call)]
                           ELSE lastOut[cpu]
  BY <1>1, <1>4, <1>6, <1>7, LastOutCalls
<1>9. \A d \in CPU \ {cpu} : writer'.cpus[d] = writer.cpus[d]
  BY <1>7 DEF Calling, Heeds
<1>10. passed' = IF Numbered(x) THEN [passed EXCEPT ![cpu] = x.seq] ELSE passed
  BY <1>5 DEF CallHandler
<1>11. From(cpu) = k /\ From(cpu)' = k + 1
  BY <1>1, <1>2, <1>3, <1>5 DEF From, Walk
<1>12. ASSUME NEW c \in CPU, c # cpu PROVE Heard(c)' /\ Parted(c)' /\ Marked(c)'
  <2>1. From(c)' = From(c)
    BY <1>1, <1>12 DEF From
  <2> QED BY <1>2, <1>5, <1>8, <1>9, <1>10, <1>12, <2>1, OthersHeard
<1> DEFINE s == items[cpu]
           W == Waiting(cpu)
<1>13. /\ Len(s) \in Nat /\ items'[cpu] = s /\ lost'[cpu] = lost[cpu]
       /\ truth'[cpu] = truth[cpu]
  BY <1>1, <1>2, <1>5, HistoryCases
<1>14. /\ W = {i \in k .. Len(s) : Numbered(s[i])}
       /\ Waiting(cpu)' = {i \in k + 1 .. Len(s) : Numbered(s[i])}
  BY <1>1, <1>11, <1>13 DEF Waiting
<1>15. Waiting(cpu)' \subseteq W \ {k} /\ (Numbered(x) => k \in W)
  BY <1>3, <1>4, <1>13, <1>14
<1>16. \A i \in W : s[i].seq \in passed[cpu] + 1 .. given[cpu]
       /\ \A j \in W : i < j => s[i].seq < s[j].seq
  BY <1>1 DEF OrderInv
<1>17. Numbered(x) => x.seq = passed[cpu] + 1 /\ x.seq \in 1 .. given[cpu]
  <2>1. \E i \in 1 .. Len(out') : out'[i] = call
    <3>1. CASE out' = <<call>>
      <4>1. Len(out') = 1 /\ out'[1] = call
        BY <3>1
      <4> QED BY <4>1
    <3>2. CASE out' # <<call>>
      <4>1. PICK first \in Call : out' = <<first, call>>
        BY <1>7, <3>2 DEF Calling
      <4>2. Len(out') = 2 /\ out'[2] = call
        BY <4>1
      <4> QED BY <4>2
    <3> QED BY <3>1, <3>2
  <2>2. Numbered(x) => x.seq = passed[cpu] + 1
    BY <1>7, <2>1 DEF InOrderStep, Calling
  <2>3. Numbered(x) => x.seq \in passed[cpu] + 1 .. given[cpu]
    BY <1>4, <1>15, <1>16
  <2> QED BY <1>1, <2>2, <2>3
<1>18. /\ Reliable(call) <=> cpu \notin Astray' /\ k > lost[cpu]
       /\ Recorded(call) = truth[cpu][k]
  <2>1. call.cpu = cpu /\ walk.index <= Len(items[cpu])
    BY <1>2, <1>3, <1>7 DEF Calling
  <2> QED BY <1>1, <1>3, <1>5, <2>1 DEF Reliable, Recorded, Astray
<1>19. Heard(cpu)' /\ NamesTrue' /\ SwitchStep
  <2>1. PICK L \in Logs : /\ Listed(L, cpu) /\ Matched(L, cpu)
                          /\ Remembered(L, cpu) /\ Named(L, cpu)
    BY <1>1 DEF Heard
  <2>2. ASSUME Numbered(x)
        PROVE  /\ x.seq = passed[cpu] + 1 /\ L[x.seq] = EntryOf(x, truth[cpu][k])
               /\ L[x.seq].time > 0 /\ May(L, x.seq, L[x.seq])
    <3>1. L[x.seq] = EntryOf(x, truth[cpu][k])
      BY <1>4, <1>15, <2>1, <2>2 DEF Matched
    <3>2. L[x.seq].time \in 1 .. clock[cpu] /\ May(L, x.seq, L[x.seq])
      BY <1>17, <2>1, <2>2 DEF Listed
    <3>3. L[x.seq].time > 0
      <4>1. clock[cpu] \in Nat
        BY LoopingFacts DEF LoopSwitching
      <4> QED BY <3>2, <4>1
    <3> QED BY <1>17, <2>2, <3>1, <3>2, <3>3
  <2>3. Numbered(x) =>
          /\ x.seq = passed[cpu] + 1
          /\ L[x.seq].event = x.event /\ L[x.seq].data = x.data /\ L[x.seq].time > 0
          /\ May(L, x.seq, L[x.seq])
          /\ Reliable(call) => Recorded(call) = L[x.seq].time
    BY <1>18, <2>2 DEF EntryOf
  <2>4. Heeding(L, cpu, x, call)
    BY <1>1, <1>2, <1>4, <1>7, <1>8, <1>10, <2>1, <2>3 DEF Heeding
  <2>5. (x.event = "THREAD_SWITCH_IN" /\ Reliable(call) /\ ~lastOut[cpu].known) =>
          x.seq > lastOut[cpu].seq + 1
    <3> SUFFICES ASSUME x.event = "THREAD_SWITCH_IN", Reliable(call), ~lastOut[cpu].known
                 PROVE  x.seq > lastOut[cpu].seq + 1
      OBVIOUS
    <3>1. cpu \notin Astray /\ k > lost[cpu] /\ k \in W
      BY <1>1, <1>15, <1>18, NumberedEvents
    <3> QED BY <1>1, <1>4, <3>1 DEF Parted
  <2>6. Remembered(L, cpu)' /\ Named(L, cpu)' /\ NamesTrue' /\ SwitchStep
    BY <1>1, <2>1, <2>4, <2>5, SwitchedOn, NamedOn, SwitchOn
  <2>7. Listed(L, cpu)'
    <3>1. ASSUME NEW n, NEW e, May(L, n, e) PROVE May(L, n, e)'
      BY <1>1, <3>1 DEF May
    <3> QED BY <1>1, <1>5, <2>1, <3>1 DEF Listed
  <2>8. Matched(L, cpu)'
    BY <1>1, <1>13, <1>15, <2>1 DEF Matched
  <2> QED BY <1>1, <2>6, <2>7, <2>8 DEF Heard
<1>20. Marked(cpu)'
  BY <1>1, <1>13 DEF Marked
<1>21. Parted(cpu)'
  <2>1. CASE x.event # "THREAD_SWITCH_OUT"
    BY <1>1, <1>5, <1>8, <1>13, <1>15, <2>1 DEF Parted
  <2>2. CASE x.event = "THREAD_SWITCH_OUT"
    <3> SUFFICES ASSUME ~lastOut'[cpu].known, cpu \notin Astray'
                 PROVE  /\ given'[cpu] > lastOut'[cpu].seq
                        /\ \A i \in Waiting(cpu)' :
                             (i > lost[cpu] /\ s[i].event = "THREAD_SWITCH_IN") =>
                               s[i].seq > lastOut'[cpu].seq + 1
      BY <1>1, <1>13 DEF Parted
    <3>1. lastOut'[cpu].seq = x.seq /\ k <= lost[cpu] /\ k \in W /\ k \in Nat
      BY <1>2, <1>8, <1>13, <1>15, <1>18, <2>2, NumberedEvents
    <3> DEFINE o == lost[cpu] + 1
    <3>2. o \in 1 .. Len(s) /\ s[o].event = "PER_CPU_OVERFLOW" /\ k < o
      BY <1>1, <1>2, <1>13, <3>1 DEF Marked
    <3>3. o \in W
      BY <1>13, <1>14, <3>1, <3>2, NumberedEvents
    <3>4. o \in Nat /\ \A i : i > lost[cpu] /\ i \in Nat => i >= o
      BY <1>2
    <3> HIDE DEF o
    <3>5. x.seq < s[o].seq /\ s[o].seq \in passed[cpu] + 1 .. given[cpu] /\ x.seq \in Nat
      BY <1>4, <1>16, <3>1, <3>2, <3>3 DEF Item
    <3>6. ASSUME NEW i \in Waiting(cpu)', i > lost[cpu], s[i].event = "THREAD_SWITCH_IN"
          PROVE  s[i].seq > x.seq + 1
      <4>1. i \in W /\ i \in Nat /\ i # o
        BY <1>13, <1>14, <1>15, <3>1, <3>2, <3>6
      <4>2. o < i
        BY <3>4, <3>6, <4>1
      <4>3. s[o].seq < s[i].seq /\ s[i].seq \in passed[cpu] + 1 .. given[cpu]
        BY <1>16, <3>3, <4>1, <4>2
      <4> QED BY <1>1, <3>5, <4>3
    <3>7. given'[cpu] > x.seq
      BY <1>1, <1>5, <3>5
    <3> QED BY <3>1, <3>6, <3>7
  <2> QED BY <2>1, <2>2
<1>22. \A c \in CPU : Heard(c)' /\ Parted(c)' /\ Marked(c)'
  <2> SUFFICES ASSUME NEW c \in CPU PROVE Heard(c)' /\ Parted(c)' /\ Marked(c)'
    OBVIOUS
  <2>1. CASE c = cpu
    BY <1>1, <1>19, <1>20, <1>21, <2>1
  <2> QED BY <1>12, <2>1
<1> QED BY <1>1, <1>19, <1>22 DEF Switching

\* The end of resolve_hold_back(): the UPTIME_HIGH item follows.
LEMMA ResolvedSwitches ==
  ASSUME LoopSwitching, UNCHANGED target, Resolved, TrueTimesStep
  PROVE  Switching' /\ SwitchStep
<1> DEFINE x == Number(cpu, walk.high)
<1>1. /\ TypeOK /\ TraceTyped /\ OrderInv /\ cpu \in CPU /\ cpu' = cpu /\ History
      /\ writer \in Writer /\ lastOut \in LastOuts /\ scaler' \in Nat \ {0}
      /\ UNCHANGED <<rest, clock, overflows>> /\ rest[cpu] = <<>> /\ ~Draining
      /\ Astray \subseteq Astray'
      /\ \A c \in CPU : /\ Heard(c) /\ Parted(c) /\ Marked(c)
                        /\ passed[c] \in Nat /\ given[c] \in Nat /\ passed[c] <= given[c]
                        /\ lastOut[c].seq \in Nat
      /\ NamesTrue /\ Handler
  BY LoopSwitchingFacts DEF LoopSwitching
<1>2. /\ items \in [CPU -> Seq(Item)] /\ walk \in Walk /\ walk.high # NoItem
      /\ passed \in [CPU -> Nat] /\ given \in [CPU -> Nat]
      /\ walk.high.event = "UPTIME_HIGH" /\ clock[cpu] \in 1 .. MaxClock
  <2>1. items \in [CPU -> Seq(Item)] /\ walk \in Walk /\ walk.high # NoItem
        /\ walk.high.event = "UPTIME_HIGH"
    BY LoopingFacts DEF LoopSwitching
  <2> QED BY <1>1, <2>1 DEF TypeOK, TraceTyped, TraceTypeOK
<1>3. /\ phase = "replay" /\ phase' = "idle" /\ walk.index > Len(items[cpu])
      /\ items' = [items EXCEPT ![cpu] = <<>>]
      /\ CallHandler(cpu, walk.saved, x) /\ Count(cpu, walk.high)
  BY <1>2 DEF Resolved, ResetHoldBack
<1>4. /\ x \in Item /\ x.event = "UPTIME_HIGH" /\ x.data = walk.high.data
      /\ Numbered(x) /\ Numbered(walk.high) /\ x.seq = given[cpu] + 1
      /\ walk.saved \in Uptime
  <2>1. walk.high \in Item /\ walk.saved \in Uptime
    BY <1>2 DEF Walk
  <2>2. Numbered(walk.high)
    BY <1>2, NumberedEvents
  <2>3. x.event = "UPTIME_HIGH" /\ x.data = walk.high.data /\ x \in Item
    BY <1>1, <1>2, <2>1, NumberSame, NumberType
  <2>4. Numbered(x)
    BY <2>3, NumberedEvents
  <2>5. x.seq = given[cpu] + 1
    BY <2>1, <2>2 DEF Number, Item
  <2> QED BY <2>1, <2>2, <2>3, <2>4, <2>5
<1>5. PICK y \in Item : y = x
  BY <1>4
<1> HIDE DEF x
<1>6. PICK call \in Call : Calling(cpu, y, call)
  BY <1>1, <1>3, <1>4, <1>5, HandsHeeds
<1>7. \A d \in CPU : lastOut'[d] = lastOut[d]
  BY <1>1, <1>4, <1>5, <1>6, LastOutCalls
<1>8. \A d \in CPU \ {cpu} : writer'.cpus[d] = writer.cpus[d]
  BY <1>6 DEF Calling, Heeds
<1>9. passed' = [passed EXCEPT ![cpu] = y.seq] /\ given' = [given EXCEPT ![cpu] = @ + 1]
  BY <1>3, <1>4, <1>5 DEF CallHandler, Count
<1>10. ASSUME NEW c \in CPU, c # cpu PROVE Heard(c)' /\ Parted(c)' /\ Marked(c)'
  <2>1. From(c)' = From(c)
    BY <1>1, <1>10 DEF From
  <2> QED BY <1>2, <1>3, <1>7, <1>8, <1>9, <1>10, <2>1, OthersHeard
<1>11. given[cpu] = passed[cpu]
  <2>1. Waiting(cpu) = {}
    <3>1. From(cpu) = walk.index /\ walk.index \in Nat /\ Len(items[cpu]) \in Nat
      BY <1>1, <1>2, <1>3 DEF From, Walk
    <3>2. \A i \in walk.index .. Len(items[cpu]) : FALSE
      BY <1>3, <3>1
    <3> QED BY <3>1, <3>2 DEF Waiting
  <2>2. \A n \in passed[cpu] + 1 .. given[cpu] : FALSE
    BY <1>1, <2>1 DEF OrderInv
  <2>3. ~(passed[cpu] < given[cpu])
    <3> SUFFICES ASSUME passed[cpu] < given[cpu] PROVE FALSE
      OBVIOUS
    <3>1. given[cpu] \in passed[cpu] + 1 .. given[cpu]
      BY <1>1
    <3> QED BY <2>2, <3>1
  <2> QED BY <1>1, <2>3
<1>12. /\ items'[cpu] = <<>> /\ truth'[cpu] = <<>> /\ lost'[cpu] = 0
       /\ Waiting(cpu)' = {}
  <2>1. items'[cpu] = <<>>
    BY <1>1, <1>2, <1>3
  <2>2. truth'[cpu] = <<>> /\ lost'[cpu] = 0
    BY <1>1, <2>1, HistoryCases
  <2>3. From(cpu)' = 1 /\ Len(items'[cpu]) = 0
    BY <1>3, <2>1 DEF From
  <2>4. Waiting(cpu)' = {}
    BY <1>1, <2>3 DEF Waiting
  <2> QED BY <2>1, <2>2, <2>4
<1>13. PICK n \in Nat : n = given[cpu]
  BY <1>1
<1>14. given'[cpu] = n + 1 /\ passed[cpu] = n /\ y.seq = n + 1
  BY <1>1, <1>2, <1>4, <1>5, <1>9, <1>11, <1>13
<1>15. Heard(cpu)' /\ NamesTrue' /\ SwitchStep
  <2>1. PICK L \in Logs : /\ Listed(L, cpu) /\ Matched(L, cpu)
                          /\ Remembered(L, cpu) /\ Named(L, cpu)
    BY <1>1 DEF Heard
  <2>2. PICK now \in Nat : now = clock[cpu] /\ now > 0
    BY <1>2, TraceAssumption
  <2> DEFINE entry == EntryOf(y, now)
             M == [L EXCEPT ![n + 1] = entry]
  <2>3. entry \in Entry /\ entry.event = y.event /\ entry.data = y.data /\ entry.time = now
    BY DEF EntryOf, Entry, Item
  <2> HIDE DEF entry
  <2>4. M \in Logs /\ M[n + 1] = entry /\ Agree(L, M, n)
    BY <2>3 DEF Logs, Agree
  <2> HIDE DEF M
  <2>5. Remembered(M, cpu) /\ Named(M, cpu)
    BY <1>1, <1>13, <2>1, <2>4, AgreeSame
  <2>6. May(M, n + 1, M[n + 1])
    BY <1>4, <1>5, <2>3, <2>4 DEF May, Pairs, Spells
  <2>7. ASSUME NEW k \in 1 .. n + 1 PROVE M[k].time \in 1 .. now /\ May(M, k, M[k])
    <3>1. CASE k \in 1 .. n
      <4>1. M[k] = L[k] /\ L[k].time \in 1 .. now /\ May(L, k, L[k])
        BY <1>13, <2>1, <2>2, <2>4, <3>1 DEF Agree, Listed
      <4>2. Agree(L, M, k - 1) /\ k - 1 \in Nat /\ (k - 1) + 1 = k
        BY <2>4, <3>1 DEF Agree
      <4>3. May(M, k, M[k])
        BY <4>1, <4>2, MaySame DEF May
      <4> QED BY <4>1, <4>3
    <3>2. CASE k = n + 1
      BY <2>2, <2>3, <2>4, <2>6, <3>2
    <3> QED BY <3>1, <3>2
  <2>8. Recorded(call) = now
    <3>1. ~(walk.index <= Len(items[cpu])) /\ call.cpu = cpu
      <4>1. Len(items[cpu]) \in Nat /\ walk.index \in Nat
        BY <1>1, <1>2 DEF Walk
      <4> QED BY <1>3, <1>6, <4>1 DEF Calling
    <3> QED BY <1>1, <2>2, <3>1 DEF Recorded
  <2>9. Heeding(M, cpu, y, call)
    <3>1. n + 1 \in 1 .. n + 1
      OBVIOUS
    <3>2. /\ y.seq = passed[cpu] + 1 /\ M[y.seq].event = y.event /\ M[y.seq].data = y.data
          /\ M[y.seq].time > 0 /\ May(M, y.seq, M[y.seq])
          /\ Reliable(call) => Recorded(call) = M[y.seq].time
      BY <1>14, <2>2, <2>3, <2>4, <2>6, <2>8
    <3>3. y.event # "THREAD_SWITCH_OUT" /\ Numbered(y)
      BY <1>4, <1>5
    <3> QED BY <1>1, <1>2, <1>6, <1>7, <1>9, <2>4, <3>2, <3>3 DEF Heeding
  <2>10. Remembered(M, cpu)' /\ Named(M, cpu)' /\ NamesTrue' /\ SwitchStep
    BY <1>1, <1>4, <1>5, <2>5, <2>9, SwitchedOn, NamedOn, SwitchOn
  <2>11. Listed(M, cpu)'
    <3>1. ASSUME NEW k, NEW e, May(M, k, e) PROVE May(M, k, e)'
      BY <1>1, <3>1 DEF May
    <3>2. clock'[cpu] = now /\ rest'[cpu] = <<>>
      BY <1>1, <2>2
    <3> QED BY <1>1, <1>14, <2>7, <3>1, <3>2 DEF Listed
  <2>12. Matched(M, cpu)'
    BY <1>1, <1>12 DEF Matched
  <2> QED BY <1>1, <2>4, <2>10, <2>11, <2>12 DEF Heard
<1>16. Parted(cpu)'
  <2>1. ~lastOut[cpu].known /\ cpu \notin Astray => given[cpu] > lastOut[cpu].seq
    BY <1>1 DEF Parted
  <2>2. given'[cpu] > given[cpu]
    BY <1>13, <1>14
  <2>3. (~lastOut'[cpu].known /\ cpu \notin Astray') => given'[cpu] > lastOut'[cpu].seq
    BY <1>1, <1>7, <1>13, <1>14, <2>1, <2>2
  <2> QED BY <1>1, <1>12, <2>3 DEF Parted
<1>17. Marked(cpu)'
  BY <1>1, <1>12 DEF Marked
<1>18. \A c \in CPU : Heard(c)' /\ Parted(c)' /\ Marked(c)'
  <2> SUFFICES ASSUME NEW c \in CPU PROVE Heard(c)' /\ Parted(c)' /\ Marked(c)'
    OBVIOUS
  <2>1. CASE c = cpu
    BY <1>1, <1>15, <1>16, <1>17, <2>1
  <2> QED BY <1>10, <2>1
<1> QED BY <1>3, <1>15, <1>18 DEF Switching

-----------------------------------------------------------------------------
LEMMA SwitchInit == TraceInit => SwitchInv
<1> SUFFICES ASSUME TraceInit PROVE SwitchInv
  OBVIOUS
<1>1. TimeInv
  BY TimeInit
<1>2. /\ phase = "idle" /\ overflows = 0
      /\ \A c \in CPU : /\ given[c] = 0 /\ passed[c] = 0 /\ items[c] = <<>>
                        /\ truth[c] = <<>> /\ lost[c] = 0 /\ clock[c] = 1
                        /\ lastOut[c] = [seq |-> 0, data |-> 0, known |-> TRUE]
                        /\ rest[c] = IF c = 0 THEN HeaderItems ELSE <<>>
                        /\ writer.cpus[c] = NewCpu
      /\ \A t \in NamedThreads : writer.names[t] = NoName
  BY DEF TraceInit, Init, NewWriter
<1>3. lastOut \in LastOuts
  BY DEF TraceInit, LastOuts
<1>4. \A c \in CPU : Shaped(rest[c])
  <2>1. Shaped(<<>>)
    BY DEF Shaped
  <2> QED BY <1>2, <2>1, HeaderShaped
<1>5. NamesTrue
  <2>1. \A i \in 1 .. NameChunks : NoName[i] = 0
    BY DEF NoName
  <2>2. ASSUME NEW t \in NamedThreads, NEW i \in 1 .. NameChunks PROVE writer.names[t][i] = 0
    BY <1>2, <2>1
  <2> QED BY <2>2 DEF NamesTrue
<1>6. ASSUME NEW c \in CPU PROVE Heard(c) /\ Parted(c) /\ Marked(c)
  <2> DEFINE entry == [event |-> "VERSION", time |-> 0, data |-> 0]
             L == [n \in Nat |-> entry]
  <2>1. entry \in Entry
    BY DEF Entry, Events, NoTimeEvents, ClientEvents
  <2> HIDE DEF entry
  <2>2. L \in Logs
    BY <2>1 DEF Logs
  <2> HIDE DEF L
  <2>3. Waiting(c) = {} /\ From(c) = 1
    BY <1>2 DEF Waiting, From
  <2>4. Listed(L, c)
    <3>1. \A n \in 1 .. given[c] : FALSE
      BY <1>2
    <3>2. ASSUME rest[c] # <<>>
          PROVE  May(L, given[c] + 1, EntryOf(rest[c][1], clock[c]))
      <4>1. rest[c] = HeaderItems
        BY <1>2, <3>2
      <4>2. HeaderItems[1].event \in HeaderEvents
        <5>1. Len(HeaderItems) = 4 /\ 1 \in 1 .. 4
          BY HeaderShape
        <5> QED BY <5>1, HeaderShape
      <4> QED BY <4>1, <4>2 DEF May, Pairs, Spells, EntryOf, HeaderEvents
    <3> QED BY <3>1, <3>2 DEF Listed
  <2>5. Matched(L, c)
    BY <2>3 DEF Matched
  <2>6. Remembered(L, c)
    BY <1>2 DEF Remembered, NewCpu, NoSwitch
  <2>7. Named(L, c)
    BY <1>2 DEF Named
  <2>8. Parted(c) /\ Marked(c)
    BY <1>2 DEF Parted, Marked
  <2> QED BY <2>2, <2>4, <2>5, <2>6, <2>7, <2>8 DEF Heard
<1> QED BY <1>1, <1>2, <1>3, <1>4, <1>5, <1>6 DEF SwitchInv, Switching

LEMMA SwitchStutter == ASSUME SwitchInv, UNCHANGED traceVars PROVE SwitchInv'
<1>1. TimeInv'
  BY TimeStutter DEF SwitchInv
<1>2. UNCHANGED <<status, cpu, items, phase, walk, given, passed>>
      /\ UNCHANGED <<clock, rest, overflows, torn, wrapped, truth, lost, lastOut, writer>>
  BY DEF traceVars, vars, target, header, store
<1>3. lastOut' \in LastOuts /\ \A c \in CPU : Shaped(rest'[c])
  BY <1>2 DEF SwitchInv
<1>4. Switching'
  <2> SUFFICES ASSUME Sound'
               PROVE  /\ phase' # "idle" => rest'[cpu'] = <<>>
                      /\ NamesTrue'
                      /\ \A c \in CPU : Heard(c)' /\ Parted(c)' /\ Marked(c)'
    BY DEF Switching
  <2>1. Sound
    BY <1>2 DEF Sound, Draining
  <2>2. /\ phase # "idle" => rest[cpu] = <<>>
        /\ NamesTrue /\ \A c \in CPU : Heard(c) /\ Parted(c) /\ Marked(c)
    BY <2>1 DEF SwitchInv, Switching
  <2>3. NamesTrue'
    BY <1>2, <2>2 DEF NamesTrue
  <2>4. \A c \in CPU : From(c)' = From(c)
    BY <1>2 DEF From
  <2>5. Astray' = Astray
    BY <1>2 DEF Astray
  <2> QED BY <1>2, <2>2, <2>3, <2>4, <2>5, HeardSame
<1> QED BY <1>1, <1>3, <1>4 DEF SwitchInv

\* Of what destroy() hands over nothing is claimed.
LEMMA DrainingSwitches ==
  ASSUME TypeOK, Loop \/ Destroy, Draining \/ Destroy
  PROVE  Switching' /\ SwitchStep
<1>1. Draining'
  BY DrainingStays
<1>2. Switching'
  BY <1>1 DEF Switching, Sound
<1>3. CASE Draining
  BY <1>2, <1>3 DEF SwitchStep, Reliable
<1>4. CASE Destroy
  <2>1. out' = <<>>
    BY <1>4 DEF Destroy
  <2> QED BY <1>2, <2>1 DEF SwitchStep
<1> QED BY <1>3, <1>4

LEMMA SwitchNext ==
  ASSUME SwitchInv, TraceNext PROVE SwitchInv' /\ SwitchStep
<1>1. /\ PacketInv /\ IInv /\ Beginning /\ Sending /\ TypeOK /\ History /\ Handler /\ TimeInv
      /\ Opened
  BY DEF SwitchInv, TimeInv, PacketInv, IInv, TraceNext
<1>2. TimeInv' /\ TrueTimesStep
  BY <1>1, TimeNext
<1>3. TypeOK' /\ TraceTyped'
  BY <1>2 DEF TimeInv, PacketInv, IInv
<1>4. lastOut' \in LastOuts
  BY <1>1, <1>3, LastOutType DEF SwitchInv
<1>5. CASE Target
  <2>1. PICK item \in Sendable : Visit(item) /\ Sent(item) /\ Leaves(item)
    BY <1>1, <1>3, <1>5, TargetSends
  <2>2. Effect(item) /\ Switch(item)
    BY <1>1, <2>1, VisitEffect
  <2>3. clock' \in [CPU -> 1 .. MaxClock] /\ overflows' \in Nat
    BY <1>3, TraceAssumption DEF TraceTyped, TraceTypeOK
  <2>4. Visiting(item)
    BY <1>1, <1>3, <2>1, <2>2, <2>3 DEF Visiting
  <2>5. Sound
    BY <2>4, VisitingFacts DEF Sound
  <2>6. SwitchFacts
    BY <2>5 DEF SwitchInv, Switching, SwitchFacts
  <2>7. Switching' /\ SwitchStep
    BY <1>1, <2>1, <2>3, <2>4, <2>6, VisitSwitches DEF VisitSwitching
  <2>8. \A c \in CPU : Shaped(rest'[c])
    BY <2>1, <2>4, <2>6, RestShaped DEF SwitchFacts
  <2> QED BY <1>2, <1>4, <2>7, <2>8 DEF SwitchInv
<1>6. CASE (Loop \/ Destroy) /\ UNCHANGED target
  <2>1. \A c \in CPU : Shaped(rest'[c])
    <3>1. rest' = rest
      BY <1>6 DEF target
    <3> QED BY <3>1 DEF SwitchInv
  <2>2. CASE Draining \/ Destroy
    <3>1. Switching' /\ SwitchStep
      BY <1>1, <1>6, <2>2, DrainingSwitches
    <3> QED BY <1>2, <1>4, <2>1, <3>1 DEF SwitchInv
  <2>3. CASE ~Draining /\ ~Destroy
    <3>1. Scan \/ Rewind \/ Replay \/ Resolved
      BY <1>6, <2>3 DEF Loop, Drain, Forward, BestEffort, Draining
    <3>2. phase \in {"scan", "replay"} /\ UNCHANGED <<clock, overflows, torn>>
      BY <1>6, <3>1 DEF Scan, Rewind, Replay, Resolved, target
    <3>8. Astray \subseteq Astray'
      BY <1>1, <3>2, Unwrapped
    <3>3. Looping
      BY <1>1, <1>3, <2>3, <3>2, <3>8 DEF Looping
    <3>4. Sound
      BY <1>1, <2>3, <3>2 DEF Beginning, Sound
    <3>5. LoopSwitching
      BY <1>1, <3>1, <3>3, <3>4 DEF LoopSwitching, SwitchInv, Switching, SwitchFacts
    <3>6. InOrderStep
      BY <1>1, <1>6, StepInvariant
    <3>7. Switching' /\ SwitchStep
      BY <1>1, <1>2, <1>6, <3>1, <3>5, <3>6,
         ScanSwitches, ReplaySwitches, ResolvedSwitches
    <3> QED BY <1>2, <1>4, <2>1, <3>7 DEF SwitchInv
  <2> QED BY <2>2, <2>3
<1> QED BY <1>5, <1>6 DEF TraceNext

(* A switch is in the file of its processor exactly if its two items came  *)
(* one after the other, and names the threads that really were switched:   *)
(* SwitchIn() never joins a half whose other half an overflow lost with a  *)
(* half of another switch.  The names are right unless an overflow lost a  *)
(* part of one (AddThreadName()).                                          *)
THEOREM SwitchesAreRight == TraceSpec => SwitchesAreTrue
<1>1. TraceInit => SwitchInv
  BY SwitchInit
<1>2. SwitchInv /\ TraceNext => SwitchInv' /\ SwitchStep
  BY SwitchNext
<1>3. SwitchInv /\ UNCHANGED traceVars => SwitchInv'
  BY SwitchStutter
<1>4. SwitchInv /\ [TraceNext]_traceVars => SwitchInv' /\ [SwitchStep]_traceVars
  BY <1>2, <1>3
<1> QED BY <1>1, <1>4, PTL DEF TraceSpec, SwitchesAreTrue
===============================================================================
