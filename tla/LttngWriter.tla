------------------------------ MODULE LttngWriter ------------------------------
(***************************************************************************)
(* The handler of the record client in trace/record/record-main-lttng.cc:  *)
(* it writes a CTF stream for each processor, one packet in each, turns    *)
(* the two items of a thread switch into one sched_switch event and keeps  *)
(* the names of the threads.  Operators over the state of LTTNGClient: the *)
(* handler is called by the steps of another module.                       *)
(*                                                                         *)
(* A thread name is an array of chunks of data_size() bytes, 0 if empty.   *)
(* Not here: addresses and event names, sizes, the bytes of the events.    *)
(***************************************************************************)
EXTENDS Integers, Sequences

CONSTANTS
  IdleThreads,    (* the threads of the internal API                         *)
  NamedThreads,   (* the threads of the APIs that have names, idle included  *)
  NameChunks,     (* THREAD_NAME_SIZE / data_size()                          *)
  BtPerNs         (* binary time units in a nanosecond                       *)

ASSUME WriterAssumption ==
  /\ NamedThreads \subseteq Nat \ {0} /\ IdleThreads \subseteq NamedThreads
  /\ NameChunks \in Nat \ {0} /\ BtPerNs \in Nat \ {0}

NoName == [i \in 1 .. NameChunks |-> 0]
NoCpu == -1
Comm(name, cpu) == [name |-> name, cpu |-> cpu]

(* PerCPUContext: the limits of the packet; prev* and the time of the last *)
(* SWITCH_OUT; the thread that gets a name, and how much of it came.       *)
NoSwitch == [ns |-> 0, tid |-> 0, comm |-> Comm(NoName, NoCpu)]
NewCpu == [begin |-> 0, end |-> 0, prev |-> NoSwitch, thread |-> 0, chunks |-> 0]

\* cpu_count_, per_cpu_, thread_names_, and what the last calls wrote
NewWriter(cpus) ==
  [files |-> 0, cpus |-> [c \in cpus |-> NewCpu],
   names |-> [t \in NamedThreads |-> NoName], written |-> <<>>]

\* rtems_record_client_bintime_to_nanoseconds()
Ns(bt) == bt \div BtPerNs

\* The tid of idle threads is 0, and their name ends in the processor
Tid(thread) == IF thread \in IdleThreads THEN 0 ELSE thread
CopyThreadName(w, c, thread) ==
  Comm(IF thread \in NamedThreads THEN w.names[thread] ELSE NoName,
       IF thread \in IdleThreads THEN c ELSE NoCpu)

Switched(w, c, ns, thread) ==
  [ns |-> ns, tid |-> Tid(thread), comm |-> CopyThreadName(w, c, thread)]

Write(w, c, ns, kind, prev, next) ==
  [w EXCEPT !.written = Append(@, [cpu |-> c, ns |-> ns, kind |-> kind,
                                   prev |-> prev, next |-> next])]

\* Mutant: the times of the two items are not compared
SwitchInAlways(w, c, ns, thread) ==
  Write(w, c, ns, "sched_switch", w.cpus[c].prev, Switched(w, c, ns, thread))

(* The two items of a switch have the same time stamp: one that lost the   *)
(* other is not written.                                                   *)
SwitchIn(w, c, ns, thread) ==
  IF ns = w.cpus[c].prev.ns
    THEN Write(w, c, ns, "sched_switch", w.cpus[c].prev,
               Switched(w, c, ns, thread))
    ELSE w

ResetThreadName(w, c, thread) ==
  [w EXCEPT !.cpus[c].thread = thread, !.cpus[c].chunks = 0,
            !.names = [t \in NamedThreads |-> IF t = thread THEN NoName ELSE @[t]]]

AddThreadName(w, c, chunk) ==
  LET thread == w.cpus[c].thread
      n == w.cpus[c].chunks
  IN IF n >= NameChunks \/ thread \notin NamedThreads
       THEN w
       ELSE [w EXCEPT !.cpus[c].chunks = n + 1,
                      !.names[thread][n + 1] = chunk]

\* Mutant: the packet begins with the last item
SeenLast(cpu, ns) == [cpu EXCEPT !.begin = ns, !.end = ns]
Seen(cpu, ns) == [cpu EXCEPT !.begin = IF @ = 0 THEN ns ELSE @, !.end = ns]

(* PrintItem(): an item that the handler gets.                             *)
PrintItem(writer, call) ==
  LET c == call.cpu
      ns == Ns(call.bt)
      data == call.item.data
      w == [writer EXCEPT !.cpus[c] = Seen(@, ns)]
  IN CASE call.item.event = "THREAD_SWITCH_OUT" ->
            [w EXCEPT !.cpus[c].prev = Switched(w, c, ns, data)]
       [] call.item.event = "THREAD_SWITCH_IN" -> SwitchIn(w, c, ns, data)
       [] call.item.event \in {"THREAD_CREATE", "THREAD_ID"} ->
            ResetThreadName(w, c, data)
       [] call.item.event = "THREAD_NAME" -> AddThreadName(w, c, data)
       [] call.item.event = "PROCESSOR_MAXIMUM" -> [w EXCEPT !.files = data + 1]
       [] call.item.event \in {"PROCESSOR", "VERSION"} -> w
       [] OTHER -> Write(w, c, ns, call.item.event, NoSwitch, NoSwitch)
================================================================================
