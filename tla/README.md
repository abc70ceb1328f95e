# Models of rtems-tools

rtems-tools is the host side of RTEMS development: the tester that runs
executables on simulators and boards, the client of the record (trace) server,
the RTEMS linker and some smaller programs.  This directory holds TLA+ modules of
its concurrent and stateful parts, the TLC configurations that check them, and
proofs of the main results for TLAPS.  File and line references are to the
repository's sources.

Contents: [1 the system](#1-the-system), [2 plan](#2-plan),
[3 the modules](#3-the-modules), [4 the runs](#4-the-runs),
[5 fairness](#5-fairness), [6 proofs](#6-proofs), [7 disagreements
found](#7-where-code-and-documentation-disagree), [8 what is not
modelled](#8-what-is-not-modelled), [9 running it](#9-running-it).

## 1 The system

### How the parts interact

    tester/rt/test.py     main thread, one thread per test
       |   \__ report.py      one object, its lock held by each operation
       v
    tester/rt/config.py   one per test: runs the directives of the BSP,
       |       ^          capture() gets each line the target prints
       v       |          (its own lock, not re-entrant)
    exe.py  gdb.py  tftp.py  wait.py        the runners (a lock each)
       |              |  \__ console.py     reader thread -> capture()
       v              v
    execute.py    tftpserver.py             server, handler threads
    (simulator)   (board's boot loader)

    trace/record: input -> filters (log, base64, zlib) -> record-client.c
                  -> handler of record-main-lttng.cc -> CTF files

    linkers:      objects, archives -> symbol table -> rld-resolver.cpp
                  -> list of objects -> rld-outputter.cpp

    misc:         boot loaders of boards <-> tftpproxy.py <-> TFTP servers

A runner's `open()` runs in the thread of its test until the test is over.  The
console or reader thread of the test calls `config.capture()`, which calls the
runner back (`target_start`, `target_restart`, `target_reset`, `target_end`) and may
kill it.  So two locks, the configuration's and the runner's, are taken in both
directions, and three threads set the runner's state.

### Components

| component | state | operations | what is hard | what makes it correct |
|---|---|---|---|---|
| record client `record-client.c` | per processor: uptime base, accumulated ticks, last binary time, held back items; framing buffer | `run`, `visit` per event, hold back and replay, `destroy` | overflow and processor switch at any item; wrapping stamps; chunks cut anywhere | every item to the handler once, in order, at times that never decrease |
| filters, client base | list of filters, marker position, base64 digits, inflate state | `Run` of the client and of each filter, `Flush` | markers cut by reads; a filter that grows the list it is in; bytes held back | the bytes between the markers, decoded, reach the client, all of them |
| LTTng writer `record-main-lttng.cc` | per processor: packet, last thread switched out, name that comes in; thread names | `PrintItem` | two items make one event; an overflow loses one of them | a switch in the file happened; the packet holds its events |
| test runner `test.py` | lists of running and finished tests, next number to log | create, collect, log, summary, `killall` | tests end in any order, raise, Ctrl-C | log complete and in order, job limit, run ends |
| report `report.py` | result per test, reference header, counters | `start`, `end`, `log`, `summary` | concurrent ends | counters add up, no unearned pass |
| configuration `config.py` | output, test label, started, restarts | `capture`, directives, time-out call-backs, `kill` | called from other threads | whole output, a test ends when and only when it should |
| `%execute` `exe.py`, `execute.py` | process, time left, thread results | `open`, `_monitor`, `_kill` | time-out against output and exit; kill at any time | output whole, no simulator left, time-outs earned |
| `%tftp` `tftp.py` | state word, finished, running, server | `open`, listener, `target_*`, `kill` | three threads, two locks | the test ends; nothing holds the port afterwards |
| TFTP `tftpserver.py` | session: block, last data, resends; server: sessions | `process`, `handle_session`, `run`, `stop` | lost, duplicated, late datagrams; concurrent stop | the client's copy is the file; session count |
| consoles | terminal, reader thread | open, read lines, close | close while reading | no line after close |
| `%gdb` `gdb.py` | two queues, script position, process, time left | `open`, reader, writer, monitor, `_stop`, kill | re-entrant lock over five threads, sleeps with it held | script in order, output whole, no GDB left, the test ends |
| `%wait` `wait.py` | time left | `open`, kill | a lock that is never released | the test ends |
| TFTP proxy `tftpproxy.py` | per thread: port, last block seen | `handle` | late and repeated datagrams, strangers, threads for one client | blocks reach the client in order; no thread stays |
| BSP builder `check.py`, coverage, covoar | counters, maps | batch | - | sums |
| toolkit `rtemstoolkit/*.py` | macro maps, configuration stack | expand, load | recursion limits | values as documented |
| linker library `rld-*.cpp`, `linkers/` | symbol table, per object: resolving, resolved, the objects of its symbols | `load_symbols`, `resolve`, merge, write | cycles, weak symbols, members of archives | exactly the objects that are needed are linked |
| `misc/`, `tools/gdb` | - | image builders, printers | - | - |

Imported code (elftoolchain, libiberty, fastlz, SimpleIni, ConvertUTF, telnetlib)
and data (configuration, patches) are not part of the development.
PROJECT.json lists every component with its status, and under `hazards` each line
where something can go wrong that a unit test would hardly reach.

## 2 Plan

Order of work, the most important behaviour first.

1. *Done.* `RecordClient`: the time and order guarantees of the trace client, proved.
2. *Done.* `RecordStream` and `ItemStream`: the framing of bytes into items.
3. *Done.* `Report`, `TestRunner`, `OrderedLog`: the parallel run, proved.
4. *Done.* `TftpSession`, `FileTransfer`, `TftpServer`: the TFTP server, proved.
5. *Done.* `TestCapture` with the runners `TesterExe` and `TesterTftp`, proved.
6. *Done.* `RecordInput`: `Client::Run()`, `Flush()` and the three filters, in front of
   `RecordStream`.
7. *Done.* `TesterGdb`: five threads, two queues, one re-entrant lock, proved.
8. *Done.* `LttngWriter` and `RecordTrace`: from the clock of the target to the events
   in the files, with overflows, proved.
9. *Done.* `LinkSet` and `RldResolver`: the symbol resolver of the linker, proved.
10. *Done.* `TftpProxy`, a second implementation of `FileTransfer`, proved.
11. *Next.* What of `RecordStream` does not need induction over data, proved.
12. *Then.* Pure algorithms: macro maps (`macros.py`), the condition machine of
    `rtemstoolkit/config.py`, the address maps of covoar.

Composition: `TestRunner` EXTENDS `Report` (its threads call it); `TesterExe`, `TesterTftp`
and `TesterGdb` EXTEND `TestCapture` (the runner with the configuration that drives
it); `TesterTftp` uses of `TftpServer` what its callers see, and `TftpServer` uses of
`TftpSession` that a session ends.  `RecordInput` EXTENDS `RecordStream`: its filters
deliver the chunks.  `RecordTrace` EXTENDS `RecordClient` and `LttngWriter`: a target
makes the items that the client visits, and each call of the client's handler is
one of the writer, in the same step.

Abstract specifications: `ItemStream` for `RecordStream`, alone and behind the filters;
`OrderedLog` for `TestRunner`; `FileTransfer` for `TftpSession` and for `TftpProxy`; `LinkSet`
for `RldResolver`.

## 3 The modules

**RecordClient** (`record-client.c`).  The variables are the fields of
`rtems_record_client_context`: `cpu`, `cpuCount`, `perCpuItems`, `scaler`, and per
processor `uptime` (`bt`, `last`, `acc` for `uptime_bt`, `time_last`,
`time_accumulated`), `lastBt`, `low`, `hold`, `items`, `capacity`.  `Visit(item)` is
`visit()` with a disjunct for each event case; `Scan`, `Rewind`, `Replay`, `Resolved` are the
two loops of `resolve_hold_back()`; `Destroy`, `Drain`, `Forward`, `BestEffort` are
`rtems_record_client_destroy()` and its best effort time.  The loops are steps
because each iteration may call the handler.  `out` holds the handler calls of
the last step; `given`, `passed` and `seq` are history: how many items of a processor
were taken, how many the handler has seen, and the number of each.  Integers wrap
as those of the code: stamps at `TimeMod`, the LOW half of an uptime at `LowMod`, binary times at
`BtMod`, the product of ticks and scaler at `SpanMod` (2^64, and 2^33 after the shift by 31: `Span`), item
counts and their double at `CountMod`, 2^32 (`Doubled`).  *Assumed* (`HeaderFirst`, `Sendable`,
`RecordAssumption`): the version, processor count and item count come before other items, as the
target sends them; the lower 32 bits of counts, and frequencies, are not 0; the handler succeeds,
as the only one does (`record-main-lttng.cc:551`); memory suffices, though `realloc()` to a length of 0
may return NULL; a tick is a whole number of binary time units.

**RecordStream** (same file, lines 377-664).  `Run` is `rtems_record_client_run()`
with the next chunk, `Partial`, `Header` and `Item` are the iterations of the
`consume_*` functions, `Ignore` is `consume_error`.  An integer is its byte
sequence, so that byte swapping is reversal.  `Stream == INSTANCE ItemStream` maps the
items visited.  An error that `visit()` reports in the middle of a chunk is not modelled here.

**RecordInput** (`record-client-base.cc`, `record-filter-*.cc`).  A `Read` of any length goes
through the filters that are in the list and what comes out to `RecordStream`; `EndOfInput`
and `Flush` are the end of `Run()`.  `LogFilter` is a function of the state it keeps and the
characters of a read (`SearchChar`, `DataChar`, ...); like the code it adds the filters its
begin marker asks for to the list while the list is walked.  `Base64Filter` keeps the
digits of a group and whether it saw the padding.  What `inflate()` does is external: it
produces bytes with what it consumes, the last with the last (`Available`), and its
buffer may be too small (`Room`).  A character is a number; the markers are shorter
than those of the code and overlap as those do.  Undefined behaviour, a length of
-1 in the log filter, is a choice of outcomes (`wild`).

**LttngWriter, RecordTrace** (`record-main-lttng.cc` 300-600).  `LttngWriter` holds operators
over the state of `LTTNGClient`: `PrintItem` and what it calls.  `RecordTrace` adds the target
(external): clocks, threads and a ring buffer for each processor.  It records
groups of items that carry one time stamp (the halves of an uptime, of a switch, a
created thread and its name); `Overflow` loses items, so that what follows may be the
rest of a group.  Because the target knows the time of each item, the times of the
client have a truth: the history variable `truth` keeps it for items held back, and `lost`
says how many of those came before an overflow; `torn` and `wrapped` name the processors whose
uptime was joined of two, and those that were so long without one that the 64-bit product
wrapped.  *Assumed* (`TraceAssumption`): a tick of
the target is at least a nanosecond, its uptime fits into 64 bits, and two groups that follow
one another in a ring buffer are less than a period of the stamps apart.

**LinkSet, RldResolver** (`rld-resolver.cpp`, `rld-files.cpp`, `rld-symbols.cpp`).  `files` is the
input: what each object has of each symbol (global, weak, weak undefined, undefined) and the
command line.  `resolve_symbols()` is recursive: `stack` holds its calls, with the
symbols to be looked at and the objects that were found; `ResolveIn*` and `NoObject`
are turns of its first loop, `Recurse` and `Return` the second.  `LinkSet` promises the least
closed set of objects.  Objects and symbols are numbers in the order of their
names, that of the maps.  Left out: the order of lists, reference counts, messages.

**Report, TestRunner** (`report.py`, `test.py`).  `Report` has the results, the
reference header and the counters; `ReportStart`, `ReportEnd`, `ReportLog` are whole
operations because each holds the report's lock from start to end.  An output is
what the banners tell apart.  `TestRunner` adds the main loop: `Create` (506-512),
`Collect` (514-520), `LogTest` and `LogDone` (`report_finished`, 192-215), `LoopDone`,
`Summary`, `Interrupt` (Ctrl-C), and the threads `Start`, `End`, `Return`, `Raise`.  The
branch for left over tests (530-532) has no action: `AllLogged` shows it is dead.
A configuration without a directive is not modelled.

**TftpSession** (`tftpserver.py` 140-467).  `Process` and its helpers are
`tftp_session.process()` with `_next_block`, resends and options; `Start`, `Receive*`,
`Timeout` are `handle_session()`.  Networks are sets of datagrams: a datagram may
be delivered and stay (duplicated, delayed) or be lost.  The client, external,
follows RFC 1350 and may repeat, abort and start over.  It asks for the same block
size each time, or for none (`option`); datagrams are well formed; reading the file
does not fail.

**TftpServer** (`tftpserver.py` 469-600).  Three kinds of threads: `run()`
(`Bind` ... `Return`), the server thread (`Hand`, `ServeEnd`) and one handler per
datagram (`Available`, `NextSession`, `SessionDone`); `stop()` in its steps `Close`,
`Join`, `Shutdown`, `Wait`, `Clear`, by `run()` itself and by another thread.  Python's
`socketserver` is external: `server_close()` joins the handlers, `shutdown()` waits for
the server thread.  Time is counted in turns of the loop of `run()`.

**TestCapture** (`config.py` 425-498).  A line is what `capture()` looks for in
it.  `Capture(line)` is the state after it, `OkToKill(line)` whether it kills.
Realtime trace and target commands are left out: they change no state of the tester.

**TesterExe** (`exe.py`, `execute.py`).  The test thread (`Open`, `Poll`, `Wake`,
`TimeOut`, `TellLate`, `Return`, `End`), the execute thread (`Spawn`, `Spawned`,
`SetHandle`, `Waited`, `Join`, `Finish`), the simulator (`WriteLine`, `Exit`), the reader
(`TakeLine`, `CaptureLine`, `OkKill`, `EndOfFile`) and `Interrupt`.  The test thread
holds the runner's lock but for its sleeps, so what it does between two sleeps
is one step to the others.  Output and error are one pipe.  The join of the reader gives up
after two seconds, which may be at once (`Join`), and bytes that the reader cannot
decode end it (`BreakOff`): in both cases `cut` says that output was given up.  A reader that was
left behind goes on.

**TesterTftp** (`tftp.py`).  The test thread (`open()`, `_timeout()`,
`_run_finished()`), the listener thread (`_runner()`, `_listener()`) and the console
thread (`capture()` and the calls back), with both locks.  The runner's lock is
re-entrant; its nested acquisitions are folded.  The server is what its callers
see: `stop()` waits for a session that is running.  Lines left over from the
image the board ran before may be printed too.

**TesterGdb** (`gdb.py`, `execute.py`).  The test thread (`open()` and `_monitor()`), the execute
thread, the reader, the writer and a thread that kills the test, which stands for
the main thread in Ctrl-C and for a serial console that has seen the end.  The lock is
re-entrant and counted: `_stop()` gives back one level of it for its sleeps, and the
reader, which took it twice, keeps it (`Levels`).  GDB is arbitrary: it prints records,
exits, fails or hangs.  Times are counted in sleeps of the loops.  A command is a number: those
the tester makes itself, and from `Confirm` on the lines of the script (`ScriptLines` of them).  The MI parser is left
out: its records are the input.  The join of the reader may give up and the reader may meet
bytes that it cannot decode, as for `TesterExe`.

**TftpProxy** (`misc/tools/tftpproxy.py`).  A thread for each request: `Start`, a turn of its loop
(`Relay`: learn the port of the session, look for the end, send on) and its
`Timeout`.  External, from RFC 1350 and 2348: one client, and a server that agrees to
the block size, uses a smaller one, knows no options or refuses.  Datagrams are
lost, delayed, and sent again.  Others send to the thread's port, from their own hosts and from
other ports of the server's host, also before the server has answered: the thread then
adopts that port (`PortOf`).  `trouble` tells whether any of that happened.  A time-out comes only in
silence (`Silent`).

## 4 The runs

Mutants in PROJECT.json show of each property that a plausible slip in a mapped
definition breaks it under the same configuration.

| run | instance | states | what it shows |
|---|---|---|---|
| `record_client` | 2 processors, stamps of 2 bits, binary time of 5, products of 2, counts of 3, hold back limit 4, 6 items | 761,946 | items once, in order, at rising times; storage |
| `record_input` | all formats, both byte orders, raw, base64, zlib and logged inputs, reads of every length | 5,370 | the filters feed `ItemStream`; nothing stays behind; what may fail; the loops end |
| `record_trace` | 2 processors, stamps that wrap and repeat, a thread with a name, an overflow, products below 12, 11 items | 1,988,665 | times are those of the target; switches happened; packets hold their events |
| `test_runner` | 3 tests, 2 jobs, two versions, fatal, time-out, benchmark | 23,382 | ordered and complete log, counters, job limit, end |
| `tftp_session` | 3 blocks of size 2, with and without option, one restart, one stranger, 3 resends | 345,022 | implements `FileTransfer`; what "served" means; it settles |
| `tester_exe` | 2 lines, a time-out of 1 s and a test period of 2 s at two sleeps a second, Ctrl-C, bytes that cannot be decoded | 271,603 | whole output, no simulator left, earned time-outs, end |
| `tftp_server` | 2 sessions, time-out of 2 turns, 3 datagrams, a second `stop()` | 28,000 | what `run()` returns and leaves, that it returns |
| `tester_tftp` | 2 lines, time-out at any turn, a server that may fail | 76,001 | what a time-out leaves, why tests end, the only ways to hang |
| `tester_gdb` | 2 script lines, 4 prompts or 2 lines, a pipe of 1, time-outs of 2 steps, grace of 2 sleeps, a kill | 1,136,371 | script in order, whole output, no GDB left, end |
| `tftp_proxy` | 2 blocks, 2 threads, 1 datagram sent again, one stranger | 94,815 | implements `FileTransfer`; ends are earned; threads end |
| `rld_resolver` | every program of 3 objects and 3 symbols (30,000) | 402,420 | implements `LinkSet`; nothing is left open; depth of the recursion |
| `exe_time` | as `tester_exe` | | violation, section 7 |

Why the bounds are enough.

- Six items are a header of two and four more: an overflow, a switch and both halves
  of an uptime, or enough to fill the storage of two, double it and pass the limit
  of four.  Stamps of two bits wrap within a stream, a product wraps with the second tick of
  scale 2, and a count of 4 is the one whose double is 0 in three bits.  The proofs cover all other sizes.
- The inputs of `record_input` have two items, and a read may end at every character:
  every cut of every marker, base64 group and item.  The stream is a whole number of base64
  groups with 64 bits of data and not with 32, so both ends of the decoder occur.
- `record_trace` has the hard case on purpose: the clock goes on by a multiple of the
  stamp's period over an overflow, so that items before and after it have equal stamps.
  `SpanMod` is 12, six ticks: a product wraps in the run and does not always.  Eleven items are the
  header of four, an uptime, an overflow or a turn with what was
  held back, and a switch after it, or a thread with its name.
- Two jobs and three tests are the least in which a slot is used again and a later
  test ends before an earlier one.
- Three blocks are a first, a middle and a last one, and with `BlockMod` 4 they are the
  most that fit into a block number (`Fits`).  The limit of resends is 3 instead of 5: it
  can be reached and not reached.
- Two lines are a start and an end, a start and a restart, or two restarts, of
  which the second passes `MaxRestarts` 1.
- Two sessions with three handlers leave one handler that finds none available.
- `set confirm` and two script lines take three prompts: four let the script go on after a kill, and a
  kill or a time-out may come before, between and after its lines.  GDB prints records up to a
  weight of `MaxRecords` (`Weight`): four prompts, or two lines of the target, or
  a line and two prompts, or a prompt and a record of another kind.
- Two blocks through the proxy are a full one and a short one, one repeat may be that of a
  request (a second thread) or of any other datagram, and one stranger may be the first to answer.
- Three objects form cycles of every length up to three beside a fourth caller, the command
  line; two symbols besides the entry make two edges for each object.

Deadlock is not checked (`CHECK_DEADLOCK FALSE`) because every one of these
programs ends; that they do not stop early is a liveness property of each.

Properties worth a second look:

- `HandledInOrder` (RecordClient) is an action property over the calls of a step: the
  next call for a processor has the next number, whether it is replayed or new.
- `TrueTimes` (RecordTrace) compares what the client hands on with the clock of the target.  Its
  exceptions are four: items that `destroy()` has to guess, items that were held back when
  another overflow came, a processor that joined the halves of two uptimes, and one whose product of
  ticks and scaler wrapped.  Each of them is reached in the run.
- `HeldWithinCapacity` (RecordClient) has one exception, the count whose double is 0 (`NoRoom`), and says
  what happens then: one item behind a storage of no length, no more.
- `WholeOutput` (TesterExe, TesterGdb) is about the runner that waits for its reader.  Where the
  code gives output up (`cut`), `%execute` still reports a beginning of it, without a gap.
- `SwitchesAreTrue` (RecordTrace) follows from times only: the writer joins two items because
  their times are equal, so a wrong time joins the halves of two switches.
- `FailureEarned` (RecordInput) lists the cuts for which a good input fails: a read that
  begins in an end marker and goes past it, and one that brings the inflation no byte.
- `EndIsEarned` (TftpProxy) says how much of the file the client has when a thread saw the end:
  all of it if nothing went wrong, all but one block otherwise.
- `IsLinkSet` (RldResolver): the recursion marks an object before it follows its symbols and
  merges lists on its way back; that the result is the least closed set is not visible
  in any one of these steps.
- `ServedButLast` (TftpSession) is as much as the code gives: it ends a session on any
  datagram after the last block, so "served" may mean all but the last block.
- `LateIsEarned` (TesterExe) relates a time-out to the silence before the last sleep of the
  monitor: a line that comes in that sleep is not looked at any more, and the property
  does not pretend it is.  That the code waits four times longer is `exe_time`.
- `EndsOrHangs` (TesterTftp) names four ways in which a test hangs, and in the model there is
  no other: `Inverted` (the two locks taken in both orders), `BothWait` (the listener waits for
  itself), `LostStop` (a state was set over the one that should stop the listener, or `finished`
  was cleared after it had gone) and `LoadsForEver` (the board is gone in the middle of its
  load, the session sends on and those who stop the server wait for it).

## 5 Fairness

Fairness is only assumed of what the host's scheduler or the outside world gives.

- RecordInput: WF of its next step: the loop of `Run()` reads on, and an input brings bytes or
  ends.
- RecordClient, RecordTrace, RldResolver: none, their properties are safety.  The client's loops count
  over finite arrays; that the recursion of the resolver ends follows from its depth and
  from each object being entered once.
- TestRunner: WF of the main loop and of every test thread; a thread ends because
  its test has a time-out.  `EventuallyOver` needs `Jobs > 0`.
- TftpSession: WF of the server's time-out and of a client that repeats or gives up on a
  server that is gone; SF that a datagram sent again and again is delivered.  Sessions
  that start over are excepted: an old request that the network repeats may restart a
  session for ever.
- TesterExe: WF of the three threads, whose sleeps end; a simulator may hang, so none for
  `Exit`.  A reader reads what there is; the join that gives up is a choice, so nothing rests on it.
- TftpServer: WF of `run()`, the server thread, handlers, and that a session ends, as
  `Settles` of `tftp_session` shows for a client that does not vanish; with one
  that does, `RunReturns` does not hold of the code.
- TesterTftp: SF of each thread, which is what a lock gives that nobody holds while asleep;
  SF of the time-out, as time passes.  Nothing is assumed of a board and its session, which may go on
  for ever (`tftpserver.py:439`).
- TesterGdb: WF of each thread and of each `_stop()`, whose sleeps end; none for GDB, the target
  and the user.
- TftpProxy: WF of the threads, of a client that answers what it hears and a server that answers, and of
  the time-out of a socket that is silent (`Silent`), which a datagram on its way disables; none
  for anything sent again or lost.  That threads end needs that the datagrams passed on
  come to an end, not the time-out alone: what is sent again is bounded (`Repeats`).

## 6 Proofs

| module | obligations | what is proved |
|---|---|---|
| `RecordClient_proofs` | 9768 | storage suffices but for a count that wraps, nothing lost, order and times of the handler's calls; with target and writer: the times are true, packets hold their events, the switches written are those that happened |
| `TestRunner_proofs` | 689 | job limit, complete log, counters of the report; implements `OrderedLog` |
| `TftpServer_proofs` | 1219 | session: what "served" means, nothing raised, implements `FileTransfer`; server: what `run()` and `stop()` leave, the count of sessions |
| `TesterExe_proofs` | 487 | whole output unless some was given up, no simulator left, earned time-outs |
| `TesterTftp_proofs` | 566 | a test that timed out leaves nothing behind, ends are earned |
| `TesterGdb_proofs` | 1551 | script in order, whole output unless some was given up, no GDB left |
| `TftpProxy_proofs` | 1817 | ends are earned; implements `FileTransfer` for clients whose thread adopted no other port |
| `RldResolver_proofs` | 1516 | nothing left open; implements `LinkSet` |

Each holds for all values of the constants, from the named assumptions of the modules
only.  Every module has an inductive invariant, a conjunction of named parts that
TLC checked before it was proved, a lemma for each action, and the theorem that the
specification keeps it (`Invariant`; `SessionInvariant` and `ServerInvariant` for TFTP); the
theorems named after properties follow from it.

**RecordClient.**  The inductive invariant is

    IInv == TypeOK /\ LoopInv /\ StorageInv /\ OrderInv /\ DrainInv /\ NothingLost

`LoopInv` says where the loops are; without it an index could leave the storage.
`StorageInv` says that storage exists once the header was seen, which
`HeldWithinCapacity` alone does not, or that the count gave none.  `OrderInv` is the heart: the numbered items of a
processor that the handler has not seen are exactly those waiting in its storage,
in order, from the one that the replay is at, and a processor that holds nothing
back has none.  `DrainInv` carries this through the loop of `destroy()`.  The proof has
lemmas for each operation (`CallHandler`, `HoldBack`, `Deliver`, ...) and then one step per
event.  Theorems: `TypeCorrect`, `StorageSuffices`, `NothingIsLost`, and from the
same invariant the action properties `HandlerOrder` and `HandlerTime`.

**RecordTrace** (in `RecordClient_proofs`).  Three invariants, each on top of the one before:

    PacketInv == IInv /\ TraceTyped /\ Opened /\ Packets
    TimeInv   == PacketInv /\ Beginning /\ Sending /\ Timely
    SwitchInv == TimeInv /\ lastOut \in LastOuts /\ (\A c \in CPU : Shaped(rest[c])) /\ Switching

`Packets`: the packet of a processor ends at the time of the last call for it, so that times that
never decrease keep events inside; `Opened` and the header give `PacketsAreHeld`.  `TimesAreTrue`
needs to know what the client knows of the clock.  It has only stamps modulo their period, and
its two loops add and subtract differences of stamps; that the sums are right follows because the
items between are less than a period apart.  `Beginning`: the header comes first and
sets the scale.  `Sending`: what the target has still to send is the rest of a group of one time,
and the halves of an uptime that meet are of the same group unless the processor is in `torn`.
`Timely` is by processor, for those in neither `torn` nor `wrapped` (`Astray`): `Stored`, items that are held back lie later than what the handler was
given, and the stamps after the last overflow tell their times; `Direct`, without held back items
the uptime is at the clock; `Walking`, while one of the loops runs, it puts each item that has a
stamp at the time the function `Z` claims, which is its true one behind `lost`.  The arithmetic is
in lemmas of its own (`ModUnique` ... `ElapsedTime`, `TickTime`); `SpanFits` and `Unwrapped` say that
a product counts in full as long as the processor is not in `wrapped`.

`SwitchesAreRight` compares two items of which the first may long be gone, so `Switching` says that
for each processor there is a log (`Heard`: a function from numbers to what the item was and when,
with no variable of the model for it) that agrees with all that is left: `Listed`, the second half of a
switch comes right after its first and at its time, or is later than every other first half (`Pairs`), and a
chunk of a name follows the one before it; `Matched`, the items held back are entries of the log;
`Remembered`, what the writer keeps of the last SWITCH_OUT is its entry; `Named`, the name that
comes in is as far as the last entry says.  `Parted` and `Marked` are about first halves whose time was
not reliable: an overflow item lies between them and every reliable second half.  With
times that are true, equal nanoseconds are then equal times (`NsStrict`: a tick is at
least a nanosecond, as `TraceAssumption` says; the writer compares nanoseconds, so with a
faster clock halves of two switches less than a nanosecond apart could be joined).  The log grows by one entry with each item
(`ListedOn`); `SwitchedOn`, `NamedOn` and `SwitchOn` say what a handler call does with it, once for a
new item, a replayed one and the UPTIME_HIGH item at the end of a replay.

**TestRunner.**  `IInv == TypeOK /\ StartedOnce /\ Slots /\ Placed /\ Reported`.
`Slots`: the living threads are in the list, which has at most `MaxJobs`.  `Placed`:
each created test is running, finished or logged.  `Reported`: a finished test that did
not raise has a result.  From it `JobsAreBounded`, `EveryTestLogged` and
`RunnerImplementsLog`, the refinement of `OrderedLog`: Init maps to Init, `LogTest` to
the abstract step, everything else to a stutter.

**RldResolver.**  `IInv == Typed /\ Stacked /\ Scanned /\ Reaching`.  `Stacked`: the calls on
the stack are for different objects, all entered, and only the innermost still looks at
symbols; hence no recursion deeper than there are objects, and one.  `Scanned`: a symbol
that was looked at is in the base image or points at the object of the table, one that was
not still has its first value.  `Reaching`: objects that were entered are in the output or
in the list of a call, and everything reached is in every closed set.  From it
`LinkedIsClosed`, and `ResolverImplementsLinkSet`: at `Finish` what is reached is closed and least,
and `NoObject` happens for a needed symbol only.  That the least closed set exists
(`LeastIsClosed`, `LeastIsUnique`) is proved, not assumed.

**TestRunner, the counters.**  `ScoreCardIsTrue` has an invariant of its own, `CardInv`.  The
property compares counters with cardinalities, and an end changes both by one only if the set of
ended tests is finite and the test was not in it: that is `IsFiniteSet(Ended)` and `StartedOnce`.
`Reference` says that every test that passed the comparison agrees with the reference header,
whoever set it.

**TftpSession.**  `IInv == TypeOK /\ Sending /\ Receiving /\ InStep`.  `Sending`: the session has read
its blocks one after the other and holds the last of them, and a DATA datagram, however
old, carries the block of its number.  `Receiving`: the client has the blocks before the one it
expects.  These two give the refinement `SessionImplementsTransfer` and survive a client that
starts over.  `InStep` is stop and wait: the session is at most one block ahead, no acknowledgement
is ahead of the client.  It needs a client that asked once, and with it a session ends only
after the block before the last was acknowledged (`AllButLastServed`), and no late datagram
finds a session it would make raise (`NoneRaised`).  Arithmetic over blocks is in the
lemmas `Cuts` and `Chunks`.

**TftpServer.**  `ServerInv == ServerTypeOK /\ Stopping /\ Counting /\ Timing`.  Two threads may be in `stop()` at
once.  `Stopping` says by the place of each what it and the other have done: the server is
cleared only after its thread has ended, so a `stop()` that raises because the server is gone
leaves nothing behind (`ReturnedIsStopped`).  `Timing`: as long as nobody else stops it, `run()` has
a server and time left, so it leaves its loop for one of the two reasons it has.

**TesterExe.**  `IInv == TypeOK /\ Threads /\ Ending /\ Copying /\ Clock`.  `Threads` ties the place of the
execute thread to the simulator and the reader it joins or gives up.  `Ending`: the runner drops its
process only when the execute thread is done or after a kill, and then there is no simulator but
for a kill in the middle of a start (`missed`).  `Copying` says, line by line, what was
captured of what was printed while the reader has a line in its hand.  `Clock`: time left and
time passed add up to the time-outs.

**TesterTftp.**  `IInv == TypeOK /\ Control /\ Capturing`, where `Control` is six parts:
`Locking`, who owns one of the two locks is at a place between its acquisition and its release;
`Opening`, the runner is open as long as its listener is there; `TimingOut`, the time-out is told
only after the listener has ended; `Serving`, the server is up only while the listener runs it;
`Retrying`, a server that is to run again does so with the state no longer `reset`; `Ending`, whatever may make one of the threads
end the test (the state word, `finished`, a pending call back) has one of the reasons `EndIsEarned`
allows.  Each thread writes flags that the others test, so the property about the end needs all
the places where such a flag is in flight.  `Capturing`: the report of a test that was
late holds the line of the time-out, and there are no more restarts than lines.

**TesterGdb.**  `IInv == TypeOK /\ Threads /\ Ending /\ Delivery /\ Ordered`.  `Threads` and `Ending` are as
above with five threads and the three that may be in `_stop()`.  `Ordered`: what was sent and
what waits in the two queues, taken as one sequence, follows the script, and the next line of
the script can be added to it; the property about what was sent alone is not
inductive, as the order is made when a command is queued.  `Delivery` counts: how many lines
of the target came before each record in the pipe (the function `f`), which says what
was captured and what is still to come without a filter over sequences, for which one would
need induction.

**TftpProxy.**  `IInv == TypeOK /\ Sound /\ Sessions /\ Received /\ Quiet`.  `Sound` names what may be
under way: the request, and of each thread what it asks, what its session serves, what it passes
on in both directions, and what others send to it; each kind says what its sender knew.  It
is stable because client and sessions only go on (`Onward`, `StillSound`), so a step only has to
account for the datagram it adds.  From it, `Sessions` and `Received` the client gets the blocks in
order (`ProxyImplementsTransfer`), and who saw an end saw one as long as no stranger sent
(`EndsAreEarned`).  `Quiet` is for its second half: while nothing was lost, late or
repeated there is one datagram, one thread, and a `Token` that says of each kind of datagram where
the transfer is.

The constants have the assumptions of their modules (`RecordAssumption`, `TftpAssumption`,
`ProxyAssumption`, ...), which TLC evaluates in each run.  Counts of sessions, lines, repeats and
strangers are any naturals.

Only model-checked, and why:

- every liveness property, `EndsOrHangs` of `TesterTftp` among them: fairness and ENABLED are out
  of reach of the prover;
- `NothingStaysBehind`, `FailureEarned` and `FeedsStream` of `RecordInput`: they say what a chain of
  filters computes from all of the input, by folds over it, and induction over data is out of
  reach too.

## 7 Where code and documentation disagree

A run violates the quoted statement:

- `exe_time`: the time-out in seconds (`options.py:76`) takes four times as long for
  simulators: divided by the step (`exe.py:124`), then reduced by the step.

Statements that do not hold, met while modelling; where a property names the case as an
exception, it is given:

- `recordclient.h:186` says destroy drains all buffers.  A PROCESSOR item is held back by the
  flag of the processor before it (`record-client.c:297`); it lands in the storage of
  a processor that holds nothing back, which destroy frees unread (728).  Only
  items without a number are lost so: `NothingLost`.
- The comment at `record-client.c:91-95` says that twice the item count remains a power of two.  For 2^31
  it is 0 in the 32 bits of the product (96): `NoRoom` of `HeldWithinCapacity`.
- The number of sessions (`tftpserver.py:729`) is exceeded when two requests arrive together
  (471-472); `CountIsServed` counts them whatever their number.
- The test of a dead board does not end after its time-out: with 180 s for the test and
  120 s for the server the time-out falls into the second run of the server, and
  test and listener wait for one flag which only the listener, waiting, clears
  (`tftp.py:119-133`, 197): `BothWait` of `EndsOrHangs`.
- `rld-resolver.cpp:69-71` says an unresolved symbol is pointed at the object whose exported
  symbol resolves it; a weak undefined symbol, which nobody exports, is put in the table
  too (`rld-files.cpp:1161`) and resolves the references of others.

Trace client and converter:

- The product of ticks and scaler has 64 bits (`record-client.c:153-154`, 220, 699).  A processor that
  has no uptime for two seconds of its clock gets times that are too small by multiples of
  that, which the clamp (156) then holds at the last one: `wrapped` in `TrueTimes`.
- The best effort time forgets the ticks accumulated so far (`record-client.c:699`), so
  after an overflow `destroy()` may clamp times and report TIME_ADJUSTMENT.
- Items held back when another overflow comes are wound back by differences modulo the
  period of the stamps (206-222): their times are wrong, and two halves of
  different switches may be joined.
- The LOW half of an uptime outlives an overflow (311): with the HIGH half of another it
  makes a wrong uptime.
- After an overflow a chunk of a name goes to the thread whose name came before.
- Events of a processor without an uptime are at 0, before `timestamp_begin`
  (`record-main-lttng.cc:497`).  The assertion at 591-592 holds (`PacketsHold`).
- A star in the log before the begin marker can hide the marker
  (`record-filter-log.cc:79-81`), the length of the last chunk can be -1 (133).
- When a filter fails nothing is flushed (`record-client-base.cc:183-186`), and bytes after a
  compressed stream make the inflation double its buffer until memory is gone
  (`record-filter-zlib.cc:64`).

Tester:

- `config.py:80` compares a string with True, so `target_show_failure` never works.
- A late acknowledgement after a restarted transfer raises a TypeError
  (`tftpserver.py:210`), although the comment at 214 provides for restarts.
- A line that comes in the last sleep before a time-out does not save its test (`exe.py:145`).
- Output that is no text in the terminal's encoding ends the reader of a process
  (`execute.py:243`, 260), and the join gives up on it after two seconds (365): the test is judged by
  what was read until then.
- A kill before the process handle is stored leaves the simulator running (`exe.py:99`).
- A client that vanishes is sent the same block for ever (`tftpserver.py:439`), and
  `server_close()` then waits for its handler: `LoadsForEver` of `EndsOrHangs`.
- `--jobs=0`, which the help text allows (`options.py:114`), makes the loop at
  `test.py:504` spin for ever.
- `%wait` halves its time-outs (`wait.py:102`) and never releases its lock (133): a kill from a
  console after the end of the block waits for ever.
- `_stop()` called by the reader of GDB keeps the lock all its seconds (`gdb.py:200`), so the writer
  never sends `quit` and GDB is killed by force.  `_cleanup()` puts an end mark in a queue
  that nobody moves on: the join of the writer takes its full two seconds.
- With a serial console the output that `%gdb` watches never grows: its time-out does not
  start again with each line.
- A last line without an end stays in the output buffer of `gdb.py`.

TFTP proxy, linker:

- An acknowledgement of an earlier block ends a session after a short one was seen
  (`tftpproxy.py:93`); with a smaller block size than asked for each block is short (89);
  datagrams of strangers are looked at before their address is (214): `EndIsEarned`.
- The first datagram from the server's host, of whatever port, gives the session its port (215-217);
  those of the server are then dropped: `Adopted` of `IsTransfer`.
- A server that sends again for ever keeps the thread of a client that is gone (203).
- A host without a port raises an exception (45-54).
- A symbol of `-d` has no object; when a needed symbol finds it the pointer is
  dereferenced (`rld-resolver.cpp:160`): status `crash` in `RldResolver`.
- `merge` and `unique` are applied to lists that are not sorted (`rld-outputter.cpp:74-78`): an
  object may be listed twice.

## 8 What is not modelled

Planned (section 2): the macro and configuration languages, the maps of covoar.  `wait.py` is
one sequential loop: reading it was enough for what section 7 says.

The modules cover a small share of the repository's lines, and that will stay so.  Most
of these lines are vendored (elftoolchain, libiberty, SimpleIni, fastlz) or read and write
file formats (ELF, DWARF, RAP, symbol mangling, gcov), print reports, or parse command
lines: sequential code over large data with no protocol, concurrency or failure
handling of its own, where a model would repeat the code line by line and TLC
would check nothing that a unit test does not.  The same holds for terminal and
telnet drivers, image builders and debugger printers.

Within the modelled components:

- record: file and network input, the byte limit and signals of the client base;
  metadata, sizes, addresses and event names of the LTTng writer;
- tester: report formatters and mail, Ctrl-C in the `%tftp` runner, target commands (they act
  on hardware), the lines of GDB's own console, the timer thread of `execute.py` (no caller in
  the tester passes a time-out);
- TFTP server: two requests of the client that ask for different block sizes; requests that are
  malformed;
- proxy: writing to the server, the table of clients and its configuration; strangers that send
  requests, errors or datagrams too short to decode (`tftpproxy.py:75-78`), and what both
  sessions of a repeated request read if the file changes between them;
- linker: order of lists, archives as files, the cache of open files, the compressor.

## 9 Running it

    tlc -workers 2 -config RecordClient.cfg MCRecordClient
    tlapm RecordClient_proofs.tla

and likewise for the runs of PROJECT.json.  No run takes more than four minutes or so,
most of them less than one; the proofs take some minutes, those of `RecordClient` about ten.
