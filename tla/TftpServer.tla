------------------------------ MODULE TftpServer ------------------------------
(***************************************************************************)
(* The TFTP server of the tester, tester/rt/tftpserver.py: tftp_server.run *)
(* in one thread, the server thread that starts a handler thread for each  *)
(* datagram, the sessions in those, and stop(), which run() calls itself   *)
(* and another thread may call at any time.  What a session says to its    *)
(* client is the module TftpSession.                                       *)
(*                                                                         *)
(* The socket server is Python's (external): server_close() closes the     *)
(* port and joins the handlers, shutdown() waits for the server thread.    *)
(* Time is counted in turns of the loop of run().                          *)
(***************************************************************************)
EXTENDS Naturals, FiniteSets

CONSTANTS
  Sessions,       (* the sessions to serve before run() ends                 *)
  SessionTimeout, (* how long run() waits for a session to start             *)
  Handlers,       (* bound: one thread for each datagram that arrives        *)
  MayStop         (* does another thread call stop()?                        *)

VARIABLES
  server,         \* self.server is not None
  port,           \* new, open or closed
  serving,        \* the server thread: new, idle, busy (has a datagram), ended
  shut,           \* shutdown() was requested
  handler,        \* per handler thread what it does
  begun,          \* self.session: how many sessions began
  done,           \* sessions_done
  run,            \* run(): start, check, sleep, stop, returned
  left, last,     \* run(): its session_timeout and last_session
  stop            \* per caller of stop() where it is

serverVars == <<server, port, serving, shut, handler, begun, done, run, left,
                last, stop>>

Stoppers == {"run", "other"}
Stages == {"idle", "close", "closing", "join", "shutdown", "wait", "clear", "stopped",
           "raised"}

ASSUME ServerAssumption ==
  /\ Sessions \in Nat \ {0}
  /\ SessionTimeout \in Nat \ {0}
  /\ IsFiniteSet(Handlers)
  /\ MayStop \in BOOLEAN
-----------------------------------------------------------------------------
ServerInit ==
  /\ server = FALSE /\ port = "new" /\ serving = "new" /\ shut = FALSE
  /\ handler = [h \in Handlers |-> "none"]
  /\ begun = 0 /\ done = 0
  /\ run = "bind" /\ left = SessionTimeout /\ last = 0
  /\ stop = [s \in Stoppers |-> "idle"]

\* start(): the port is bound, then the server thread is started
Bind ==
  /\ run = "bind" /\ run' = "start"
  /\ server' = TRUE /\ port' = "open"
  /\ UNCHANGED <<serving, shut, handler, begun, done, left, last, stop>>

StartThread ==
  /\ run = "start" /\ run' = "check"
  /\ serving' = IF shut THEN "ended" ELSE "idle"
  /\ UNCHANGED <<server, port, shut, handler, begun, done, left, last, stop>>

Enough == done >= Sessions
Check ==
  /\ run = "check"
  /\ IF ~server \/ Enough
       THEN run' = "stop" /\ stop' = [stop EXCEPT !["run"] = "close"]
       ELSE run' = "sleep" /\ UNCHANGED stop
  /\ UNCHANGED <<server, port, serving, shut, handler, begun, done, left, last>>

\* Mutant: the session that renewed the time is not remembered
TimeLeftForever == IF begun # 0 THEN SessionTimeout ELSE left - 1
TimeLeft == IF last # begun THEN SessionTimeout ELSE left - 1
\* After the sleep: a session that started renews the time-out
Sleep ==
  /\ run = "sleep"
  /\ last' = begun /\ left' = TimeLeft
  /\ IF left' = 0
       THEN run' = "stop" /\ stop' = [stop EXCEPT !["run"] = "close"]
       ELSE run' = "check" /\ UNCHANGED stop
  /\ UNCHANGED <<server, port, serving, shut, handler, begun, done>>

Return ==
  /\ run = "stop" /\ stop["run"] \in {"stopped", "raised"}
  /\ run' = "returned"
  /\ UNCHANGED <<server, port, serving, shut, handler, begun, done, left,
                 last, stop>>

Run == Bind \/ StartThread \/ Check \/ Sleep \/ Return

-----------------------------------------------------------------------------
\* The server thread (external) gets a datagram ...
Hear ==
  /\ serving = "idle" /\ port = "open" /\ ~shut
  /\ \E h \in Handlers : handler[h] = "none"
  /\ serving' = "busy"
  /\ UNCHANGED <<server, port, shut, handler, begun, done, run, left, last,
                 stop>>

\* ... and starts a handler for it
Hand ==
  /\ serving = "busy" /\ serving' = "idle"
  /\ \E h \in Handlers : /\ handler[h] = "none"
                         /\ handler' = [handler EXCEPT ![h] = "asked"]
  /\ UNCHANGED <<server, port, shut, begun, done, run, left, last, stop>>

ServeEnd ==
  /\ serving = "idle" /\ shut /\ serving' = "ended"
  /\ UNCHANGED <<server, port, shut, handler, begun, done, run, left, last,
                 stop>>

Serve == Hand \/ ServeEnd

\* handle(): sessions_available(), and without the lock next_session()
Available ==
  /\ \E h \in Handlers :
       /\ handler[h] = "asked"
       /\ handler' = [handler EXCEPT ![h] = IF begun < Sessions
                                              THEN "chosen" ELSE "ended"]
  /\ UNCHANGED <<server, port, serving, shut, begun, done, run, left, last,
                 stop>>

NextSession ==
  /\ \E h \in Handlers : /\ handler[h] = "chosen"
                         /\ handler' = [handler EXCEPT ![h] = "session"]
  /\ begun' = begun + 1
  /\ UNCHANGED <<server, port, serving, shut, done, run, left, last, stop>>

\* Mutant: a session that ends is not counted
CountedNever == done
Counted == done + 1
SessionDone ==
  /\ \E h \in Handlers : /\ handler[h] = "session"
                         /\ handler' = [handler EXCEPT ![h] = "ended"]
  /\ done' = Counted
  /\ UNCHANGED <<server, port, serving, shut, begun, run, left, last, stop>>

Handle == Available \/ NextSession

-----------------------------------------------------------------------------
\* stop() of another thread; one that raised or had nothing to stop is over
CallStop ==
  /\ MayStop /\ stop["other"] = "idle"
  /\ stop' = [stop EXCEPT !["other"] = "close"]
  /\ UNCHANGED <<server, port, serving, shut, handler, begun, done, run, left,
                 last>>

At(s, from, to) == stop[s] = from /\ stop' = [stop EXCEPT ![s] = to]

\* Without a server there is nothing to stop ...
Find(s) ==
  /\ At(s, "close", IF server THEN "closing" ELSE "stopped")
  /\ UNCHANGED <<server, port, serving, shut, handler, begun, done, run, left,
                 last>>

\* ... and server_close() closes the port, if no other stop() cleared it
Close(s) ==
  /\ stop[s] = "closing"
  /\ IF server
       THEN port' = "closed" /\ stop' = [stop EXCEPT ![s] = "join"]
       ELSE stop' = [stop EXCEPT ![s] = "raised"] /\ UNCHANGED port
  /\ UNCHANGED <<server, serving, shut, handler, begun, done, run, left, last>>

\* ... and waits for the handlers
Busy == {h \in Handlers : handler[h] \in {"asked", "chosen", "session"}}
Join(s) ==
  /\ At(s, "join", "shutdown") /\ Busy = {}
  /\ UNCHANGED <<server, port, serving, shut, handler, begun, done, run, left,
                 last>>

\* shutdown() of a server which another stop() may have cleared
Shutdown(s) ==
  /\ stop[s] = "shutdown"
  /\ IF server
       THEN shut' = TRUE /\ stop' = [stop EXCEPT ![s] = "wait"]
       ELSE stop' = [stop EXCEPT ![s] = "raised"] /\ UNCHANGED shut
  /\ UNCHANGED <<server, port, serving, handler, begun, done, run, left, last>>

\* Mutant: shutdown() does not wait for the server thread
EndedAlways == TRUE
Ended == serving = "ended"
Wait(s) ==
  /\ At(s, "wait", "clear") /\ Ended
  /\ UNCHANGED <<server, port, serving, shut, handler, begun, done, run, left,
                 last>>

Clear(s) ==
  /\ At(s, "clear", "stopped")
  /\ server' = FALSE
  /\ UNCHANGED <<port, serving, shut, handler, begun, done, run, left, last>>

Stop(s) == Find(s) \/ Close(s) \/ Join(s) \/ Shutdown(s) \/ Wait(s) \/ Clear(s)

ServerNext == \/ Run \/ Hear \/ Serve \/ Handle \/ SessionDone \/ CallStop
              \/ \E s \in Stoppers : Stop(s)

ServerSpec == ServerInit /\ [][ServerNext]_serverVars

(* The threads are scheduled, a session ends (as TftpSession shows of a    *)
(* client that does not vanish), and nobody has to ask for one.            *)
ServerFairSpec ==
  /\ ServerSpec
  /\ WF_serverVars(Run) /\ WF_serverVars(Serve) /\ WF_serverVars(Handle)
  /\ WF_serverVars(SessionDone)
  /\ \A s \in Stoppers : WF_serverVars(Stop(s))

-----------------------------------------------------------------------------
(* Types of the server and its threads.                                    *)
ServerTypeOK ==
  /\ server \in BOOLEAN /\ port \in {"new", "open", "closed"}
  /\ serving \in {"new", "idle", "busy", "ended"} /\ shut \in BOOLEAN
  /\ handler \in [Handlers -> {"none", "asked", "chosen", "session", "ended"}]
  /\ begun \in Nat /\ done \in Nat
  /\ run \in {"bind", "start", "check", "sleep", "stop", "returned"}
  /\ left \in 0 .. SessionTimeout /\ last \in Nat
  /\ stop \in [Stoppers -> Stages]

(* When run() has returned, or a stop() got past a server that another one *)
(* stopped, the port is closed and the server thread is gone: two calls of *)
(* stop() at a time may raise, but do no harm.                             *)
ReturnedStopped ==
  /\ ServerTypeOK
  /\ run = "returned" \/ (\E s \in Stoppers : stop[s] = "raised") =>
       port = "closed" /\ serving = "ended" /\ ~server

(* run() counts the sessions that are over, and it returns before its time *)
(* is up only if it served all or was stopped: the tester takes a count of *)
(* one for a target that has its image (tftp._listener()).                 *)
Over == {h \in Handlers : handler[h] = "ended"}
CountIsServed ==
  /\ done + Cardinality({h \in Handlers : handler[h] = "session"}) = begun
  /\ done <= Cardinality(Over)
  /\ run = "stop" /\ left > 0 /\ stop["other"] = "idle" => done >= Sessions

(* run() returns, when sessions end.                                       *)
RunReturns == <>(run = "returned")
=============================================================================
