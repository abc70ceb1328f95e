------------------------------- MODULE TftpProxy -------------------------------
(***************************************************************************)
(* The TFTP proxy, misc/tools/tftpproxy.py: a thread for each request that *)
(* comes to its port, with a socket of its own.  The thread relays between *)
(* the client and the server of its host, reads along to see the end of    *)
(* the transfer, and gives up when it hears nothing for a while.           *)
(*                                                                         *)
(* The client and the server are external and as RFC 1350 says: the client *)
(* talks to the thread that it heard first, and the server may agree to    *)
(* the block size that is asked for, use a smaller one (RFC 2348), or know *)
(* no options.  Datagrams are lost and delayed; a datagram that is sent    *)
(* again is one more.  A block stands for its bytes.  Strangers send to a  *)
(* thread too: blocks, acknowledgements, requests (for blocks of the size  *)
(* the client asked for) and datagrams that are too short to be read.      *)
(*                                                                         *)
(* Not here: writing to the server, requests that are no read requests,    *)
(* the table of the clients (the client is in it or not), names for hosts. *)
(***************************************************************************)
EXTENDS Integers, Sequences

CONSTANTS
  Blocks,         (* the file has that many blocks                           *)
  Handlers,       (* bound: threads, 1 .. n, one for each request            *)
  Repeats,        (* bound: datagrams that are sent again                    *)
  Strangers       (* bound: datagrams of others                              *)

ASSUME ProxyAssumption ==
  /\ Blocks \in Nat \ {0} /\ Repeats \in Nat /\ Strangers \in Nat
  /\ Handlers \subseteq Nat \ {0}

VARIABLES
  known,          \* is the client in the table of the proxy?
  answer,         \* of the server: plain (no option was asked for), agreed,
                  \* smaller, ignored (the option), refused (the file)
  client,         \* asked, receiving, complete, gone
  peer,           \* the thread the client talks to, 0 for none
  received,       \* the blocks it has
  phase,          \* of each thread: idle, relaying, finished, timeout,
                  \* unknown (the client), raised
  port,           \* host_port of each thread: where it sends to
  last,           \* session.finished of each thread
  server,         \* the block each session of the server sent last
  net,            \* the datagrams under way
  repeats, strangers,   \* what is left of the bounds
  trouble         \* was a datagram lost or too late, or others came?

env == <<known, answer>>
receiver == <<client, peer, received>>
threads == <<phase, port, last>>
vars == <<env, receiver, threads, server, net, repeats, strangers, trouble>>

Client == <<"client", 0>>
Proxy(h) == <<"proxy", h>>      \* 0 is the port of the proxy
Server(h) == <<"server", h>>    \* 0 is the port for requests
Hosts == {"server", "stranger"} \* the names of the server's host
Alien == <<"stranger", 0>>      \* a port of it that is not the server's
Other == <<"other", 0>>         \* of another host
Pending == -1                   \* the server has not heard of it
Foreign == 0                    \* a block that is not of the file

Datagram(src, dst, op, block, data) ==
  [src |-> src, dst |-> dst, op |-> op, block |-> block, data |-> data]
Request == Datagram(Client, Proxy(0), "RRQ", 0, Foreign)
Ack(n, h) == Datagram(Client, Proxy(h), "ACK", n, Foreign)

Init ==
  /\ known \in BOOLEAN
  /\ answer \in {"plain", "agreed", "smaller", "ignored", "refused"}
  /\ client = "asked" /\ peer = 0 /\ received = <<>>
  /\ phase = [h \in Handlers |-> "idle"]
  /\ port = [h \in Handlers |-> Server(0)]
  /\ last = [h \in Handlers |-> FALSE]
  /\ server = [h \in Handlers |-> Pending]
  /\ net = {Request}
  /\ repeats = Repeats /\ strangers = Strangers /\ trouble = FALSE

Deliver(d, out) == net' = (net \ {d}) \cup out

-----------------------------------------------------------------------------
(* udp_handler.handle(): the request goes to the server.                   *)
Start(h) ==
  /\ phase[h] = "idle" /\ \A g \in Handlers : g < h => phase[g] # "idle"
  /\ Request \in net
  /\ phase' = [phase EXCEPT ![h] = IF known THEN "relaying" ELSE "unknown"]
  /\ Deliver(Request, IF known
       THEN {[Request EXCEPT !.src = Proxy(h), !.dst = Server(0)]} ELSE {})
  /\ UNCHANGED <<env, receiver, port, last, server, repeats, strangers,
                 trouble>>

\* len(data) - 4 < self.block_size, which is the size the client asked for
Smaller == answer \in {"smaller", "ignored"}
\* Mutant: a full block is short too
IsShortFull(d) == d.op = "DATA"
IsShort(d) ==
  d.op = "DATA" /\ (Smaller \/ d.block = Blocks \/ d.data = Foreign)

\* Mutant: the port of the session is not learnt
PortOfRequest(h, d) == port[h]
\* The first answer of the server's host tells the port of the session
PortOf(h, d) ==
  IF d.src[1] \in Hosts /\ port[h] = Server(0) THEN d.src ELSE port[h]

\* Mutant: the port of what the host sends is not looked at
RelayedAny(h, d) ==
  {[d EXCEPT !.src = Proxy(h),
             !.dst = IF d.src[1] \in Hosts THEN Client ELSE PortOf(h, d)]}
Relayed(h, d) ==
  CASE d.src[1] \in Hosts /\ d.src = PortOf(h, d) ->
         {[d EXCEPT !.src = Proxy(h), !.dst = Client]}
    [] d.src = Client ->
         {[d EXCEPT !.src = Proxy(h), !.dst = PortOf(h, d)]}
    [] OTHER -> {}

(* A turn of the loop of handle().  session.data() looks at each datagram, *)
(* whoever sent it: after a short block any acknowledgement is the end, a  *)
(* request is a new beginning, and what has no operation code raises.      *)
Relay(h) ==
  /\ phase[h] = "relaying"
  /\ \E d \in net :
       /\ d.dst = Proxy(h)
       /\ \/ /\ d.op = "SHORT" /\ phase' = [phase EXCEPT ![h] = "raised"]
             /\ Deliver(d, {}) /\ UNCHANGED <<port, last>>
          \/ /\ d.op # "SHORT"
             /\ last' = [last EXCEPT ![h] =
                           d.op # "RRQ" /\ (@ \/ IsShort(d))]
             /\ phase' = [phase EXCEPT ![h] = IF d.op = "ACK" /\ last[h]
                                                THEN "finished" ELSE @]
             /\ port' = [port EXCEPT ![h] = PortOf(h, d)]
             /\ Deliver(d, Relayed(h, d))
  /\ UNCHANGED <<env, receiver, server, repeats, strangers, trouble>>

\* recvfrom() heard nothing for the time of the session: there is nothing,
\* or what there is comes too late
Silent(h) == \A d \in net : d.dst # Proxy(h)
UnderWay(h) == \E d \in net : {d.src, d.dst} \cap {Proxy(h), Server(h)} # {}
Timeout(h) ==
  /\ phase[h] = "relaying"
  /\ phase' = [phase EXCEPT ![h] = "timeout"]
  /\ trouble' = (trouble \/ UnderWay(h))
  /\ UNCHANGED <<env, receiver, port, last, server, net, repeats, strangers>>

-----------------------------------------------------------------------------
(* The server (external): one session for each request.                    *)
Current(h, n) ==
  CASE n = 0 -> {Datagram(Server(h), Proxy(h), "OACK", 0, Foreign)}
    [] n \in 1 .. Blocks -> {Datagram(Server(h), Proxy(h), "DATA", n, n)}
    [] OTHER -> {}

Serve(h) ==
  /\ \E d \in net :
       /\ d.src = Proxy(h) /\ d.dst = Server(0) /\ d.op = "RRQ"
       /\ IF answer = "refused"
            THEN /\ server' = [server EXCEPT ![h] = Blocks + 1]
                 /\ Deliver(d, {Datagram(Server(h), Proxy(h), "ERROR", 0,
                                         Foreign)})
            ELSE LET n == IF answer \in {"agreed", "smaller"} THEN 0 ELSE 1
                 IN /\ server' = [server EXCEPT ![h] = n]
                    /\ Deliver(d, Current(h, n))
  /\ UNCHANGED <<env, receiver, threads, repeats, strangers, trouble>>

ServeNext(h) ==
  /\ \E d \in net :
       /\ d.dst = Server(h) /\ d.op = "ACK"
       /\ IF d.block = server[h]
            THEN /\ server' = [server EXCEPT ![h] = @ + 1]
                 /\ Deliver(d, Current(h, d.block + 1))
            ELSE Deliver(d, {}) /\ UNCHANGED server
  /\ UNCHANGED <<env, receiver, threads, repeats, strangers, trouble>>

Again(out) ==
  /\ repeats > 0 /\ repeats' = repeats - 1
  /\ net' = net \cup out /\ trouble' = TRUE
  /\ UNCHANGED <<env, receiver, threads, server, strangers>>
ServeAgain(h) == server[h] \in 0 .. Blocks /\ Again(Current(h, server[h]))

-----------------------------------------------------------------------------
(* The client (external).                                                  *)
Expected == Len(received) + 1

Accept(d) ==
  \/ /\ d.op = "OACK" /\ Expected = 1
     /\ client' = "receiving" /\ UNCHANGED received
     /\ Deliver(d, {Ack(0, peer')})
  \/ /\ d.op = "DATA" /\ d.block = Expected
     /\ received' = Append(received, d.data)
     /\ client' = IF d.block = Blocks THEN "complete" ELSE "receiving"
     /\ Deliver(d, {Ack(d.block, peer')})
  \/ /\ d.op = "DATA" /\ d.block = Expected - 1
     /\ Deliver(d, {Ack(d.block, peer')}) /\ UNCHANGED <<client, received>>
  \/ /\ d.op = "ERROR"
     /\ client' = IF client = "complete" THEN client ELSE "gone"
     /\ Deliver(d, {}) /\ UNCHANGED received

\* It talks to the thread that answered first and does not hear the others
Hear ==
  /\ \E d \in net :
       /\ d.dst = Client
       /\ IF /\ client # "gone" /\ peer \in {0, d.src[2]}
             /\ d.op \notin {"RRQ", "ACK"}
            THEN peer' = d.src[2] /\ Accept(d)
            ELSE Deliver(d, {}) /\ UNCHANGED receiver
  /\ UNCHANGED <<env, threads, server, repeats, strangers, trouble>>

\* It repeats its request, or its last acknowledgement
AskAgain == client = "asked" /\ Again({Request})
AckAgain == client = "receiving" /\ Again({Ack(Len(received), peer)})

-----------------------------------------------------------------------------
Lose ==
  /\ \E d \in net : Deliver(d, {})
  /\ trouble' = TRUE
  /\ UNCHANGED <<env, receiver, threads, server, repeats, strangers>>

\* A datagram of another host, or of another port of the server's host
Stranger(h) ==
  /\ strangers > 0 /\ strangers' = strangers - 1
  /\ phase[h] = "relaying"
  /\ \E src \in {Alien, Other} :
       \E op \in {"DATA", "ACK", "RRQ", "SHORT"}, n \in 0 .. Blocks :
         /\ op = "DATA" <=> n # 0
         /\ op = "SHORT" => src = Other      \* it is never passed on
         /\ net' = net \cup {Datagram(src, Proxy(h), op, n, Foreign)}
  /\ trouble' = TRUE
  /\ UNCHANGED <<env, receiver, threads, server, repeats>>

Next == \/ \E h \in Handlers : \/ Start(h) \/ Relay(h) \/ Timeout(h)
                               \/ Serve(h) \/ ServeNext(h) \/ ServeAgain(h)
                               \/ Stranger(h)
        \/ Hear \/ AskAgain \/ AckAgain \/ Lose

Spec == Init /\ [][Next]_vars

\* Threads run, client and server answer, and a socket that stays silent
\* times out; one that hears again and again need not
FairSpec ==
  /\ Spec /\ WF_vars(Hear)
  /\ \A h \in Handlers :
       /\ WF_vars(Start(h)) /\ WF_vars(Relay(h))
       /\ WF_vars(Silent(h) /\ Timeout(h))
       /\ WF_vars(Serve(h)) /\ WF_vars(ServeNext(h))

-----------------------------------------------------------------------------
Address == {"client", "proxy", "server", "stranger", "other"}
             \X (Handlers \cup {0})

(* Types of the threads, the sessions and the network.                     *)
TypeOK ==
  /\ client \in {"asked", "receiving", "complete", "gone"}
  /\ peer \in Handlers \cup {0}
  /\ received \in Seq(0 .. Blocks)
  /\ phase \in [Handlers -> {"idle", "relaying", "finished", "timeout",
                             "unknown", "raised"}]
  /\ port \in [Handlers -> Address]
  /\ last \in [Handlers -> BOOLEAN]
  /\ server \in [Handlers -> {Pending} \cup 0 .. Blocks + 1]
  /\ \A d \in net : d.src \in Address /\ d.dst \in Address

(* A thread that saw the end of a transfer saw one: the server has sent    *)
(* its last block, and the client has all but that one, unless others sent *)
(* datagrams or the blocks are smaller than the client asked for.  And if  *)
(* nothing at all was lost, late or sent again, no thread ends before its  *)
(* client has the file.                                                    *)
Whole == answer # "refused" /\ ~Smaller
EndIsEarned ==
  /\ TypeOK
  /\ \A h \in Handlers :
       phase[h] = "finished" /\ Whole /\ strangers = Strangers =>
         peer = h /\ server[h] >= Blocks /\ Len(received) >= Blocks - 1
  /\ \A h \in Handlers :
       phase[h] \in {"finished", "timeout"} /\ Whole /\ ~trouble =>
         client = "complete"

(* Through the proxy the session still is a file transfer: its client gets *)
(* nothing but the blocks of the file, in order, however many threads and  *)
(* sessions its requests have started, whatever other hosts send, and      *)
(* whatever other ports of the server's host send once the server has      *)
(* answered.  A port that answers before the server is the session's: from *)
(* then on the client of that thread is promised nothing.                  *)
Adopted == peer # 0 /\ port[peer] = Alien
Transfer == INSTANCE FileTransfer WITH
  File <- [n \in 1 .. Blocks |-> n],
  received <- IF Adopted THEN <<>> ELSE received,
  complete <- client = "complete" /\ ~Adopted
IsTransfer == Transfer!Spec

(* When nothing at all is lost, late or sent again the client gets its     *)
(* file.  And what is lost, repeated or foreign, no thread keeps its       *)
(* socket: each datagram it hears lets it wait anew, but what it passes on *)
(* never keeps client and server answering each other for ever.            *)
Ends ==
  /\ <>(client = "complete" \/ trouble \/ ~Whole \/ ~known)
  /\ \A h \in Handlers : phase[h] = "relaying" ~> phase[h] # "relaying"
================================================================================
