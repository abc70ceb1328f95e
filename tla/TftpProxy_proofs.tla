--------------------------- MODULE TftpProxy_proofs ---------------------------
(***************************************************************************)
(* Proofs about the TFTP proxy: for a file of any length, any number of    *)
(* requests and threads, and a network that loses, delays and repeats, the *)
(* client gets the blocks of the file in order and no others through the   *)
(* proxy, unless its thread took the port of a stranger for the server's;  *)
(* and a thread that saw the end of a transfer saw one.                    *)
(***************************************************************************)
EXTENDS TftpProxy, SequenceTheorems, TLAPS

(* What may be under way.  A thread asks its server once; a session of the *)
(* server answers it with blocks it has reached, which a thread that knows *)
(* its port passes on; and the client acknowledges what it has, through    *)
(* its thread.  Others only reach the thread, unless it has adopted their  *)
(* port: then it passes on what comes from there, and sends there.         *)
Message == [src : Address, dst : Address,
            op : {"RRQ", "OACK", "DATA", "ACK", "ERROR", "SHORT"},
            block : 0 .. Blocks, data : 0 .. Blocks]

Asking(d, h) ==
  d.src = Proxy(h) /\ d.dst = Server(0) /\ d.op = "RRQ" /\ d.block = 0 /\ d.data = Foreign
Content(d, h) ==
  /\ d.op \in {"OACK", "DATA", "ERROR"} /\ server[h] # Pending
  /\ d.op = "OACK" => d.block = 0
  /\ d.op = "DATA" => d.block \in 1 .. Blocks /\ d.data = d.block /\ d.block <= server[h]
  /\ d.op = "ERROR" => answer = "refused"
Serving(d, h) == d.src = Server(h) /\ d.dst = Proxy(h) /\ Content(d, h)
Passing(d, h) ==
  /\ d.src = Proxy(h) /\ d.dst = Client
  /\ \/ port[h] = Server(h) /\ Content(d, h)
     \/ /\ port[h] = Alien /\ d.op \in {"DATA", "ACK", "RRQ"}
        /\ d.op = "DATA" => d.block # 0
Acked(d, h) == d.op = "ACK" /\ d.block <= Len(received) /\ peer = h
Acking(d, h) == d.src = Client /\ d.dst = Proxy(h) /\ Acked(d, h)
Passed(d, h) == d.src = Proxy(h) /\ d.dst = Server(h) /\ Acked(d, h)
Astray(d, h) == d.src = Proxy(h) /\ d.dst = Alien /\ port[h] = Alien
Strange(d, h) ==
  /\ d.src \in {Alien, Other} /\ d.dst = Proxy(h) /\ strangers # Strangers
  /\ d.op \in {"DATA", "ACK", "RRQ", "SHORT"} /\ (d.op = "DATA" => d.block # 0)

OfThread(d, h) ==
  Asking(d, h) \/ Serving(d, h) \/ Passing(d, h) \/ Acking(d, h) \/ Passed(d, h)
    \/ Astray(d, h) \/ Strange(d, h)
Sound == \A d \in net : d \in Message /\ (d = Request \/ \E h \in Handlers : OfThread(d, h))

(* What a thread knows, and how far its session of the server is.          *)
Sessions ==
  /\ strangers \in 0 .. Strangers
  /\ \A h \in Handlers :
       /\ port[h] \in {Server(0), Server(h), Alien}
       /\ port[h] = Alien => strangers # Strangers
       /\ phase[h] = "idle" =>
            port[h] = Server(0) /\ ~last[h] /\ server[h] = Pending
       /\ \A d \in net : Asking(d, h) => server[h] = Pending /\ phase[h] # "idle"
       /\ server[h] > 1 /\ answer # "refused" =>
            peer = h /\ Len(received) >= server[h] - 1
       /\ Whole /\ strangers = Strangers =>
            /\ last[h] => server[h] >= Blocks
            /\ phase[h] = "finished" => peer = h /\ last[h]

(* What the client has: the beginning of the file, unless its thread has   *)
(* adopted a stranger.                                                     *)
Received ==
  /\ Len(received) <= Blocks
  /\ Adopted \/ \A i \in 1 .. Len(received) : received[i] = i
  /\ client = "complete" <=> Len(received) = Blocks
  /\ client = "receiving" => peer # 0
  /\ peer # 0 => port[peer] # Server(0)

(* When nothing was lost, late or sent again there is one datagram, and it *)
(* says where the transfer is.                                             *)
Token(d, h) ==
  LET n == d.block
  IN /\ Asking(d, h) => received = <<>> /\ phase[h] = "relaying" /\ ~last[h]
     /\ Serving(d, h) \/ Passing(d, h) =>
          /\ phase[h] = "relaying"
          /\ server[h] = n
          /\ Len(received) = IF d.op = "DATA" THEN n - 1 ELSE 0
     /\ Serving(d, h) => ~last[h]
     /\ Acking(d, h) \/ Passed(d, h) => Len(received) = n /\ server[h] = n
     /\ Acking(d, h) => phase[h] = "relaying"
     /\ Passed(d, h) => phase[h] = IF n = Blocks THEN "finished" ELSE "relaying"
     /\ Passing(d, h) \/ Acking(d, h) \/ Passed(d, h) => (last[h] <=> n = Blocks)
Calm ==
  /\ \A d, e \in net : d = e
  /\ \A g, h \in Handlers : phase[g] # "idle" /\ phase[h] # "idle" => g = h
  /\ Request \in net => received = <<>> /\ \A h \in Handlers : phase[h] = "idle"
  /\ client # "gone"
  /\ \A h \in Handlers :
       /\ phase[h] # "timeout"
       /\ phase[h] = "relaying" => UnderWay(h)
       /\ phase[h] = "finished" => client = "complete"
       /\ \A d \in net : Token(d, h)
Quiet == (strangers # Strangers => trouble) /\ (~trouble /\ Whole => Calm)

IInv == TypeOK /\ Sound /\ Sessions /\ Received /\ Quiet

-----------------------------------------------------------------------------
(* Addresses and datagrams.                                                *)
Others == {Alien, Other}

LEMMA Addresses ==
  /\ \A h : Proxy(h)[1] = "proxy" /\ Proxy(h)[2] = h /\ Server(h)[1] = "server"
  /\ \A g, h : /\ Proxy(g) # Server(h) /\ Proxy(g) # Client /\ Server(g) # Client
               /\ Proxy(g) = Proxy(h) => g = h
               /\ Server(g) = Server(h) => g = h
  /\ Client[1] = "client"
  /\ \A s \in Others : \A h : s # Client /\ s # Proxy(h) /\ s # Server(h)
                          /\ s[1] \in {"stranger", "other"}
  /\ \A h \in Handlers \cup {0} : Proxy(h) \in Address /\ Server(h) \in Address
  /\ Client \in Address /\ Others \subseteq Address
  /\ \A h \in Handlers : h # 0
  /\ Alien # Other /\ Alien[1] \in Hosts /\ Other[1] \notin Hosts
  /\ "server" \in Hosts /\ "client" \notin Hosts
BY ProxyAssumption DEF Proxy, Server, Client, Address, Others, Alien, Other, Hosts

LEMMA Constants ==
  /\ Blocks \in Nat \ {0} /\ Strangers \in Nat /\ Handlers \subseteq Nat
  /\ Pending = -1 /\ Foreign = 0
BY ProxyAssumption DEF Pending, Foreign

LEMMA SameMessage ==
  ASSUME NEW d \in Message, NEW e \in Message,
         d.src = e.src, d.dst = e.dst, d.op = e.op, d.block = e.block, d.data = e.data
  PROVE  d = e
BY DEF Message

LEMMA Readdressed ==
  ASSUME NEW d \in Message, NEW a \in Address, NEW b \in Address,
         NEW e, e = [d EXCEPT !.src = a, !.dst = b]
  PROVE  /\ e \in Message /\ e.src = a /\ e.dst = b
         /\ e.op = d.op /\ e.block = d.block /\ e.data = d.data
BY DEF Message

LEMMA RequestType ==
  /\ Request \in Message /\ Request.src = Client /\ Request.dst = Proxy(0)
  /\ Request.op = "RRQ" /\ Request.block = 0 /\ Request.data = Foreign
BY Addresses, Constants DEF Request, Datagram, Message

\* Who may be at an address tells what is under way
LEMMA Kinds ==
  ASSUME Sound, NEW d \in net
  PROVE  /\ \A h \in Handlers :
              /\ d.dst = Proxy(h) => Serving(d, h) \/ Acking(d, h) \/ Strange(d, h)
              /\ d.dst = Server(h) => Passed(d, h)
              /\ d.src = Proxy(h) /\ d.dst = Server(0) => Asking(d, h)
         /\ d.dst = Client => \E h \in Handlers : Passing(d, h) /\ d.src[2] = h
<1>1. \A h \in Handlers : h # 0 /\ Proxy(h) # Proxy(0) /\ Server(h) # Server(0)
  BY Addresses
<1>2. Request.src = Client /\ Request.dst = Proxy(0)
  BY RequestType
<1>3. \A h : Asking(d, h) => d.src = Proxy(h) /\ d.dst = Server(0)
  BY DEF Asking
<1>4. CASE d = Request
  BY <1>1, <1>2, <1>4, Addresses
<1>5. ASSUME NEW g \in Handlers, OfThread(d, g)
      PROVE  /\ \A h \in Handlers :
                  /\ d.dst = Proxy(h) => Serving(d, h) \/ Acking(d, h) \/ Strange(d, h)
                  /\ d.dst = Server(h) => Passed(d, h)
                  /\ d.src = Proxy(h) /\ d.dst = Server(0) => Asking(d, h)
             /\ d.dst = Client => \E h \in Handlers : Passing(d, h) /\ d.src[2] = h
  <2>1. CASE Asking(d, g)
    BY <1>1, <1>3, <2>1, Addresses
  <2>2. CASE Serving(d, g)
    BY <1>1, <2>2, Addresses DEF Serving
  <2>3. CASE Passing(d, g)
    BY <1>1, <2>3, Addresses DEF Passing
  <2>4. CASE Acking(d, g)
    BY <1>1, <2>4, Addresses DEF Acking
  <2>5. CASE Passed(d, g)
    BY <1>1, <2>5, Addresses DEF Passed
  <2>6. CASE Strange(d, g)
    BY <1>1, <2>6, Addresses DEF Strange, Others
  <2>7. CASE Astray(d, g)
    BY <1>1, <2>7, Addresses DEF Astray, Others
  <2> QED BY <1>5, <2>1, <2>2, <2>3, <2>4, <2>5, <2>6, <2>7 DEF OfThread
<1> QED BY <1>4, <1>5 DEF Sound

(* A step only adds to what the client has and to what the sessions sent,  *)
(* and a port or a peer that is known stays.                               *)
Onward ==
  /\ answer' = answer /\ (peer # 0 => peer' = peer)
  /\ Len(received') \in Nat /\ Len(received) <= Len(received')
  /\ strangers # Strangers => strangers' # Strangers
  /\ \A h \in Handlers : /\ server'[h] \in Int
                         /\ server[h] # Pending => server'[h] >= server[h]
                         /\ port[h] # Server(0) => port'[h] = port[h]

\* What is under way stays what it is
LEMMA StillSound ==
  ASSUME IInv, Onward, NEW d \in net
  PROVE  d \in Message /\ (d = Request \/ \E h \in Handlers : OfThread(d, h)')
<1> USE DEF Onward
<1>1. d \in Message
  BY DEF IInv, Sound
<1>2. ASSUME NEW h \in Handlers, OfThread(d, h) PROVE OfThread(d, h)'
  <2>0. /\ server[h] \in {Pending} \cup 0 .. Blocks + 1 /\ server'[h] \in Int
        /\ d.block \in 0 .. Blocks /\ Len(received) \in Nat
    BY <1>1 DEF IInv, TypeOK, Message
  <2>1. Content(d, h) => Content(d, h)'
    BY <2>0, Constants DEF Content
  <2>2. Acked(d, h) => Acked(d, h)'
    BY <2>0, Addresses DEF Acked
  <2>3. Asking(d, h)' <=> Asking(d, h)
    BY DEF Asking
  <2>4. Serving(d, h) => Serving(d, h)'
    BY <2>1 DEF Serving
  <2>5. /\ Passing(d, h) => Passing(d, h)'
        /\ Astray(d, h) => Astray(d, h)'
    <3>1. Server(h) # Server(0) /\ Alien # Server(0)
      BY Addresses DEF Others
    <3> QED BY <2>1, <3>1 DEF Passing, Astray
  <2>6. /\ Acking(d, h) => Acking(d, h)'
        /\ Passed(d, h) => Passed(d, h)'
        /\ Strange(d, h) => Strange(d, h)'
    BY <2>2 DEF Acking, Passed, Strange
  <2> QED BY <1>2, <2>3, <2>4, <2>5, <2>6 DEF OfThread
<1> QED BY <1>1, <1>2 DEF IInv, Sound

LEMMA SoundSame == ASSUME IInv, Onward, net' \subseteq net PROVE Sound'
BY StillSound DEF Sound

LEMMA SoundStep ==
  ASSUME IInv, Onward, NEW e \in Message, net' \subseteq net \cup {e},
         e = Request \/ \E h \in Handlers : OfThread(e, h)'
  PROVE  Sound'
BY StillSound DEF Sound

LEMMA SameOnward ==
  ASSUME IInv, UNCHANGED <<answer, peer, received, strangers>>,
         \A h \in Handlers : server'[h] = server[h] /\ port'[h] = port[h]
  PROVE  Onward
<1>1. Len(received) \in Nat /\ Strangers' = Strangers
  BY DEF IInv, TypeOK
<1>2. \A h \in Handlers : server[h] \in Int
  <2>1. \A h \in Handlers : server[h] \in {Pending} \cup 0 .. Blocks + 1
    BY DEF IInv, TypeOK
  <2> QED BY <2>1, Constants
<1> QED BY <1>1, <1>2 DEF Onward

-----------------------------------------------------------------------------
(* A client whose thread has adopted a stranger stays with it.             *)
LEMMA AdoptedSame ==
  ASSUME UNCHANGED <<peer, port>> PROVE Adopted' <=> Adopted
BY DEF Adopted

-----------------------------------------------------------------------------
(* The threads of the proxy.                                               *)
LEMMA StartInv ==
  ASSUME IInv, NEW h \in Handlers, Start(h)
  PROVE  TypeOK' /\ Sound' /\ Sessions' /\ Received'
<1> DEFINE new == [Request EXCEPT !.src = Proxy(h), !.dst = Server(0)]
<1>1. /\ phase[h] = "idle" /\ Request \in net
      /\ phase' = [phase EXCEPT ![h] = IF known THEN "relaying" ELSE "unknown"]
      /\ net' \subseteq net \cup {new}
      /\ UNCHANGED <<known, answer, client, peer, received, port, last, server,
                     repeats, strangers, trouble>>
  BY DEF Start, Deliver, env, receiver
<1>3. new \in Message /\ Asking(new, h)
  <2>1. Proxy(h) \in Address /\ Server(0) \in Address
    BY Addresses
  <2>2. ASSUME NEW e, e = new PROVE e \in Message /\ Asking(e, h)
    <3>1. /\ e \in Message /\ e.src = Proxy(h) /\ e.dst = Server(0)
          /\ e.op = Request.op /\ e.block = Request.block /\ e.data = Request.data
      BY <2>1, <2>2, RequestType DEF Message
    <3> QED BY <3>1, RequestType DEF Asking
  <2> QED BY <2>2
<1> HIDE DEF new
<1>4. Sound'
  <2>1. Onward
    BY <1>1, SameOnward
  <2>2. OfThread(new, h)'
    BY <1>3 DEF OfThread, Asking
  <2> QED BY <1>1, <1>3, <2>1, <2>2, SoundStep
<1>5. TypeOK'
  <2>1. \A d \in net' : d.src \in Address /\ d.dst \in Address
    BY <1>4 DEF Sound, Message
  <2>2. phase' \in [Handlers -> {"idle", "relaying", "finished", "timeout", "unknown",
                              "raised"}]
    BY <1>1 DEF IInv, TypeOK
  <2> QED BY <1>1, <2>1, <2>2 DEF IInv, TypeOK
<1>6. /\ \A g \in Handlers : phase'[g] # "idle" <=> (phase[g] # "idle" \/ g = h)
      /\ \A g \in Handlers : phase'[g] = "finished" <=> phase[g] = "finished"
  BY <1>1 DEF IInv, TypeOK
<1>7. \A g \in Handlers, d \in net' : Asking(d, g)' => server[g] = Pending /\ phase'[g] # "idle"
  <2> SUFFICES ASSUME NEW g \in Handlers, NEW d \in net', Asking(d, g)
               PROVE  server[g] = Pending /\ phase'[g] # "idle"
    BY DEF Asking
  <2>1. CASE d \in net
    BY <1>6, <2>1 DEF IInv, Sessions
  <2>2. CASE d = new
    <3>1. g = h
      BY <1>3, <2>2, Addresses DEF Asking
    <3> QED BY <1>1, <1>6, <3>1 DEF IInv, Sessions
  <2> QED BY <1>1, <2>1, <2>2
<1>8. Sessions'
  BY <1>1, <1>6, <1>7 DEF IInv, Sessions, Whole, Smaller
<1>9. Received'
  BY <1>1, AdoptedSame DEF IInv, Received
<1> QED BY <1>4, <1>5, <1>8, <1>9

LEMMA TimeoutInv ==
  ASSUME IInv, NEW h \in Handlers, Timeout(h)
  PROVE  TypeOK' /\ Sound' /\ Sessions' /\ Received'
<1>1. /\ phase[h] = "relaying" /\ phase' = [phase EXCEPT ![h] = "timeout"]
      /\ UNCHANGED <<known, answer, client, peer, received, port, last, server,
                     repeats, strangers, net>>
  BY DEF Timeout, env, receiver
<1>2. TypeOK'
  BY <1>1 DEF IInv, TypeOK
<1>3. Sound'
  <2>1. Onward
    BY <1>1, SameOnward
  <2> QED BY <1>1, <2>1, SoundSame
<1>4. /\ \A g \in Handlers : phase'[g] = "idle" <=> phase[g] = "idle"
      /\ \A g \in Handlers : phase'[g] = "finished" <=> phase[g] = "finished"
  BY <1>1 DEF IInv, TypeOK
<1>5. Sessions'
  BY <1>1, <1>4 DEF IInv, Sessions, Whole, Smaller, Asking
<1>6. Received'
  BY <1>1, AdoptedSame DEF IInv, Received
<1> QED BY <1>2, <1>3, <1>5, <1>6

\* Where a datagram for the thread comes from, its server, its client or
\* others, and where it goes: out, to its client, server or a stranger
Forward(d, h, a) ==
  \E e \in Message : /\ e.src = Proxy(h) /\ e.dst = a /\ e.op = d.op
                     /\ e.block = d.block /\ e.data = d.data
                     /\ net' = (net \ {d}) \cup {e}
Turns(d, h) ==
  /\ last' = [last EXCEPT ![h] = d.op # "RRQ" /\ (last[h] \/ IsShort(d))]
  /\ phase' = [phase EXCEPT ![h] = IF d.op = "ACK" /\ last[h]
                                     THEN "finished" ELSE "relaying"]
  /\ port' = [port EXCEPT ![h] = PortOf(h, d)]
  /\ PortOf(h, d) \in {Server(0), Server(h), Alien}
  /\ port[h] # Server(0) => PortOf(h, d) = port[h]
  /\ PortOf(h, d) = Alien => Strange(d, h) \/ port[h] = Alien
  /\ \/ /\ Serving(d, h) /\ d.op # "ACK" /\ PortOf(h, d) = Server(h)
        /\ Forward(d, h, Client)
     \/ /\ Acking(d, h) /\ port[h] = Server(h) /\ Forward(d, h, Server(h))
     \/ /\ Acking(d, h) /\ port[h] = Alien /\ Forward(d, h, Alien)
     \/ /\ Strange(d, h) /\ d.op # "SHORT" /\ PortOf(h, d) = Alien
        /\ Forward(d, h, Client)
     \/ (Strange(d, h) \/ port[h] = Alien) /\ ~Acking(d, h) /\ net' = net \ {d}
Raises(d, h) ==
  /\ Strange(d, h) /\ phase' = [phase EXCEPT ![h] = "raised"]
  /\ net' = net \ {d} /\ UNCHANGED <<port, last>>
Relays(d, h) ==
  /\ d \in Message /\ d.dst = Proxy(h) /\ phase[h] = "relaying"
  /\ Raises(d, h) \/ Turns(d, h)

LEMMA RelayStep ==
  ASSUME IInv, NEW h \in Handlers, Relay(h)
  PROVE  \E d \in net : Relays(d, h)
<1>1. PICK d \in net :
        /\ d.dst = Proxy(h)
        /\ \/ /\ d.op = "SHORT" /\ phase' = [phase EXCEPT ![h] = "raised"]
              /\ net' = net \ {d} /\ UNCHANGED <<port, last>>
           \/ /\ d.op # "SHORT"
              /\ last' = [last EXCEPT ![h] = d.op # "RRQ" /\ (last[h] \/ IsShort(d))]
              /\ phase' = [phase EXCEPT ![h] = IF d.op = "ACK" /\ last[h]
                                                 THEN "finished" ELSE phase[h]]
              /\ port' = [port EXCEPT ![h] = PortOf(h, d)]
              /\ net' = (net \ {d}) \cup Relayed(h, d)
  BY DEF Relay, Deliver
<1>2. d \in Message /\ phase[h] = "relaying"
  BY DEF Relay, IInv, Sound
<1>3. Serving(d, h) \/ Acking(d, h) \/ Strange(d, h)
  BY <1>1, Kinds DEF IInv
<1>4. /\ port[h] \in {Server(0), Server(h), Alien} /\ Server(0) # Server(h)
      /\ Alien # Server(0) /\ Alien # Server(h)
      /\ Proxy(h) \in Address /\ Server(h) \in Address /\ Client \in Address
      /\ Alien \in Address
  BY Addresses DEF IInv, Sessions, Others
<1>5. ASSUME NEW a \in Address, Relayed(h, d) = {[d EXCEPT !.src = Proxy(h), !.dst = a]},
             d.op # "SHORT"
      PROVE  Forward(d, h, a)
  <2>1. PICK e : e = [d EXCEPT !.src = Proxy(h), !.dst = a]
    OBVIOUS
  <2>2. /\ e \in Message /\ e.src = Proxy(h) /\ e.dst = a /\ e.op = d.op
        /\ e.block = d.block /\ e.data = d.data
    BY <1>2, <1>4, <2>1 DEF Message
  <2>3. net' = (net \ {d}) \cup {e}
    BY <1>1, <1>5, <2>1
  <2> QED BY <2>2, <2>3 DEF Forward
<1>6. CASE Serving(d, h)
  <2>1. /\ d.src = Server(h) /\ d.src[1] \in Hosts /\ d.op \notin {"ACK", "SHORT", "RRQ"}
        /\ d.src # Client
    BY <1>6, Addresses DEF Serving, Content
  <2>2. PortOf(h, d) = IF port[h] = Alien THEN Alien ELSE Server(h)
    BY <1>4, <2>1 DEF PortOf
  <2>3. CASE port[h] = Alien
    <3>1. Relayed(h, d) = {} /\ ~Acking(d, h)
      BY <1>4, <2>1, <2>2, <2>3 DEF Relayed, Acking
    <3> QED BY <1>1, <1>2, <1>4, <2>1, <2>2, <2>3, <3>1 DEF Relays, Turns
  <2>4. CASE port[h] # Alien
    <3>1. Relayed(h, d) = {[d EXCEPT !.src = Proxy(h), !.dst = Client]}
      BY <2>1, <2>2, <2>4 DEF Relayed
    <3>2. Forward(d, h, Client)
      BY <1>4, <1>5, <2>1, <3>1
    <3> QED BY <1>1, <1>2, <1>4, <1>6, <2>1, <2>2, <2>4, <3>2 DEF Relays, Turns
  <2> QED BY <2>3, <2>4
<1>7. CASE Acking(d, h)
  <2>1. /\ d.src = Client /\ d.src[1] \notin Hosts /\ port[h] # Server(0)
        /\ d.op = "ACK"
    BY <1>7, Addresses DEF Acking, Acked, IInv, Received
  <2>2. PortOf(h, d) = port[h]
    BY <2>1 DEF PortOf
  <2>3. Relayed(h, d) = {[d EXCEPT !.src = Proxy(h), !.dst = port[h]]}
    BY <2>1, <2>2 DEF Relayed
  <2>4. Forward(d, h, port[h])
    BY <1>4, <1>5, <2>1, <2>3
  <2> QED BY <1>1, <1>2, <1>4, <1>7, <2>1, <2>2, <2>4 DEF Relays, Turns
<1>8. CASE Strange(d, h)
  <2>1. d.src \in {Alien, Other} /\ d.src # Client /\ ~Acking(d, h) /\ d.src # Server(h)
    BY <1>8, Addresses DEF Strange, Others, Acking
  <2>2. CASE d.op = "SHORT"
    BY <1>1, <1>2, <1>8, <2>2 DEF Relays, Raises
  <2>3. CASE d.op # "SHORT" /\ d.src = Other
    <3>1. PortOf(h, d) = port[h] /\ Relayed(h, d) = {}
      BY <2>1, <2>3, Addresses DEF PortOf, Relayed
    <3> QED BY <1>1, <1>2, <1>4, <1>8, <2>1, <2>3, <3>1 DEF Relays, Turns
  <2>4. CASE d.op # "SHORT" /\ d.src = Alien /\ port[h] = Server(h)
    <3>1. PortOf(h, d) = port[h] /\ Relayed(h, d) = {}
      BY <1>4, <2>1, <2>4, Addresses DEF PortOf, Relayed
    <3> QED BY <1>1, <1>2, <1>4, <1>8, <2>1, <2>4, <3>1 DEF Relays, Turns
  <2>5. CASE d.op # "SHORT" /\ d.src = Alien /\ port[h] # Server(h)
    <3>1. PortOf(h, d) = Alien
      BY <1>4, <2>5, Addresses DEF PortOf
    <3>2. Relayed(h, d) = {[d EXCEPT !.src = Proxy(h), !.dst = Client]}
      BY <2>5, <3>1, Addresses DEF Relayed
    <3>3. Forward(d, h, Client)
      BY <1>4, <1>5, <2>5, <3>2
    <3> QED BY <1>1, <1>2, <1>4, <1>8, <2>1, <2>5, <3>1, <3>3 DEF Relays, Turns
  <2> QED BY <2>1, <2>2, <2>3, <2>4, <2>5
<1> QED BY <1>3, <1>6, <1>7, <1>8

LEMMA RelayInv ==
  ASSUME IInv, NEW h \in Handlers, Relay(h)
  PROVE  TypeOK' /\ Sound' /\ Sessions' /\ Received'
<1>0. UNCHANGED <<known, answer, client, peer, received, server, repeats, strangers, trouble>>
  BY DEF Relay, env, receiver
<1>1. PICK d \in net : Relays(d, h)
  BY RelayStep
<1>a. /\ d \in Message /\ d.dst = Proxy(h) /\ phase[h] = "relaying"
      /\ Raises(d, h) \/ Turns(d, h)
  BY <1>1 DEF Relays
<1>b. /\ port[h] \in {Server(0), Server(h), Alien} /\ Server(h) # Server(0)
      /\ Alien # Server(0) /\ Alien # Server(h)
      /\ port[h] = Alien => strangers # Strangers
  BY Addresses DEF IInv, Sessions, Others
<1>2. /\ \A g \in Handlers : g # h =>
           port'[g] = port[g] /\ phase'[g] = phase[g] /\ last'[g] = last[g]
      /\ port'[h] \in {Server(0), Server(h), Alien}
      /\ port[h] # Server(0) => port'[h] = port[h]
      /\ port'[h] = Alien => strangers # Strangers
      /\ phase'[h] # "idle"
      /\ phase' \in [Handlers -> {"idle", "relaying", "finished", "timeout", "unknown",
                                  "raised"}]
      /\ last' \in [Handlers -> BOOLEAN]
  <2>1. CASE Raises(d, h)
    BY <1>b, <2>1 DEF IInv, TypeOK, Raises, Strange
  <2>2. CASE Turns(d, h)
    <3>1. port'[h] = PortOf(h, d)
      BY <2>2 DEF IInv, TypeOK, Turns
    <3>2. phase'[h] = IF d.op = "ACK" /\ last[h] THEN "finished" ELSE "relaying"
      BY <2>2 DEF IInv, TypeOK, Turns
    <3>3. last' \in [Handlers -> BOOLEAN]
      BY <2>2 DEF IInv, TypeOK, Turns, IsShort
    <3>4. /\ \A g \in Handlers : g # h =>
               port'[g] = port[g] /\ phase'[g] = phase[g] /\ last'[g] = last[g]
          /\ phase' \in [Handlers -> {"idle", "relaying", "finished", "timeout", "unknown",
                                  "raised"}]
      BY <2>2 DEF IInv, TypeOK, Turns
    <3> QED BY <1>b, <2>2, <3>1, <3>2, <3>3, <3>4 DEF Turns, Strange
  <2> QED BY <1>a, <2>1, <2>2
<1>3. Onward
  <2>1. \A g \in Handlers : server[g] \in Int
    BY Constants DEF IInv, TypeOK
  <2>2. Len(received) \in Nat
    BY DEF IInv, TypeOK
  <2>3. \A g \in Handlers : port[g] # Server(0) => port'[g] = port[g]
    BY <1>2
  <2> QED BY <1>0, <2>1, <2>2, <2>3 DEF Onward
<1>4. Sound'
  <2>1. CASE net' = net \ {d}
    BY <1>3, <2>1, SoundSame
  <2>2. ASSUME NEW a, Forward(d, h, a), Turns(d, h),
               \/ /\ Serving(d, h) /\ PortOf(h, d) = Server(h) /\ a = Client
               \/ /\ Acking(d, h) /\ port[h] = Server(h) /\ a = Server(h)
               \/ /\ Acking(d, h) /\ port[h] = Alien /\ a = Alien
               \/ /\ Strange(d, h) /\ d.op # "SHORT" /\ PortOf(h, d) = Alien /\ a = Client
        PROVE  Sound'
    <3>1. PICK e \in Message :
            /\ e.src = Proxy(h) /\ e.dst = a /\ e.op = d.op
            /\ e.block = d.block /\ e.data = d.data
            /\ net' = (net \ {d}) \cup {e}
      BY <2>2 DEF Forward
    <3>2. port'[h] = PortOf(h, d)
      BY <2>2 DEF Turns, IInv, TypeOK
    <3>3. CASE Serving(d, h) /\ PortOf(h, d) = Server(h) /\ a = Client
      <4>1. Content(e, h)'
        BY <1>0, <3>1, <3>3 DEF Serving, Content
      <4>2. OfThread(e, h)'
        BY <3>1, <3>2, <3>3, <4>1 DEF OfThread, Passing
      <4> QED BY <1>3, <3>1, <4>2, SoundStep
    <3>4. CASE Acking(d, h) /\ a = Server(h)
      <4>1. OfThread(e, h)'
        BY <1>0, <3>1, <3>4 DEF OfThread, Passed, Acking, Acked
      <4> QED BY <1>3, <3>1, <4>1, SoundStep
    <3>5. CASE Acking(d, h) /\ port[h] = Alien /\ a = Alien
      <4>1. port'[h] = Alien
        BY <1>2, <1>b, <3>5
      <4>2. OfThread(e, h)'
        BY <3>1, <3>5, <4>1 DEF OfThread, Astray
      <4> QED BY <1>3, <3>1, <4>2, SoundStep
    <3>6. CASE Strange(d, h) /\ d.op # "SHORT" /\ PortOf(h, d) = Alien /\ a = Client
      <4>1. OfThread(e, h)'
        BY <3>1, <3>2, <3>6 DEF OfThread, Passing, Strange
      <4> QED BY <1>3, <3>1, <4>1, SoundStep
    <3> QED BY <2>2, <3>3, <3>4, <3>5, <3>6
  <2>3. CASE Raises(d, h)
    BY <2>1, <2>3 DEF Raises
  <2>4. CASE Turns(d, h)
    BY <2>1, <2>2, <2>4 DEF Turns
  <2> QED BY <1>a, <2>3, <2>4
<1>5. TypeOK'
  <2>1. \A m \in net' : m.src \in Address /\ m.dst \in Address
    BY <1>4 DEF Sound, Message
  <2>2. port' \in [Handlers -> Address]
    <3>1. /\ \A a \in {Server(0), Server(h), Alien} : a \in Address
          /\ port \in [Handlers -> Address]
      BY Addresses DEF Others, IInv, TypeOK
    <3> QED BY <1>a, <3>1 DEF Raises, Turns
  <2> QED BY <1>0, <1>2, <2>1, <2>2 DEF IInv, TypeOK
<1>6. \A g \in Handlers, m \in net' : Asking(m, g) => m \in net
  <2>1. ASSUME NEW a \in {Client, Server(h), Alien}, Forward(d, h, a)
        PROVE  \A g \in Handlers, m \in net' : Asking(m, g) => m \in net
    <3>1. a # Server(0)
      BY <1>b, Addresses
    <3> QED BY <2>1, <3>1 DEF Forward, Asking
  <2>2. net' = net \ {d} \/ \E a \in {Client, Server(h), Alien} : Forward(d, h, a)
    BY <1>a DEF Raises, Turns
  <2> QED BY <2>1, <2>2
<1>7. ASSUME Whole, strangers = Strangers
      PROVE  /\ last'[h] => server[h] >= Blocks
             /\ phase'[h] = "finished" => peer = h /\ last'[h]
  <2>0. server[h] \in Int /\ d.block \in Int
    BY <1>a, Constants DEF IInv, TypeOK, Message
  <2>1. ~Strange(d, h)
    BY <1>7 DEF Strange
  <2>a. Turns(d, h) /\ (Serving(d, h) \/ Acking(d, h))
    BY <1>a, <1>b, <1>7, <2>1 DEF Raises, Turns
  <2>b. /\ last'[h] = (d.op # "RRQ" /\ (last[h] \/ IsShort(d)))
        /\ phase'[h] = IF d.op = "ACK" /\ last[h] THEN "finished" ELSE "relaying"
    BY <2>a DEF Turns, IInv, TypeOK
  <2>2. IsShort(d) => server[h] >= Blocks
    BY <1>7, <2>0, <2>a, Constants
       DEF IsShort, Whole, Serving, Content, Acking, Acked
  <2>3. last[h] => server[h] >= Blocks
    BY <1>7 DEF IInv, Sessions
  <2>4. d.op = "ACK" => peer = h
    BY <2>a DEF Serving, Content, Acking, Acked
  <2> QED BY <2>2, <2>3, <2>4, <2>b
<1>8. Sessions'
  <2> SUFFICES ASSUME NEW g \in Handlers
               PROVE  /\ port'[g] \in {Server(0), Server(g), Alien}
                      /\ port'[g] = Alien => strangers # Strangers
                      /\ phase'[g] = "idle" =>
                           port'[g] = Server(0) /\ ~last'[g] /\ server[g] = Pending
                      /\ \A m \in net' : Asking(m, g) => server[g] = Pending /\ phase'[g] # "idle"
                      /\ server[g] > 1 /\ answer # "refused" =>
                           peer = g /\ Len(received) >= server[g] - 1
                      /\ Whole /\ strangers = Strangers =>
                           /\ last'[g] => server[g] >= Blocks
                           /\ phase'[g] = "finished" => peer = g /\ last'[g]
    BY <1>0 DEF Sessions, IInv, Whole, Smaller, Asking
  <2>1. CASE g = h
    BY <1>2, <1>6, <1>7, <2>1 DEF IInv, Sessions
  <2>2. CASE g # h
    BY <1>2, <1>6, <2>2 DEF IInv, Sessions
  <2> QED BY <2>1, <2>2
<1>9. Received'
  <2>1. Adopted => Adopted'
    BY <1>0, <1>2, <1>b DEF Adopted, IInv, TypeOK
  <2>2. peer' # 0 => port'[peer'] # Server(0)
    BY <1>0, <1>2 DEF IInv, Received, TypeOK
  <2> QED BY <1>0, <2>1, <2>2 DEF IInv, Received
<1> QED BY <1>4, <1>5, <1>8, <1>9

-----------------------------------------------------------------------------
(* The server.                                                             *)
LEMMA Built ==
  ASSUME NEW a \in Address, NEW b \in Address, NEW op, NEW n \in 0 .. Blocks,
         NEW x \in 0 .. Blocks, op \in {"RRQ", "OACK", "DATA", "ACK", "ERROR", "SHORT"},
         NEW e, e = Datagram(a, b, op, n, x)
  PROVE  /\ e \in Message /\ e.src = a /\ e.dst = b /\ e.op = op
         /\ e.block = n /\ e.data = x
BY DEF Datagram, Message

LEMMA CurrentIs ==
  ASSUME NEW h \in Handlers
  PROVE  /\ \A n \in 0 .. Blocks : \E e \in Message :
              /\ Current(h, n) = {e} /\ e.src = Server(h) /\ e.dst = Proxy(h)
              /\ e.op = IF n = 0 THEN "OACK" ELSE "DATA"
              /\ e.block = n /\ e.data = n
         /\ Current(h, Blocks + 1) = {}
<1> USE Constants
<1>1. Current(h, Blocks + 1) = {}
  BY DEF Current
<1>2. ASSUME NEW n \in 0 .. Blocks
      PROVE  \E e \in Message :
              /\ Current(h, n) = {e} /\ e.src = Server(h) /\ e.dst = Proxy(h)
              /\ e.op = IF n = 0 THEN "OACK" ELSE "DATA"
              /\ e.block = n /\ e.data = n
  <2>1. Server(h) \in Address /\ Proxy(h) \in Address
    BY Addresses
  <2>2. CASE n = 0
    <3> DEFINE e == Datagram(Server(h), Proxy(h), "OACK", 0, Foreign)
    <3>1. Current(h, n) = {e}
      BY <2>2 DEF Current
    <3>2. /\ e \in Message /\ e.src = Server(h) /\ e.dst = Proxy(h) /\ e.op = "OACK"
          /\ e.block = 0 /\ e.data = 0
      BY <2>1, Built
    <3> HIDE DEF e
    <3> QED BY <2>2, <3>1, <3>2
  <2>3. CASE n # 0
    <3> DEFINE e == Datagram(Server(h), Proxy(h), "DATA", n, n)
    <3>1. Current(h, n) = {e}
      BY <2>3 DEF Current
    <3>2. /\ e \in Message /\ e.src = Server(h) /\ e.dst = Proxy(h) /\ e.op = "DATA"
          /\ e.block = n /\ e.data = n
      BY <2>1, Built
    <3> HIDE DEF e
    <3> QED BY <2>3, <3>1, <3>2
  <2> QED BY <2>2, <2>3
<1> QED BY <1>1, <1>2

\* A session is asked once, and begins with the option or the first block
Serves(d, e, n, h) ==
  /\ Asking(d, h) /\ server[h] = Pending /\ server' = [server EXCEPT ![h] = n]
  /\ net' = (net \ {d}) \cup {e} /\ e.src = Server(h) /\ e.dst = Proxy(h)
  /\ \/ answer = "refused" /\ n = Blocks + 1 /\ e.op = "ERROR"
     \/ /\ answer # "refused" /\ n \in {0, 1} /\ e.block = n /\ e.data = n
        /\ e.op = IF n = 0 THEN "OACK" ELSE "DATA"

LEMMA ServeStep ==
  ASSUME IInv, NEW h \in Handlers, Serve(h)
  PROVE  \E d \in net, e \in Message, n \in 0 .. Blocks + 1 : Serves(d, e, n, h)
<1> USE DEF Serves
<1>1. PICK d \in net :
        /\ d.src = Proxy(h) /\ d.dst = Server(0)
        /\ IF answer = "refused"
             THEN /\ server' = [server EXCEPT ![h] = Blocks + 1]
                  /\ net' = (net \ {d}) \cup
                              {Datagram(Server(h), Proxy(h), "ERROR", 0, Foreign)}
             ELSE \E n \in {0, 1} : /\ server' = [server EXCEPT ![h] = n]
                                    /\ net' = (net \ {d}) \cup Current(h, n)
  BY DEF Serve, Deliver
<1>2. Asking(d, h) /\ server[h] = Pending
  <2>1. Asking(d, h)
    BY <1>1, Kinds DEF IInv
  <2> QED BY <2>1 DEF IInv, Sessions
<1>3. CASE answer = "refused"
  <2> DEFINE e == Datagram(Server(h), Proxy(h), "ERROR", 0, Foreign)
  <2>1. /\ e \in Message /\ e.src = Server(h) /\ e.dst = Proxy(h) /\ e.op = "ERROR"
    BY Addresses, Constants, Built
  <2>2. net' = (net \ {d}) \cup {e} /\ server' = [server EXCEPT ![h] = Blocks + 1]
    BY <1>1, <1>3
  <2>3. Blocks + 1 \in 0 .. Blocks + 1
    BY Constants
  <2> HIDE DEF e
  <2> QED BY <1>2, <1>3, <2>1, <2>2, <2>3
<1>4. CASE answer # "refused"
  <2>1. PICK n \in {0, 1} : /\ server' = [server EXCEPT ![h] = n]
                            /\ net' = (net \ {d}) \cup Current(h, n)
    BY <1>1, <1>4
  <2>2. n \in 0 .. Blocks /\ n \in 0 .. Blocks + 1
    BY Constants
  <2>3. PICK e \in Message :
          /\ Current(h, n) = {e} /\ e.src = Server(h) /\ e.dst = Proxy(h)
          /\ e.op = IF n = 0 THEN "OACK" ELSE "DATA"
          /\ e.block = n /\ e.data = n
    BY <2>2, CurrentIs
  <2>4. net' = (net \ {d}) \cup {e}
    BY <2>1, <2>3
  <2> QED BY <1>2, <1>4, <2>1, <2>2, <2>3, <2>4
<1> QED BY <1>3, <1>4

\* The next block is sent once its predecessor is acknowledged
Continues(d, h) ==
  /\ Passed(d, h) /\ d.block \in 0 .. Blocks
  /\ \/ /\ d.block = server[h] /\ d.block < Blocks
        /\ server' = [server EXCEPT ![h] = d.block + 1]
        /\ \E e \in Message :
             /\ net' = (net \ {d}) \cup {e}
             /\ e.src = Server(h) /\ e.dst = Proxy(h) /\ e.op = "DATA"
             /\ e.block = d.block + 1 /\ e.data = d.block + 1
     \/ /\ d.block = server[h] /\ d.block = Blocks
        /\ server' = [server EXCEPT ![h] = d.block + 1] /\ net' = net \ {d}
     \/ d.block # server[h] /\ server' = server /\ net' = net \ {d}

LEMMA ServeNextStep ==
  ASSUME IInv, NEW h \in Handlers, ServeNext(h)
  PROVE  \E d \in net : Continues(d, h)
<1> USE DEF Continues
<1>1. PICK d \in net :
        /\ d.dst = Server(h)
        /\ IF d.block = server[h]
             THEN /\ server' = [server EXCEPT ![h] = server[h] + 1]
                  /\ net' = (net \ {d}) \cup Current(h, d.block + 1)
             ELSE net' = net \ {d} /\ server' = server
  BY DEF ServeNext, Deliver
<1>2. Passed(d, h) /\ d.block \in 0 .. Blocks
  BY <1>1, Kinds DEF IInv, Sound, Message
<1>3. CASE d.block = server[h] /\ d.block < Blocks
  <2>1. d.block + 1 \in 0 .. Blocks /\ d.block + 1 # 0
    BY <1>2, <1>3, Constants
  <2>2. PICK e \in Message :
          /\ Current(h, d.block + 1) = {e} /\ e.src = Server(h) /\ e.dst = Proxy(h)
          /\ e.op = "DATA" /\ e.block = d.block + 1 /\ e.data = d.block + 1
    BY <2>1, CurrentIs
  <2>3. server' = [server EXCEPT ![h] = d.block + 1] /\ net' = (net \ {d}) \cup {e}
    BY <1>1, <1>3, <2>2
  <2> QED BY <1>2, <1>3, <2>2, <2>3
<1>4. CASE d.block = server[h] /\ d.block = Blocks
  <2>1. server' = [server EXCEPT ![h] = d.block + 1] /\ net' = net \ {d}
    BY <1>1, <1>4, CurrentIs
  <2> QED BY <1>2, <1>4, <2>1
<1>5. CASE d.block # server[h]
  BY <1>1, <1>2, <1>5
<1> QED BY <1>2, <1>3, <1>4, <1>5, Constants

LEMMA ServeInv ==
  ASSUME IInv, NEW h \in Handlers, Serve(h)
  PROVE  TypeOK' /\ Sound' /\ Sessions' /\ Received'
<1>0. UNCHANGED <<known, answer, client, peer, received, phase, port, last, repeats,
                  strangers, trouble>>
  BY DEF Serve, env, receiver, threads
<1> USE DEF Serves
<1>1. PICK d \in net, e \in Message, n \in 0 .. Blocks + 1 : Serves(d, e, n, h)
  BY ServeStep
<1>2. /\ \A g \in Handlers : g # h => server'[g] = server[g]
      /\ server'[h] = n /\ n \in Int /\ server' \in [Handlers -> {Pending} \cup 0 .. Blocks + 1]
  BY <1>1, Constants DEF IInv, TypeOK
<1>3. Onward
  <2>1. \A g \in Handlers : server[g] \in Int
    BY Constants DEF IInv, TypeOK
  <2>2. Len(received) \in Nat
    BY DEF IInv, TypeOK
  <2> QED BY <1>0, <1>1, <1>2, <2>1, <2>2 DEF Onward
<1>4. Sound'
  <2>1. Content(e, h)'
    BY <1>0, <1>1, <1>2, Constants DEF Content
  <2>2. OfThread(e, h)'
    BY <1>1, <2>1 DEF OfThread, Serving
  <2> QED BY <1>1, <1>3, <2>2, SoundStep
<1>5. TypeOK'
  <2>1. \A m \in net' : m.src \in Address /\ m.dst \in Address
    BY <1>4 DEF Sound, Message
  <2> QED BY <1>0, <1>2, <2>1 DEF IInv, TypeOK
<1>6. \A g \in Handlers, m \in net' : Asking(m, g) => m \in net /\ g # h
  <2> SUFFICES ASSUME NEW g \in Handlers, NEW m \in net', Asking(m, g)
               PROVE  m \in net /\ g # h
    OBVIOUS
  <2>1. m # e
    BY <1>1, Addresses DEF Asking
  <2>2. m \in net /\ m # d /\ m \in Message /\ d \in Message
    BY <1>1, <2>1 DEF IInv, Sound
  <2>3. CASE g = h
    BY <1>1, <2>2, <2>3, SameMessage DEF Asking
  <2> QED BY <2>2, <2>3
<1>8. Sessions'
  <2> SUFFICES ASSUME NEW g \in Handlers
               PROVE  /\ port[g] \in {Server(0), Server(g), Alien}
                      /\ port[g] = Alien => strangers # Strangers
                      /\ phase[g] = "idle" =>
                           port[g] = Server(0) /\ ~last[g] /\ server'[g] = Pending
                      /\ \A m \in net' : Asking(m, g) => server'[g] = Pending /\ phase[g] # "idle"
                      /\ server'[g] > 1 /\ answer # "refused" =>
                           peer = g /\ Len(received) >= server'[g] - 1
                      /\ Whole /\ strangers = Strangers =>
                           /\ last[g] => server'[g] >= Blocks
                           /\ phase[g] = "finished" => peer = g /\ last[g]
    BY <1>0 DEF Sessions, IInv, Whole, Smaller, Asking
  <2>1. CASE g = h
    <3>1. phase[g] # "idle"
      BY <1>1, <2>1 DEF IInv, Sessions
    <3>2. ~(server'[g] > 1 /\ answer # "refused")
      BY <1>1, <1>2, <2>1
    <3>3. Whole /\ strangers = Strangers => ~last[g]
      BY <1>1, <2>1, Constants DEF IInv, Sessions
    <3> QED BY <1>6, <2>1, <3>1, <3>2, <3>3 DEF IInv, Sessions
  <2>2. CASE g # h
    BY <1>2, <1>6, <2>2 DEF IInv, Sessions
  <2> QED BY <2>1, <2>2
<1>9. Received'
  BY <1>0, AdoptedSame DEF IInv, Received
<1> QED BY <1>4, <1>5, <1>8, <1>9

LEMMA ServeNextInv ==
  ASSUME IInv, NEW h \in Handlers, ServeNext(h)
  PROVE  TypeOK' /\ Sound' /\ Sessions' /\ Received'
<1>0. UNCHANGED <<known, answer, client, peer, received, phase, port, last, repeats,
                  strangers, trouble>>
  BY DEF ServeNext, env, receiver, threads
<1> USE DEF Continues
<1>1. PICK d \in net : Continues(d, h)
  BY ServeNextStep
<1>s. CASE server' = server
  <2>1. net' = net \ {d}
    <3>1. server[h] \in Int
      BY Constants DEF IInv, TypeOK
    <3>2. server' = [server EXCEPT ![h] = d.block + 1] => server'[h] = d.block + 1
      BY DEF IInv, TypeOK
    <3> QED BY <1>1, <1>s, <3>1, <3>2
  <2>2. Sound'
    <3>1. Onward
      BY <1>0, <1>s, SameOnward
    <3> QED BY <2>1, <3>1, SoundSame
  <2>3. TypeOK'
    BY <1>0, <1>s, <2>1 DEF IInv, TypeOK
  <2>4. Sessions'
    BY <1>0, <1>s, <2>1 DEF IInv, Sessions, Whole, Smaller, Asking
  <2>5. Received'
    BY <1>0, AdoptedSame DEF IInv, Received
  <2> QED BY <2>2, <2>3, <2>4, <2>5
<1>n. CASE server' = [server EXCEPT ![h] = d.block + 1] /\ d.block = server[h]
  <2>2. /\ \A g \in Handlers : g # h => server'[g] = server[g]
        /\ server'[h] = d.block + 1 /\ d.block \in Nat /\ d.block + 1 \in 0 .. Blocks + 1
        /\ server' \in [Handlers -> {Pending} \cup 0 .. Blocks + 1]
    BY <1>1, <1>n, Constants DEF IInv, TypeOK
  <2>3. Onward
    <3>1. \A g \in Handlers : server[g] \in Int
      BY Constants DEF IInv, TypeOK
    <3>2. Len(received) \in Nat
      BY DEF IInv, TypeOK
    <3> QED BY <1>0, <1>n, <2>2, <3>1, <3>2 DEF Onward
  <2>4. Sound'
    <3>1. CASE \E e \in Message :
                 /\ net' = (net \ {d}) \cup {e}
                 /\ e.src = Server(h) /\ e.dst = Proxy(h) /\ e.op = "DATA"
                 /\ e.block = d.block + 1 /\ e.data = d.block + 1
      <4>1. PICK e \in Message :
                 /\ net' = (net \ {d}) \cup {e}
                 /\ e.src = Server(h) /\ e.dst = Proxy(h) /\ e.op = "DATA"
                 /\ e.block = d.block + 1 /\ e.data = d.block + 1
        BY <3>1
      <4>2. e.block \in 1 .. Blocks
        BY <2>2, <4>1, Constants DEF Message
      <4>3. Content(e, h)'
        BY <2>2, <4>1, <4>2, Constants DEF Content
      <4>4. OfThread(e, h)'
        BY <4>1, <4>3 DEF OfThread, Serving
      <4> QED BY <2>3, <4>1, <4>4, SoundStep
    <3>2. CASE net' = net \ {d}
      BY <2>3, <3>2, SoundSame
    <3> QED BY <1>1, <1>n, <3>1, <3>2
  <2>5. TypeOK'
    <3>1. \A m \in net' : m.src \in Address /\ m.dst \in Address
      BY <2>4 DEF Sound, Message
    <3> QED BY <1>0, <2>2, <3>1 DEF IInv, TypeOK
  <2>6. \A g \in Handlers, m \in net' : Asking(m, g) => m \in net
    BY <1>1, <1>n, Addresses DEF Asking
  <2>7. Sessions'
    <3> SUFFICES ASSUME NEW g \in Handlers
                 PROVE  /\ port[g] \in {Server(0), Server(g), Alien}
                        /\ port[g] = Alien => strangers # Strangers
                        /\ phase[g] = "idle" =>
                             port[g] = Server(0) /\ ~last[g] /\ server'[g] = Pending
                        /\ \A m \in net' : Asking(m, g) => server'[g] = Pending /\ phase[g] # "idle"
                        /\ server'[g] > 1 /\ answer # "refused" =>
                             peer = g /\ Len(received) >= server'[g] - 1
                        /\ Whole /\ strangers = Strangers =>
                             /\ last[g] => server'[g] >= Blocks
                             /\ phase[g] = "finished" => peer = g /\ last[g]
      BY <1>0 DEF Sessions, IInv, Whole, Smaller, Asking
    <3>1. CASE g = h
      <4>1. server[g] # Pending
        BY <1>n, <2>2, <3>1, Constants
      <4>2. peer = g /\ Len(received) >= server'[g] - 1
        <5>1. Len(received) \in Nat
          BY DEF IInv, TypeOK
        <5> QED BY <1>1, <2>2, <3>1, <5>1 DEF Passed, Acked
      <4>3. Whole /\ strangers = Strangers /\ last[g] => server'[g] >= Blocks
        BY <1>n, <2>2, <3>1, Constants DEF IInv, Sessions
      <4> QED BY <2>6, <3>1, <4>1, <4>2, <4>3 DEF IInv, Sessions
    <3>2. CASE g # h
      BY <2>2, <2>6, <3>2 DEF IInv, Sessions
    <3> QED BY <3>1, <3>2
  <2>8. Received'
    BY <1>0, AdoptedSame DEF IInv, Received
  <2> QED BY <2>4, <2>5, <2>7, <2>8
<1> QED BY <1>1, <1>s, <1>n

-----------------------------------------------------------------------------
(* The network, and others.                                                *)
\* Nothing but the network changes, and no thread asks its server
LEMMA NetInv ==
  ASSUME IInv, UNCHANGED <<known, answer, client, peer, received, phase, port, last, server>>,
         strangers' \in 0 .. Strangers, strangers # Strangers => strangers' # Strangers,
         Sound', \A h \in Handlers, d \in net' : Asking(d, h) => d \in net
  PROVE  TypeOK' /\ Sound' /\ Sessions' /\ Received'
<1>1. \A m \in net' : m.src \in Address /\ m.dst \in Address
  BY DEF Sound, Message
<1>2. TypeOK'
  BY <1>1 DEF IInv, TypeOK
<1>3. Sessions'
  BY DEF IInv, Sessions, Whole, Smaller, Asking
<1>4. Received'
  BY AdoptedSame DEF IInv, Received
<1> QED BY <1>2, <1>3, <1>4

LEMMA FewerStrangers ==
  ASSUME IInv, UNCHANGED <<answer, peer, received, server, port>>,
         strangers # Strangers => strangers' # Strangers
  PROVE  Onward
<1>1. Len(received) \in Nat
  BY DEF IInv, TypeOK
<1>2. \A h \in Handlers : server[h] \in Int
  BY Constants DEF IInv, TypeOK
<1> QED BY <1>1, <1>2 DEF Onward

LEMMA AckIs ==
  ASSUME NEW h \in Handlers, NEW n \in 0 .. Blocks
  PROVE  \E e \in Message : /\ Ack(n, h) = e /\ e.src = Client /\ e.dst = Proxy(h)
                            /\ e.op = "ACK" /\ e.block = n
<1> DEFINE e == Datagram(Client, Proxy(h), "ACK", n, Foreign)
<1>1. Ack(n, h) = e
  BY DEF Ack
<1>2. /\ e \in Message /\ e.src = Client /\ e.dst = Proxy(h)
      /\ e.op = "ACK" /\ e.block = n
  BY Addresses, Constants, Built
<1> HIDE DEF e
<1> QED BY <1>1, <1>2

LEMMA SentAgain ==
  ASSUME IInv, NEW e \in Message, Again({e}),
         e = Request \/ \E h \in Handlers : OfThread(e, h) /\ ~Asking(e, h)
  PROVE  TypeOK' /\ Sound' /\ Sessions' /\ Received'
<1>1. /\ UNCHANGED <<known, answer, client, peer, received, phase, port, last, server, strangers>>
      /\ net' = net \cup {e}
  BY DEF Again, env, receiver, threads
<1>2. Onward
  BY <1>1, FewerStrangers
<1>3. Sound'
  <2>1. \A h : OfThread(e, h)' <=> OfThread(e, h)
    BY <1>1 DEF OfThread, Asking, Serving, Passing, Acking, Passed, Astray, Strange, Content, Acked
  <2> QED BY <1>1, <1>2, <2>1, SoundStep
<1>4. \A h \in Handlers, d \in net' : Asking(d, h) => d \in net
  <2>1. \A h \in Handlers : ~Asking(e, h)
    <3>1. CASE e = Request
      BY <3>1, RequestType, Addresses DEF Asking
    <3>2. ASSUME NEW g \in Handlers, OfThread(e, g), ~Asking(e, g)
          PROVE  \A h \in Handlers : ~Asking(e, h)
      <4>1. \A h \in Handlers : h # 0
        BY Addresses
      <4>2. (e.src = Proxy(g) /\ e.dst \in {Client, Server(g), Alien}) \/ e.src \in {Server(g), Client} \cup Others
        BY <3>2 DEF OfThread, Serving, Passing, Acking, Passed, Astray, Strange, Others
      <4>3. Alien \in Others /\ \A h : Server(0) # Client
        BY Addresses DEF Others
      <4> QED BY <4>1, <4>2, <4>3, Addresses DEF Asking
    <3> QED BY <3>1, <3>2
  <2> QED BY <1>1, <2>1
<1>5. strangers' \in 0 .. Strangers
  BY <1>1 DEF IInv, Sessions
<1> QED BY <1>1, <1>3, <1>4, <1>5, NetInv

LEMMA AgainInv ==
  ASSUME IInv, AskAgain \/ AckAgain \/ \E h \in Handlers : ServeAgain(h)
  PROVE  TypeOK' /\ Sound' /\ Sessions' /\ Received'
<1>1. CASE AskAgain
  BY <1>1, RequestType, SentAgain DEF AskAgain
<1>2. CASE AckAgain
  <2>1. /\ peer \in Handlers /\ Len(received) \in 0 .. Blocks
        /\ Again({Ack(Len(received), peer)})
    BY <1>2 DEF AckAgain, IInv, Received, TypeOK
  <2>2. PICK e \in Message :
          /\ Ack(Len(received), peer) = e /\ e.src = Client /\ e.dst = Proxy(peer)
          /\ e.op = "ACK" /\ e.block = Len(received)
    BY <2>1, AckIs
  <2>3. OfThread(e, peer) /\ ~Asking(e, peer)
    BY <2>1, <2>2 DEF OfThread, Acking, Acked, Asking
  <2> QED BY <2>1, <2>2, <2>3, SentAgain
<1>3. ASSUME NEW h \in Handlers, ServeAgain(h)
      PROVE  TypeOK' /\ Sound' /\ Sessions' /\ Received'
  <2>1. server[h] \in 0 .. Blocks /\ Again(Current(h, server[h]))
    BY <1>3 DEF ServeAgain
  <2>2. PICK e \in Message :
              /\ Current(h, server[h]) = {e} /\ e.src = Server(h) /\ e.dst = Proxy(h)
              /\ e.op = IF server[h] = 0 THEN "OACK" ELSE "DATA"
              /\ e.block = server[h] /\ e.data = server[h]
    BY <2>1, CurrentIs
  <2>3. Content(e, h)
    BY <2>1, <2>2, Constants DEF Content
  <2>4. OfThread(e, h) /\ ~Asking(e, h)
    BY <2>2, <2>3 DEF OfThread, Serving, Asking
  <2>5. Again({e})
    BY <2>1, <2>2
  <2> QED BY <2>2, <2>4, <2>5, SentAgain
<1> QED BY <1>1, <1>2, <1>3

LEMMA LoseInv ==
  ASSUME IInv, Lose
  PROVE  TypeOK' /\ Sound' /\ Sessions' /\ Received'
<1>1. /\ UNCHANGED <<known, answer, client, peer, received, phase, port, last, server, strangers>>
      /\ net' \subseteq net
  BY DEF Lose, Deliver, env, receiver, threads
<1>2. Sound'
  BY <1>1, FewerStrangers, SoundSame
<1>3. strangers' \in 0 .. Strangers
  BY <1>1 DEF IInv, Sessions
<1> QED BY <1>1, <1>2, <1>3, NetInv

LEMMA StrangerInv ==
  ASSUME IInv, NEW h \in Handlers, Stranger(h)
  PROVE  TypeOK' /\ Sound' /\ Sessions' /\ Received'
<1>1. /\ UNCHANGED <<known, answer, client, peer, received, phase, port, last, server>>
      /\ strangers > 0 /\ strangers' = strangers - 1
  BY DEF Stranger, env, receiver, threads
<1>2. PICK src \in Others, op \in {"DATA", "ACK", "RRQ", "SHORT"}, n \in 0 .. Blocks :
        /\ op = "DATA" <=> n # 0
        /\ net' = net \cup {Datagram(src, Proxy(h), op, n, Foreign)}
  BY Constants DEF Stranger, Others
<1> DEFINE e == Datagram(src, Proxy(h), op, n, Foreign)
<1>3. /\ e \in Message /\ e.src = src /\ e.dst = Proxy(h) /\ e.op = op /\ e.block = n
  BY Addresses, Constants, Built
<1>4. net' = net \cup {e}
  BY <1>2
<1> HIDE DEF e
<1>5. strangers' \in 0 .. Strangers /\ strangers' # Strangers
  BY <1>1, Constants DEF IInv, Sessions
<1>6. OfThread(e, h)'
  BY <1>2, <1>3, <1>5 DEF OfThread, Strange, Others
<1>7. Sound'
  <2>1. Onward
    BY <1>1, <1>5, FewerStrangers
  <2> QED BY <1>3, <1>4, <1>6, <2>1, SoundStep
<1>8. \A g \in Handlers, d \in net' : Asking(d, g) => d \in net
  BY <1>3, <1>4, Addresses DEF Asking
<1> QED BY <1>1, <1>5, <1>7, <1>8, NetInv

-----------------------------------------------------------------------------
(* The client.                                                             *)
\* What it does with a datagram: nothing, or it acknowledges the option, the
\* next block or the last one, or it is gone
Hears(d, h) ==
  /\ d \in Message /\ Passing(d, h)
  /\ \/ /\ net' = net \ {d} /\ UNCHANGED <<client, peer, received>>
        /\ client = "gone" \/ peer \notin {0, h} \/ d.op \in {"RRQ", "ACK"}
     \/ /\ client # "gone" /\ peer \in {0, h} /\ peer' = h
        /\ d.op = "ERROR" /\ net' = net \ {d} /\ received' = received
        /\ client' = IF client = "complete" THEN client ELSE "gone"
     \/ /\ client # "gone" /\ peer \in {0, h} /\ peer' = h
        /\ \E e \in Message : /\ e.src = Client /\ e.dst = Proxy(h) /\ e.op = "ACK"
                              /\ e.block = d.block /\ net' = (net \ {d}) \cup {e}
        /\ \/ /\ d.op = "OACK" /\ Len(received) = 0
              /\ client' = "receiving" /\ received' = received
           \/ /\ d.op = "DATA" /\ d.block = Len(received) + 1
              /\ received' = Append(received, d.data)
              /\ client' = IF d.block = Blocks THEN "complete" ELSE "receiving"
           \/ /\ d.op = "DATA" /\ d.block = Len(received)
              /\ UNCHANGED <<client, received>>

LEMMA HearStep ==
  ASSUME IInv, Hear
  PROVE  \E d \in net, h \in Handlers : Hears(d, h)
<1> USE DEF Hears
<1>1. PICK d \in net :
        /\ d.dst = Client
        /\ IF /\ client # "gone" /\ peer \in {0, d.src[2]}
              /\ d.op \notin {"RRQ", "ACK"}
             THEN peer' = d.src[2] /\ Accept(d)
             ELSE net' = net \ {d} /\ UNCHANGED <<client, peer, received>>
  BY DEF Hear, Deliver, receiver
<1>2. d \in Message
  BY DEF IInv, Sound
<1>3. PICK h \in Handlers : Passing(d, h) /\ d.src[2] = h
  BY <1>1, Kinds DEF IInv
<1>4. Len(received) \in Nat /\ d.block \in 0 .. Blocks
  BY <1>2 DEF IInv, TypeOK, Message
<1>5. CASE ~(client # "gone" /\ peer \in {0, h} /\ d.op \notin {"RRQ", "ACK"})
  BY <1>1, <1>2, <1>3, <1>5
<1>6. CASE client # "gone" /\ peer \in {0, h} /\ d.op \notin {"RRQ", "ACK"}
  <2>1. peer' = h /\ Accept(d)
    BY <1>1, <1>3, <1>6
  <2>2. PICK e \in Message : /\ Ack(d.block, h) = e /\ e.src = Client /\ e.dst = Proxy(h)
                             /\ e.op = "ACK" /\ e.block = d.block
    BY <1>4, AckIs
  <2>3. d.op = "OACK" => d.block = 0
    BY <1>3 DEF Passing, Content
  <2>4. CASE /\ d.op = "OACK" /\ Expected = 1
             /\ client' = "receiving" /\ received' = received
             /\ net' = (net \ {d}) \cup {Ack(0, peer')}
    <3>1. d.block = 0 /\ Len(received) = 0
      BY <1>4, <2>3, <2>4 DEF Expected
    <3>2. net' = (net \ {d}) \cup {e}
      BY <2>1, <2>2, <2>4, <3>1
    <3> QED BY <1>2, <1>3, <1>6, <2>1, <2>2, <2>4, <3>1, <3>2
  <2>5. CASE /\ d.op = "DATA" /\ d.block = Expected
             /\ received' = Append(received, d.data)
             /\ client' = IF d.block = Blocks THEN "complete" ELSE "receiving"
             /\ net' = (net \ {d}) \cup {Ack(d.block, peer')}
    <3>1. d.block = Len(received) + 1
      BY <2>5 DEF Expected
    <3>2. net' = (net \ {d}) \cup {e}
      BY <2>1, <2>2, <2>5
    <3> QED BY <1>2, <1>3, <1>6, <2>1, <2>2, <2>5, <3>1, <3>2
  <2>6. CASE /\ d.op = "DATA" /\ d.block = Expected - 1
             /\ net' = (net \ {d}) \cup {Ack(d.block, peer')} /\ UNCHANGED <<client, received>>
    <3>1. d.block = Len(received)
      BY <1>4, <2>6 DEF Expected
    <3>2. net' = (net \ {d}) \cup {e}
      BY <2>1, <2>2, <2>6
    <3> QED BY <1>2, <1>3, <1>6, <2>1, <2>2, <2>6, <3>1, <3>2
  <2>7. CASE /\ d.op = "ERROR" /\ net' = net \ {d} /\ received' = received
             /\ client' = IF client = "complete" THEN client ELSE "gone"
    BY <1>2, <1>3, <1>6, <2>1, <2>7
  <2>8. Deliver(d, {}) => net' = net \ {d}
    BY DEF Deliver
  <2> QED BY <2>1, <2>4, <2>5, <2>6, <2>7, <2>8 DEF Accept, Deliver
<1> QED BY <1>5, <1>6

LEMMA HearInv ==
  ASSUME IInv, Hear
  PROVE  TypeOK' /\ Sound' /\ Sessions' /\ Received'
<1>0. UNCHANGED <<known, answer, phase, port, last, server, repeats, strangers, trouble>>
  BY DEF Hear, env, threads
<1> USE DEF Hears
<1>1. PICK d \in net, h \in Handlers : Hears(d, h)
  BY HearStep
<1>2. /\ received \in Seq(0 .. Blocks) /\ Len(received) \in Nat
      /\ d.block \in 0 .. Blocks /\ d.data \in 0 .. Blocks
      /\ port[h] \in {Server(h), Alien}
      /\ port[h] = Server(h) /\ d.op = "DATA" => d.data = d.block
      /\ d.op = "OACK" => d.block = 0
      /\ Server(h) # Server(0) /\ Alien # Server(0)
  BY <1>1, Addresses DEF IInv, TypeOK, Message, Passing, Content, Others
<1>3. /\ received' \in Seq(0 .. Blocks) /\ Len(received') \in Nat
      /\ Len(received) <= Len(received')
      /\ received' = received \/ /\ received' = Append(received, d.data)
                                 /\ d.block = Len(received) + 1
                                 /\ Len(received') = d.block
                                 /\ d.op = "DATA" /\ peer' = h
  <2>1. received' = received \/ (received' = Append(received, d.data)
                                   /\ d.block = Len(received) + 1
                                   /\ d.op = "DATA" /\ peer' = h)
    BY <1>1
  <2>2. /\ Append(received, d.data) \in Seq(0 .. Blocks)
        /\ Len(Append(received, d.data)) = Len(received) + 1
    BY <1>2, AppendProperties
  <2>3. CASE received' = received
    BY <1>2, <2>3
  <2>4. CASE /\ received' = Append(received, d.data) /\ d.block = Len(received) + 1
             /\ d.op = "DATA" /\ peer' = h
    BY <1>2, <2>2, <2>4
  <2> QED BY <2>1, <2>3, <2>4
<1>4. peer' = peer \/ (peer \in {0, h} /\ peer' = h)
  BY <1>1
<1>5. Onward
  <2>1. \A g \in Handlers : server[g] \in Int
    BY Constants DEF IInv, TypeOK
  <2> QED BY <1>0, <1>3, <1>4, <2>1 DEF Onward
<1>6. d.op = "OACK" => d.block = 0
  BY <1>2
<1>7. Sound'
  <2>1. CASE net' = net \ {d}
    BY <1>5, <2>1, SoundSame
  <2>2. CASE /\ peer' = h
             /\ \E e \in Message : /\ e.src = Client /\ e.dst = Proxy(h) /\ e.op = "ACK"
                                   /\ e.block = d.block /\ net' = (net \ {d}) \cup {e}
             /\ d.block <= Len(received')
    <3>1. PICK e \in Message : /\ e.src = Client /\ e.dst = Proxy(h) /\ e.op = "ACK"
                               /\ e.block = d.block /\ net' = (net \ {d}) \cup {e}
      BY <2>2
    <3>2. OfThread(e, h)'
      BY <2>2, <3>1 DEF OfThread, Acking, Acked
    <3> QED BY <1>5, <3>1, <3>2, SoundStep
  <2>3. net' = net \ {d} \/ d.block <= Len(received')
    BY <1>1, <1>2, <1>3, <1>6
  <2> QED BY <1>1, <2>1, <2>2, <2>3
<1>8. TypeOK'
  <2>1. \A m \in net' : m.src \in Address /\ m.dst \in Address
    BY <1>7 DEF Sound, Message
  <2>2. client' \in {"asked", "receiving", "complete", "gone"} /\ peer' \in Handlers \cup {0}
    BY <1>1 DEF IInv, TypeOK
  <2> QED BY <1>0, <1>3, <2>1, <2>2 DEF IInv, TypeOK
<1>9. \A g \in Handlers, m \in net' : Asking(m, g) => m \in net
  BY <1>1, Addresses DEF Asking
<1>10. Sessions'
  <2> SUFFICES ASSUME NEW g \in Handlers
               PROVE  /\ port[g] \in {Server(0), Server(g), Alien}
                      /\ port[g] = Alien => strangers # Strangers
                      /\ phase[g] = "idle" =>
                           port[g] = Server(0) /\ ~last[g] /\ server[g] = Pending
                      /\ \A m \in net' : Asking(m, g) => server[g] = Pending /\ phase[g] # "idle"
                      /\ server[g] > 1 /\ answer # "refused" =>
                           peer' = g /\ Len(received') >= server[g] - 1
                      /\ Whole /\ strangers = Strangers =>
                           /\ last[g] => server[g] >= Blocks
                           /\ phase[g] = "finished" => peer' = g /\ last[g]
    BY <1>0 DEF Sessions, IInv, Whole, Smaller, Asking
  <2>1. peer = g => peer' = g
    BY <1>4, Addresses
  <2>2. server[g] \in Int
    BY Constants DEF IInv, TypeOK
  <2> QED BY <1>2, <1>3, <1>9, <2>1, <2>2 DEF IInv, Sessions
<1>11. Received'
  <2>a. Adopted => Adopted'
    BY <1>0, <1>4, Addresses DEF Adopted
  <2>b. peer' = h /\ port[h] = Alien => Adopted'
    BY <1>0, Addresses DEF Adopted
  <2>1. /\ Len(received') <= Blocks
        /\ Adopted' \/ \A i \in 1 .. Len(received') : received'[i] = i
    <3>1. CASE received' = received
      BY <2>a, <3>1 DEF IInv, Received
    <3>2. CASE /\ received' = Append(received, d.data) /\ d.block = Len(received) + 1
               /\ d.op = "DATA" /\ peer' = h
      <4>1. Len(received') <= Blocks
        BY <1>2, <1>3, <3>2
      <4>2. ASSUME ~Adopted' PROVE \A i \in 1 .. Len(received') : received'[i] = i
        <5>1. d.data = d.block /\ ~Adopted
          BY <1>2, <2>a, <2>b, <3>2, <4>2
        <5>2. \A i \in 1 .. Len(received) : received[i] = i
          BY <5>1 DEF IInv, Received
        <5> QED BY <1>2, <3>2, <5>1, <5>2
      <4> QED BY <4>1, <4>2
    <3> QED BY <1>3, <3>1, <3>2
  <2>2. client' = "complete" <=> Len(received') = Blocks
    <3>1. client = "complete" <=> Len(received) = Blocks
      BY DEF IInv, Received
    <3>2. CASE received' = Append(received, d.data) /\ d.block = Len(received) + 1
      <4>1. client' = IF d.block = Blocks THEN "complete" ELSE "receiving"
        BY <1>1, <1>2, <3>2
      <4> QED BY <1>2, <1>3, <3>2, <4>1
    <3>3. CASE received' = received
      <4>1. ~(received' = Append(received, d.data))
        BY <1>2, <3>3
      <4>2. \/ client' = client
            \/ client' = "gone" /\ client # "complete"
            \/ client' = "receiving" /\ Len(received) = 0
        BY <1>1, <4>1
      <4> QED BY <3>1, <3>3, <4>2, Constants
    <3> QED BY <1>3, <3>2, <3>3
  <2>3. client' = "receiving" => peer' # 0
    BY <1>1, Addresses DEF IInv, Received
  <2>4. peer' # 0 => port[peer'] # Server(0)
    BY <1>2, <1>4 DEF IInv, Received
  <2> QED BY <1>0, <2>1, <2>2, <2>3, <2>4 DEF Received
<1> QED BY <1>7, <1>8, <1>10, <1>11

-----------------------------------------------------------------------------
(* The one datagram when nothing is lost.                                  *)
\* The thread h and the datagram e that is left say it all
LEMMA Replaced ==
  ASSUME NEW h \in Handlers, NEW e, net' = {e}, client' # "gone",
         \A g \in Handlers : g # h => phase'[g] = "idle",
         phase'[h] = "finished" => client' = "complete",
         \/ /\ e.src = Proxy(h) /\ e.dst = Server(0)
            /\ received' = <<>> /\ phase'[h] = "relaying" /\ ~last'[h]
         \/ /\ e.src = Server(h) /\ e.dst = Proxy(h) /\ phase'[h] = "relaying"
            /\ server'[h] = e.block /\ ~last'[h]
            /\ Len(received') = IF e.op = "DATA" THEN e.block - 1 ELSE 0
         \/ /\ e.src = Proxy(h) /\ e.dst = Client /\ phase'[h] = "relaying"
            /\ server'[h] = e.block /\ (last'[h] <=> e.block = Blocks)
            /\ Len(received') = IF e.op = "DATA" THEN e.block - 1 ELSE 0
         \/ /\ e.src = Client /\ e.dst = Proxy(h) /\ phase'[h] = "relaying"
            /\ server'[h] = e.block /\ (last'[h] <=> e.block = Blocks)
            /\ Len(received') = e.block
         \/ /\ e.src = Proxy(h) /\ e.dst = Server(h)
            /\ phase'[h] = IF e.block = Blocks THEN "finished" ELSE "relaying"
            /\ server'[h] = e.block /\ (last'[h] <=> e.block = Blocks)
            /\ Len(received') = e.block
  PROVE  Calm'
<1>1. /\ \A g : Asking(e, g)' => e.src = Proxy(g) /\ e.dst = Server(0)
      /\ \A g : Serving(e, g)' => e.src = Server(g) /\ e.dst = Proxy(g)
      /\ \A g : Passing(e, g)' => e.src = Proxy(g) /\ e.dst = Client
      /\ \A g : Acking(e, g)' => e.src = Client /\ e.dst = Proxy(g)
      /\ \A g : Passed(e, g)' => e.src = Proxy(g) /\ e.dst = Server(g)
  BY DEF Asking, Serving, Passing, Acking, Passed
<1>2. Server(0) # Server(h) /\ Proxy(0) # Proxy(h)
  BY Addresses
<1>3. Token(e, h)'
  BY <1>1, <1>2, Addresses DEF Token
<1>4. ASSUME NEW g \in Handlers, g # h PROVE Token(e, g)'
  <2>1. /\ ~Asking(e, g)' /\ ~Serving(e, g)' /\ ~Passing(e, g)' /\ ~Acking(e, g)'
        /\ ~Passed(e, g)'
    BY <1>1, <1>4, Addresses
  <2> QED BY <2>1 DEF Token
<1>5. e # Request
  BY <1>2, RequestType, Addresses
<1>6. UnderWay(h)'
  BY DEF UnderWay
<1>7. phase'[h] \in {"relaying", "finished"}
  OBVIOUS
<1> QED BY <1>3, <1>4, <1>5, <1>6, <1>7 DEF Calm

LEMMA Emptied ==
  ASSUME NEW h \in Handlers, net' = {}, client' # "gone",
         \A g \in Handlers : g # h => phase'[g] = "idle",
         phase'[h] = "unknown" \/ (phase'[h] = "finished" /\ client' = "complete")
  PROVE  Calm'
BY DEF Calm

LEMMA OneLeft ==
  ASSUME Calm, NEW d \in net
  PROVE  /\ net = {d} /\ client # "gone"
         /\ \A h \in Handlers : phase[h] # "idle" =>
              \A g \in Handlers : g # h => phase[g] = "idle"
         /\ \A h \in Handlers : Token(d, h)
BY DEF Calm

LEMMA StartQuiet ==
  ASSUME IInv, NEW h \in Handlers, Start(h) PROVE Quiet'
<1>0. UNCHANGED <<known, answer, client, peer, received, port, last, server,
                  repeats, strangers, trouble>>
  BY DEF Start, env, receiver
<1> SUFFICES ASSUME ~trouble, Whole PROVE Calm'
  BY <1>0 DEF IInv, Quiet, Whole, Smaller
<1>1. Calm /\ Request \in net
  BY DEF IInv, Quiet, Start
<1>2. net = {Request} /\ received = <<>> /\ client # "gone"
      /\ \A g \in Handlers : phase[g] = "idle"
  BY <1>1, OneLeft DEF Calm
<1>3. /\ \A g \in Handlers : g # h => phase'[g] = "idle"
      /\ phase'[h] = IF known THEN "relaying" ELSE "unknown"
  BY <1>2 DEF Start, IInv, TypeOK
<1>4. CASE known
  <2> DEFINE e == [Request EXCEPT !.src = Proxy(h), !.dst = Server(0)]
  <2>1. net' = {e}
    BY <1>2, <1>4 DEF Start, Deliver
  <2>2. e.src = Proxy(h) /\ e.dst = Server(0)
    BY RequestType DEF Message
  <2>3. ~last[h]
    BY <1>2 DEF IInv, Sessions
  <2> HIDE DEF e
  <2> QED BY <1>0, <1>2, <1>3, <1>4, <2>1, <2>2, <2>3, Replaced
<1>5. CASE ~known
  <2>1. net' = {}
    BY <1>2, <1>5 DEF Start, Deliver
  <2> QED BY <1>0, <1>2, <1>3, <1>5, <2>1, Emptied
<1> QED BY <1>4, <1>5

LEMMA ServeQuiet ==
  ASSUME IInv, NEW h \in Handlers, Serve(h) PROVE Quiet'
<1>0. UNCHANGED <<known, answer, client, peer, received, phase, port, last, repeats,
                  strangers, trouble>>
  BY DEF Serve, env, receiver, threads
<1> SUFFICES ASSUME ~trouble, Whole PROVE Calm'
  BY <1>0 DEF IInv, Quiet, Whole, Smaller
<1> USE DEF Serves
<1>1. PICK d \in net, e \in Message, n \in 0 .. Blocks + 1 : Serves(d, e, n, h)
  BY ServeStep
<1>2. /\ net = {d} /\ client # "gone"
      /\ received = <<>> /\ phase[h] = "relaying" /\ ~last[h]
  BY <1>1, OneLeft DEF IInv, Quiet, Token
<1>3. \A g \in Handlers : g # h => phase[g] = "idle"
  BY <1>1, <1>2, OneLeft DEF IInv, Quiet
<1>4. /\ n \in {0, 1} /\ e.block = n /\ e.op = IF n = 0 THEN "OACK" ELSE "DATA"
      /\ net' = {e} /\ server'[h] = n
  BY <1>1, <1>2 DEF Whole, IInv, TypeOK
<1>5. Len(received') = IF e.op = "DATA" THEN e.block - 1 ELSE 0
  BY <1>0, <1>2, <1>4
<1> QED BY <1>0, <1>1, <1>2, <1>3, <1>4, <1>5, Replaced

LEMMA ServeNextQuiet ==
  ASSUME IInv, NEW h \in Handlers, ServeNext(h) PROVE Quiet'
<1>0. UNCHANGED <<known, answer, client, peer, received, phase, port, last, repeats,
                  strangers, trouble>>
  BY DEF ServeNext, env, receiver, threads
<1> SUFFICES ASSUME ~trouble, Whole PROVE Calm'
  BY <1>0 DEF IInv, Quiet, Whole, Smaller
<1> USE DEF Continues
<1>1. PICK d \in net : Continues(d, h)
  BY ServeNextStep
<1>2. /\ net = {d} /\ client # "gone" /\ Len(received) = d.block /\ server[h] = d.block
      /\ phase[h] = IF d.block = Blocks THEN "finished" ELSE "relaying"
      /\ last[h] <=> d.block = Blocks
  BY <1>1, OneLeft DEF IInv, Quiet, Token
<1>3. \A g \in Handlers : g # h => phase[g] = "idle"
  BY <1>1, <1>2, OneLeft DEF IInv, Quiet
<1>4. CASE d.block < Blocks
  <2>1. PICK e \in Message :
          /\ server' = [server EXCEPT ![h] = d.block + 1] /\ net' = (net \ {d}) \cup {e}
          /\ e.src = Server(h) /\ e.dst = Proxy(h) /\ e.op = "DATA"
          /\ e.block = d.block + 1
    BY <1>1, <1>2, <1>4
  <2>2. net' = {e} /\ server'[h] = e.block
    BY <1>2, <2>1 DEF IInv, TypeOK
  <2>3. phase[h] = "relaying" /\ ~last[h] /\ Len(received) = e.block - 1
    BY <1>1, <1>2, <1>4, <2>1, Constants
  <2> QED BY <1>0, <1>2, <1>3, <2>1, <2>2, <2>3, Replaced
<1>5. CASE d.block = Blocks
  <2>1. net' = {}
    BY <1>1, <1>2, <1>5
  <2>2. phase[h] = "finished" /\ client = "complete"
    BY <1>2, <1>5 DEF IInv, Received
  <2> QED BY <1>0, <1>2, <1>3, <2>1, <2>2, Emptied
<1> QED BY <1>1, <1>4, <1>5, Constants

LEMMA RelayQuiet ==
  ASSUME IInv, NEW h \in Handlers, Relay(h) PROVE Quiet'
<1>0. UNCHANGED <<known, answer, client, peer, received, server, repeats, strangers, trouble>>
  BY DEF Relay, env, receiver
<1> SUFFICES ASSUME ~trouble, Whole PROVE Calm'
  BY <1>0 DEF IInv, Quiet, Whole, Smaller
<1>1. PICK d \in net : Relays(d, h)
  BY RelayStep
<1>2. /\ net = {d} /\ client # "gone" /\ Token(d, h)
      /\ \A g \in Handlers : g # h => phase[g] = "idle"
  BY <1>1, OneLeft DEF IInv, Quiet, Relays
<1>a. d \in Message /\ phase[h] = "relaying" /\ (Raises(d, h) \/ Turns(d, h))
  BY <1>1 DEF Relays
<1>4. ~Strange(d, h) /\ port[h] # Alien /\ d.block \in Int
  BY <1>a DEF IInv, Quiet, Sessions, Strange, Message
<1>b. /\ Turns(d, h)
      /\ \/ Serving(d, h) /\ Forward(d, h, Client)
         \/ Acking(d, h) /\ Forward(d, h, Server(h))
  BY <1>a, <1>4 DEF Raises, Turns
<1>3. /\ \A g \in Handlers : g # h => phase'[g] = "idle"
      /\ phase'[h] = IF d.op = "ACK" /\ last[h] THEN "finished" ELSE "relaying"
      /\ last'[h] = (d.op # "RRQ" /\ (last[h] \/ IsShort(d)))
  BY <1>2, <1>b DEF Turns, IInv, TypeOK
<1>5. CASE Serving(d, h)
  <2>1. PICK e \in Message :
          /\ e.src = Proxy(h) /\ e.dst = Client /\ e.op = d.op
          /\ e.block = d.block /\ net' = (net \ {d}) \cup {e}
    BY <1>b, <1>5, Addresses DEF Serving, Acking, Forward
  <2>2. d.op \in {"OACK", "DATA"} /\ (d.op = "OACK" => d.block = 0)
        /\ (d.op = "DATA" => d.data = d.block /\ d.block # 0)
    BY <1>5 DEF Serving, Content, Whole
  <2>3. IsShort(d) <=> d.block = Blocks
    BY <2>2, Constants DEF IsShort, Whole
  <2>4. /\ server[h] = d.block /\ ~last[h]
        /\ Len(received) = IF d.op = "DATA" THEN d.block - 1 ELSE 0
    BY <1>2, <1>5 DEF Token
  <2>5. phase'[h] = "relaying" /\ (last'[h] <=> e.block = Blocks)
    BY <1>3, <2>1, <2>2, <2>3, <2>4
  <2>6. net' = {e}
    BY <1>2, <2>1
  <2>7. server'[h] = e.block /\ Len(received') = IF e.op = "DATA" THEN e.block - 1 ELSE 0
    BY <1>0, <2>1, <2>4
  <2> QED BY <1>0, <1>2, <1>3, <2>1, <2>5, <2>6, <2>7, Replaced
<1>6. CASE Acking(d, h)
  <2>1. PICK e \in Message :
          /\ e.src = Proxy(h) /\ e.dst = Server(h) /\ e.op = d.op
          /\ e.block = d.block /\ net' = (net \ {d}) \cup {e}
    BY <1>b, <1>6, Addresses DEF Serving, Acking, Forward
  <2>2. /\ Len(received) = d.block /\ server[h] = d.block
        /\ last[h] <=> d.block = Blocks
    BY <1>2, <1>6 DEF Token
  <2>3. d.op = "ACK" /\ ~IsShort(d)
    BY <1>6 DEF Acking, Acked, IsShort
  <2>4. /\ phase'[h] = IF e.block = Blocks THEN "finished" ELSE "relaying"
        /\ last'[h] <=> e.block = Blocks
    BY <1>3, <2>1, <2>2, <2>3
  <2>5. d.block = Blocks => client = "complete"
    BY <2>2 DEF IInv, Received
  <2>6. net' = {e}
    BY <1>2, <2>1
  <2>7. phase'[h] = "finished" => client' = "complete"
    BY <1>0, <2>1, <2>4, <2>5
  <2>8. server'[h] = e.block /\ Len(received') = e.block
    BY <1>0, <2>1, <2>2
  <2> QED BY <1>0, <1>2, <1>3, <2>1, <2>4, <2>6, <2>7, <2>8, Replaced
<1> QED BY <1>b, <1>5, <1>6

LEMMA HearQuiet ==
  ASSUME IInv, Hear PROVE Quiet'
<1>0. UNCHANGED <<known, answer, phase, port, last, server, repeats, strangers, trouble>>
  BY DEF Hear, env, threads
<1> SUFFICES ASSUME ~trouble, Whole PROVE Calm'
  BY <1>0 DEF IInv, Quiet, Whole, Smaller
<1> USE DEF Hears
<1>1. PICK d \in net, h \in Handlers : Hears(d, h)
  BY HearStep
<1>2. /\ net = {d} /\ client # "gone" /\ Token(d, h)
  BY <1>1, OneLeft DEF IInv, Quiet
<1>3. /\ phase[h] = "relaying" /\ server[h] = d.block /\ (last[h] <=> d.block = Blocks)
      /\ Len(received) = IF d.op = "DATA" THEN d.block - 1 ELSE 0
  BY <1>1, <1>2 DEF Token
<1>4. \A g \in Handlers : g # h => phase[g] = "idle"
  BY <1>2, <1>3, OneLeft DEF IInv, Quiet
<1>5. peer \in {0, h}
  <2>1. SUFFICES ASSUME peer # 0 PROVE peer = h
    OBVIOUS
  <2>2. peer \in Handlers /\ port[peer] # Server(0)
    BY <2>1, Addresses DEF IInv, TypeOK, Received
  <2>3. phase[peer] # "idle"
    BY <2>2 DEF IInv, Sessions
  <2> QED BY <1>4, <2>2, <2>3
<1>6. /\ Content(d, h) /\ d.op \notin {"ERROR", "RRQ", "ACK"} /\ d.block \in Nat
      /\ d.op = "DATA" => d.data = d.block
      /\ d.op = "OACK" => d.block = 0
      /\ received \in Seq(0 .. Blocks) /\ d.block \in 0 .. Blocks
  <2>1. port[h] # Alien
    BY DEF IInv, Quiet, Sessions
  <2> QED BY <1>1, <2>1 DEF Passing, Content, Whole, Message, IInv, TypeOK
<1>7. PICK e \in Message : /\ e.src = Client /\ e.dst = Proxy(h) /\ e.op = "ACK"
                           /\ e.block = d.block /\ net' = (net \ {d}) \cup {e}
  BY <1>1, <1>2, <1>5, <1>6
<1>8. \/ d.op = "OACK" /\ received' = received /\ client' = "receiving"
      \/ /\ d.op = "DATA" /\ received' = Append(received, d.block)
         /\ client' = IF d.block = Blocks THEN "complete" ELSE "receiving"
  BY <1>1, <1>2, <1>3, <1>5, <1>6
<1>9. Len(received') = d.block
  <2>1. Len(Append(received, d.block)) = Len(received) + 1
    BY <1>6, AppendProperties
  <2> QED BY <1>3, <1>6, <1>8, <2>1
<1>10. net' = {e} /\ client' # "gone"
  BY <1>2, <1>7, <1>8
<1> QED BY <1>0, <1>3, <1>4, <1>7, <1>9, <1>10, Replaced

\* A thread hears nothing only if there is nothing under way
LEMMA TimeoutQuiet ==
  ASSUME IInv, NEW h \in Handlers, Timeout(h) PROVE Quiet'
<1>1. /\ phase[h] = "relaying" /\ trouble' = (trouble \/ UnderWay(h))
      /\ UNCHANGED <<answer, strangers>>
  BY DEF Timeout, env
<1>2. Whole' = Whole
  BY <1>1 DEF Whole, Smaller
<1>3. ~trouble /\ Whole => UnderWay(h)
  BY <1>1 DEF IInv, Quiet, Calm
<1> QED BY <1>1, <1>2, <1>3 DEF IInv, Quiet

-----------------------------------------------------------------------------
LEMMA InitInv == Init => IInv
<1> SUFFICES ASSUME Init PROVE IInv
  OBVIOUS
<1>1. Request \in Message /\ Request.src = Client
  BY RequestType
<1>2. TypeOK
  <2>1. \A d \in net : d.src \in Address /\ d.dst \in Address
    BY <1>1 DEF Init, Message
  <2>2. received \in Seq(0 .. Blocks) /\ Server(0) \in Address /\ Pending \in {Pending}
    BY Addresses DEF Init
  <2> QED BY <2>1, <2>2 DEF Init, TypeOK
<1>3. Sound
  BY <1>1 DEF Init, Sound
<1>4. Sessions
  <2>1. \A d \in net, h \in Handlers : ~Asking(d, h)
    BY <1>1, Addresses DEF Init, Asking
  <2>2. strangers \in 0 .. Strangers
    BY Constants DEF Init
  <2>3. \A h \in Handlers : /\ port[h] = Server(0) /\ port[h] # Alien /\ ~last[h] /\ server[h] = -1
                            /\ phase[h] = "idle"
    BY Constants, Addresses DEF Init, Others
  <2> QED BY <2>1, <2>2, <2>3, Constants DEF Sessions
<1>5. Received
  BY Constants DEF Init, Received
<1>6. Quiet
  <2>1. \A d \in net, h \in Handlers : Token(d, h)
    <3> SUFFICES ASSUME NEW h \in Handlers PROVE Token(Request, h)
      BY DEF Init
    <3>1. Request.src = Client /\ Request.dst = Proxy(0) /\ Proxy(0) # Proxy(h)
      BY RequestType, Addresses
    <3>2. /\ ~Asking(Request, h) /\ ~Serving(Request, h) /\ ~Passing(Request, h)
          /\ ~Acking(Request, h) /\ ~Passed(Request, h)
      BY <3>1, Addresses DEF Asking, Serving, Passing, Acking, Passed
    <3> QED BY <3>2 DEF Token
  <2> QED BY <2>1 DEF Init, Quiet, Calm
<1> QED BY <1>2, <1>3, <1>4, <1>5, <1>6 DEF IInv

LEMMA StutterInv == IInv /\ UNCHANGED vars => IInv'
<1> SUFFICES ASSUME IInv, UNCHANGED vars PROVE IInv'
  OBVIOUS
<1>1. UNCHANGED <<known, answer, client, peer, received, phase, port, last, server, net,
                  repeats, strangers, trouble>>
  BY DEF vars, env, receiver, threads
<1>2. Sound'
  BY <1>1, FewerStrangers, SoundSame
<1>3. TypeOK' /\ Sessions' /\ Received'
  <2>1. strangers' \in 0 .. Strangers
    BY <1>1 DEF IInv, Sessions
  <2> QED BY <1>1, <1>2, <2>1, NetInv
<1>4. Quiet'
  <2>1. \A d, h : Token(d, h)' <=> Token(d, h)
    BY <1>1 DEF Token, Asking, Serving, Passing, Acking, Passed, Content, Acked
  <2>2. \A h : UnderWay(h)' <=> UnderWay(h)
    BY <1>1 DEF UnderWay
  <2>3. Calm => Calm'
    BY <1>1, <2>1, <2>2 DEF Calm
  <2>4. Whole' = Whole
    BY <1>1 DEF Whole, Smaller
  <2> QED BY <1>1, <2>3, <2>4 DEF IInv, Quiet
<1> QED BY <1>2, <1>3, <1>4 DEF IInv

LEMMA StepInv == IInv /\ [Next]_vars => IInv'
<1> SUFFICES ASSUME IInv, [Next]_vars PROVE IInv'
  OBVIOUS
<1>0. trouble' = TRUE => Quiet'
  BY DEF Quiet
<1>1. ASSUME NEW h \in Handlers,
             Start(h) \/ Relay(h) \/ Timeout(h) \/ Serve(h) \/ ServeNext(h)
      PROVE  IInv'
  <2>1. TypeOK' /\ Sound' /\ Sessions' /\ Received'
    BY <1>1, StartInv, RelayInv, TimeoutInv, ServeInv, ServeNextInv
  <2>2. Quiet'
    BY <1>1, StartQuiet, RelayQuiet, TimeoutQuiet, ServeQuiet, ServeNextQuiet
  <2> QED BY <2>1, <2>2 DEF IInv
<1>2. CASE AskAgain \/ AckAgain \/ \E h \in Handlers : ServeAgain(h)
  <2>1. trouble' = TRUE
    BY <1>2 DEF AskAgain, AckAgain, ServeAgain, Again
  <2> QED BY <1>0, <1>2, <2>1, AgainInv DEF IInv
<1>3. ASSUME NEW h \in Handlers, Stranger(h) PROVE IInv'
  <2>1. trouble' = TRUE
    BY <1>3 DEF Stranger
  <2> QED BY <1>0, <1>3, <2>1, StrangerInv DEF IInv
<1>4. CASE Lose
  <2>1. trouble' = TRUE
    BY <1>4 DEF Lose
  <2> QED BY <1>0, <1>4, <2>1, LoseInv DEF IInv
<1>5. CASE Hear
  BY <1>5, HearInv, HearQuiet DEF IInv
<1>6. CASE UNCHANGED vars
  BY <1>6, StutterInv
<1> QED BY <1>1, <1>2, <1>3, <1>4, <1>5, <1>6 DEF Next

(* What is under way, what threads and sessions know, and what the client  *)
(* has, in every state.                                                    *)
THEOREM Invariant == Spec => []IInv
BY InitInv, StepInv, PTL DEF Spec

(* The end that a thread sees is one: the server has sent the last block   *)
(* and the client has those before it, whatever was lost, repeated or      *)
(* late, as long as nobody else sent datagrams; and if nothing was lost,   *)
(* no thread finishes or gives up before its client has the file.          *)
THEOREM EndsAreEarned == Spec => []EndIsEarned
<1>1. IInv => EndIsEarned
  <2> SUFFICES ASSUME IInv PROVE EndIsEarned
    OBVIOUS
  <2>1. ASSUME NEW h \in Handlers, phase[h] = "finished", Whole, strangers = Strangers
        PROVE  peer = h /\ server[h] >= Blocks /\ Len(received) >= Blocks - 1
    <3>1. peer = h /\ server[h] >= Blocks
      BY <2>1 DEF IInv, Sessions
    <3>2. server[h] > 1 => Len(received) >= server[h] - 1
      BY <2>1 DEF IInv, Sessions, Whole
    <3>3. Len(received) \in Nat /\ server[h] \in Int
      BY Constants DEF IInv, TypeOK
    <3> QED BY <3>1, <3>2, <3>3, Constants
  <2>2. ASSUME NEW h \in Handlers, phase[h] \in {"finished", "timeout"}, Whole, ~trouble
        PROVE  client = "complete"
    BY <2>2 DEF IInv, Quiet, Calm
  <2> QED BY <2>1, <2>2 DEF EndIsEarned, IInv
<1> QED BY <1>1, Invariant, PTL

-----------------------------------------------------------------------------
(* Through the proxy: the client has the beginning of the file, and takes  *)
(* the next block or none, or its thread adopts a stranger.                *)
Mapped == <<IF Adopted THEN <<>> ELSE received, client = "complete" /\ ~Adopted>>

LEMMA AdoptedStays ==
  ASSUME IInv, [Next]_vars
  PROVE  Adopted => Adopted'
<1>1. CASE Hear
  <2>1. PICK d \in net, h \in Handlers : Hears(d, h)
    BY <1>1, HearStep
  <2> QED BY <1>1, <2>1 DEF Hears, Hear, threads, Adopted
<1>2. ASSUME NEW h \in Handlers, Relay(h) PROVE Adopted => Adopted'
  <2>1. PICK d \in net : Relays(d, h)
    BY <1>2, RelayStep
  <2>2. \A g \in Handlers : port[g] = Alien => port'[g] = Alien
    <3>1. Alien # Server(0)
      BY Addresses DEF Others
    <3> QED BY <2>1, <3>1 DEF Relays, Raises, Turns, IInv, TypeOK
  <2> QED BY <1>2, <2>2 DEF Relay, receiver, Adopted, IInv, TypeOK
<1>3. CASE UNCHANGED <<peer, port>>
  BY <1>3, AdoptedSame
<1>4. Hear \/ (\E h \in Handlers : Relay(h)) \/ UNCHANGED <<peer, port>>
  BY DEF Next, Start, Timeout, Serve, ServeNext, ServeAgain, AskAgain, AckAgain,
         Again, Stranger, Lose, vars, receiver, threads
<1> QED BY <1>1, <1>2, <1>3, <1>4

LEMMA TransferStep ==
  ASSUME IInv, [Next]_vars
  PROVE  [Transfer!Next]_Mapped
<1> DEFINE File == [n \in 1 .. Blocks |-> n]
<1>0. CASE Adopted'
  <2>1. Transfer!Restart
    BY <1>0 DEF Transfer!Restart
  <2> QED BY <2>1 DEF Transfer!Next
<1>a. ASSUME ~Adopted' PROVE [Transfer!Next]_Mapped
  <2>a. ~Adopted
    BY <1>a, AdoptedStays
  <2>1. CASE Hear
    <3>1. PICK d \in net, h \in Handlers : Hears(d, h)
      BY <2>1, HearStep
    <3>a. IInv'
      BY StepInv
    <3>2. CASE received' = received
      <4>1. client' = "complete" <=> client = "complete"
        BY <3>2, <3>a DEF IInv, Received
      <4> QED BY <1>a, <2>a, <3>2, <4>1 DEF Mapped
    <3>3. CASE received' # received
      <4>1. /\ d \in Message /\ d.op = "DATA" /\ d.block = Len(received) + 1
            /\ received' = Append(received, d.data)
            /\ client' = IF d.block = Blocks THEN "complete" ELSE "receiving"
        BY <3>1, <3>3 DEF Hears
      <4>2. /\ received \in Seq(0 .. Blocks) /\ Len(received) \in Nat
            /\ d.block \in 0 .. Blocks /\ d.data \in 0 .. Blocks
            /\ \A i \in 1 .. Len(received') : received'[i] = i
        BY <1>a, <3>a, <4>1 DEF IInv, TypeOK, Received, Message
      <4>3. d.block \in 1 .. Blocks /\ d.block \in Len(received) .. Len(File)
        BY <4>1, <4>2, Constants
      <4>4. received' = SubSeq(File, 1, d.block)
        <5>1. /\ received' \in Seq(0 .. Blocks) /\ Len(received') = d.block
          BY <4>1, <4>2, AppendProperties
        <5>2. File \in Seq(0 .. Blocks) /\ Len(File) = Blocks
          BY Constants
        <5>3. /\ SubSeq(File, 1, d.block) \in Seq(0 .. Blocks)
              /\ Len(SubSeq(File, 1, d.block)) = d.block
              /\ \A i \in 1 .. d.block : SubSeq(File, 1, d.block)[i] = i
          BY <4>3, <5>2, Constants
        <5> QED BY <4>2, <5>1, <5>3, SeqEqual
      <4>5. client # "complete"
        BY <4>1, <4>2, <4>3, Constants DEF IInv, Received
      <4>6. Transfer!Grow
        <5>1. (client' = "complete") = (d.block = Len(File))
          BY <4>1, Constants
        <5>2. (client' = "complete") \in {FALSE, d.block = Len(File)}
          BY <5>1
        <5> HIDE DEF File
        <5>3. \E n \in Len(received) .. Len(File) :
                /\ received' = SubSeq(File, 1, n)
                /\ (client' = "complete") \in {FALSE, n = Len(File)}
          BY <4>3, <4>4, <5>2, Zenon
        <5> QED BY <1>a, <2>a, <4>5, <5>3 DEF Transfer!Grow, File
      <4> QED BY <4>6 DEF Transfer!Next
    <3> QED BY <3>2, <3>3
  <2>2. ASSUME ~Hear PROVE UNCHANGED <<received, client>>
    BY <2>2 DEF Next, Start, Relay, Timeout, Serve, ServeNext, ServeAgain, AskAgain,
                AckAgain, Again, Stranger, Lose, vars, receiver
  <2>3. CASE ~Hear
    BY <1>a, <2>a, <2>2, <2>3 DEF Mapped
  <2> QED BY <2>1, <2>3
<1> QED BY <1>0, <1>a

(* Through the proxy a session is a file transfer: the client has nothing  *)
(* but the blocks of the file, in order, however many threads and sessions *)
(* its requests have started and whatever others send, until its thread    *)
(* has taken a stranger's port on the server's host for the server's,      *)
(* which it does when that port sends before the server has answered.      *)
THEOREM ProxyImplementsTransfer == Spec => IsTransfer
<1>1. Init => Transfer!Init
  BY DEF Init, Transfer!Init, Adopted
<1>2. IInv /\ [Next]_vars => [Transfer!Next]_Mapped
  BY TransferStep
<1> QED BY <1>1, <1>2, Invariant, PTL DEF Spec, IsTransfer, Transfer!Spec, Mapped
===============================================================================
