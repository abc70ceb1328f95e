------------------------------ MODULE TftpSession ------------------------------
(***************************************************************************)
(* One session of the TFTP server, tester/rt/tftpserver.py: the read only  *)
(* protocol of tftp_session, the loop of udp_handler.handle_session() that *)
(* drives it, a network that loses, duplicates and reorders datagrams, and *)
(* a client.  The client is the boot loader of a target board and no part  *)
(* of the repository: it acknowledges as RFC 1350 says, may repeat its     *)
(* last datagram at any time, and may start over with a new request.       *)
(*                                                                         *)
(* The client asks for the same block size each time, or never for one.    *)
(* The socket of the session hears only its client and strangers whose     *)
(* host and port both differ.                                              *)
(***************************************************************************)
EXTENDS Integers, Sequences

CONSTANTS
  File,           (* the bytes of the file                                   *)
  BlkSize,        (* the block size a client with an option asks for         *)
  DefaultSize,    (* 512, the block size of a new session                    *)
  ResendsLimit,   (* tftp_session.resends_limit                              *)
  BlockMod,       (* the block numbers that fit into a datagram, 2^16        *)
  MaxRestarts,    (* bound: how often the client starts over                 *)
  Strangers,      (* bound: datagrams of others                              *)
  MayFail         (* may the file be missing or the client give up?          *)

VARIABLES
  option,         \* does the request have an option that is acknowledged?
  phase,          \* of handle_session(): idle, waiting (in recvfrom), done
  session,        \* the fields of the tftp_session
  response,       \* the datagram last sent
  result,         \* how handle_session() ended
  client,         \* off, asked, receiving, complete, gone
  expected,       \* the next block the client needs
  received,       \* the bytes it has
  lastSent,       \* its last datagram
  request,        \* is a request under way to the port of the server?
  toServer,       \* the datagrams under way to the socket of the session
  toClient,       \* the datagrams under way to the client
  restarts,       \* how often the client started over
  strangers       \* how many datagrams of others are left

sender == <<phase, session, response, result>>
receiver == <<client, expected, received, lastSent>>
vars == <<option, sender, receiver, request, toServer, toClient, restarts,
          strangers>>

Bytes == {File[i] : i \in 1 .. Len(File)}
Closed == -1
Size == IF option THEN BlkSize ELSE DefaultSize
Session == [block : 0 .. BlockMod, size : {DefaultSize, BlkSize},
            resends : 0 .. ResendsLimit, finished : BOOLEAN,
            pos : {Closed} \cup 0 .. Len(File), last : Seq(Bytes)]
Packet == [op : {"RRQ", "ACK", "ERROR", "STRAY", "DATA", "OACK"},
           block : 0 .. BlockMod, data : Seq(Bytes)]
Plain(op, n) == [op |-> op, block |-> n, data |-> <<>>]
Request == Plain("RRQ", 0)
Ack(n) == Plain("ACK", n)

ASSUME TftpAssumption ==
  /\ File \in Seq(Nat)
  /\ BlkSize \in Nat \ {0} /\ DefaultSize \in Nat \ {0}
  /\ ResendsLimit \in Nat /\ ResendsLimit > 1
  /\ BlockMod \in Nat \ {0}
  /\ MaxRestarts \in Nat /\ Strangers \in Nat
  /\ MayFail \in BOOLEAN

-----------------------------------------------------------------------------
(* The session: what process() makes of a datagram is the session after    *)
(* it, the response, and whether an exception was raised instead.  There   *)
(* is no last_data as long as the block is 0.                              *)
NewSession == [block |-> 0, size |-> DefaultSize, resends |-> 0,
               finished |-> FALSE, pos |-> Closed, last |-> <<>>]

Answer(s, packet) == [session |-> s, response |-> packet, raised |-> FALSE]
Raise(s) == [session |-> s, response |-> Plain("ERROR", 0), raised |-> TRUE]
ErrorResponse(s) == Answer([s EXCEPT !.finished = TRUE], Plain("ERROR", 0))

\* Mutant: a full block is taken for the last one
IsLastFull(s) == Len(s.last) <= s.size
\* Mutant: only an empty block is the last one
IsLastEmpty(s) == Len(s.last) = 0
IsLast(s) == Len(s.last) < s.size

\* A block number of 17 bits does not go into the datagram: ValueError
DataResponse(s) ==
  LET t == [s EXCEPT !.finished = @ \/ IsLast(s)]
  IN IF s.block = BlockMod THEN Raise(t)
     ELSE Answer(t, [op |-> "DATA", block |-> s.block, data |-> s.last])

Resend(s, answer) ==
  IF s.resends + 1 >= ResendsLimit
    THEN ErrorResponse([s EXCEPT !.resends = @ + 1])
    ELSE answer

Read(s) == SubSeq(File, s.pos + 1,
                  IF s.pos + s.size < Len(File) THEN s.pos + s.size
                                                ELSE Len(File))

\* Reading goes on at the next byte, or ends with a short block
NextData(s) ==
  LET data == Read(s)
  IN [s EXCEPT !.resends = 0, !.block = @ + 1, !.last = data,
               !.pos = IF Len(data) < s.size THEN Closed ELSE @ + Len(data)]

\* Mutant: what is sent again is read again
NextBlockReads(s, n) ==
  IF s.pos = Closed THEN Raise(s)
  ELSE IF n = s.block THEN DataResponse(NextData(s))
  ELSE Resend(s, DataResponse([NextData(s) EXCEPT !.block = s.block,
                                                  !.resends = s.resends + 1]))

NextBlock(s, n) ==
  IF n = s.block
    THEN IF s.pos = Closed THEN Raise(s) ELSE DataResponse(NextData(s))
    ELSE Resend(s, IF s.block = 0 THEN Raise([s EXCEPT !.resends = @ + 1])
                   ELSE DataResponse([s EXCEPT !.resends = @ + 1]))

ReadRequest(s, found) ==
  LET t == IF s.block # 0 THEN NewSession ELSE s
      opened == [t EXCEPT !.pos = 0, !.size = Size]
  IN IF ~found THEN ErrorResponse(t)
     ELSE IF option THEN
       Resend(opened, Answer([opened EXCEPT !.resends = @ + 1],
                             Plain("OACK", 0)))
     ELSE NextBlock(opened, 0)

Process(s, packet, found) ==
  CASE packet.op = "RRQ" -> ReadRequest(s, found)
    [] packet.op = "ACK" -> NextBlock(s, packet.block)
    [] OTHER -> ErrorResponse(s)

-----------------------------------------------------------------------------
Init ==
  /\ option \in BOOLEAN
  /\ phase = "idle" /\ session = NewSession
  /\ response = Plain("ERROR", 0) /\ result = "none"
  /\ client = "off" /\ expected = 1 /\ received = <<>> /\ lastSent = Request
  /\ request = FALSE /\ toServer = {} /\ toClient = {}
  /\ restarts = 0 /\ strangers = Strangers

Found == IF MayFail THEN BOOLEAN ELSE {TRUE}

\* handle_session() sends the response and waits, or ends on an exception
Respond(answer) ==
  /\ session' = answer.session
  /\ response' = answer.response
  /\ IF answer.raised
       THEN phase' = "done" /\ result' = "raised" /\ UNCHANGED toClient
       ELSE /\ phase' = "waiting" /\ UNCHANGED result
            /\ toClient' = toClient \cup {answer.response}

(* The server hears a request: the first starts the session.  Others are   *)
(* not for this session, the server of the tester serves only one.         *)
Start ==
  /\ request /\ phase = "idle"
  /\ request' = FALSE
  /\ \E found \in Found : Respond(Process(NewSession, Request, found))
  /\ UNCHANGED <<option, receiver, toServer, restarts, strangers>>

(* recvfrom() returns a datagram, and the network may have another copy.   *)
(* After the last response any datagram ends the session.                  *)
Receive(packet) ==
  /\ phase = "waiting"
  /\ toServer' \in {toServer, toServer \ {packet}}
  /\ IF session.finished
       THEN /\ phase' = "done"
            /\ result' = IF response.op = "ERROR" THEN "failed" ELSE "served"
            /\ UNCHANGED <<session, response, toClient>>
       ELSE \E found \in Found : Respond(Process(session, packet, found))

ReceiveOne ==
  /\ \E packet \in toServer : Receive(packet)
  /\ UNCHANGED <<option, receiver, request, restarts, strangers>>

ReceiveStranger ==
  /\ strangers > 0 /\ strangers' = strangers - 1
  /\ Receive(Plain("STRAY", 0))
  /\ UNCHANGED <<option, receiver, request, restarts>>

\* Mutant: nothing is sent again
TimeoutIdle == phase = "waiting" /\ UNCHANGED vars
\* recvfrom() times out and the response is sent again, without a limit
Timeout ==
  /\ phase = "waiting"
  /\ toClient' = toClient \cup {response}
  /\ UNCHANGED <<option, sender, receiver, request, toServer, restarts,
                 strangers>>

-----------------------------------------------------------------------------
\* The client (external) sends packet to the session
Send(packet) == toServer' = toServer \cup {packet} /\ lastSent' = packet

Ask ==
  /\ client = "off"
  /\ client' = "asked" /\ request' = TRUE
  /\ UNCHANGED <<option, sender, expected, received, lastSent, toServer,
                 toClient, restarts, strangers>>

\* The client waited long enough for an answer to its last datagram
Repeat ==
  /\ client \in {"asked", "receiving"}
  /\ IF lastSent.op = "RRQ" /\ restarts = 0
       THEN request' = TRUE /\ UNCHANGED toServer
       ELSE toServer' = toServer \cup {lastSent} /\ UNCHANGED request
  /\ UNCHANGED <<option, sender, receiver, toClient, restarts, strangers>>

AcceptOack(packet) ==
  /\ packet.op = "OACK" /\ option
  /\ client = "asked" \/ (client = "receiving" /\ expected = 1)
  /\ client' = "receiving"
  /\ Send(Ack(0))
  /\ UNCHANGED <<expected, received>>

AcceptData(packet) ==
  /\ packet.op = "DATA" /\ packet.block = expected
  /\ client = "receiving" \/ (client = "asked" /\ ~option)
  /\ received' = received \o packet.data
  /\ expected' = expected + 1
  /\ client' = IF Len(packet.data) < Size THEN "complete" ELSE "receiving"
  /\ Send(Ack(packet.block))

\* The acknowledgement of the block before was lost
AcceptAgain(packet) ==
  /\ packet.op = "DATA" /\ packet.block = expected - 1
  /\ client \in {"receiving", "complete"}
  /\ Send(Ack(packet.block))
  /\ UNCHANGED <<client, expected, received>>

AcceptError(packet) ==
  /\ packet.op = "ERROR" /\ client \in {"asked", "receiving"}
  /\ client' = "gone"
  /\ UNCHANGED <<expected, received, lastSent, toServer>>

Accept(packet) ==
  /\ packet \in toClient
  /\ toClient' \in {toClient, toClient \ {packet}}
  /\ \/ AcceptOack(packet)
     \/ AcceptData(packet)
     \/ AcceptAgain(packet)
     \/ AcceptError(packet)
  /\ UNCHANGED <<option, sender, request, restarts, strangers>>

\* The client gives up on a server that is not there any more ...
GiveUp ==
  /\ client \in {"asked", "receiving"} /\ phase = "done"
  /\ client' = "gone"
  /\ UNCHANGED <<option, sender, expected, received, lastSent, request,
                 toServer, toClient, restarts, strangers>>

\* ... or for reasons of its own, with an ERROR datagram
Abort ==
  /\ MayFail /\ client = "receiving"
  /\ client' = "gone"
  /\ Send(Plain("ERROR", 0))
  /\ UNCHANGED <<option, sender, expected, received, request, toClient,
                 restarts, strangers>>

\* It starts over and does not move to another port (tftpserver.py:214)
StartOver ==
  /\ client \in {"asked", "receiving"} /\ phase # "idle"
  /\ restarts < MaxRestarts /\ restarts' = restarts + 1
  /\ client' = "asked" /\ expected' = 1 /\ received' = <<>>
  /\ Send(Request)
  /\ UNCHANGED <<option, sender, request, toClient, strangers>>

Lose ==
  /\ \/ request' = FALSE /\ UNCHANGED <<toServer, toClient>>
     \/ \E p \in toServer : toServer' = toServer \ {p}
                              /\ UNCHANGED <<request, toClient>>
     \/ \E p \in toClient : toClient' = toClient \ {p}
                              /\ UNCHANGED <<request, toServer>>
  /\ UNCHANGED <<option, sender, receiver, restarts, strangers>>

AcceptOne == \E packet \in toClient : Accept(packet)

Next == \/ Start \/ ReceiveOne \/ ReceiveStranger \/ Timeout
        \/ Ask \/ Repeat \/ AcceptOne \/ GiveUp \/ Abort \/ StartOver
        \/ Lose

Spec == Init /\ [][Next]_vars

(* The server and the client keep trying, and a network which is not dead  *)
(* now and then delivers what is sent again and again.                     *)
Fairness ==
  /\ WF_vars(Ask) /\ WF_vars(Timeout) /\ WF_vars(Repeat) /\ WF_vars(GiveUp)
  /\ SF_vars(Start)
  /\ SF_vars(lastSent \in toServer /\ Receive(lastSent)
               /\ UNCHANGED <<option, receiver, request, restarts, strangers>>)
  /\ SF_vars(response \in toClient /\ Accept(response))
FairSpec == Spec /\ Fairness

-----------------------------------------------------------------------------
(* Types of the session, the network and the client.                       *)
TypeOK ==
  /\ option \in BOOLEAN
  /\ phase \in {"idle", "waiting", "done"}
  /\ session \in Session
  /\ response \in Packet
  /\ result \in {"none", "served", "failed", "raised"}
  /\ client \in {"off", "asked", "receiving", "complete", "gone"}
  /\ expected \in 1 .. BlockMod
  /\ received \in Seq(Bytes)
  /\ lastSent \in Packet
  /\ request \in BOOLEAN
  /\ toServer \subseteq Packet /\ toClient \subseteq Packet
  /\ restarts \in 0 .. MaxRestarts /\ strangers \in 0 .. Strangers

(* Stop and wait: the server is never more than one block ahead of its     *)
(* client, as _next_block() moves on only for the current block.  So a     *)
(* session that served its file without an error left the client with all  *)
(* of it but, at most, the last block: handle_session() does not look at   *)
(* what it receives after it sent that block.                              *)
ServedButLast ==
  /\ TypeOK
  /\ restarts = 0 => session.block \in {expected - 1, expected}
  /\ restarts = 0 /\ result = "served" => Len(File) < Len(received) + Size

(* No exception ends the session of a client that does not start over, as  *)
(* long as the numbers of the blocks fit into a datagram.                  *)
Fits == Len(File) < (BlockMod - 1) * Size
NothingRaised == restarts = 0 /\ Fits => result # "raised"

(* The session is a file transfer.                                         *)
Transfer == INSTANCE FileTransfer WITH complete <- client = "complete"
IsTransfer == Transfer!Spec

(* The client that does not start over gets its file, or hears that it     *)
(* does not, and the session of one that has its file and still answers    *)
(* ends.                                                                   *)
Settles ==
  /\ <>(client \in {"complete", "gone"} \/ restarts > 0)
  /\ client = "complete" ~> phase = "done" \/ restarts > 0
=============================================================================
