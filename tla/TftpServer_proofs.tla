--------------------------- MODULE TftpServer_proofs ---------------------------
(***************************************************************************)
(* Proofs about the TFTP server of the tester, tester/rt/tftpserver.py.    *)
(*                                                                         *)
(* A session (TftpSession): for every file, every block size, with and     *)
(* without an option, and a network that loses, duplicates and reorders    *)
(* without end, the client's copy is the beginning of the file and is      *)
(* called complete only when it is all of it, however often the client     *)
(* starts over; a session that served its file left the client with all    *)
(* but the last block; and an exception ends none whose blocks can be      *)
(* numbered.                                                               *)
(*                                                                         *)
(* The server (TftpServer): for every number of sessions, datagrams and    *)
(* turns of its loop, and with another thread that stops it at any time,   *)
(* it leaves neither a port nor a thread behind, and what run() counts is  *)
(* what it served.                                                         *)
(***************************************************************************)
EXTENDS TftpSession, TftpServer, FiniteSetTheorems, SequenceTheorems, TLAPS

(***************************************************************************)
(* The session.                                                            *)
(***************************************************************************)
(* What n blocks of size z hold of the file, and the nth block.            *)
Cut(z, n) == IF n * z < Len(File) THEN n * z ELSE Len(File)
Chunk(z, n) == SubSeq(File, Cut(z, n - 1) + 1, Cut(z, n))

(* A session s has read its blocks one after the other and holds the last. *)
Reading(z, s) ==
  /\ s \in Session
  /\ ~s.finished => s.resends < ResendsLimit
  /\ s.block = 0 => s.pos \in {Closed, 0}
  /\ s.block > 0 => /\ s.size = z /\ (s.block - 1) * z <= Len(File)
                    /\ s.last = Chunk(z, s.block)
                    /\ s.pos = Closed <=> Len(s.last) < z
  /\ s.pos # Closed => s.size = z /\ s.pos = s.block * z

(* The session waits for an answer: there is more to read, or it sent its  *)
(* last response, which is the last block if it is not an error.           *)
Awaits(z, s, packet) ==
  /\ s.block < BlockMod
  /\ ~s.finished => s.pos # Closed
  /\ s.finished /\ packet.op # "ERROR" => s.block > 0 /\ Len(s.last) < z

(* A DATA datagram carries the block of its number.                        *)
Genuine(z, p) ==
  p.op = "DATA" => /\ p.block \in 1 .. BlockMod - 1
                   /\ (p.block - 1) * z <= Len(File)
                   /\ p.data = Chunk(z, p.block)

Sending ==
  /\ Reading(Size, session)
  /\ phase = "idle" => session = NewSession /\ toClient = {}
  /\ phase = "waiting" => Awaits(Size, session, response)
  /\ \A p \in toClient \cup {response} : Genuine(Size, p)

(* The client has the blocks before the one it expects.                    *)
Receiving ==
  /\ received = SubSeq(File, 1, Cut(Size, expected - 1))
  /\ client = "complete" => Cut(Size, expected - 1) = Len(File)

(* Stop and wait, as long as the client does not start over: nothing under *)
(* way to the client is ahead of the session, and no acknowledgement is    *)
(* ahead of the client.                                                    *)
InStep ==
  restarts = 0 =>
    /\ session.block \in {expected - 1, expected}
    /\ \A p \in toServer : p.op # "RRQ"
    /\ \A p \in toServer \cup {lastSent} : p.op = "ACK" => p.block <= expected - 1
    /\ \A p \in toClient \cup {response} : p.op = "DATA" => p.block <= session.block
    /\ result = "served" => Len(File) < Len(received) + Size
    /\ Fits => result # "raised"

IInv == TypeOK /\ Sending /\ Receiving /\ InStep

-----------------------------------------------------------------------------
(* Blocks of the file.                                                     *)
(* What process() answers.                                                 *)
Answered(z, a) ==
  /\ a.raised \in BOOLEAN
  /\ Reading(z, a.session)
  /\ a.response \in Packet /\ Genuine(z, a.response)
  /\ ~a.raised => Awaits(z, a.session, a.response)
  /\ a.response.op = "DATA" => a.response.block = a.session.block

-----------------------------------------------------------------------------
LEMMA FileType == File \in Seq(Bytes) /\ Len(File) \in Nat
BY TftpAssumption DEF Bytes

LEMMA SizeType == Size \in Nat \ {0} /\ Size \in {DefaultSize, BlkSize}
BY TftpAssumption DEF Size

LEMMA Cuts ==
  ASSUME NEW z \in Nat \ {0}, NEW n \in Nat
  PROVE  /\ Cut(z, n) \in 0 .. Len(File) /\ Cut(z, 0) = 0
         /\ Cut(z, n) <= Cut(z, n + 1) /\ Cut(z, n + 1) <= Cut(z, n) + z
         /\ Cut(z, n + 1) - Cut(z, n) < z => Cut(z, n + 1) = Len(File)
         /\ n * z <= Len(File) => Cut(z, n) = n * z
         /\ n * z \in Nat /\ (n + 1) * z = n * z + z
         /\ Cut(z, n + 1) = IF n * z + z < Len(File) THEN n * z + z ELSE Len(File)
<1>1. n * z \in Nat /\ (n + 1) * z = n * z + z /\ 0 * z = 0
  OBVIOUS
<1> HIDE DEF Cut
<1>2. Cut(z, n) = IF n * z < Len(File) THEN n * z ELSE Len(File)
  BY DEF Cut
<1>3. Cut(z, n + 1) = IF n * z + z < Len(File) THEN n * z + z ELSE Len(File)
  BY <1>1 DEF Cut
<1>4. Cut(z, 0) = 0
  BY <1>1, FileType DEF Cut
<1> DEFINE m == n * z
           k == Len(File)
<1>5. m \in Nat /\ k \in Nat /\ (n + 1) * z = m + z
  BY <1>1, FileType
<1> HIDE DEF m, k
<1>6. /\ Cut(z, n) = IF m < k THEN m ELSE k
      /\ Cut(z, n + 1) = IF m + z < k THEN m + z ELSE k
  BY <1>2, <1>3 DEF m, k
<1>7. /\ Cut(z, n) \in 0 .. k
      /\ Cut(z, n) <= Cut(z, n + 1) /\ Cut(z, n + 1) <= Cut(z, n) + z
      /\ Cut(z, n + 1) - Cut(z, n) < z => Cut(z, n + 1) = k
      /\ m <= k => Cut(z, n) = m
  BY <1>5, <1>6
<1> QED BY <1>3, <1>4, <1>5, <1>7 DEF m, k

LEMMA Chunks ==
  ASSUME NEW z \in Nat \ {0}, NEW n \in Nat
  PROVE  /\ Chunk(z, n + 1) \in Seq(Bytes)
         /\ Len(Chunk(z, n + 1)) = Cut(z, n + 1) - Cut(z, n)
         /\ SubSeq(File, 1, Cut(z, n)) \o Chunk(z, n + 1) = SubSeq(File, 1, Cut(z, n + 1))
         /\ SubSeq(File, 1, Cut(z, n)) \in Seq(Bytes)
         /\ Len(SubSeq(File, 1, Cut(z, n))) = Cut(z, n)
<1> DEFINE a == Cut(z, n)
           b == Cut(z, n + 1)
<1>1. a \in 0 .. Len(File) /\ b \in 0 .. Len(File) /\ a <= b
  BY Cuts
<1>2. Chunk(z, n + 1) = SubSeq(File, a + 1, b)
  <2>1. (n + 1) - 1 = n
    OBVIOUS
  <2>2. Cut(z, (n + 1) - 1) = Cut(z, n)
    BY <2>1, Zenon
  <2> QED BY <2>2 DEF Chunk
<1> HIDE DEF a, b
<1>3. \A i \in 1 .. Len(File) : File[i] \in Bytes
  BY FileType
<1>4. /\ SubSeq(File, a + 1, b) \in Seq(Bytes)
      /\ Len(SubSeq(File, a + 1, b)) = b - a
  <2>1. \A i \in a + 1 .. b : File[i] \in Bytes
    BY <1>1, <1>3, FileType
  <2>2. a + 1 \in Int /\ b \in Int
    BY <1>1, FileType
  <2>3. /\ SubSeq(File, a + 1, b) \in Seq(Bytes)
        /\ Len(SubSeq(File, a + 1, b)) = IF a + 1 <= b THEN b - (a + 1) + 1 ELSE 0
    BY <2>1, <2>2, SubSeqProperties
  <2> QED BY <2>3, <1>1, FileType
<1>5. /\ SubSeq(File, 1, a) \in Seq(Bytes)
      /\ Len(SubSeq(File, 1, a)) = a
  <2>1. \A i \in 1 .. a : File[i] \in Bytes
    BY <1>1, <1>3, FileType
  <2>2. a \in Int
    BY <1>1, FileType
  <2>3. /\ SubSeq(File, 1, a) \in Seq(Bytes)
        /\ Len(SubSeq(File, 1, a)) = IF 1 <= a THEN a - 1 + 1 ELSE 0
    BY <2>1, <2>2, SubSeqProperties
  <2> QED BY <2>3, <1>1, FileType
<1>6. SubSeq(File, 1, a) \o SubSeq(File, a + 1, b) = SubSeq(File, 1, b)
  BY <1>1, FileType, ConcatAdjacentSubSeq
<1> QED BY <1>2, <1>4, <1>5, <1>6 DEF a, b

-----------------------------------------------------------------------------
(* What process() makes of a datagram.                                     *)
LEMMA NewReads == Reading(Size, NewSession) /\ Plain("ERROR", 0) \in Packet
<1>1. NewSession \in Session
  BY TftpAssumption DEF NewSession, Session
<1>2. Plain("ERROR", 0) \in Packet
  BY TftpAssumption DEF Plain, Packet
<1> QED BY <1>1, <1>2, TftpAssumption DEF Reading, NewSession, Closed

\* An exception, or an ERROR datagram, from any session that reads
LEMMA ErrorAnswered ==
  ASSUME NEW s, Reading(Size, s)
  PROVE  /\ Answered(Size, Raise(s))
         /\ s.block < BlockMod => Answered(Size, ErrorResponse(s))
         /\ ErrorResponse(s).session.block = s.block /\ ~ErrorResponse(s).raised
         /\ Raise(s).session = s
<1>1. Plain("ERROR", 0) \in Packet /\ Plain("ERROR", 0).op = "ERROR"
  BY NewReads DEF Plain
<1>2. Answered(Size, Raise(s))
  BY <1>1 DEF Answered, Raise, Genuine
<1>3. s \in Session
  BY DEF Reading
<1> DEFINE t == [s EXCEPT !.finished = TRUE]
<1>4. t \in Session /\ t.finished /\ t.block = s.block /\ t.pos = s.pos
      /\ t.last = s.last /\ t.size = s.size
  BY <1>3 DEF Session
<1> HIDE DEF t
<1>5. Reading(Size, t)
  BY <1>4 DEF Reading
<1>6. ErrorResponse(s) = [session |-> t, response |-> Plain("ERROR", 0), raised |-> FALSE]
  BY DEF ErrorResponse, Answer, t
<1>7. s.block < BlockMod => Answered(Size, ErrorResponse(s))
  BY <1>1, <1>4, <1>5, <1>6 DEF Answered, Genuine, Awaits
<1> QED BY <1>2, <1>4, <1>6, <1>7 DEF Raise

\* The next block is read
LEMMA NextDataReads ==
  ASSUME NEW s, Reading(Size, s), s.pos # Closed, s.block < BlockMod
  PROVE  /\ Reading(Size, NextData(s))
         /\ NextData(s).block = s.block + 1 /\ NextData(s).finished = s.finished
<1>1. s \in Session /\ s.size = Size /\ s.pos = s.block * Size
  BY DEF Reading
<1>2. s.block \in Nat /\ s.pos \in 0 .. Len(File) /\ Size \in Nat \ {0}
  BY <1>1, SizeType DEF Session
<1> DEFINE n == s.block
           data == Chunk(Size, n + 1)
<1>3. /\ Cut(Size, n) = s.pos
      /\ Cut(Size, n + 1) = IF s.pos + Size < Len(File) THEN s.pos + Size ELSE Len(File)
      /\ (n + 1) * Size = s.pos + Size
      /\ Cut(Size, n + 1) \in 0 .. Len(File)
  <2> DEFINE m == n * Size
  <2>1. /\ Cut(Size, n) \in 0 .. Len(File) /\ Cut(Size, n + 1) \in 0 .. Len(File)
        /\ m <= Len(File) => Cut(Size, n) = m
        /\ (n + 1) * Size = m + Size
        /\ Cut(Size, n + 1) = IF m + Size < Len(File) THEN m + Size ELSE Len(File)
    <3>1. n + 1 \in Nat
      BY <1>2
    <3> QED BY <1>2, <3>1, Cuts
  <2>2. m = s.pos
    BY <1>1
  <2> HIDE DEF m
  <2> QED BY <1>2, <2>1, <2>2, FileType
<1>4. Read(s) = data
  <2>1. (n + 1) - 1 = n
    BY <1>2
  <2>2. Cut(Size, (n + 1) - 1) = s.pos
    BY <1>3, <2>1, Zenon
  <2>3. Read(s) = SubSeq(File, s.pos + 1, Cut(Size, n + 1))
    BY <1>1, <1>3 DEF Read
  <2> QED BY <2>2, <2>3 DEF Chunk
<1>5. data \in Seq(Bytes) /\ Len(data) = Cut(Size, n + 1) - s.pos
  BY <1>2, <1>3, Chunks
<1> HIDE DEF data
<1> DEFINE t == NextData(s)
           pos == IF Len(data) < Size THEN Closed ELSE s.pos + Len(data)
<1>6. pos \in {Closed} \cup 0 .. Len(File) /\ (pos = Closed <=> Len(data) < Size)
      /\ (pos # Closed => pos = (n + 1) * Size)
  BY <1>2, <1>3, <1>5, FileType DEF Closed
<1> HIDE DEF pos
<1>7. t = [s EXCEPT !.resends = 0, !.block = n + 1, !.last = data, !.pos = pos]
  BY <1>1, <1>4 DEF NextData, pos
<1>8. n + 1 \in 0 .. BlockMod /\ 0 \in 0 .. ResendsLimit
  BY <1>2, TftpAssumption
<1>9. /\ t \in Session /\ t.resends = 0 /\ t.block = n + 1 /\ t.last = data
      /\ t.pos = pos /\ t.size = Size /\ t.finished = s.finished
  BY <1>1, <1>5, <1>6, <1>7, <1>8 DEF Session
<1> HIDE DEF t
<1>10. (t.block - 1) * Size <= Len(File) /\ t.block > 0
  BY <1>1, <1>2, <1>9
<1>11. t.last = Chunk(Size, t.block)
  BY <1>9 DEF data
<1>12. Reading(Size, t)
  BY <1>6, <1>9, <1>10, <1>11, TftpAssumption DEF Reading
<1> QED BY <1>9, <1>12 DEF t

\* The block that was read last is sent
LEMMA DataAnswered ==
  ASSUME NEW s, Reading(Size, s), s.block > 0, ~s.finished
  PROVE  /\ Answered(Size, DataResponse(s))
         /\ DataResponse(s).session.block = s.block
         /\ DataResponse(s).raised => s.block = BlockMod
<1>1. s \in Session /\ s.size = Size /\ s.block \in 0 .. BlockMod /\ s.last \in Seq(Bytes)
  BY DEF Reading, Session
<1> DEFINE t == [s EXCEPT !.finished = @ \/ IsLast(s)]
           p == [op |-> "DATA", block |-> s.block, data |-> s.last]
<1>2. t \in Session /\ t.block = s.block /\ t.pos = s.pos /\ t.last = s.last
      /\ t.size = s.size /\ t.resends = s.resends /\ (t.finished <=> Len(s.last) < Size)
  BY <1>1 DEF Session, IsLast
<1> HIDE DEF t
<1>3. Reading(Size, t)
  BY <1>2 DEF Reading
<1>4. CASE s.block = BlockMod
  <2>1. DataResponse(s) = Raise(t)
    BY <1>4 DEF DataResponse, t
  <2> QED BY <2>1, <1>2, <1>3, <1>4, ErrorAnswered
<1>5. CASE s.block # BlockMod
  <2>1. DataResponse(s) = [session |-> t, response |-> p, raised |-> FALSE]
    BY <1>5 DEF DataResponse, Answer, t
  <2>2. p \in Packet /\ p.op = "DATA" /\ p.block = s.block
    BY <1>1 DEF Packet
  <2>3. s.block \in 1 .. BlockMod - 1
    BY <1>1, <1>5, TftpAssumption
  <2>4. Genuine(Size, p)
    BY <2>3 DEF Genuine, Reading
  <2>5. Awaits(Size, t, p)
    BY <1>2, <1>3, <2>3, TftpAssumption DEF Awaits, Reading
  <2> HIDE DEF p
  <2> QED BY <2>1, <2>2, <2>4, <2>5, <1>2, <1>3 DEF Answered
<1> QED BY <1>4, <1>5

\* A session that counts one more resend
LEMMA Resent ==
  ASSUME NEW s, Reading(Size, s), ~s.finished, s.block < BlockMod
  PROVE  LET t == [s EXCEPT !.resends = @ + 1]
         IN /\ t \in Session /\ t.block = s.block /\ t.pos = s.pos
            /\ t.finished = s.finished
            /\ s.resends + 1 < ResendsLimit => Reading(Size, t)
            /\ Answered(Size, ErrorResponse(t))
            /\ ErrorResponse(t).session.block = s.block /\ ~ErrorResponse(t).raised
<1> DEFINE t == [s EXCEPT !.resends = @ + 1]
           u == [t EXCEPT !.finished = TRUE]
<1>1. s \in Session /\ s.resends + 1 \in 0 .. ResendsLimit
  BY TftpAssumption DEF Reading, Session
<1>2. t \in Session /\ t.block = s.block /\ t.pos = s.pos /\ t.finished = s.finished
      /\ t.last = s.last /\ t.size = s.size /\ t.resends = s.resends + 1
  BY <1>1 DEF Session
<1>3. u \in Session /\ u.block = s.block /\ u.pos = s.pos /\ u.finished
      /\ u.last = s.last /\ u.size = s.size
  BY <1>2 DEF Session
<1>4. ErrorResponse(t) = [session |-> u, response |-> Plain("ERROR", 0), raised |-> FALSE]
  BY DEF ErrorResponse, Answer
<1> HIDE DEF t, u
<1>5. s.resends + 1 < ResendsLimit => Reading(Size, t)
  BY <1>2 DEF Reading
<1>6. Reading(Size, u)
  BY <1>3 DEF Reading
<1>7. Plain("ERROR", 0) \in Packet /\ Plain("ERROR", 0).op = "ERROR"
  BY NewReads DEF Plain
<1>8. Answered(Size, ErrorResponse(t))
  BY <1>3, <1>4, <1>6, <1>7 DEF Answered, Genuine, Awaits
<1> QED BY <1>2, <1>3, <1>4, <1>5, <1>8 DEF t

(* An acknowledgement moves the session on only if it is for the current   *)
(* block; it raises an exception only if the block has no number, there is *)
(* no more to read, or nothing was sent.                                   *)
LEMMA NextBlockAnswered ==
  ASSUME NEW s, Reading(Size, s), ~s.finished, s.block < BlockMod, NEW n
  PROVE  /\ Answered(Size, NextBlock(s, n))
         /\ NextBlock(s, n).session.block \in {s.block, s.block + 1}
         /\ NextBlock(s, n).session.block # s.block => n = s.block
         /\ NextBlock(s, n).raised =>
              \/ NextBlock(s, n).session.block = BlockMod
              \/ s.pos = Closed
              \/ s.block = 0 /\ n # 0
<1>0. s.block \in Nat
  BY DEF Reading, Session
<1>1. CASE n = s.block /\ s.pos = Closed
  <2>1. NextBlock(s, n) = Raise(s)
    BY <1>1 DEF NextBlock
  <2> QED BY <1>1, <2>1, ErrorAnswered
<1>2. CASE n = s.block /\ s.pos # Closed
  <2>1. NextBlock(s, n) = DataResponse(NextData(s))
    BY <1>2 DEF NextBlock
  <2>2. /\ Reading(Size, NextData(s)) /\ ~NextData(s).finished
        /\ NextData(s).block = s.block + 1 /\ NextData(s).block > 0
    BY <1>0, <1>2, NextDataReads
  <2> QED BY <1>2, <2>1, <2>2, DataAnswered
<1>3. CASE n # s.block
  <2> DEFINE t == [s EXCEPT !.resends = @ + 1]
  <2>1. /\ t \in Session /\ t.block = s.block /\ t.pos = s.pos /\ ~t.finished
        /\ s.resends + 1 < ResendsLimit => Reading(Size, t)
        /\ Answered(Size, ErrorResponse(t))
        /\ ErrorResponse(t).session.block = s.block /\ ~ErrorResponse(t).raised
    BY Resent
  <2>2. s.resends + 1 \in Int /\ ResendsLimit \in Int
    BY TftpAssumption DEF Reading, Session
  <2>3. NextBlock(s, n) = IF s.resends + 1 >= ResendsLimit THEN ErrorResponse(t)
                          ELSE IF s.block = 0 THEN Raise(t) ELSE DataResponse(t)
    BY <1>3 DEF NextBlock, Resend
  <2> HIDE DEF t
  <2>4. CASE s.resends + 1 >= ResendsLimit
    BY <2>1, <2>3, <2>4
  <2>5. CASE s.resends + 1 < ResendsLimit /\ s.block = 0
    <3>1. NextBlock(s, n) = Raise(t)
      BY <2>2, <2>3, <2>5
    <3> QED BY <1>3, <2>1, <2>5, <3>1, ErrorAnswered
  <2>6. CASE s.resends + 1 < ResendsLimit /\ s.block # 0
    <3>1. NextBlock(s, n) = DataResponse(t)
      BY <2>2, <2>3, <2>6
    <3>2. t.block > 0
      BY <1>0, <2>1, <2>6
    <3> QED BY <2>1, <2>6, <3>1, <3>2, DataAnswered
  <2> QED BY <2>2, <2>4, <2>5, <2>6
<1> QED BY <1>1, <1>2, <1>3

\* A request starts the session, or starts it again
LEMMA RequestAnswered ==
  ASSUME NEW s, Reading(Size, s), ~s.finished, s.block < BlockMod, NEW found
  PROVE  /\ Answered(Size, ReadRequest(s, found))
         /\ ReadRequest(s, found).session.block \in {0, 1}
         /\ ReadRequest(s, found).raised =>
              ReadRequest(s, found).session.block = BlockMod
<1> DEFINE t == IF s.block # 0 THEN NewSession ELSE s
           opened == [t EXCEPT !.pos = 0, !.size = Size]
           again == [opened EXCEPT !.resends = @ + 1]
<1>1. Reading(Size, t) /\ t.block = 0 /\ ~t.finished
  BY NewReads DEF NewSession
<1>2. t \in Session /\ 0 < BlockMod /\ 0 \in 0 .. Len(File)
  BY <1>1, TftpAssumption, FileType DEF Reading
<1>3. opened \in Session /\ opened.block = 0 /\ opened.pos = 0 /\ ~opened.finished
      /\ opened.size = Size /\ opened.resends = t.resends
  BY <1>1, <1>2, SizeType DEF Session
<1>4. ReadRequest(s, found) =
        IF ~found THEN ErrorResponse(t)
        ELSE IF option THEN Resend(opened, Answer(again, Plain("OACK", 0)))
        ELSE NextBlock(opened, 0)
  BY DEF ReadRequest
<1>r. 0 = 0 * Size
  BY SizeType
<1> HIDE DEF t, opened
<1>5. Reading(Size, opened)
  BY <1>1, <1>3, <1>r DEF Reading
<1>6. CASE ~found
  BY <1>1, <1>2, <1>4, <1>6, ErrorAnswered
<1>7. CASE found /\ option
  <2>1. /\ again \in Session /\ again.block = 0 /\ again.pos = 0 /\ ~again.finished
        /\ opened.resends + 1 < ResendsLimit => Reading(Size, again)
        /\ Answered(Size, ErrorResponse(again))
        /\ ErrorResponse(again).session.block = 0 /\ ~ErrorResponse(again).raised
    BY <1>2, <1>3, <1>5, Resent
  <2>2. opened.resends + 1 \in Int /\ ResendsLimit \in Int
    BY <1>3, TftpAssumption DEF Session
  <2>3. ReadRequest(s, found) = IF opened.resends + 1 >= ResendsLimit
                                  THEN ErrorResponse(again)
                                  ELSE Answer(again, Plain("OACK", 0))
    BY <1>4, <1>7 DEF Resend
  <2> HIDE DEF again
  <2>4. Plain("OACK", 0) \in Packet /\ Plain("OACK", 0).op = "OACK"
    BY TftpAssumption DEF Plain, Packet
  <2>5. opened.resends + 1 < ResendsLimit => Answered(Size, Answer(again, Plain("OACK", 0)))
    BY <1>2, <2>1, <2>4 DEF Answered, Answer, Awaits, Genuine, Closed
  <2> QED BY <2>1, <2>2, <2>3, <2>5 DEF Answer
<1>8. CASE found /\ ~option
  <2>1. ReadRequest(s, found) = NextBlock(opened, 0)
    BY <1>4, <1>8
  <2> QED BY <1>2, <1>3, <1>5, <2>1, NextBlockAnswered DEF Closed
<1> QED BY <1>6, <1>7, <1>8

-----------------------------------------------------------------------------
(* The session.                                                            *)
LEMMA SameSize == option' = option => Size' = Size /\ (Fits' <=> Fits)
BY DEF Size, Fits

LEMMA Datagrams ==
  ASSUME NEW n \in 0 .. BlockMod
  PROVE  Ack(n) \in Packet /\ Request \in Packet /\ Plain("ERROR", 0) \in Packet
         /\ Ack(n).op = "ACK" /\ Ack(n).block = n /\ Request.op = "RRQ"
         /\ Plain("ERROR", 0).op = "ERROR"
BY TftpAssumption DEF Ack, Request, Plain, Packet

\* An answer that is one block ahead at most
LEMMA RespondInv ==
  ASSUME IInv, NEW a, Answered(Size, a), Respond(a),
         UNCHANGED <<option, receiver, restarts>>, strangers' \in 0 .. Strangers,
         toServer' \subseteq toServer, request' \in BOOLEAN,
         restarts = 0 => /\ session.block <= a.session.block
                         /\ a.session.block \in {expected - 1, expected}
                         /\ Fits => ~a.raised
  PROVE  IInv'
<1> USE DEF IInv, TypeOK, receiver
<1>1. Size' = Size /\ (Fits' <=> Fits)
  BY SameSize
<1>2. /\ session' = a.session /\ response' = a.response
      /\ a.session \in Session /\ a.response \in Packet
      /\ toClient \subseteq toClient' /\ toClient' \subseteq toClient \cup {a.response}
      /\ phase' \in {"waiting", "done"} /\ (phase' = "waiting" => ~a.raised)
      /\ result' = IF a.raised THEN "raised" ELSE result
  BY DEF Respond, Answered, Reading
<1>3. TypeOK'
  BY <1>2
<1>4. Sending'
  <2>1. Reading(Size, session')
    BY <1>2 DEF Answered
  <2>2. phase' = "waiting" => Awaits(Size, session', response')
    BY <1>2 DEF Answered
  <2>3. \A p \in toClient' \cup {response'} : Genuine(Size, p)
    BY <1>2 DEF Answered, Sending
  <2> QED BY <1>1, <1>2, <2>1, <2>2, <2>3 DEF Sending
<1>5. Receiving'
  BY <1>1 DEF Receiving
<1>6. InStep'
  <2> SUFFICES ASSUME restarts' = 0 PROVE InStep'
    BY DEF InStep
  <2>1. restarts = 0 /\ session.block \in Nat /\ a.session.block \in Nat
    BY <1>2 DEF Session
  <2>2. \A p \in toClient' \cup {response'} : p.op = "DATA" => p.block <= session'.block
    <3> SUFFICES ASSUME NEW p \in toClient \cup {a.response}, p.op = "DATA"
                 PROVE  p.block <= a.session.block
      BY <1>2
    <3>1. CASE p \in toClient
      <4>1. p.block <= session.block /\ p.block \in Nat
        BY <2>1, <3>1 DEF InStep, Packet
      <4> QED BY <2>1, <4>1
    <3>2. CASE p = a.response
      BY <2>1, <3>2 DEF Answered
    <3> QED BY <3>1, <3>2
  <2>3. \A p \in toServer' \cup {lastSent'} :
          p.op = "ACK" => p.block <= expected' - 1
    BY <2>1 DEF InStep
  <2>4. \A p \in toServer' : p.op # "RRQ"
    BY <2>1 DEF InStep
  <2>5. result' = "served" => Len(File) < Len(received') + Size'
    BY <1>1, <1>2, <2>1 DEF InStep
  <2>6. Fits' => result' # "raised"
    BY <1>1, <1>2, <2>1 DEF InStep
  <2> QED BY <1>2, <2>1, <2>2, <2>3, <2>4, <2>5, <2>6 DEF InStep
<1> QED BY <1>3, <1>4, <1>5, <1>6

\* A session whose numbers overflow has read as many blocks
LEMMA Overflows ==
  ASSUME NEW s, Reading(Size, s), s.block = BlockMod
  PROVE  ~Fits
<1>1. (BlockMod - 1) * Size <= Len(File)
  BY TftpAssumption DEF Reading
<1>2. (BlockMod - 1) * Size \in Nat
  <2>1. BlockMod - 1 \in Nat /\ Size \in Nat
    BY TftpAssumption, SizeType
  <2> QED BY <2>1
<1> QED BY <1>1, <1>2, FileType DEF Fits

LEMMA ProcessAnswered ==
  ASSUME IInv, phase = "waiting", ~session.finished,
         NEW packet \in toServer \cup {Plain("STRAY", 0)}, NEW found
  PROVE  LET a == Process(session, packet, found)
         IN /\ Answered(Size, a)
            /\ restarts = 0 => /\ session.block <= a.session.block
                               /\ a.session.block \in {expected - 1, expected}
                               /\ Fits => ~a.raised
<1> USE DEF IInv, TypeOK
<1>1. /\ Reading(Size, session) /\ session.block < BlockMod /\ session.pos # Closed
      /\ session.block \in Nat /\ expected \in Nat
  BY DEF Sending, Awaits, Session
<1>2. restarts = 0 => session.block \in {expected - 1, expected}
  BY DEF InStep
<1> DEFINE a == Process(session, packet, found)
<1>3. CASE packet.op = "RRQ"
  <2>1. a = ReadRequest(session, found)
    BY <1>3 DEF Process
  <2>2. restarts # 0
    BY <1>3 DEF InStep, Plain
  <2> QED BY <1>1, <2>1, <2>2, RequestAnswered
<1>4. CASE packet.op = "ACK"
  <2>1. a = NextBlock(session, packet.block)
    BY <1>4 DEF Process
  <2> HIDE DEF a
  <2>2. /\ Answered(Size, a)
        /\ a.session.block \in {session.block, session.block + 1}
        /\ a.session.block # session.block => packet.block = session.block
        /\ a.raised => \/ a.session.block = BlockMod
                       \/ session.pos = Closed
                       \/ session.block = 0 /\ packet.block # 0
    BY <1>1, <2>1, NextBlockAnswered
  <2>3. restarts = 0 => packet.block <= expected - 1 /\ packet.block \in Nat
    BY <1>4 DEF InStep, Plain, Packet
  <2>4. a.session.block = BlockMod => ~Fits
    BY <2>2, Overflows DEF Answered
  <2> SUFFICES ASSUME restarts = 0
               PROVE  /\ session.block <= a.session.block
                      /\ a.session.block \in {expected - 1, expected}
                      /\ Fits => ~a.raised
    BY <2>2 DEF a
  <2>5. session.block <= a.session.block /\ a.session.block \in {expected - 1, expected}
    BY <1>1, <1>2, <2>2, <2>3
  <2>6. ~(session.block = 0 /\ packet.block # 0)
    BY <1>1, <1>2, <2>3
  <2> QED BY <1>1, <2>2, <2>4, <2>5, <2>6
<1>5. CASE packet.op \notin {"RRQ", "ACK"}
  <2>1. a = ErrorResponse(session)
    BY <1>5 DEF Process
  <2> QED BY <1>1, <1>2, <2>1, ErrorAnswered
<1> QED BY <1>3, <1>4, <1>5

LEMMA StartInv == ASSUME IInv, Start PROVE IInv'
<1> USE DEF IInv, TypeOK
<1>1. PICK found \in Found : Respond(Process(NewSession, Request, found))
  BY DEF Start
<1> DEFINE a == ReadRequest(NewSession, found)
<1>2. Process(NewSession, Request, found) = a
  BY DEF Process, Request, Plain
<1>3. session = NewSession /\ session.block = 0 /\ 0 < BlockMod /\ ~NewSession.finished
  BY TftpAssumption DEF Start, Sending, NewSession
<1>4. /\ Answered(Size, a) /\ a.session.block \in {0, 1}
      /\ a.raised => a.session.block = BlockMod
  BY <1>3, NewReads, RequestAnswered
<1> HIDE DEF a
<1>5. restarts = 0 => expected = 1
  BY <1>3 DEF InStep
<1>6. a.session.block = BlockMod => ~Fits
  BY <1>4, Overflows DEF Answered
<1>7. restarts = 0 => /\ session.block <= a.session.block
                      /\ a.session.block \in {expected - 1, expected}
                      /\ Fits => ~a.raised
  BY <1>3, <1>4, <1>5, <1>6
<1>8. request' = FALSE /\ UNCHANGED <<option, receiver, toServer, restarts, strangers>>
  BY DEF Start
<1> QED BY <1>1, <1>2, <1>4, <1>7, <1>8, RespondInv

\* After the last response any datagram ends the session
LEMMA EndInv ==
  ASSUME IInv, phase = "waiting", session.finished, phase' = "done",
         result' = IF response.op = "ERROR" THEN "failed" ELSE "served",
         toServer' \subseteq toServer, request' \in BOOLEAN,
         strangers' \in 0 .. Strangers,
         UNCHANGED <<option, receiver, restarts, session, response, toClient>>
  PROVE  IInv'
<1> USE DEF IInv, TypeOK, receiver
<1>1. Size' = Size /\ (Fits' <=> Fits)
  BY SameSize
<1>2. TypeOK'
  OBVIOUS
<1>3. Sending' /\ Receiving'
  BY <1>1 DEF Sending, Receiving
<1>4. restarts = 0 /\ result' = "served" => Len(File) < Len(received) + Size
  <2> SUFFICES ASSUME restarts = 0, result' = "served"
               PROVE  Len(File) < Len(received) + Size
    OBVIOUS
  <2> DEFINE n == session.block - 1
  <2>1. /\ session.block \in Nat /\ session.block > 0 /\ Len(session.last) < Size
        /\ session.last = Chunk(Size, session.block)
        /\ session.block \in {expected - 1, expected} /\ expected \in Nat
    BY DEF Sending, Awaits, Reading, Session, InStep
  <2>2. n \in Nat /\ session.block = n + 1 /\ expected - 1 \in {n, n + 1}
    BY <2>1
  <2> HIDE DEF n
  <2>3. /\ Cut(Size, n + 1) - Cut(Size, n) < Size
        /\ Len(SubSeq(File, 1, Cut(Size, n))) = Cut(Size, n)
    <3>1. Len(session.last) = Cut(Size, n + 1) - Cut(Size, n)
      BY <2>1, <2>2, SizeType, Chunks
    <3>2. Len(SubSeq(File, 1, Cut(Size, n))) = Cut(Size, n)
      BY <2>2, SizeType, Chunks
    <3> QED BY <2>1, <3>1, <3>2
  <2>4. Len(SubSeq(File, 1, Cut(Size, n + 1))) = Cut(Size, n + 1)
    <3>1. n + 1 \in Nat
      BY <2>2
    <3> QED BY <3>1, SizeType, Chunks
  <2>5. /\ Cut(Size, n) \in 0 .. Len(File) /\ Cut(Size, n + 1) = Len(File)
    BY <2>2, <2>3, SizeType, Cuts
  <2>6. received = SubSeq(File, 1, Cut(Size, expected - 1))
    BY DEF Receiving
  <2>7. Len(received) \in {Cut(Size, n), Cut(Size, n + 1)}
    BY <2>2, <2>3, <2>4, <2>6
  <2> QED BY <2>3, <2>5, <2>7, FileType, SizeType
<1>5. InStep'
  BY <1>1, <1>4 DEF InStep
<1> QED BY <1>2, <1>3, <1>5

LEMMA ReceiveInv ==
  ASSUME IInv, NEW packet \in toServer \cup {Plain("STRAY", 0)}, Receive(packet),
         UNCHANGED <<option, receiver, request, restarts>>,
         strangers' \in 0 .. Strangers
  PROVE  IInv'
<1> USE DEF IInv, TypeOK
<1>1. phase = "waiting" /\ toServer' \subseteq toServer /\ request' \in BOOLEAN
  BY DEF Receive
<1>2. CASE session.finished
  BY <1>1, <1>2, EndInv DEF Receive
<1>3. CASE ~session.finished
  <2>1. PICK found \in Found : Respond(Process(session, packet, found))
    BY <1>3 DEF Receive
  <2> QED BY <1>1, <1>3, <2>1, ProcessAnswered, RespondInv
<1> QED BY <1>2, <1>3

LEMMA TimeoutInv == ASSUME IInv, Timeout PROVE IInv'
<1> USE DEF IInv, TypeOK, sender, receiver, Timeout
<1>1. Size' = Size /\ (Fits' <=> Fits)
  BY SameSize
<1>2. TypeOK'
  OBVIOUS
<1>3. Sending' /\ Receiving'
  BY <1>1 DEF Sending, Receiving
<1>4. InStep'
  BY <1>1 DEF InStep
<1> QED BY <1>2, <1>3, <1>4

-----------------------------------------------------------------------------
(* The client and the network.                                             *)

\* Steps that leave what the client has, and bring nothing to it
LEMMA ClientInv ==
  ASSUME IInv, UNCHANGED <<option, sender, expected, received>>,
         client' \in {"off", "asked", "receiving", "complete", "gone"},
         client' = "complete" => client = "complete",
         toClient' \subseteq toClient, request' \in BOOLEAN,
         lastSent' \in Packet, toServer' \subseteq Packet,
         restarts' = restarts, strangers' = strangers,
         restarts = 0 =>
           /\ \A p \in toServer' : p.op # "RRQ"
           /\ \A p \in toServer' \cup {lastSent'} :
                p.op = "ACK" => p.block <= expected - 1
  PROVE  IInv'
<1> USE DEF IInv, TypeOK, sender
<1>1. Size' = Size /\ (Fits' <=> Fits)
  BY SameSize
<1>2. TypeOK'
  OBVIOUS
<1>3. Sending' /\ Receiving'
  BY <1>1 DEF Sending, Receiving
<1>4. InStep'
  BY <1>1 DEF InStep
<1> QED BY <1>2, <1>3, <1>4

LEMMA AskInv == ASSUME IInv, Ask PROVE IInv'
<1>1. restarts = 0 =>
        /\ \A p \in toServer : p.op # "RRQ"
        /\ \A p \in toServer \cup {lastSent} : p.op = "ACK" => p.block <= expected - 1
  BY DEF IInv, InStep
<1> QED BY <1>1, ClientInv DEF IInv, TypeOK, Ask

LEMMA RepeatInv == ASSUME IInv, Repeat PROVE IInv'
<1>1. restarts = 0 =>
        /\ \A p \in toServer : p.op # "RRQ"
        /\ \A p \in toServer \cup {lastSent} : p.op = "ACK" => p.block <= expected - 1
  BY DEF IInv, InStep
<1>2. /\ request' \in BOOLEAN /\ toServer' \subseteq toServer \cup {lastSent}
      /\ restarts = 0 /\ lastSent.op = "RRQ" => toServer' = toServer
  BY DEF Repeat, IInv, TypeOK
<1>3. UNCHANGED <<option, sender, receiver, toClient, restarts, strangers>>
  BY DEF Repeat
<1>4. toServer' \subseteq Packet
  BY <1>2 DEF IInv, TypeOK
<1>5. restarts = 0 =>
        /\ \A p \in toServer' : p.op # "RRQ"
        /\ \A p \in toServer' \cup {lastSent'} : p.op = "ACK" => p.block <= expected - 1
  BY <1>1, <1>2, <1>3 DEF receiver
<1> QED BY <1>2, <1>3, <1>4, <1>5, ClientInv DEF IInv, TypeOK, receiver

\* The client sends an acknowledgement that is not ahead of it, or an error
LEMMA SendInv ==
  ASSUME IInv, NEW packet \in Packet, Send(packet),
         UNCHANGED <<option, sender, expected, received, request, restarts, strangers>>,
         client' \in {"receiving", "gone", client}, toClient' \subseteq toClient,
         packet.op \in {"ACK", "ERROR"},
         packet.op = "ACK" => packet.block <= expected - 1
  PROVE  IInv'
<1>1. restarts = 0 =>
        /\ \A p \in toServer : p.op # "RRQ"
        /\ \A p \in toServer \cup {lastSent} : p.op = "ACK" => p.block <= expected - 1
  BY DEF IInv, InStep
<1>2. toServer' = toServer \cup {packet} /\ lastSent' = packet
  BY DEF Send
<1>3. toServer' \subseteq Packet /\ lastSent' \in Packet
  BY <1>2 DEF IInv, TypeOK
<1>4. restarts = 0 =>
        /\ \A p \in toServer' : p.op # "RRQ"
        /\ \A p \in toServer' \cup {lastSent'} : p.op = "ACK" => p.block <= expected - 1
  BY <1>1, <1>2
<1>5. client' = "complete" => client = "complete"
  OBVIOUS
<1> QED BY <1>3, <1>4, <1>5, ClientInv DEF IInv, TypeOK

LEMMA AcceptDataInv ==
  ASSUME IInv, NEW packet \in toClient, AcceptData(packet), toClient' \subseteq toClient,
         UNCHANGED <<option, sender, request, restarts, strangers>>
  PROVE  /\ IInv'
         /\ received' = SubSeq(File, 1, Cut(Size, expected))
         /\ client' = "complete" => Cut(Size, expected) = Len(File)
<1> USE DEF IInv, TypeOK, sender
<1>1. Size' = Size /\ (Fits' <=> Fits) /\ Size \in Nat \ {0}
  BY SameSize, SizeType
<1> DEFINE n == expected - 1
<1>2. /\ packet.op = "DATA" /\ packet.block = expected /\ packet.data = Chunk(Size, expected)
      /\ expected \in 1 .. BlockMod - 1
  BY DEF AcceptData, Sending, Genuine
<1>3. n \in Nat /\ expected = n + 1
  BY <1>2
<1> HIDE DEF n
<1>4. /\ received \o packet.data = SubSeq(File, 1, Cut(Size, n + 1))
      /\ Len(packet.data) = Cut(Size, n + 1) - Cut(Size, n)
      /\ Len(received) = Cut(Size, n)
  <2>1. received = SubSeq(File, 1, Cut(Size, n)) /\ packet.data = Chunk(Size, n + 1)
    BY <1>2, <1>3 DEF Receiving, n
  <2> QED BY <1>1, <1>3, <2>1, Chunks
<1>5. /\ SubSeq(File, 1, Cut(Size, n + 1)) \in Seq(Bytes)
      /\ Len(SubSeq(File, 1, Cut(Size, n + 1))) = Cut(Size, n + 1)
  <2>1. n + 1 \in Nat
    BY <1>3
  <2> QED BY <1>1, <2>1, Chunks
<1>6. /\ Cut(Size, n) \in 0 .. Len(File) /\ Cut(Size, n + 1) \in 0 .. Len(File)
      /\ Cut(Size, n) <= Cut(Size, n + 1)
      /\ Cut(Size, n + 1) - Cut(Size, n) < Size => Cut(Size, n + 1) = Len(File)
  <2>1. n + 1 \in Nat
    BY <1>3
  <2> QED BY <1>1, <1>3, <2>1, Cuts
<1>7. received' = SubSeq(File, 1, Cut(Size, expected)) /\ expected' = expected + 1
  BY <1>3, <1>4 DEF AcceptData
<1>8. /\ client' \in {"complete", "receiving"}
      /\ client' = "complete" => Cut(Size, expected) = Len(File)
  BY <1>3, <1>4, <1>6 DEF AcceptData
<1>9. /\ Ack(expected) \in Packet /\ Ack(expected).op = "ACK" /\ Ack(expected).block = expected
  <2>1. expected \in 0 .. BlockMod
    BY <1>2, TftpAssumption
  <2> QED BY <2>1, Datagrams
<1>10. toServer' = toServer \cup {Ack(expected)} /\ lastSent' = Ack(expected)
  BY <1>2 DEF AcceptData, Send
<1>11. TypeOK'
  <2>1. expected' \in 1 .. BlockMod
    BY <1>2, <1>7, TftpAssumption
  <2>2. received' \in Seq(Bytes)
    BY <1>3, <1>5, <1>7
  <2> QED BY <1>8, <1>9, <1>10, <2>1, <2>2
<1>12. Sending'
  BY <1>1 DEF Sending
<1>13. Receiving'
  <2>1. expected' - 1 = expected
    BY <1>2, <1>7
  <2> QED BY <1>1, <1>7, <1>8, <2>1 DEF Receiving
<1>14. InStep'
  <2> SUFFICES ASSUME restarts' = 0 PROVE InStep'
    BY DEF InStep
  <2>1. /\ restarts = 0 /\ session.block \in Nat /\ expected <= session.block
        /\ session.block \in {expected - 1, expected}
    BY <1>2 DEF InStep, Session
  <2>2. session'.block \in {expected' - 1, expected'}
    BY <1>2, <1>7, <2>1
  <2>3. \A p \in toServer' : p.op # "RRQ"
    BY <1>9, <1>10, <2>1 DEF InStep
  <2>4. \A p \in toServer' \cup {lastSent'} : p.op = "ACK" => p.block <= expected' - 1
    <3> SUFFICES ASSUME NEW p \in toServer \cup {Ack(expected)}, p.op = "ACK"
                 PROVE  p.block <= expected' - 1
      BY <1>10
    <3>1. CASE p = Ack(expected)
      BY <1>2, <1>7, <1>9, <3>1
    <3>2. CASE p \in toServer
      <4>1. p.block <= expected - 1 /\ p.block \in Nat
        BY <2>1, <3>2 DEF InStep, Packet
      <4> QED BY <1>2, <1>7, <4>1
    <3> QED BY <3>1, <3>2
  <2>5. \A p \in toClient' \cup {response'} : p.op = "DATA" => p.block <= session'.block
    BY <2>1 DEF InStep
  <2>6. result' = "served" => Len(File) < Len(received') + Size'
    <3> SUFFICES ASSUME result = "served" PROVE Len(File) < Len(received') + Size
      BY <1>1
    <3>1. Len(File) < Cut(Size, n) + Size
      BY <1>4, <2>1 DEF InStep
    <3>2. Len(received') = Cut(Size, n + 1)
      BY <1>3, <1>5, <1>7
    <3> QED BY <1>1, <1>6, <3>1, <3>2, FileType
  <2>7. Fits' => result' # "raised"
    BY <1>1, <2>1 DEF InStep
  <2> QED BY <2>1, <2>2, <2>3, <2>4, <2>5, <2>6, <2>7 DEF InStep
<1> QED BY <1>7, <1>8, <1>11, <1>12, <1>13, <1>14

LEMMA AcceptInv == ASSUME IInv, NEW packet \in toClient, Accept(packet) PROVE IInv'
<1>0. toClient' \subseteq toClient /\ UNCHANGED <<option, sender, request, restarts, strangers>>
  BY DEF Accept
<1>t. /\ expected \in 1 .. BlockMod
      /\ client \in {"off", "asked", "receiving", "complete", "gone"}
  BY DEF IInv, TypeOK
<1>1. CASE AcceptOack(packet)
  <2>1. Ack(0) \in Packet /\ Ack(0).op = "ACK" /\ Ack(0).block = 0
    BY Datagrams, TftpAssumption
  <2>2. 0 <= expected - 1
    BY <1>t
  <2> QED BY <1>0, <1>1, <2>1, <2>2, SendInv DEF AcceptOack
<1>2. CASE AcceptData(packet)
  BY <1>0, <1>2, AcceptDataInv
<1>3. CASE AcceptAgain(packet)
  <2>1. packet.block = expected - 1 /\ packet.block \in 0 .. BlockMod
    BY <1>3, <1>t, TftpAssumption DEF AcceptAgain
  <2>2. Ack(packet.block) \in Packet /\ Ack(packet.block).op = "ACK"
        /\ Ack(packet.block).block <= expected - 1
    BY <1>t, <2>1, Datagrams
  <2> QED BY <1>0, <1>3, <2>2, SendInv DEF AcceptAgain
<1>4. CASE AcceptError(packet)
  <2>1. restarts = 0 =>
          /\ \A p \in toServer : p.op # "RRQ"
          /\ \A p \in toServer \cup {lastSent} : p.op = "ACK" => p.block <= expected - 1
    BY DEF IInv, InStep
  <2> QED BY <1>0, <1>4, <2>1, ClientInv DEF AcceptError, IInv, TypeOK
<1> QED BY <1>1, <1>2, <1>3, <1>4 DEF Accept

LEMMA GiveUpInv == ASSUME IInv, GiveUp PROVE IInv'
<1>1. restarts = 0 =>
        /\ \A p \in toServer : p.op # "RRQ"
        /\ \A p \in toServer \cup {lastSent} : p.op = "ACK" => p.block <= expected - 1
  BY DEF IInv, InStep
<1> QED BY <1>1, ClientInv DEF IInv, TypeOK, GiveUp

LEMMA AbortInv == ASSUME IInv, Abort PROVE IInv'
<1>1. Plain("ERROR", 0) \in Packet /\ Plain("ERROR", 0).op = "ERROR"
  BY NewReads DEF Plain
<1> QED BY <1>1, SendInv DEF Abort

LEMMA StartOverInv == ASSUME IInv, StartOver PROVE IInv'
<1> USE DEF IInv, TypeOK, sender, StartOver
<1>1. Size' = Size /\ Size \in Nat \ {0}
  BY SameSize, SizeType
<1>2. restarts' \in 0 .. MaxRestarts /\ restarts' # 0
  BY TftpAssumption
<1>3. toServer' \subseteq Packet /\ lastSent' \in Packet
  <2>1. Request \in Packet
    BY TftpAssumption DEF Request, Plain, Packet
  <2> QED BY <2>1 DEF Send
<1>4. TypeOK'
  <2>1. 1 \in 1 .. BlockMod /\ <<>> \in Seq(Bytes)
    BY TftpAssumption
  <2> QED BY <1>2, <1>3, <2>1
<1>5. Sending'
  BY <1>1 DEF Sending
<1>6. Receiving'
  <2>1. Cut(Size, 1 - 1) = 0
    BY <1>1, Cuts
  <2>2. SubSeq(File, 1, 0) = <<>>
    BY SubSeqEmpty
  <2>3. expected' - 1 = 1 - 1 /\ received' = <<>> /\ client' = "asked"
    OBVIOUS
  <2> QED BY <1>1, <2>1, <2>2, <2>3 DEF Receiving
<1>7. InStep'
  BY <1>2 DEF InStep
<1> QED BY <1>4, <1>5, <1>6, <1>7

LEMMA LoseInv == ASSUME IInv, Lose PROVE IInv'
<1>1. restarts = 0 =>
        /\ \A p \in toServer : p.op # "RRQ"
        /\ \A p \in toServer \cup {lastSent} : p.op = "ACK" => p.block <= expected - 1
  BY DEF IInv, InStep
<1>2. /\ toServer' \subseteq toServer /\ toClient' \subseteq toClient
      /\ request' \in BOOLEAN
      /\ UNCHANGED <<option, sender, receiver, restarts, strangers>>
  BY DEF Lose, IInv, TypeOK
<1> QED BY <1>1, <1>2, ClientInv DEF IInv, TypeOK, receiver

-----------------------------------------------------------------------------
LEMMA InitInv == Init => IInv
<1> SUFFICES ASSUME Init PROVE IInv
  OBVIOUS
<1> USE DEF Init
<1>1. Size \in Nat \ {0}
  BY SizeType
<1>2. Request \in Packet /\ Request.op = "RRQ" /\ Plain("ERROR", 0) \in Packet
      /\ Plain("ERROR", 0).op = "ERROR"
  BY TftpAssumption DEF Request, Plain, Packet
<1>3. NewSession \in Session /\ NewSession.block = 0
  BY NewReads DEF Reading, NewSession
<1>4. TypeOK
  <2>1. 1 \in 1 .. BlockMod /\ <<>> \in Seq(Bytes) /\ 0 \in 0 .. MaxRestarts
        /\ Strangers \in 0 .. Strangers
    BY TftpAssumption
  <2>2. option \in BOOLEAN /\ request \in BOOLEAN
    OBVIOUS
  <2> QED BY <1>2, <1>3, <2>1, <2>2 DEF TypeOK
<1>5. Sending
  BY <1>2, NewReads DEF Sending, Genuine
<1>6. Receiving
  <2>1. Cut(Size, 1 - 1) = 0
    BY <1>1, Cuts
  <2>2. SubSeq(File, 1, 0) = <<>>
    BY SubSeqEmpty
  <2> QED BY <2>1, <2>2 DEF Receiving
<1>7. InStep
  BY <1>2, <1>3 DEF InStep
<1> QED BY <1>4, <1>5, <1>6, <1>7 DEF IInv

LEMMA StepInv == IInv /\ [Next]_vars => IInv'
<1> SUFFICES ASSUME IInv, [Next]_vars PROVE IInv'
  OBVIOUS
<1>1. CASE Start
  BY <1>1, StartInv
<1>2. CASE ReceiveOne
  <2>1. PICK packet \in toServer : Receive(packet)
    BY <1>2 DEF ReceiveOne
  <2>2. UNCHANGED <<option, receiver, request, restarts, strangers>>
    BY <1>2 DEF ReceiveOne
  <2>3. strangers' \in 0 .. Strangers
    BY <2>2 DEF IInv, TypeOK
  <2> QED BY <2>1, <2>2, <2>3, ReceiveInv
<1>3. CASE ReceiveStranger
  <2>1. strangers' \in 0 .. Strangers
    BY <1>3, TftpAssumption DEF ReceiveStranger, IInv, TypeOK
  <2> QED BY <1>3, <2>1, ReceiveInv DEF ReceiveStranger
<1>4. CASE Timeout
  BY <1>4, TimeoutInv
<1>5. CASE Ask \/ Repeat \/ GiveUp \/ Abort \/ StartOver \/ Lose
  BY <1>5, AskInv, RepeatInv, GiveUpInv, AbortInv, StartOverInv, LoseInv
<1>6. CASE AcceptOne
  BY <1>6, AcceptInv DEF AcceptOne
<1>7. CASE UNCHANGED vars
  <2> USE DEF vars, sender, receiver
  <2>1. TypeOK'
    BY <1>7 DEF IInv, TypeOK
  <2>2. Size' = Size /\ (Fits' <=> Fits)
    BY <1>7, SameSize
  <2>3. Sending' /\ Receiving'
    BY <1>7, <2>2 DEF IInv, Sending, Receiving
  <2>4. InStep'
    BY <1>7, <2>2 DEF IInv, InStep
  <2> QED BY <2>1, <2>3, <2>4 DEF IInv
<1> QED BY <1>1, <1>2, <1>3, <1>4, <1>5, <1>6, <1>7 DEF Next

(* What the session has read, what is under way and what the client has,   *)
(* in every state.                                                         *)
THEOREM SessionInvariant == Spec => []IInv
BY InitInv, StepInv, PTL DEF Spec

(* A session that ended without an error left its client with the whole    *)
(* file but, at most, its last block: _next_block() goes on only for the   *)
(* acknowledgement of the block that was sent last.                        *)
THEOREM AllButLastServed == Spec => []ServedButLast
<1>1. IInv => ServedButLast
  BY DEF IInv, InStep, ServedButLast
<1> QED BY <1>1, SessionInvariant, PTL

(* Neither a late, repeated or lost datagram nor the last block of the     *)
(* file makes process() raise an exception for a client that asked once:   *)
(* that takes more blocks than their numbers of 16 bits can count.         *)
THEOREM NoneRaised == Spec => []NothingRaised
<1>1. IInv => NothingRaised
  BY DEF IInv, InStep, NothingRaised
<1> QED BY <1>1, SessionInvariant, PTL

-----------------------------------------------------------------------------
(* The client has the blocks up to the one it expects, which end in the    *)
(* file, and moves to the next block or to none.                           *)
LEMMA TransferStep ==
  ASSUME IInv, [Next]_vars
  PROVE  [Transfer!Next]_<<received, client = "complete">>
<1> USE DEF IInv, TypeOK
<1>1. CASE \E packet \in toClient : Accept(packet) /\ AcceptData(packet)
  <2>1. PICK packet \in toClient : Accept(packet) /\ AcceptData(packet)
    BY <1>1
  <2>2. /\ received' = SubSeq(File, 1, Cut(Size, expected))
        /\ client' = "complete" => Cut(Size, expected) = Len(File)
    BY <2>1, AcceptDataInv DEF Accept
  <2> DEFINE n == expected - 1
  <2>3. n \in Nat /\ expected = n + 1 /\ Size \in Nat \ {0}
    BY SizeType
  <2>4. received = SubSeq(File, 1, Cut(Size, n))
    BY DEF Receiving
  <2> HIDE DEF n
  <2>5. /\ Len(received) = Cut(Size, n) /\ Cut(Size, n) \in 0 .. Len(File)
        /\ Cut(Size, expected) \in 0 .. Len(File) /\ Cut(Size, n) <= Cut(Size, expected)
    <3>1. n + 1 \in Nat
      BY <2>3
    <3> QED BY <2>3, <2>4, <3>1, Cuts, Chunks
  <2>6. Cut(Size, expected) \in Len(received) .. Len(File)
    BY <2>5, FileType
  <2>7. client # "complete"
    BY <2>1 DEF AcceptData
  <2>8. Transfer!Grow
    BY <2>2, <2>6, <2>7 DEF Transfer!Grow
  <2> QED BY <2>8 DEF Transfer!Next
<1>2. CASE StartOver
  <2>1. Transfer!Restart
    BY <1>2 DEF StartOver, Transfer!Restart
  <2> QED BY <2>1 DEF Transfer!Next
<1>3. ASSUME ~StartOver, ~(\E packet \in toClient : Accept(packet) /\ AcceptData(packet))
      PROVE  UNCHANGED <<received, client = "complete">>
  <2>1. CASE Start \/ ReceiveOne \/ ReceiveStranger \/ Timeout \/ Repeat \/ Lose \/ UNCHANGED vars
    BY <2>1 DEF Start, ReceiveOne, ReceiveStranger, Timeout, Repeat, Lose, vars, receiver
  <2>2. CASE Ask \/ GiveUp \/ Abort
    BY <2>2 DEF Ask, GiveUp, Abort
  <2>3. CASE AcceptOne
    <3>1. PICK packet \in toClient : Accept(packet)
      BY <2>3 DEF AcceptOne
    <3>2. AcceptOack(packet) \/ AcceptAgain(packet) \/ AcceptError(packet)
      BY <1>3, <3>1 DEF Accept
    <3> QED BY <3>2 DEF AcceptOack, AcceptAgain, AcceptError
  <2> QED BY <1>3, <2>1, <2>2, <2>3 DEF Next
<1> QED BY <1>1, <1>2, <1>3

(* The session is a file transfer: whatever the network does with the      *)
(* datagrams, the client has the beginning of the file, block by block,    *)
(* and takes it for complete only when it has all of it.                   *)
THEOREM SessionImplementsTransfer == Spec => IsTransfer
<1>1. Init => Transfer!Init
  BY DEF Init, Transfer!Init
<1>2. IInv /\ [Next]_vars => [Transfer!Next]_<<received, client = "complete">>
  BY TransferStep
<1> QED BY <1>1, <1>2, SessionInvariant, PTL DEF Spec, IsTransfer, Transfer!Spec

-----------------------------------------------------------------------------
(***************************************************************************)
(* The server.                                                             *)
(***************************************************************************)
(* What the server and the port are, by where run() and the calls of       *)
(* stop() stand.  The server is cleared only when its thread has ended, so *)
(* a stop() that finds it cleared has nothing left to wait for.            *)
Stopping ==
  /\ run = "bind" <=> port = "new"
  /\ run \in {"bind", "start"} <=> serving = "new"
  /\ run = "bind" => ~server
  /\ ~server /\ run # "bind" => port = "closed" /\ serving = "ended"
  /\ run \in {"stop", "returned"} <=> stop["run"] # "idle"
  /\ run = "returned" => stop["run"] \in {"stopped", "raised"}
  /\ stop["run"] = "stopped" => ~server
  /\ \A s \in Stoppers :
       /\ stop[s] \in {"join", "shutdown", "wait", "clear"} => port = "closed"
       /\ stop[s] = "clear" => serving = "ended"
       /\ stop[s] = "closing" => run # "bind"
       /\ stop[s] = "raised" => ~server /\ run # "bind"

\* Every session is under way or counted, by a handler of its own
InSession == {h \in Handlers : handler[h] = "session"}
Counting ==
  /\ done + Cardinality(InSession) = begun
  /\ done <= Cardinality(Over)

\* As long as nobody stops it, run() has a server and time left
Timing ==
  /\ run \in {"bind", "start", "check", "sleep"} => left > 0
  /\ run \in {"start", "check", "sleep"} /\ stop["other"] = "idle" => server
  /\ run = "stop" /\ left > 0 /\ stop["other"] = "idle" => done >= Sessions

ServerInv == ServerTypeOK /\ Stopping /\ Counting /\ Timing

-----------------------------------------------------------------------------
(* The sets of handlers that are counted, when one handler moves on.       *)
LEMMA HandlersFinite ==
  ASSUME NEW h
  PROVE  /\ IsFiniteSet(InSession) /\ IsFiniteSet(Over)
         /\ IsFiniteSet(InSession \cup {h}) /\ IsFiniteSet(InSession \ {h})
         /\ Cardinality(InSession) \in Nat /\ Cardinality(Over) \in Nat
         /\ h \notin InSession =>
              Cardinality(InSession \cup {h}) = Cardinality(InSession) + 1
         /\ h \in InSession =>
              Cardinality(InSession \ {h}) = Cardinality(InSession) - 1
         /\ h \notin Over => Cardinality(Over \cup {h}) = Cardinality(Over) + 1
<1>1. InSession \in SUBSET Handlers /\ Over \in SUBSET Handlers
  BY DEF InSession, Over
<1>2. IsFiniteSet(InSession) /\ IsFiniteSet(Over)
  BY <1>1, ServerAssumption, FS_Subset
<1> QED BY <1>2, FS_CardinalityType, FS_AddElement, FS_RemoveElement

\* A step in which no session begins and none ends
LEMMA SameHandlers ==
  ASSUME ServerInv, UNCHANGED <<handler, begun, done>>
  PROVE  Counting'
BY DEF ServerInv, Counting, InSession, Over

LEMMA RunInv == ASSUME ServerInv, Run PROVE ServerInv'
<1> USE DEF ServerInv, ServerTypeOK, Stages, Stoppers
<1>1. CASE Bind
  <2>1. UNCHANGED <<handler, begun, done>>
    BY <1>1 DEF Bind
  <2>2. ServerTypeOK' /\ Stopping' /\ Timing'
    BY <1>1 DEF Bind, Stopping, Timing
  <2> QED BY <2>1, <2>2, SameHandlers
<1>2. CASE StartThread
  <2>1. UNCHANGED <<handler, begun, done>>
    BY <1>2 DEF StartThread
  <2>2. ServerTypeOK' /\ Stopping' /\ Timing'
    BY <1>2 DEF StartThread, Stopping, Timing
  <2> QED BY <2>1, <2>2, SameHandlers
<1>3. CASE Check
  <2>1. UNCHANGED <<handler, begun, done>>
    BY <1>3 DEF Check
  <2>2. ServerTypeOK' /\ Stopping' /\ Timing'
    BY <1>3 DEF Check, Enough, Stopping, Timing
  <2> QED BY <2>1, <2>2, SameHandlers
<1>4. CASE Sleep
  <2>1. UNCHANGED <<handler, begun, done>>
    BY <1>4 DEF Sleep
  <2>2. left' \in 0 .. SessionTimeout
    BY <1>4, ServerAssumption DEF Sleep, TimeLeft, Timing
  <2>3. ServerTypeOK' /\ Stopping' /\ Timing'
    BY <1>4, <2>2 DEF Sleep, Stopping, Timing
  <2> QED BY <2>1, <2>3, SameHandlers
<1>5. CASE Return
  <2>1. UNCHANGED <<handler, begun, done>>
    BY <1>5 DEF Return
  <2>2. ServerTypeOK' /\ Stopping' /\ Timing'
    BY <1>5 DEF Return, Stopping, Timing
  <2> QED BY <2>1, <2>2, SameHandlers
<1> QED BY <1>1, <1>2, <1>3, <1>4, <1>5 DEF Run

LEMMA ServeInv == ASSUME ServerInv, Hear \/ Serve PROVE ServerInv'
<1> USE DEF ServerInv, ServerTypeOK, Stages, Stoppers
<1>1. CASE Hear \/ ServeEnd
  <2>1. UNCHANGED <<handler, begun, done>>
    BY <1>1 DEF Hear, ServeEnd
  <2>2. ServerTypeOK' /\ Stopping' /\ Timing'
    BY <1>1 DEF Hear, ServeEnd, Stopping, Timing
  <2> QED BY <2>1, <2>2, SameHandlers
<1>2. CASE Hand
  <2>1. PICK h \in Handlers : /\ handler[h] = "none"
                             /\ handler' = [handler EXCEPT ![h] = "asked"]
    BY <1>2 DEF Hand
  <2>2. ServerTypeOK' /\ Stopping' /\ Timing'
    BY <1>2, <2>1 DEF Hand, Stopping, Timing
  <2>3. InSession' = InSession /\ Over' = Over
    BY <2>1 DEF InSession, Over
  <2> QED BY <1>2, <2>2, <2>3 DEF Counting, Hand
<1> QED BY <1>1, <1>2 DEF Serve

LEMMA AvailableInv == ASSUME ServerInv, Available PROVE ServerInv'
<1> USE DEF ServerInv, ServerTypeOK, Stages, Stoppers
<1> DEFINE Chosen == IF begun < Sessions THEN "chosen" ELSE "ended"
<1>1. PICK h \in Handlers : /\ handler[h] = "asked"
                           /\ handler' = [handler EXCEPT ![h] = Chosen]
  BY DEF Available
<1>2. ServerTypeOK' /\ Stopping' /\ Timing'
  BY <1>1 DEF Available, Stopping, Timing
<1>3. InSession' = InSession /\ Over' \in {Over, Over \cup {h}} /\ h \notin Over
  BY <1>1 DEF InSession, Over
<1>4. Cardinality(Over') \in {Cardinality(Over), Cardinality(Over) + 1}
  BY <1>3, HandlersFinite
<1>5. /\ Cardinality(InSession) \in Nat /\ Cardinality(Over) \in Nat
      /\ UNCHANGED <<begun, done>>
  BY HandlersFinite DEF Available
<1>6. Counting'
  BY <1>3, <1>4, <1>5 DEF Counting
<1> QED BY <1>2, <1>6

LEMMA NextSessionInv == ASSUME ServerInv, NextSession PROVE ServerInv'
<1> USE DEF ServerInv, ServerTypeOK, Stages, Stoppers
<1>1. PICK h \in Handlers : /\ handler[h] = "chosen"
                           /\ handler' = [handler EXCEPT ![h] = "session"]
  BY DEF NextSession
<1>2. ServerTypeOK' /\ Stopping' /\ Timing'
  BY <1>1 DEF NextSession, Stopping, Timing
<1>3. InSession' = InSession \cup {h} /\ Over' = Over /\ h \notin InSession
  BY <1>1 DEF InSession, Over
<1>4. /\ Cardinality(InSession') = Cardinality(InSession) + 1
      /\ Cardinality(Over') = Cardinality(Over)
      /\ Cardinality(InSession) \in Nat /\ Cardinality(Over) \in Nat
  BY <1>3, HandlersFinite
<1>5. Counting'
  BY <1>4 DEF Counting, NextSession
<1> QED BY <1>2, <1>5

LEMMA SessionDoneInv == ASSUME ServerInv, SessionDone PROVE ServerInv'
<1> USE DEF ServerInv, ServerTypeOK, Stages, Stoppers
<1>1. PICK h \in Handlers : /\ handler[h] = "session"
                           /\ handler' = [handler EXCEPT ![h] = "ended"]
  BY DEF SessionDone
<1>2. ServerTypeOK' /\ Stopping' /\ Timing'
  BY <1>1, ServerAssumption DEF SessionDone, Counted, Stopping, Timing
<1>3. /\ InSession' = InSession \ {h} /\ h \in InSession
      /\ Over' = Over \cup {h} /\ h \notin Over
  BY <1>1 DEF InSession, Over
<1>4. /\ Cardinality(InSession') = Cardinality(InSession) - 1
      /\ Cardinality(Over') = Cardinality(Over) + 1
      /\ Cardinality(InSession) \in Nat /\ Cardinality(Over) \in Nat
  BY <1>3, HandlersFinite
<1>5. Counting'
  BY <1>4 DEF Counting, SessionDone, Counted
<1> QED BY <1>2, <1>5

(* stop(), called by run() or by another thread.                           *)
LEMMA StopInv == ASSUME ServerInv, NEW s \in Stoppers, Stop(s) PROVE ServerInv'
<1> USE DEF ServerInv, ServerTypeOK, Stages, Stoppers
<1>1. UNCHANGED <<handler, begun, done>>
  BY DEF Stop, Find, Close, Join, Shutdown, Wait, Clear
<1>7. CASE Find(s)
  BY <1>1, <1>7, SameHandlers DEF Find, At, Stopping, Timing
<1>2. CASE Close(s)
  BY <1>1, <1>2, SameHandlers DEF Close, Stopping, Timing
<1>3. CASE Join(s)
  BY <1>1, <1>3, SameHandlers DEF Join, At, Stopping, Timing
<1>4. CASE Shutdown(s)
  BY <1>1, <1>4, SameHandlers DEF Shutdown, Stopping, Timing
<1>5. CASE Wait(s)
  BY <1>1, <1>5, SameHandlers DEF Wait, At, Ended, Stopping, Timing
<1>6. CASE Clear(s)
  BY <1>1, <1>6, SameHandlers DEF Clear, At, Stopping, Timing
<1> QED BY <1>2, <1>3, <1>4, <1>5, <1>6, <1>7 DEF Stop

LEMMA CallStopInv == ASSUME ServerInv, CallStop PROVE ServerInv'
<1> USE DEF ServerInv, ServerTypeOK, Stages, Stoppers
<1>1. UNCHANGED <<handler, begun, done>>
  BY DEF CallStop
<1> QED BY <1>1, SameHandlers DEF CallStop, Stopping, Timing

LEMMA ServerInitInv == ServerInit => ServerInv
<1> SUFFICES ASSUME ServerInit PROVE ServerInv
  OBVIOUS
<1>1. ServerTypeOK
  <2>1. left \in 0 .. SessionTimeout
    BY ServerAssumption DEF ServerInit
  <2> QED BY <2>1 DEF ServerInit, ServerTypeOK, Stages, Stoppers
<1>2. Stopping
  BY DEF ServerInit, Stopping, Stoppers
<1>3. InSession = {} /\ Over = {}
  BY DEF ServerInit, InSession, Over
<1>4. Counting
  BY <1>3, FS_EmptySet DEF ServerInit, Counting
<1>5. Timing
  BY ServerAssumption DEF ServerInit, Timing
<1> QED BY <1>1, <1>2, <1>4, <1>5 DEF ServerInv

LEMMA ServerStepInv == ASSUME ServerInv, [ServerNext]_serverVars PROVE ServerInv'
<1>1. CASE ServerNext
  BY <1>1, RunInv, ServeInv, AvailableInv, NextSessionInv, SessionDoneInv,
     CallStopInv, StopInv DEF ServerNext, Handle
<1>2. CASE UNCHANGED serverVars
  BY <1>2 DEF serverVars, ServerInv, ServerTypeOK, Stopping, Counting, Timing, InSession, Over
<1> QED BY <1>1, <1>2

-----------------------------------------------------------------------------
(* The inductive invariant: where run() and the calls of stop() stand is   *)
(* what the server, its port and its thread are, and each session has its  *)
(* handler (tftpserver.py 469-632).                                        *)
THEOREM ServerInvariant == ServerSpec => []ServerInv
<1>1. ServerInit => ServerInv
  BY ServerInitInv
<1>2. ServerInv /\ [ServerNext]_serverVars => ServerInv'
  BY ServerStepInv
<1> QED BY <1>1, <1>2, PTL DEF ServerSpec

(* However run() ends and however many threads stop the server, the port   *)
(* is closed and the server thread is gone when run() returns; a stop()    *)
(* that raises because another cleared the server leaves nothing behind.   *)
THEOREM ReturnedIsStopped == ServerSpec => []ReturnedStopped
<1>1. ServerInv => ReturnedStopped
  BY DEF ServerInv, Stopping, ReturnedStopped, Stoppers
<1> QED BY <1>1, ServerInvariant, PTL

(* The sessions that run() counts are those that are over, and it comes    *)
(* back early only when it counted enough of them or was stopped.          *)
THEOREM SessionsAreCounted == ServerSpec => []CountIsServed
<1>1. ServerInv => CountIsServed
  BY DEF ServerInv, Counting, Timing, CountIsServed, InSession
<1> QED BY <1>1, ServerInvariant, PTL
================================================================================
