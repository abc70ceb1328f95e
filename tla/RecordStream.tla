----------------------------- MODULE RecordStream -----------------------------
(***************************************************************************)
(* The framing of trace/record/record-client.c: rtems_record_client_run()  *)
(* gets the byte stream of a server in chunks of any length and puts the   *)
(* header and the items together.  The header says whether the items have  *)
(* 32 or 64 bits of data and which byte order; the server's byte order may *)
(* differ from the host's.                                                 *)
(*                                                                         *)
(* A step is one iteration of the loop of consume_init(), consume_32(),    *)
(* consume_64(), consume_swap_32() or consume_swap_64().  An integer is    *)
(* the sequence of its bytes, the least significant one first; visit() is  *)
(* the module RecordClient and here only notes the item.                   *)
(***************************************************************************)
EXTENDS Naturals, Sequences, SequencesExt

CONSTANTS
  Word,           (* the bytes of a uint32_t                                 *)
  Items32,        (* the items of a server with 32 bits of data              *)
  Items64,        (* the items of a server with 64 bits of data              *)
  Formats,        (* the formats a stream may have                           *)
  HostLittle,     (* is the host a little endian machine?                    *)
  Magic,          (* RTEMS_RECORD_MAGIC                                      *)
  Magics,         (* what a stream may have in its place                     *)
  MaxChunk        (* bound: the length of the buffer of a call               *)

VARIABLES
  format,         \* the format of the stream
  magic,          \* its magic
  fed,            \* how many of its bytes were passed to the client
  buf,            \* the rest of the bytes of this call
  consume,        \* the function behind ctx->consume
  dataSize,       \* the bytes of the data of an item
  todo,           \* the bytes that complete the header or item
  store,          \* its bytes so far, up to ctx->pos
  visited,        \* the items passed to visit()
  status          \* the status of the context

stream == <<format, magic>>
vars == <<stream, fed, buf, consume, dataSize, todo, store, visited, status>>

\* A format is one byte, repeated: RTEMS_RECORD_FORMAT_LE_32 is 0x11111111
LE32 == 17
LE64 == 34
BE32 == 51
BE64 == 68
KnownFormats == {LE32, LE64, BE32, BE64}
Little(f) == f \in {LE32, LE64}
DataBytes(f) == IF f \in {LE32, BE32} THEN Word ELSE 2 * Word
SentIn(f) == IF DataBytes(f) = Word THEN Items32 ELSE Items64
IsItem(i, size) == /\ i.event \in Seq(Nat) /\ Len(i.event) = Word
                   /\ i.data \in Seq(Nat) /\ Len(i.data) = size

ASSUME StreamAssumption ==
  /\ Word \in Nat \ {0}
  /\ \A i \in 1 .. Len(Items32) : IsItem(Items32[i], Word)
  /\ \A i \in 1 .. Len(Items64) : IsItem(Items64[i], 2 * Word)
  /\ HostLittle \in BOOLEAN
  /\ \A m \in Magics \cup {Magic} : m \in Seq(Nat) /\ Len(m) = Word
  /\ MaxChunk \in Nat \ {0}

\* An integer in the memory of a machine, and back
InOrder(little, bytes) == IF little THEN bytes ELSE Reverse(bytes)

(* The bytes of the stream (external).  The first word names the format    *)
(* and reads the same in both byte orders.                                 *)
FormatWord(f) == [i \in 1 .. Word |-> f]
Encode(f, i) == InOrder(Little(f), i.event) \o InOrder(Little(f), i.data)
Wire == FormatWord(format) \o InOrder(Little(format), magic) \o
        FlattenSeq([i \in 1 .. Len(SentIn(format)) |->
                      Encode(format, SentIn(format)[i])])

-----------------------------------------------------------------------------
\* rtems_record_client_init()
Init ==
  /\ format \in Formats /\ magic \in Magics
  /\ fed = 0 /\ buf = <<>>
  /\ consume = "init" /\ dataSize = 0
  /\ todo = 2 * Word /\ store = <<>>
  /\ visited = <<>> /\ status = "SUCCESS"

(* rtems_record_client_run() is called with the next bytes: a file or a    *)
(* socket returns as many as it likes.                                     *)
Run ==
  /\ buf = <<>>
  /\ \E n \in 1 .. MaxChunk :
       /\ fed' = fed + n
       /\ fed + n <= Len(Wire)
       /\ buf' = SubSeq(Wire, fed + 1, fed + n)
  /\ UNCHANGED <<stream, consume, dataSize, todo, store, visited, status>>

Taken == IF todo < Len(buf) THEN todo ELSE Len(buf)
\* The bytes before and after memcpy()
Copied == store \o SubSeq(buf, 1, Taken)
\* Mutant: what follows a complete item in the same call is dropped
RestDropped == <<>>
Rest == SubSeq(buf, Taken + 1, Len(buf))

\* The copy completes nothing yet
Partial ==
  /\ consume \in {"init", "plain", "swap"}
  /\ buf # <<>> /\ Taken < todo
  /\ store' = Copied /\ buf' = Rest
  /\ todo' = todo - Taken
  /\ UNCHANGED <<stream, fed, consume, dataSize, visited, status>>

\* error(): the rest of the bytes of this call is dropped
Error(s) ==
  /\ status' = s /\ consume' = "error"
  /\ buf' = <<>>
  /\ UNCHANGED visited

Swap(f) == IF Little(f) = HostLittle THEN "plain" ELSE "swap"
\* What the host makes of the bytes of an integer, and __builtin_bswap()
Value(bytes, function) ==
  LET native == InOrder(HostLittle, bytes)
  IN IF function = "swap" THEN Reverse(native) ELSE native

(* consume_init() has the header: its format sets the function for the     *)
(* items.  An unknown format leaves todo and pos as they are.              *)
Header ==
  LET f == Copied[1]
      m == SubSeq(Copied, Word + 1, 2 * Word)
  IN /\ consume = "init" /\ buf # <<>> /\ Taken = todo
     /\ UNCHANGED <<stream, fed>>
     /\ IF f \notin KnownFormats
          THEN /\ Error("UNKNOWN_FORMAT")
               /\ store' = Copied
               /\ UNCHANGED <<todo, dataSize>>
          ELSE /\ todo' = Word + DataBytes(f)
               /\ dataSize' = DataBytes(f)
               /\ store' = <<>>
               /\ IF Value(m, Swap(f)) # Magic
                    THEN Error("INVALID_MAGIC")
                    ELSE /\ consume' = Swap(f)
                         /\ buf' = Rest
                         /\ UNCHANGED <<visited, status>>

NextTodo == Word + dataSize

\* consume_32() and its brothers have an item and visit() it
Item ==
  /\ consume \in {"plain", "swap"} /\ buf # <<>> /\ Taken = todo
  /\ todo' = NextTodo
  /\ store' = <<>> /\ buf' = Rest
  /\ visited' = Append(visited,
       [event |-> Value(SubSeq(Copied, 1, Word), consume),
        data |-> Value(SubSeq(Copied, Word + 1, Word + dataSize), consume)])
  /\ UNCHANGED <<stream, fed, consume, dataSize, status>>

\* consume_error() does not look at the bytes
Ignore ==
  /\ consume = "error" /\ buf # <<>>
  /\ buf' = <<>>
  /\ UNCHANGED <<stream, fed, consume, dataSize, todo, store, visited, status>>

Next == Run \/ Partial \/ Header \/ Item \/ Ignore

Spec == Init /\ [][Next]_vars

-----------------------------------------------------------------------------
(* Types of the framing.                                                   *)
TypeOK ==
  /\ format \in Formats /\ magic \in Magics
  /\ fed \in 0 .. Len(Wire) /\ Len(buf) <= MaxChunk
  /\ consume \in {"init", "plain", "swap", "error"}
  /\ dataSize \in {0, Word, 2 * Word}
  /\ todo \in Nat \ {0}
  /\ status # "UNKNOWN_FORMAT" =>
       todo + Len(store) = IF dataSize = 0 THEN 2 * Word ELSE Word + dataSize
  /\ \A i \in 1 .. Len(visited) : IsItem(visited[i], dataSize)
  /\ status \in {"SUCCESS", "UNKNOWN_FORMAT", "INVALID_MAGIC"}

(* A stream that does not begin with a known format and the magic of its   *)
(* byte order is reported, and nothing of it is visited.                   *)
BadHeader == format \notin KnownFormats \/ magic # Magic
Refused ==
  /\ TypeOK
  /\ BadHeader => visited = <<>>
  /\ buf = <<>> /\ fed >= 2 * Word => (BadHeader <=> status # "SUCCESS")

(* However the stream is cut into chunks, the items visited are the items  *)
(* sent, in order, whatever the two byte orders are.                       *)
Stream == INSTANCE ItemStream WITH
            sent <- SentIn(format), failed <- status # "SUCCESS"
IsStream == Stream!Spec
=============================================================================
