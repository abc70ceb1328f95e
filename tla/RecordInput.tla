------------------------------ MODULE RecordInput ------------------------------
(***************************************************************************)
(* The input of a record client: Client::Run() and Client::Flush() of      *)
(* trace/record/record-client-base.cc, the filters they drive, and behind  *)
(* them the framing of RecordStream.                                       *)
(*                                                                         *)
(* A read returns any number of bytes.  LogFilter finds the records in the *)
(* log of a console and adds the filters its begin marker asks for to the  *)
(* list that is just walked; Base64Filter decodes; ZlibFilter inflates.    *)
(* What they make of one read goes to rtems_record_client_run().           *)
(*                                                                         *)
(* A character is a number: the value of a base64 digit, 64 for the        *)
(* padding, and numbers of their own for blanks, the star and bytes that   *)
(* are no digits.  The markers are shorter than those of the code.         *)
(***************************************************************************)
EXTENDS RecordStream, Integers, FiniteSets

CONSTANTS
  BeginMark,      (* LogFilter::kBeginOfRecords                              *)
  PlainBegin,     (* kBase64Begin                                            *)
  ZlibBegin,      (* kBase64ZlibBegin                                        *)
  EndMark,        (* kEndOfRecordsBase64                                     *)
  EndMarkZlib,    (* kEndOfRecordsBase64Zlib                                 *)
  Inputs,         (* the inputs: a source, its format and its magic          *)
  Deflated,       (* how many bytes a compressed stream has                  *)
  Room,           (* the bytes of the output buffer of the inflation         *)
  MaxRead         (* bound: the bytes of a read                              *)

VARIABLES
  source,         \* the input: its encoding, the log before the records, and
                  \* bytes after the end of a compressed stream
  pos,            \* how much of it was read
  start,          \* where the read began that a filter failed on
  log,            \* LogFilter: state_ and sub_state_, the rest of a marker
  filters,        \* the filters of the list
  base64,         \* Base64Filter: the digits of val_ and seen_end_
  zlib,           \* the z_stream: bytes consumed, bytes produced; the buffer
  reading         \* Run(): reading, flushing, done; or how it broke off

inputVars == <<source, pos, start, log, filters, base64, zlib, reading>>
clientVars == <<consume, dataSize, todo, store, visited, status>>
allVars == <<vars, inputVars>>

Pad == 64
Blank == 65
Star == 66
Zed == 25       \* 'Z' is a base64 digit

Encodings == {"raw", "base64", "zlib", "base64 zlib", "log", "log zlib"}
IsLog == source.encoding \in {"log", "log zlib"}
IsZlib == source.encoding \in {"zlib", "base64 zlib", "log zlib"}
IsBase64 == IsLog \/ source.encoding \in {"base64", "base64 zlib"}

ASSUME InputAssumption ==
  /\ \A m \in {BeginMark, PlainBegin, ZlibBegin, EndMark, EndMarkZlib} :
       m \in Seq(Nat) /\ m # <<>>
  /\ \A i \in Inputs : /\ i.format \in Formats /\ i.magic \in Magics
                       /\ i.source.encoding \in Encodings
                       /\ i.source.before \in Seq(Nat)
                       /\ i.source.after \in Seq(Nat)
  /\ {Deflated, Room, MaxRead} \subseteq Nat \ {0}

-----------------------------------------------------------------------------
(* The input (external): the stream of the server, deflated, encoded and   *)
(* logged.  The bytes of a deflated stream mean nothing here; its last one *)
(* completes the output.                                                   *)
Quad(b, n) ==
  LET at(i) == IF i <= n THEN b[i] ELSE 0
  IN <<at(1) \div 4, (at(1) % 4) * 16 + (at(2) \div 16),
       IF n < 2 THEN Pad ELSE (at(2) % 16) * 4 + (at(3) \div 64),
       IF n < 3 THEN Pad ELSE at(3) % 64>>
Encode64(b) ==
  FlattenSeq([q \in 1 .. (Len(b) + 2) \div 3 |->
    LET n == IF 3 * q <= Len(b) THEN 3 ELSE Len(b) - 3 * (q - 1)
    IN Quad(SubSeq(b, 3 * q - 2, 3 * q - 3 + n), n)])
Lines(s) == SubSeq(s, 1, 5) \o <<Blank>> \o SubSeq(s, 6, Len(s)) \o <<Blank>>

Available(n) ==
  IF n >= Deflated THEN Len(Wire)
  ELSE IF 3 * (n \div 2) < Len(Wire) THEN 3 * (n \div 2) ELSE Len(Wire)
Content == IF IsZlib THEN [i \in 1 .. Deflated |-> 96 + i] \o source.after
                     ELSE Wire
Marked == IF source.encoding = "log zlib" THEN EndMarkZlib ELSE EndMark
Records ==
  (IF source.encoding = "log zlib" THEN <<Zed>> \o ZlibBegin
                                   ELSE <<Star>> \o PlainBegin)
  \o <<Blank>> \o Lines(Encode64(Content))
UpToData == source.before \o BeginMark \o Records
Text == CASE IsLog -> UpToData \o <<Star>> \o Marked \o <<Blank, 0, Star>>
          [] ~IsLog /\ IsBase64 -> Lines(Encode64(Content))
          [] OTHER -> Content

-----------------------------------------------------------------------------
\* A loop over the n characters of a read
Loop(char(_, _), first, n) ==
  LET after[i \in 0 .. n] == IF i = 0 THEN first ELSE char(after[i - 1], i)
  IN after[n]

(* LogFilter::Run().  The character at i of the read: f.from is b, f.m the *)
(* count m, f.rest what is left of the marker, f.end how it returns.       *)
LogError(f) == [f EXCEPT !.s = "done", !.end = "error"]
Match(f, c) == [f EXCEPT !.rest = Tail(@), !.m = @ - 1]
Kinds64 == {"begin", "begin zlib"}

SearchChar(f, i, c) ==
  LET g == [f EXCEPT !.m = @ - 1, !.from = i]
  IN IF f.rest = <<>>
       THEN CASE c = Star -> [g EXCEPT !.s = "begin", !.rest = PlainBegin]
              [] c = Zed -> [g EXCEPT !.s = "begin zlib", !.rest = ZlibBegin]
              [] OTHER -> LogError(f)
     ELSE IF c = Head(f.rest) THEN [g EXCEPT !.rest = Tail(@)]
     ELSE [g EXCEPT !.rest = BeginMark]

BeginChar(f, i, c) ==
  LET added == IF f.s = "begin" THEN {"base64"} ELSE {"base64", "zlib"}
      mark == IF f.s = "begin" THEN EndMark ELSE EndMarkZlib
  IN IF f.rest = <<>>
       THEN [f EXCEPT !.s = "data", !.rest = mark, !.added = added, !.from = i]
     ELSE IF c = Head(f.rest) THEN [Match(f, c) EXCEPT !.from = i]
     ELSE LogError(f)

\* Mutant: the first star of the end marker counts as data
DataCharCounts(f, i, c) ==
  IF c = Head(f.rest) THEN [f EXCEPT !.s = "end"] ELSE f
\* The first star of the end marker is not in kEndOfRecordsBase64
DataChar(f, i, c) ==
  IF c = Head(f.rest) THEN [f EXCEPT !.s = "end", !.m = @ - 1] ELSE f

\* The newline before the marker is taken off, without a look at the count
EndChar(f, i, c, n) ==
  IF f.rest = <<>>
    THEN [f EXCEPT !.s = "done", !.end = "return", !.m = @ - (n - i + 1) - 1]
  ELSE IF c = Head(f.rest) THEN Match(f, c)
  ELSE LogError(f)

LogRun(chunk) ==
  LET char(f, i) ==
        LET c == chunk[i]
        IN CASE f.end # "loop" -> f
             [] f.end = "loop" /\ f.s = "search" -> SearchChar(f, i, c)
             [] f.end = "loop" /\ f.s \in Kinds64 -> BeginChar(f, i, c)
             [] f.end = "loop" /\ f.s = "data" -> DataChar(f, i, c)
             [] f.end = "loop" /\ f.s = "end" -> EndChar(f, i, c, Len(chunk))
             [] OTHER -> [f EXCEPT !.end = "return", !.m = 0]
  IN Loop(char, [s |-> log.s, rest |-> log.rest, from |-> 1,
                 m |-> Len(chunk), added |-> {}, end |-> "loop"], Len(chunk))

-----------------------------------------------------------------------------
(* Base64Filter::DecodeChar(): four digits make one to three bytes; the    *)
(* bits of the last digit that carry nothing must be zero.                 *)
Bytes(v) == <<v[1] * 4 + (v[2] \div 16),
              (v[2] % 16) * 16 + ((v[3] % 64) \div 4),
              (v[3] % 4) * 64 + (v[4] % 64)>>
Valid(v) ==
  /\ v[1] # Pad /\ v[2] # Pad
  /\ v[3] = Pad => v[4] = Pad /\ v[2] % 16 = 0
  /\ v[4] = Pad => v[3] % 4 = 0
Length(v) == IF v[3] = Pad THEN 1 ELSE IF v[4] = Pad THEN 2 ELSE 3

\* Mutant: the digits that a read leaves over are dropped
KeptNone(f) == [f EXCEPT !.val = <<>>]
Kept(f) == f

DecodeChar(f, c) ==
  LET v == Append(f.val, c)
  IN IF f.seen \/ c \notin 0 .. Pad THEN [f EXCEPT !.ok = FALSE]
     ELSE IF Len(v) < 4 THEN [f EXCEPT !.val = v]
     ELSE IF ~Valid(v) THEN [f EXCEPT !.ok = FALSE]
     ELSE [val |-> <<>>, seen |-> Length(v) < 3, ok |-> TRUE,
           out |-> f.out \o SubSeq(Bytes(v), 1, Length(v))]
Base64Run(s) ==
  LET char(f, i) == IF s[i] = Blank \/ ~f.ok THEN f ELSE DecodeChar(f, s[i])
      new == [val |-> base64.val, seen |-> base64.seen, ok |-> TRUE, out |-> <<>>]
  IN IF s = <<>> THEN [new EXCEPT !.ok = base64.val = <<>>]
                 ELSE Kept(Loop(char, new, Len(s)))

(* ZlibFilter::Run() for n bytes: the buffer is doubled until inflate()    *)
(* took them all.  Output may be left over when the buffer is full.  With  *)
(* nothing to do inflate() returns Z_BUF_ERROR, after the end of the       *)
(* stream Z_STREAM_END: with bytes left the loop does not end.             *)
Doubled(room, need) ==
  LET fits == {k \in 0 .. need : room * 2 ^ k > need}
  IN room * 2 ^ (CHOOSE k \in fits : \A j \in fits : k <= j)
ZlibRun(n) ==
  LET used == zlib.in + n
      left == Available(used) - zlib.out
      room == Doubled(zlib.room,
                      IF n = 0 THEN 0 ELSE Available(used - 1) - zlib.out)
      out == zlib.out + (IF left < room THEN left ELSE room)
  IN [zlib |-> [in |-> used, out |-> out, room |-> room],
      bytes |-> SubSeq(Wire, zlib.out + 1, out),
      verdict |-> CASE used > Deflated -> "no memory"
                    [] used < Deflated /\ n = 0 /\ left = 0 -> "failed"
                    [] OTHER -> "ok"]

-----------------------------------------------------------------------------
(* The loop over the filters for the bytes s.  A filter that LogFilter     *)
(* adds to the list runs in the same loop.  With -1 bytes Base64Filter     *)
(* reads past the end of the read buffer: "wild".                          *)
Pipe(s) ==
  LET l == IF "log" \in filters THEN LogRun(s)
           ELSE [s |-> log.s, rest |-> log.rest, from |-> 1, m |-> Len(s),
                 added |-> {}, end |-> "loop"]
      on == filters \cup l.added
      text == IF l.m > 0 THEN SubSeq(s, l.from, l.from + l.m - 1) ELSE <<>>
      b == IF "base64" \in on THEN Base64Run(text)
           ELSE [val |-> <<>>, seen |-> FALSE, ok |-> TRUE, out |-> text]
      z == IF "zlib" \in on THEN ZlibRun(Len(b.out))
           ELSE [zlib |-> zlib, bytes |-> b.out, verdict |-> "ok"]
  IN [log |-> [s |-> l.s, rest |-> l.rest], filters |-> on,
      base64 |-> [val |-> b.val, seen |-> b.seen],
      zlib |-> z.zlib, bytes |-> z.bytes,
      verdict |-> CASE l.end = "error" -> "failed"
                    [] l.end # "error" /\ l.m < 0 -> "wild"
                    [] l.end # "error" /\ l.m >= 0 /\ ~b.ok -> "failed"
                    [] OTHER -> z.verdict]

InputInit ==
  /\ \E i \in Inputs : source = i.source /\ format = i.format /\ magic = i.magic
  /\ Init
  /\ pos = 0 /\ start = 0
  /\ log = [s |-> "search", rest |-> BeginMark]
  /\ filters = CASE IsLog -> {"log"}
                 [] ~IsLog /\ IsBase64 /\ IsZlib -> {"base64", "zlib"}
                 [] ~IsLog /\ IsBase64 /\ ~IsZlib -> {"base64"}
                 [] ~IsLog /\ ~IsBase64 /\ IsZlib -> {"zlib"}
                 [] OTHER -> {}
  /\ base64 = [val |-> <<>>, seen |-> FALSE]
  /\ zlib = [in |-> 0, out |-> 0, room |-> Room]
  /\ reading = "reading"

\* rtems_record_client_run(): the client has the bytes; it takes them in
\* the steps of RecordStream before the next read
Feed(p) ==
  /\ buf' = p.bytes /\ fed' = fed + Len(p.bytes)
  /\ log' = p.log /\ filters' = p.filters
  /\ base64' = p.base64 /\ zlib' = p.zlib
  /\ UNCHANGED <<stream, clientVars, source>>

(* One turn of the loop of Run().  When a filter fails Run() returns       *)
(* without Flush().                                                        *)
Read ==
  /\ reading = "reading" /\ buf = <<>>
  /\ LET text == Text
     IN \E n \in 1 .. MaxRead :
          LET p == Pipe(SubSeq(text, pos + 1, pos + n))
          IN /\ pos + n <= Len(text)
             /\ pos' = pos + n
             /\ IF p.verdict = "ok"
                  THEN Feed(p) /\ UNCHANGED <<start, reading>>
                  ELSE /\ start' = pos
                       /\ reading' \in IF p.verdict = "wild"
                                         THEN {"failed", "crash"}
                                         ELSE {p.verdict}
                       /\ UNCHANGED <<vars, source, log, filters, base64, zlib>>

\* The end of the input or an error of it, the limit, or RequestStop()
EndOfInput ==
  /\ reading = "reading" /\ buf = <<>>
  /\ reading' = "flushing"
  /\ UNCHANGED <<vars, source, pos, start, log, filters, base64, zlib>>

\* Mutant: the loop of Flush() does not look at the count
LeftAlways(p) == TRUE
\* Mutant: what the inflation holds back is not flushed
LeftNever(p) == FALSE
Left(p) == p.bytes # <<>>

\* One turn of the loop of Flush(): the filters run without input
Flush ==
  /\ reading = "flushing" /\ buf = <<>>
  /\ LET p == Pipe(<<>>)
     IN IF p.verdict = "ok" /\ Left(p)
          THEN Feed(p) /\ UNCHANGED <<pos, start, reading>>
          ELSE /\ reading' = "done"
               /\ UNCHANGED <<vars, source, pos, start, log, filters, base64,
                              zlib>>

Client == (Partial \/ Header \/ Item \/ Ignore) /\ UNCHANGED inputVars

InputNext == Client \/ EndOfInput \/ Flush \/ Read
InputSpec == InputInit /\ [][InputNext]_allVars
\* The loop is never interrupted for good
FairInputSpec == InputSpec /\ WF_allVars(InputNext)

-----------------------------------------------------------------------------
(* Whatever the encoding and however the reads cut the input, the filters  *)
(* hand the client the bytes of the server's stream and no others: the     *)
(* pipeline is the stream of RecordStream, and the items the client visits *)
(* are the items the server sent, in order.                                *)
FeedsStream == Spec /\ IsStream

(* When the input was read to its end the client has the whole stream and  *)
(* visited every item: nothing stays behind in a filter.  (A star in the   *)
(* log before the begin marker can hide the marker.)                       *)
NothingStaysBehind ==
  (reading = "done" /\ pos = Len(Text) /\ buf = <<>> /\
   ~(\E i \in DOMAIN source.before : source.before[i] = Star))
    => fed = Len(Wire) /\ (BadHeader \/ visited = SentIn(format))

(* A good input only fails for a way it was cut: a read that begins in the *)
(* end marker and goes past it makes LogFilter count -1 bytes, and a read  *)
(* that brings ZlibFilter no byte is an error of inflate().  Only bytes    *)
(* after the end of a compressed stream make it use up the memory.  What   *)
(* reaches the client is refused only for its header.                      *)
MarkerCut ==
  IsLog /\ start >= Len(UpToData) /\ pos > Len(UpToData) + 1 + Len(Marked)
Starved ==
  LET data == Lines(Encode64(Content))
      first == IF IsLog THEN Len(UpToData) - Len(data) ELSE 0
      digits(n) == Cardinality({i \in DOMAIN data : first + i <= n /\ data[i] # Blank})
  IN IsZlib /\ IsBase64 /\ digits(start) \div 4 = digits(pos) \div 4
FailureEarned ==
  /\ Refused
  /\ reading = "failed" => MarkerCut \/ Starved
  /\ reading = "crash" => MarkerCut
  /\ reading = "no memory" => source.after # <<>>

(* Run() and Flush() end, and the client has looked at every byte.         *)
InputEnds == <>(reading \notin {"reading", "flushing"} /\ buf = <<>>)
===============================================================================
