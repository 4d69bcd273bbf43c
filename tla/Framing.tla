------------------------------ MODULE Framing ------------------------------
(***************************************************************************)
(* How the parsers find the messages in a stream of bytes: every           *)
(* Read...Message of the *port packages reads a header or a line, decides  *)
(* from it how many bytes to read next, and returns one message.           *)
(*                                                                         *)
(* The peer sends whole messages; the assembler releases their bytes in    *)
(* segments cut anywhere, and the stream may end anywhere.  A message is   *)
(* known by its kind and the size of its body: its contents matter only    *)
(* for the lengths they announce.  Once the reader is not at the start of  *)
(* a message what it reads is noise, which is not followed further.        *)
(***************************************************************************)
EXTENDS Integers, Sequences

CONSTANTS
    Formats,        \* the formats read
    Bodies,         \* the sizes of bodies
    MaxMessages,    \* bound on the messages of the stream
    BodyLimit,      \* largest body a reader with a limit accepts
    MySQLPayload,   \* largest payload of one MySQL packet (2^24 - 1)
    ShortFrame,     \* largest WebSocket body without an extended length (125)
    MediumFrame,    \* ... with an extended length of two bytes (65535)
    PeekLen         \* bytes ReadNacosMessage peeks at, the preface of HTTP/2 (24)

\* The sizes of a line and of the empty line that ends a list of headers.
LineLen == 3
BlankLen == 2

\* The kinds of messages of each format.
KindsOf ==
    [dubbo         |-> {"plain"},
     mongo         |-> {"plain"},
     mysql         |-> {"plain"},
     rocketmq      |-> {"plain"},
     zookeeper     |-> {"plain"},
     websocket     |-> {"plain", "masked"},
     http          |-> {"bare", "headers"},
     nacos         |-> {"bare", "headers", "preface"},
     redisCommand  |-> {"line", "array"},
     redisResponse |-> {"line", "nil", "bulk", "array", "nested", "map"}]

ASSUME FramingAssumption ==
    /\ Formats \subseteq DOMAIN KindsOf
    /\ Bodies \subseteq Nat
    /\ MaxMessages \in Nat
    /\ BodyLimit \in Nat
    /\ MySQLPayload \in Nat \ {0}
    /\ ShortFrame \in Nat /\ MediumFrame \in Nat /\ ShortFrame < MediumFrame
    /\ PeekLen \in Nat

VARIABLES
    format,     \* the format of the stream
    sent,       \* the messages the peer has sent
    delivered,  \* bytes released to the reader
    closed,     \* no more bytes will be released
    pos,        \* bytes the reader has consumed
    reads,      \* reads done for the current message
    returned,   \* messages returned
    pc          \* "reading", "lost" out of step, "failed" with an error

vars == <<format, sent, delivered, closed, pos, reads, returned, pc>>

Sum(s) ==
    LET sum[i \in 0 .. Len(s)] == IF i = 0 THEN 0 ELSE sum[i - 1] + s[i]
    IN  sum[Len(s)]

-----------------------------------------------------------------------------
(***************************************************************************)
(* What the peer puts on the wire.                                         *)
(***************************************************************************)

\* The length field: Dubbo, MySQL and WebSocket count the body, MongoDB,
\* RocketMQ (whose shortest message has ten bytes) and ZooKeeper everything.
LengthField(m) ==
    CASE format = "mongo"     -> 16 + m.body
      [] format = "rocketmq"  -> 10 + m.body
      [] format = "zookeeper" -> 12 + m.body
      [] OTHER                -> m.body

\* A MySQL message of MySQLPayload bytes or more is split over packets, the
\* last of which is shorter than that.
MySQLPackets(m) == (m.body \div MySQLPayload) + 1

\* Bytes of the extended length of a WebSocket frame.
ExtLen(m) == IF m.body <= ShortFrame THEN 0 ELSE IF m.body <= MediumFrame THEN 2 ELSE 8

\* The header lines after the first line, the empty one included.  A Nacos 2
\* client sends the preface of HTTP/2, of PeekLen bytes, and then frames.
HeaderLines(m) ==
    IF m.kind = "bare" THEN <<BlankLen>> ELSE <<LineLen, BlankLen>>

Simple == [type |-> "simple", n |-> 0]
NilBulk == [type |-> "nil", n |-> 0]
Bulk(n) == [type |-> "bulk", n |-> n]
Array(n) == [type |-> "array", n |-> n]
Map(n) == [type |-> "map", n |-> n]

\* A RESP message as the sequence of its elements, the outer ones first; the
\* maps of RESP3 have two elements per entry.
Elements(m) ==
    CASE m.kind = "line"   -> <<Simple>>
      [] m.kind = "nil"    -> <<NilBulk>>
      [] m.kind = "bulk"   -> <<Bulk(m.body)>>
      [] m.kind = "array"  -> <<Array(3), Bulk(m.body), NilBulk, Bulk(0)>>
      [] m.kind = "nested" -> <<Array(2), Array(1), Bulk(m.body), Simple>>
      [] m.kind = "map"    -> <<Map(1), Simple, Bulk(m.body)>>

ElementSize(e) == LineLen + (IF e.type = "bulk" THEN e.n + 2 ELSE 0)

Size(m) ==
    CASE format \in {"dubbo", "mongo"} -> 16 + m.body
      [] format = "rocketmq"           -> 10 + m.body
      [] format = "zookeeper"          -> 12 + m.body
      [] format = "mysql"              -> 4 * MySQLPackets(m) + m.body
      [] format = "websocket" ->
            2 + ExtLen(m) + (IF m.kind = "masked" THEN 4 ELSE 0) + m.body
      [] format \in {"http", "nacos"} ->
            (IF m.kind = "preface" THEN PeekLen ELSE LineLen + Sum(HeaderLines(m))) + m.body
      [] OTHER -> Sum([i \in 1 .. Len(Elements(m)) |-> ElementSize(Elements(m)[i])])

\* Where the first n messages end.
End(n) == Sum([i \in 1 .. n |-> Size(sent[i])])

Messages ==
    {m \in [kind : KindsOf[format], body : Bodies] :
        /\ m.kind \in {"line", "nil"} => m.body = 0
        /\ m.kind = "preface" => m.body > 0}

-----------------------------------------------------------------------------
(***************************************************************************)
(* What the readers do: the sizes of the successive reads for a message.   *)
(***************************************************************************)

DubboReads(m) == <<16, LengthField(m)>>

\* Fault: the length is taken for that of the body.
MongoReadsWhole(m) == <<16, LengthField(m)>>

MongoReads(m) == <<16, LengthField(m) - 16>>

RocketMQReads(m) == <<4, LengthField(m) - 4>>

ZooKeeperReads(m) == <<12, LengthField(m) - 12>>

\* One packet, whether or not the message goes on in the next.
MySQLReads(m) == <<4, IF m.body < MySQLPayload THEN m.body ELSE MySQLPayload>>

\* Fault: the mask of a frame with an extended length is not read.
WebSocketReadsUnmasked(m) ==
    <<2, ExtLen(m), IF m.kind = "masked" /\ ExtLen(m) = 0 THEN 4 ELSE 0, LengthField(m)>>

\* Header, extended length, mask and payload.
WebSocketReads(m) ==
    <<2, ExtLen(m), IF m.kind = "masked" THEN 4 ELSE 0, LengthField(m)>>

\* The lines up to the empty one; the body stays in the stream.
HTTPReads(m) == <<LineLen>> \o HeaderLines(m)

\* Of HTTP/2 the reader knows the preface, and leaves the frames behind it.
NacosReads(m) ==
    IF m.kind = "preface" THEN <<PeekLen>>
    ELSE <<LineLen>> \o HeaderLines(m) \o <<m.body>>

\* The reads for one element: its line and, for a bulk string, its bytes.
ElementReads(e) == IF e.type = "bulk" THEN <<LineLen, e.n + 2>> ELSE <<LineLen>>

\* A command is a line, or an array of as many bulk strings as it announces.
RESPCommandReads(m) ==
    LET es == Elements(m)
        upto[i \in 0 .. es[1].n] ==
            IF i = 0 THEN <<LineLen>> ELSE upto[i - 1] \o ElementReads(es[i + 1])
    IN  upto[es[1].n]

\* A response is one element, and an array is followed by its elements; no
\* other type is, so the reader stops after the line of a map.  After i
\* elements it waits for awaited[i] more.
RESPResponseReads(m) ==
    LET es == Elements(m)
        awaited[i \in 0 .. Len(es)] ==
            IF i = 0 THEN 1
            ELSE IF awaited[i - 1] = 0 THEN 0
            ELSE awaited[i - 1] - 1 + (IF es[i].type = "array" THEN es[i].n ELSE 0)
        upto[i \in 0 .. Len(es)] ==
            IF i = 0 THEN <<>>
            ELSE upto[i - 1] \o (IF awaited[i - 1] > 0 THEN ElementReads(es[i]) ELSE <<>>)
    IN  upto[Len(es)]

Reads(m) ==
    CASE format = "dubbo"         -> DubboReads(m)
      [] format = "mongo"         -> MongoReads(m)
      [] format = "rocketmq"      -> RocketMQReads(m)
      [] format = "zookeeper"     -> ZooKeeperReads(m)
      [] format = "mysql"         -> MySQLReads(m)
      [] format = "websocket"     -> WebSocketReads(m)
      [] format = "http"          -> HTTPReads(m)
      [] format = "nacos"         -> NacosReads(m)
      [] format = "redisCommand"  -> RESPCommandReads(m)
      [] format = "redisResponse" -> RESPResponseReads(m)

\* The length is out of bounds, which is noticed after n reads.
Rejects(m, n) ==
    /\ m.body > BodyLimit
    /\ \/ format \in {"mongo", "rocketmq", "zookeeper"} /\ n = 1
       \/ format = "websocket" /\ n = 3

\* Fault: every reader returns what it has got when the stream ends.
ReturnsCutAlways(m, n) == n > 0

\* A stream that ends after n reads of the message does not fail the call:
\* it ends the list of headers, leaves out the body, or ends the array.
ReturnsCut(m, n) ==
    /\ n > 0
    /\ \/ format \in {"http", "nacos"}
       \/ format = "redisResponse" /\ Elements(m)[1].type = "array"

-----------------------------------------------------------------------------
Init ==
    /\ format \in Formats
    /\ sent = <<>>
    /\ delivered = 0
    /\ closed = FALSE
    /\ pos = 0
    /\ reads = 0
    /\ returned = 0
    /\ pc = "reading"

Send(m) ==
    /\ ~closed
    /\ Len(sent) < MaxMessages
    /\ sent' = Append(sent, m)
    /\ UNCHANGED <<format, delivered, closed, pos, reads, returned, pc>>

\* The assembler releases a segment.
Deliver(n) ==
    /\ ~closed
    /\ delivered' = delivered + n
    /\ UNCHANGED <<format, sent, closed, pos, reads, returned, pc>>

Close ==
    /\ ~closed
    /\ closed' = TRUE
    /\ UNCHANGED <<format, sent, delivered, pos, reads, returned, pc>>

\* The message the reader is in.
Current == sent[returned + 1]

\* Bytes that must be there before the next read goes on: ReadNacosMessage
\* peeks first.
Demand ==
    LET n == Reads(Current)[reads + 1] IN
    IF format = "nacos" /\ reads = 0 /\ ~closed /\ n < PeekLen THEN PeekLen ELSE n

\* Fault: one byte is taken for the whole read.
ReadyEarly == delivered > pos

Ready == delivered - pos >= Demand

\* One ReadFull or ReadString, and the return of the message after the last.
Read ==
    /\ pc = "reading"
    /\ returned < Len(sent)
    /\ Ready
    /\ pos' = pos + Reads(Current)[reads + 1]
    /\ \/ /\ Rejects(Current, reads + 1)
          /\ pc' = "failed"
          /\ UNCHANGED <<reads, returned>>
       \/ /\ ~Rejects(Current, reads + 1)
          /\ reads + 1 < Len(Reads(Current))
          /\ reads' = reads + 1
          /\ UNCHANGED <<returned, pc>>
       \/ /\ ~Rejects(Current, reads + 1)
          /\ reads + 1 = Len(Reads(Current))
          /\ reads' = 0
          /\ returned' = returned + 1
          /\ pc' = IF pos' = End(returned + 1) THEN "reading" ELSE "lost"
    /\ UNCHANGED <<format, sent, delivered, closed>>

\* The stream ends before the read is complete.  The call fails, or returns
\* what it has, and then it is the next call that finds the end.
ReadCut ==
    /\ pc = "reading"
    /\ closed
    /\ returned < Len(sent) => ~Ready
    /\ pos' = delivered
    /\ reads' = 0
    /\ pc' = "failed"
    /\ returned' = IF returned < Len(sent) /\ ReturnsCut(Current, reads)
                   THEN returned + 1 ELSE returned
    /\ UNCHANGED <<format, sent, delivered, closed>>

Next ==
    \/ \E m \in Messages : Send(m)
    \/ \E n \in 1 .. End(Len(sent)) - delivered : Deliver(n)
    \/ Close
    \/ Read
    \/ ReadCut

\* The handler's goroutine is scheduled; the peer promises nothing.
Spec == Init /\ [][Next]_vars /\ WF_vars(Read) /\ WF_vars(ReadCut)

-----------------------------------------------------------------------------
\* The state of a reader, which consumes no byte that has not been released.
TypeOK ==
    /\ format \in Formats
    /\ sent \in Seq(Messages) /\ Len(sent) <= MaxMessages
    /\ delivered \in 0 .. End(Len(sent))
    /\ closed \in BOOLEAN
    /\ pos \in 0 .. delivered
    /\ reads \in Nat
    /\ returned \in 0 .. Len(sent)
    /\ pc \in {"reading", "lost", "failed"}

\* The messages whose reader leaves a part of them in the stream: an HTTP
\* message with a body, the preface of HTTP/2, a RESP3 map, a MySQL message of
\* several packets.
Derails(m) ==
    \/ format = "http" /\ m.body > 0
    \/ m.kind = "preface"
    \/ format = "redisResponse" /\ m.kind = "map"
    \/ format = "mysql" /\ m.body >= MySQLPayload

\* However the bytes are cut into segments, a reader that has returned a
\* message stands at the start of the next one; it gets out of step only
\* behind a message that it reads in part.  Of MySQL messages a comment says
\* that they are read complete, and a README promises bodies: the claims
\* "complete" and "body" of Documented.
InStep ==
    /\ pc = "reading" /\ reads = 0 => pos = End(returned)
    /\ pc = "lost" => returned > 0 /\ Derails(sent[returned])

\* A message is returned only when all of its bytes that the reader reads
\* are there.  The exception is the last message of a stream that ended in
\* the middle of it: HTTP headers, a Nacos body and RESP arrays are returned
\* as far as they go.
NothingTruncated ==
    \A n \in 1 .. returned :
        \/ End(n - 1) + Sum(Reads(sent[n])) <= delivered
        \/ /\ closed /\ pc = "failed" /\ n = returned
           /\ \/ format \in {"http", "nacos"}
              \/ format = "redisResponse" /\ sent[n].kind \in {"array", "nested"}

\* The messages after which no other is returned.
Ends(m) == Derails(m) \/ \E n \in 1 .. 4 : Rejects(m, n)

\* A reader does not wait for bytes beyond the message: once a message is
\* there it is returned, whatever the peer does next.  The exception is a
\* Nacos message shorter than what its reader peeks at.
ReadReturns ==
    \A n \in 1 .. MaxMessages :
        /\ n <= Len(sent)
        /\ delivered >= End(n)
        /\ \A i \in 1 .. n : ~Ends(sent[i])
        /\ \A i \in 1 .. n : format = "nacos" => Size(sent[i]) >= PeekLen
        ~> returned >= n

=============================================================================
