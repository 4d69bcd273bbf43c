----------------------------- MODULE Detectors -----------------------------
(***************************************************************************)
(* How auto mode finds out the protocol of a connection: the detectors of  *)
(* the *port packages, tried in a fixed order by the assembler on the      *)
(* payload of a packet and by the auto handler on the first bytes that it  *)
(* reads.                                                                  *)
(*                                                                         *)
(* The head of a message is its first 16 bytes, its length, and for text   *)
(* how many bytes it takes until a feature shows ("at"); "json" says that  *)
(* what a RocketMQ header would be is valid JSON.  Cutting a head makes it *)
(* shorter.  Words of 32 bits are only compared with limits below 2^27:    *)
(* the larger ones, negative if signed, are all read as TooLarge.          *)
(***************************************************************************)
EXTENDS Integers, Sequences

HeadBytes == 16
TooLarge == 2147483647
Never == 1000000

U32(a, b, c, d) ==
    IF a > 127 THEN TooLarge ELSE ((a * 256 + b) * 256 + c) * 256 + d
BE(h, i) == U32(h.bytes[i], h.bytes[i+1], h.bytes[i+2], h.bytes[i+3])
LE(h, i) == U32(h.bytes[i+3], h.bytes[i+2], h.bytes[i+1], h.bytes[i])

Shows(h, feature) == h.at[feature] <= h.len

DetectDubbo(h) == h.len >= 2 /\ h.bytes[1] = 218 /\ h.bytes[2] = 187

DetectTriple(h) == h.len >= 24 /\ Shows(h, "preface")

RocketMQMinFrameSize == 10
RocketMQMaxFrameSize == 100 * 1024 * 1024

\* A plausible length, and JSON when the head holds as many bytes as the
\* header is long.
DetectRocketMQ(h) ==
    LET frameLen == BE(h, 1)
        headerLen == BE(h, 5) IN
    /\ h.len >= 4
    /\ frameLen >= RocketMQMinFrameSize /\ frameLen <= RocketMQMaxFrameSize
    /\ h.len >= 8 /\ headerLen \in 4 .. frameLen /\ headerLen <= h.len - 8 => h.json

MongoOpCodes == {1, 2001, 2002, 2004, 2005, 2006, 2007, 2010, 2011, 2013}

DetectMongo(h) ==
    /\ h.len >= 16
    /\ LE(h, 1) >= 16 /\ LE(h, 1) <= 48 * 1024 * 1024
    /\ LE(h, 13) \in MongoOpCodes

\* OK, ERR, EOF, the greeting and the commands.
MySQLMarkers == 0 .. 31 \cup {254, 255}

MySQLLength(h) == U32(0, h.bytes[3], h.bytes[2], h.bytes[1])

\* The length-encoded number that a result set begins with.
MySQLColumns(h) ==
    LET b == h.bytes[5] IN
    CASE b < 251 -> b
      [] b = 252 /\ MySQLLength(h) > 2 -> h.bytes[6] + 256 * h.bytes[7]
      [] b = 253 /\ MySQLLength(h) > 3 -> U32(0, h.bytes[8], h.bytes[7], h.bytes[6])
      [] OTHER -> 0

\* With the whole packet, a number of columns will do as well.
DetectMySQL(h) ==
    /\ h.len > 4
    /\ MySQLLength(h) # 0
    /\ \/ h.bytes[5] \in MySQLMarkers
       \/ h.len >= 4 + MySQLLength(h) /\ MySQLColumns(h) > 0 /\ MySQLColumns(h) <= 4096

RESPTypes == {42, 43, 45, 58, 36}

DetectRESP(h) == h.len > 0 /\ h.bytes[1] \in RESPTypes

\* The numbers of the operations; -1, the notification, is four times 255.
ZKTypes == (1 .. 9) \cup (11 .. 16) \cup {20}
IsValidType(h) ==
    \/ BE(h, 9) \in ZKTypes
    \/ \A i \in 9 .. 12 : h.bytes[i] = 255

DetectZK(h) ==
    /\ h.len >= 12
    /\ BE(h, 1) >= 12 /\ BE(h, 1) <= 1048576
    /\ BE(h, 1) <= h.len
    /\ IsValidType(h)

\* An upgrade or the answer to it; otherwise only the four bits of the opcode
\* are looked at.
WebSocketOpcodes == {0, 1, 2, 8, 9, 10}
DetectWebSocket(h) ==
    /\ h.len > 0
    /\ \/ Shows(h, "upgrade")
       \/ Shows(h, "switching")
       \/ h.len >= 2 /\ h.bytes[1] % 16 \in WebSocketOpcodes

DetectNacos(h) ==
    /\ h.len >= 8
    /\ Shows(h, "pri") \/ (Shows(h, "method") /\ Shows(h, "nacos"))

DetectHTTP(h) == h.len >= 8 /\ (Shows(h, "method") \/ Shows(h, "response"))

Accepts(p, h) ==
    CASE p = "dubbo"     -> DetectDubbo(h)
      [] p = "triple"    -> DetectTriple(h)
      [] p = "rocketmq"  -> DetectRocketMQ(h)
      [] p = "mongo"     -> DetectMongo(h)
      [] p = "mysql"     -> DetectMySQL(h)
      [] p = "redis"     -> DetectRESP(h)
      [] p = "zookeeper" -> DetectZK(h)
      [] p = "websocket" -> DetectWebSocket(h)
      [] p = "nacos"     -> DetectNacos(h)
      [] p = "http"      -> DetectHTTP(h)

DetectOrder ==
    <<"dubbo", "triple", "rocketmq", "mongo", "mysql", "redis", "zookeeper",
      "websocket", "nacos", "http">>

Unknown == "unknown"

FirstAccepting(h) ==
    LET accepting == {i \in 1 .. Len(DetectOrder) : Accepts(DetectOrder[i], h)} IN
    IF accepting = {} THEN Unknown
    ELSE DetectOrder[CHOOSE i \in accepting : \A j \in accepting : i <= j]

\* Fault: a connection is created on every payload.
CreatesAny(h) == h.len > 0

\* The assembler's detector sees the payload of the packet.
Creates(h) == FirstAccepting(h) # Unknown

\* Fault: the peek is as long as the header of a MySQL packet.
AutoDetectShort(h) == FirstAccepting([h EXCEPT !.len = IF @ < 4 THEN @ ELSE 4])

\* The auto handler's one Read returns at most 24 bytes of the first segment.
PeekSize == 24
AutoDetect(h) == FirstAccepting([h EXCEPT !.len = IF @ < PeekSize THEN @ ELSE PeekSize])

-----------------------------------------------------------------------------
(***************************************************************************)
(* The first messages of connections.  "proto" is their protocol, the rest *)
(* of a message is what its head is made of.                               *)
(***************************************************************************)
Features == {"preface", "pri", "method", "response", "nacos", "upgrade", "switching"}
NoText == [f \in Features |-> Never]
Padded(s, c) == [i \in 1 .. HeadBytes |-> IF i <= Len(s) THEN s[i] ELSE c]

Head16(proto, s, fill, len, json, at) ==
    [proto |-> proto, bytes |-> Padded(s, fill), len |-> len, json |-> json, at |-> at]

BE32(n) == <<n \div 16777216, (n \div 65536) % 256, (n \div 256) % 256, n % 256>>
LE32(n) == <<n % 256, (n \div 256) % 256, (n \div 65536) % 256, n \div 16777216>>

DubboHead(len) == Head16("dubbo", <<218, 187, 194, 0>>, 0, len, FALSE, NoText)

\* The preface, or the first bytes of it.
TripleHead(len) ==
    Head16("triple", <<80, 82, 73, 32, 42, 32, 72, 84>>, 84, len, FALSE,
           [NoText EXCEPT !["preface"] = 24, !["pri"] = 14])

\* The length of the header counts itself.
RocketMQHead(header, body) ==
    Head16("rocketmq", BE32(8 + header + body) \o BE32(header + 4), 123,
           8 + header + body, TRUE, NoText)

MongoHead(len, id) ==
    Head16("mongo", LE32(len) \o LE32(id) \o LE32(0) \o LE32(2013), 0, len, FALSE, NoText)

\* A command, or the login that answers the greeting, with the low byte of
\* its capabilities.
MySQLHead(length, seq, b) ==
    Head16("mysql", <<length % 256, length \div 256, 0, seq, b>>, 32, length + 4, FALSE, NoText)

\* The array of a command with so many elements.
RedisHead(n) ==
    Head16("redis", IF n < 10 THEN <<42, 48 + n, 13, 10>>
                    ELSE <<42, 48 + (n \div 10), 48 + (n % 10), 13, 10>>, 36, 40, FALSE, NoText)

ZooKeeperHead(len, xid, type) ==
    Head16("zookeeper", BE32(len) \o BE32(xid) \o BE32(type), 0, len, FALSE, NoText)

\* A masked frame met in the middle of a connection.
WebSocketHead(opcode, len, mask) ==
    Head16("websocket", <<128 + opcode, 128 + len, mask, 77, mask, 77>>, 77, len + 6, FALSE, NoText)

\* A request: its method, by its first letter and its length, and its path.
HTTPHead(letter, n, nacos, upgrade) ==
    Head16(IF upgrade < Never THEN "websocket" ELSE IF nacos < Never THEN "nacos" ELSE "http",
           <<letter>>, 69, 80, FALSE,
           [NoText EXCEPT !["method"] = n + 1, !["nacos"] = nacos, !["upgrade"] = upgrade])

HTTPResponseHead ==
    Head16("http", <<72, 84, 84, 80, 47, 49, 46>>, 32, 80, FALSE,
           [NoText EXCEPT !["response"] = 7])

\* The first letters of the methods.
MethodLetters == {67, 68, 71, 72, 79, 80, 84}

Byte == {n \in Nat : n < 256}
TwoBytes == {n \in Nat : 1 <= n /\ n <= 65535}
FourBytes == {n \in Nat : n <= TooLarge}

\* No message is so long that text could be found in it that is not there.
Lengths(least) == {n \in Nat : least <= n /\ n < Never}

\* The messages made in this way, their parameters read back from the head.
IsFirstMessage(h) ==
    \/ h.len \in Lengths(16) /\ h = DubboHead(h.len)
    \/ h.len \in Lengths(2) /\ h = TripleHead(h.len)
    \/ /\ h.len \in Lengths(10)
       /\ \E n \in {BE(h, 5) - 4} \cap (2 .. h.len - 8) : h = RocketMQHead(n, h.len - 8 - n)
    \/ h.len \in Lengths(16) /\ \E id \in {LE(h, 5)} \cap FourBytes : h = MongoHead(h.len, id)
    \/ \E length \in {h.len - 4} \cap TwoBytes,
          seq \in {h.bytes[4]} \cap Byte, b \in {h.bytes[5]} \cap Byte : h = MySQLHead(length, seq, b)
    \/ \E n \in 1 .. 99 : h = RedisHead(n)
    \/ /\ h.len \in Lengths(12)
       /\ \E xid \in {BE(h, 5)} \cap FourBytes, type \in ZKTypes : h = ZooKeeperHead(h.len, xid, type)
    \/ /\ h.len \in 6 .. 131
       /\ \E opcode \in WebSocketOpcodes, mask \in {h.bytes[3]} \cap Byte :
             h = WebSocketHead(opcode, h.len - 6, mask)
    \/ \E letter \in MethodLetters, n \in 3 .. 7, nacos \in {h.at["nacos"]} \cap Nat :
          h = HTTPHead(letter, n, nacos, Never)
    \/ \E upgrade \in {h.at["upgrade"]} \cap Lengths(PeekSize + 1) :
          h = HTTPHead(71, 3, Never, upgrade)
    \/ h = HTTPResponseHead

-----------------------------------------------------------------------------
\* The first letters of POST, PUT, PATCH and of HEAD and HTTP, the low bits of
\* which are opcodes of WebSocket.
FrameLetters == {80, 72}

\* A number that the RocketMQ detector takes for the length of a frame, read
\* from the low bytes of a little-endian one, with no number behind it that
\* could be the length of a header.
LooksShort(h) == BE(h, 1) <= RocketMQMaxFrameSize
Peeked(h) == IF h.len < PeekSize THEN h.len ELSE PeekSize
HeaderInSight(h) == BE(h, 5) \in 4 .. Peeked(h) - 8

\* The magic number of Dubbo, which is also how a MySQL packet or a MongoDB
\* message begins whose length is 48090 modulo 65536.
MagicInSight(h) == h.bytes[1] = 218 /\ h.bytes[2] = 187

\* What auto mode takes a message without it for, said of the message.
OtherwiseTakenFor(h) ==
    CASE h.proto = "rocketmq" -> "rocketmq"
      [] h.proto = "triple" -> IF h.len >= 24 THEN "triple" ELSE "websocket"
      [] h.proto = "mongo" -> IF LooksShort(h) /\ ~HeaderInSight(h) THEN "rocketmq" ELSE "mongo"
      [] h.proto = "mysql" ->
            IF LooksShort(h) THEN "rocketmq"
            ELSE IF h.bytes[5] \in MySQLMarkers \/ (h.len <= PeekSize /\ h.bytes[5] < 251) THEN "mysql"
            ELSE IF h.bytes[1] \in RESPTypes THEN "redis"
            ELSE IF h.bytes[1] % 16 \in WebSocketOpcodes THEN "websocket"
            ELSE Unknown
      [] h.proto = "redis" -> IF h.bytes[4] = 13 THEN "mysql" ELSE "redis"
      [] h.proto = "zookeeper" ->
            IF ~HeaderInSight(h) THEN "rocketmq"
            ELSE IF h.len <= PeekSize THEN "zookeeper"
            ELSE IF h.len < 256 THEN "websocket" ELSE "mysql"
      [] h.proto = "websocket" ->
            IF h.at["upgrade"] < Never THEN "http"
            ELSE IF h.bytes[5] \in MySQLMarkers THEN "mysql" ELSE "websocket"
      [] h.proto \in {"nacos", "http"} ->
            IF h.bytes[1] \in FrameLetters THEN "websocket"
            ELSE IF h.at["nacos"] <= PeekSize THEN "nacos" ELSE "http"

TakenFor(h) == IF MagicInSight(h) THEN "dubbo" ELSE OtherwiseTakenFor(h)

=============================================================================
