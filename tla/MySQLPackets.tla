---------------------------- MODULE MySQLPackets ----------------------------
(***************************************************************************)
(* What the MySQL parser shows of a packet.  It looks at one packet at a   *)
(* time and remembers nothing, so a packet is taken for what its first     *)
(* byte says, whatever the packets before it were.  Payloads are sequences *)
(* of bytes, positions count from 1; integers of 2^24 and more are all     *)
(* read as 2^24, and no sender uses them.                                  *)
(***************************************************************************)
EXTENDS Integers, Sequences

TooMany == 16777216    \* 2^24

Digit(bytes, i) == IF i <= Len(bytes) THEN bytes[i] ELSE 0
Little(bytes) ==
    IF \E i \in 4 .. Len(bytes) : bytes[i] > 0 THEN TooMany
    ELSE Digit(bytes, 1) + 256 * Digit(bytes, 2) + 65536 * Digit(bytes, 3)

\* The size of a length-encoded integer.
LenEncSize(b) ==
    CASE b < 251 -> 1 [] b = 252 -> 3 [] b = 253 -> 4 [] b = 254 -> 9 [] OTHER -> 0

\* Nothing is consumed if the integer is incomplete or is none.
ReadLenEncInt(data, p) ==
    LET size == LenEncSize(data[p]) IN
    IF p > Len(data) \/ size = 0 \/ p + size - 1 > Len(data) THEN [val |-> 0, next |-> p]
    ELSE [val |-> IF size = 1 THEN data[p] ELSE Little(SubSeq(data, p + 1, p + size - 1)),
          next |-> p + size]

QueryLimit == 200
ComInitDB == 2
ComQuery == 3
ComStmtPrepare == 22
ComStmtExecute == 23

Ellipsis == <<46, 46, 46>>
Shortened(text) ==
    IF Len(text) > QueryLimit THEN SubSeq(text, 1, QueryLimit) \o Ellipsis ELSE text

NoPacket == [type |-> "", text |-> <<>>, numbers |-> <<>>]

ParseClientPacket(payload) ==
    LET command == payload[1]
        rest == Tail(payload) IN
    IF payload = <<>> THEN NoPacket
    ELSE [type |-> "command",
          text |-> CASE command \in {ComQuery, ComStmtPrepare} -> Shortened(rest)
                     [] command = ComInitDB -> rest
                     [] OTHER -> <<>>,
          numbers |-> IF command = ComStmtExecute /\ Len(payload) >= 5
                      THEN <<command, Little(SubSeq(payload, 2, 5))>> ELSE <<command>>]

\* The version, and as the plugin what follows the last zero byte.
Greeting(payload) ==
    LET zeros == {i \in 2 .. Len(payload) : payload[i] = 0}
        end == IF zeros = {} THEN Len(payload) + 1
               ELSE CHOOSE i \in zeros : \A j \in zeros : i <= j
        last == CHOOSE i \in zeros : \A j \in zeros : i >= j
        hasPlugin == end + 13 < Len(payload) /\ last > end + 1 IN
    [type |-> "handshake",
     text |-> <<SubSeq(payload, 2, end - 1),
                IF hasPlugin THEN SubSeq(payload, last + 1, Len(payload)) ELSE <<>>>>,
     numbers |-> <<payload[1]>>]

OkPacket(payload) ==
    LET rows == ReadLenEncInt(payload, 2)
        id == ReadLenEncInt(payload, rows.next)
        status == SubSeq(payload, id.next, id.next + 1) IN
    [type |-> "ok", text |-> <<>>,
     numbers |-> IF Len(payload) < 7 THEN <<0, 0, 0>>
                 ELSE <<rows.val, id.val, IF Len(status) = 2 THEN Little(status) ELSE 0>>]

\* The state is marked by a "#" and takes five bytes; a packet that ends
\* inside it makes the slice panic.
Hash == 35
ErrPacket(payload) ==
    LET marked == Len(payload) > 3 /\ payload[4] = Hash IN
    IF marked /\ Len(payload) < 9 THEN [NoPacket EXCEPT !.type = "panic"]
    ELSE [type |-> "error",
          text |-> IF marked THEN <<SubSeq(payload, 5, 9), SubSeq(payload, 10, Len(payload))>>
                   ELSE <<<<>>, SubSeq(payload, 4, Len(payload))>>,
          numbers |-> IF Len(payload) < 3 THEN <<0>> ELSE <<Little(SubSeq(payload, 2, 3))>>]

ResponseOK == 0
ResponseEOF == 254
ResponseERR == 255
MaxColumns == 10000

Columns(payload) ==
    LET count == ReadLenEncInt(payload, 1).val IN
    IF count \in 1 .. MaxColumns - 1
    THEN [type |-> "resultset", text |-> <<>>, numbers |-> <<count>>]
    ELSE [NoPacket EXCEPT !.type = "unknown"]

\* Fault: the packet of an error is not looked for.
ParseServerPacketNoError(payload) ==
    IF payload = <<>> THEN NoPacket
    ELSE CASE payload[1] = 10 /\ Len(payload) > 4 -> Greeting(payload)
           [] payload[1] \in {ResponseOK, ResponseEOF} -> OkPacket(payload)
           [] OTHER -> Columns(payload)

\* The branch for EOF packets comes after that for OK packets, which takes
\* them all.
ParseServerPacket(payload) ==
    IF payload = <<>> THEN NoPacket
    ELSE CASE payload[1] = 10 /\ Len(payload) > 4 -> Greeting(payload)
           [] payload[1] \in {ResponseOK, ResponseEOF} -> OkPacket(payload)
           [] payload[1] = ResponseERR -> ErrPacket(payload)
           [] OTHER -> Columns(payload)

-----------------------------------------------------------------------------
(***************************************************************************)
(* The packets of a session as client and server write them.               *)
(***************************************************************************)
Short(n) == <<n % 256, n \div 256>>

LenEnc(n) ==
    IF n < 251 THEN <<n>>
    ELSE IF n < 65536 THEN <<252, n % 256, n \div 256>>
    ELSE <<253, n % 256, (n \div 256) % 256, n \div 65536>>

Below(n) == {i \in Nat : i < n}
ShortNumber == Below(65536)
Number == Below(TooMany)
ByteText == Seq(Below(256))
Name == Seq(Below(256) \ {0})

\* A greeting has a thread number, the salt and flags between the version and
\* the plugin, which older servers do not terminate.  The text of an error
\* without a state does not begin with the mark of one.
IsPacket(p) ==
    \/ /\ p \in [kind : {"greeting"}, version : Name, between : ByteText, plugin : Name,
                 terminated : BOOLEAN]
       /\ Len(p.between) >= 13
       /\ p.between[Len(p.between)] = 0
    \/ p \in [kind : {"ok"}, header : {ResponseOK, ResponseEOF}, rows : Number,
             id : Number, status : ShortNumber]
    \/ /\ p \in [kind : {"error"}, code : ShortNumber, state : ByteText, text : ByteText]
       /\ \/ Len(p.state) = 5
          \/ p.state = <<>> /\ (p.text = <<>> \/ p.text[1] # Hash)
    \/ p \in [kind : {"columns"}, count : Number \ {0}]
    \/ p \in [kind : {"definition", "eof"}]
    \/ /\ p \in [kind : {"row"}, null : BOOLEAN, column : ByteText]
       /\ Len(p.column) < TooMany
    \/ /\ p \in [kind : {"command"}, command : Below(256), text : ByteText]
       /\ p.command = ComStmtExecute => Len(p.text) >= 4
    \/ p \in [kind : {"login"}, flags : Below(256)]

PayloadOf(p) ==
    CASE p.kind = "greeting" ->
           <<10>> \o p.version \o <<0>> \o p.between \o p.plugin \o (IF p.terminated THEN <<0>> ELSE <<>>)
      [] p.kind = "ok" -> <<p.header>> \o LenEnc(p.rows) \o LenEnc(p.id) \o Short(p.status) \o <<0, 0>>
      [] p.kind = "error" ->
           <<255>> \o Short(p.code) \o (IF p.state = <<>> THEN <<>> ELSE <<Hash>> \o p.state) \o p.text
      [] p.kind = "columns" -> LenEnc(p.count)
      [] p.kind = "definition" -> <<3, 100, 101, 102, 0, 0, 0>>
      [] p.kind = "eof" -> <<254, 0, 0, 2, 0>>
      [] p.kind = "row" -> (IF p.null THEN <<251>> ELSE LenEnc(Len(p.column)) \o p.column) \o <<1, 49>>
      [] p.kind = "command" -> <<p.command>> \o p.text
      [] p.kind = "login" -> <<p.flags, 166, 15, 0, 0, 0, 0, 1, 33>>

ClientSent(p) == p.kind \in {"command", "login"}
ParsePacket(p) ==
    IF ClientSent(p) THEN ParseClientPacket(PayloadOf(p)) ELSE ParseServerPacket(PayloadOf(p))

\* What should be shown.
Intended(p) ==
    CASE p.kind = "greeting" ->
           [type |-> "handshake", text |-> <<p.version, p.plugin>>, numbers |-> <<10>>]
      [] p.kind = "ok" -> [type |-> "ok", text |-> <<>>, numbers |-> <<p.rows, p.id, p.status>>]
      [] p.kind = "error" -> [type |-> "error", text |-> <<p.state, p.text>>, numbers |-> <<p.code>>]
      [] p.kind = "columns" -> [type |-> "resultset", text |-> <<>>, numbers |-> <<p.count>>]
      [] p.kind = "command" /\ p.command = ComStmtExecute ->
           [type |-> "command", text |-> <<>>, numbers |-> <<p.command, Little(SubSeq(p.text, 1, 4))>>]
      [] p.kind = "command" /\ p.command # ComStmtExecute ->
           [type |-> "command", text |-> p.text, numbers |-> <<p.command>>]
      [] OTHER -> [NoPacket EXCEPT !.type = p.kind]

\* The packets of which something else is shown.  Long texts are cut, which
\* cannot be seen of a text that has three dots there; those of other commands
\* are left out; the plugin is found only if no zero byte ends it; more columns
\* are not believed; definitions, rows, EOF and login are never recognised.
ShownOtherwise(p) ==
    CASE p.kind = "greeting" -> p.terminated /\ p.plugin # <<>>
      [] p.kind = "command" ->
           CASE p.command \in {ComQuery, ComStmtPrepare} ->
                  /\ Len(p.text) > QueryLimit
                  /\ p.text # SubSeq(p.text, 1, QueryLimit) \o Ellipsis
             [] p.command \in {ComInitDB, ComStmtExecute} -> FALSE
             [] OTHER -> p.text # <<>>
      [] p.kind = "columns" -> p.count >= MaxColumns
      [] OTHER -> p.kind \in {"definition", "row", "eof", "login"}

\* What a row is taken for: the length of its first column decides, which is
\* read as the number of columns of a result.
RowType(p) ==
    CASE p.null -> "unknown"
      [] ~p.null /\ p.column = <<>> -> "ok"
      [] ~p.null /\ Len(p.column) = 10 -> "handshake"
      [] ~p.null /\ Len(p.column) >= MaxColumns -> "unknown"
      [] OTHER -> "resultset"
MistakenType(p) ==
    CASE p.kind = "row" -> RowType(p)
      [] p.kind = "definition" -> "resultset"
      [] p.kind = "eof" -> "ok"
      [] p.kind = "columns" -> "unknown"
      [] p.kind = "greeting" -> "handshake"
      [] OTHER -> "command"

=============================================================================
