----------------------------- MODULE MongoBody -----------------------------
(***************************************************************************)
(* How the body of a MongoDB message is read: the opcodes and, inside them,*)
(* BSON documents.  Bodies are sequences of bytes, and so are the names in *)
(* them; positions count from 1.  A value is a record with what it is      *)
(* shown as.  Lengths of 2^24 and more, longer than any body here, are all *)
(* read as 2^24.                                                           *)
(***************************************************************************)
EXTENDS Integers, Sequences

Shown(as, v) == [as |-> as, v |-> v]
Null == Shown("null", 0)
NoDocument == Shown("document", [k \in {} |-> Null])

LittleEndian(data, p) ==
    IF data[p + 3] > 0 THEN 2^24
    ELSE data[p] + 256 * data[p + 1] + 65536 * data[p + 2]

\* Where the string at p ends: its zero byte, or behind the data.
EndOfString(data, p) ==
    CHOOSE q \in p .. (IF p > Len(data) THEN p ELSE Len(data) + 1) :
        /\ q > Len(data) \/ data[q] = 0
        /\ \A r \in p .. q - 1 : data[r] # 0

\* data[p:q] panics if it reaches behind the data.
Panic == <<-1>>
Slice(data, p, q) == IF q > Len(data) + 1 THEN Panic ELSE SubSeq(data, p, q - 1)

\* The types whose values have a fixed size.
Widths(types) ==
    [t \in types |-> CASE t \in {1, 9, 17, 18} -> 8
                       [] t = 7 -> 12
                       [] t = 8 -> 1
                       [] t = 16 -> 4
                       [] t = 19 -> 16]
\* Fault: ObjectIds are missing, as they are in skipBSONValue.
WidthNoObjectId == Widths({1, 8, 9, 16, 17, 18, 19})
Width == Widths({1, 7, 8, 9, 16, 17, 18, 19})
FixedValue(t, bytes) ==
    CASE t = 1 -> Shown("double", bytes)
      [] t = 7 -> Shown("ObjectId", bytes)
      [] t = 8 -> Shown("boolean", bytes[1] # 0)
      [] t = 9 -> Shown("date", bytes)
      [] t = 16 -> Shown("integer", bytes)
      [] t \in {17, 18} -> Shown("integer", bytes)
      [] t = 19 -> Shown("text", "<decimal128>")

\* The types whose values begin with a length, and the bytes that it leaves
\* out: itself and, in binary data, the subtype.
Uncounted == [t \in {2, 3, 4, 5, 13, 15} |-> CASE t \in {2, 13} -> 4 [] t = 5 -> 5 [] OTHER -> 0]
Constant(t) ==
    CASE t = 6 -> Shown("text", "undefined")
      [] t = 127 -> Shown("text", "<MinKey>")
      [] t = 255 -> Shown("text", "<MaxKey>")
      [] OTHER -> Null

\* The keys of an array's elements.
Index(i) == <<48 + i>>
AsSlice(m) ==
    LET n == CHOOSE n \in 0 .. 10 :
                 (\A i \in 0 .. n - 1 : Index(i) \in DOMAIN m) /\ Index(n) \notin DOMAIN m IN
    Shown("array", [i \in 1 .. n |-> m[Index(i - 1)]])

RECURSIVE BsonToMap(_), Elements(_, _, _, _)

SizedValue(data, p, t) ==
    LET length == LittleEndian(data, p)
        end == p + Uncounted[t] + length
        text == Shown("string", IF length > 1 THEN SubSeq(data, p + 4, end - 2) ELSE <<>>)
        document == BsonToMap(SubSeq(data, p, end - 1)) IN
    [val |-> CASE end > Len(data) + 1 -> Null
               [] t = 2 -> text
               [] t = 13 -> IF length > 1 THEN text ELSE Null
               [] t = 3 -> document
               [] t = 4 -> AsSlice(document.v)
               [] t = 5 -> Shown("binary", length)
               [] t = 15 -> Shown("text", "<javascript with scope>"),
     next |-> end]

RegexValue(data, p) ==
    LET patEnd == EndOfString(data, p)
        optEnd == EndOfString(data, patEnd + 1) IN
    [val |-> Shown("regex", <<Slice(data, p, patEnd), Slice(data, patEnd + 1, optEnd)>>),
     next |-> optEnd + 1]

\* The value at p; if it is cut off or of no known type, nothing is consumed.
ValueAt(data, p, t) ==
    LET skipped == [val |-> Constant(t), next |-> p]
        left == Len(data) + 1 - p IN
    CASE t \in DOMAIN Width ->
           IF left < Width[t] THEN skipped
           ELSE [val |-> FixedValue(t, SubSeq(data, p, p + Width[t] - 1)), next |-> p + Width[t]]
      [] t \in DOMAIN Uncounted ->
           IF left < (IF t = 5 THEN 5 ELSE 4) THEN skipped ELSE SizedValue(data, p, t)
      [] t = 11 -> RegexValue(data, p)
      [] OTHER -> skipped

ParseBSONElement(data, p) ==
    LET keyEnd == EndOfString(data, p + 1)
        value == ValueAt(data, keyEnd + 1, data[p]) IN
    IF keyEnd > Len(data) THEN [key |-> <<>>, val |-> Null, next |-> Len(data) + 1]
    ELSE [key |-> SubSeq(data, p + 1, keyEnd - 1), val |-> value.val,
          next |-> IF value.next > Len(data) THEN Len(data) + 1 ELSE value.next]

\* An element without a name is dropped.
Elements(data, p, docSize, m) ==
    LET e == ParseBSONElement(data, p) IN
    IF p >= docSize \/ data[p] = 0 THEN m
    ELSE Elements(data, e.next, docSize,
             IF e.key = <<>> THEN m
             ELSE [k \in DOMAIN m \cup {e.key} |-> IF k = e.key THEN e.val ELSE m[k]])

BsonToMap(data) ==
    LET size == LittleEndian(data, 1)
        docSize == IF size \in 5 .. Len(data) THEN size ELSE Len(data) IN
    IF Len(data) < 5 THEN NoDocument
    ELSE Shown("document", Elements(data, 5, docSize, NoDocument.v))

\* bsonToJSON shows nothing for what is too short to be a document.
NothingShown == Shown("none", 0)
BsonToJSON(data) == IF Len(data) < 5 THEN NothingShown ELSE BsonToMap(data)

-----------------------------------------------------------------------------
\* Fault: the byte of the type is taken for part of the name.
ExtractBSONFirstKeyWithType(data) ==
    IF Len(data) < 5 \/ data[5] = 0 THEN <<>> ELSE SubSeq(data, 5, EndOfString(data, 5) - 1)

ExtractBSONFirstKey(data) ==
    IF Len(data) < 5 \/ data[5] = 0 THEN <<>> ELSE SubSeq(data, 6, EndOfString(data, 6) - 1)

\* Unlike parseBSONElement it knows nothing of ObjectIds, regular expressions,
\* code and timestamps, and does not step over them.
SkipWidth == Widths({1, 8, 9, 16, 18, 19})
SkipBSONValue(data, p, t) ==
    LET left == Len(data) + 1 - p IN
    CASE left <= 0 -> p
      [] t \in DOMAIN SkipWidth -> p + SkipWidth[t]
      [] t \in {2, 3, 4, 5} /\ left >= (IF t = 5 THEN 5 ELSE 4) ->
           p + Uncounted[t] + LittleEndian(data, p)
      [] OTHER -> p

\* Whether the field is there; its value is not looked at.
RECURSIVE FieldFrom(_, _, _)
FieldFrom(data, p, field) ==
    LET keyEnd == EndOfString(data, p + 1)
        next == SkipBSONValue(data, keyEnd + 1, data[p]) IN
    /\ p < Len(data)
    /\ data[p] # 0
    /\ \/ field # <<>> /\ SubSeq(data, p + 1, keyEnd - 1) = field
       \/ FieldFrom(data, next, field)
ExtractBSONValue(data, field) == Len(data) >= 5 /\ FieldFrom(data, 5, field)

\* The byte after the first zero byte.
FindBodySection(data) ==
    LET zeros == {i \in 1 .. Len(data) - 4 : data[i] = 0} IN
    IF zeros = {} THEN 0 ELSE 1 + CHOOSE i \in zeros : \A j \in zeros : i <= j

Unread == [name |-> <<>>, command |-> <<>>, collection |-> FALSE, numbers |-> <<>>, bson |-> NothingShown]

ParseOpMsg(body) ==
    LET idx == IF body[5] = 1 THEN FindBodySection(SubSeq(body, 6, Len(body))) ELSE 0
        bodyData == SubSeq(body, 5 + (IF idx = 0 THEN 1 ELSE idx), Len(body))
        command == ExtractBSONFirstKey(bodyData) IN
    IF Len(body) < 5 THEN Unread
    ELSE [Unread EXCEPT !.bson = BsonToJSON(bodyData), !.command = command,
                        !.collection = ExtractBSONValue(bodyData, command)]

ParseOpQuery(body) ==
    LET end == EndOfString(body, 5) IN
    IF Len(body) < 12 THEN Unread
    ELSE [Unread EXCEPT !.name = SubSeq(body, 5, end - 1),
                        !.numbers = IF end + 8 > Len(body) THEN <<0, 0>>
                                    ELSE <<LittleEndian(body, end + 1), LittleEndian(body, end + 5)>>]

ParseOpReply(body) ==
    [Unread EXCEPT !.numbers = <<IF Len(body) < 20 THEN 0 ELSE LittleEndian(body, 17)>>,
                   !.bson = BsonToJSON(SubSeq(body, 21, Len(body)))]

ParseOpInsert(body) == [Unread EXCEPT !.name = Slice(body, 5, EndOfString(body, 5))]

ParseOpCommand(body) ==
    LET end == EndOfString(body, 1) IN
    IF Len(body) < 8 THEN Unread
    ELSE [Unread EXCEPT !.command = Slice(body, end + 1, EndOfString(body, end + 1))]

\* Of the other opcodes only the name is shown.
ParseBody(opcode, body) ==
    CASE opcode = "OP_MSG" -> ParseOpMsg(body)
      [] opcode = "OP_QUERY" -> ParseOpQuery(body)
      [] opcode = "OP_REPLY" -> ParseOpReply(body)
      [] opcode = "OP_INSERT" -> ParseOpInsert(body)
      [] opcode = "OP_COMMAND" -> ParseOpCommand(body)
      [] OTHER -> Unread

-----------------------------------------------------------------------------
(***************************************************************************)
(* BSON documents, as sequences of elements with a key, a type and what    *)
(* the value is made of, and the messages that carry them.                 *)
(***************************************************************************)
Element(key, t, v) == [key |-> key, t |-> t, v |-> v]

Word32(n) == <<n % 256, (n \div 256) % 256, (n \div 65536) % 256, 0>>

RECURSIVE Encoded(_), EncodedElements(_)
EncodedValue(t, v) ==
    CASE t \in {2, 13, 14} -> Word32(Len(v) + 1) \o v \o <<0>>
      [] t = 12 -> Word32(Len(v[1]) + 1) \o v[1] \o <<0>> \o v[2]
      [] t \in {3, 4} -> Encoded(v)
      [] t = 5 -> Word32(Len(v)) \o <<0>> \o v
      [] t = 11 -> v[1] \o <<0>> \o v[2] \o <<0>>
      [] t = 15 -> Word32(4 + Len(v)) \o v
      [] OTHER -> v
EncodedElements(es) ==
    IF es = <<>> THEN <<>>
    ELSE <<Head(es).t>> \o Head(es).key \o <<0>> \o EncodedValue(Head(es).t, Head(es).v)
         \o EncodedElements(Tail(es))
Encoded(es) ==
    LET bytes == EncodedElements(es) IN Word32(Len(bytes) + 5) \o bytes \o <<0>>

\* What should be shown for a document: its last value for every name.  An
\* element without a name is not shown, code is shown like a string, but null
\* if it is empty.
RECURSIVE Meant(_), MeantValue(_, _)
MeantValue(t, v) ==
    CASE t = 2 \/ (t = 13 /\ v # <<>>) -> Shown("string", v)
      [] t = 3 -> Meant(v)
      [] t = 4 -> Shown("array", [i \in 1 .. Len(v) |-> MeantValue(v[i].t, v[i].v)])
      [] t = 5 -> Shown("binary", Len(v))
      [] t = 11 -> Shown("regex", v)
      [] t = 15 -> Shown("text", "<javascript with scope>")
      [] t \in {1, 7, 8, 9, 16, 17, 18, 19} -> FixedValue(t, v)
      [] OTHER -> Constant(t)
Meant(es) ==
    LET last(key) == CHOOSE i \in 1 .. Len(es) :
                         es[i].key = key /\ \A j \in i + 1 .. Len(es) : es[j].key # key IN
    Shown("document", [key \in {es[i].key : i \in 1 .. Len(es)} \ {<<>>} |->
                          MeantValue(es[last(key)].t, es[last(key)].v)])

\* Pointers and symbols, which the reader shows as null and does not step
\* over: it reads their values as elements.
NotSteppedOver == {12, 14}

Unknowns(es) == {i \in 1 .. Len(es) : es[i].t \in NotSteppedOver}
Sure(es) == {i \in 1 .. Len(es) : \A j \in Unknowns(es) : i <= j}

\* A value is shown as it should be, apart from what comes behind a pointer or
\* a symbol in the same document or array.
RECURSIVE AsMeant(_, _), ValueAsMeant(_, _, _)
ValueAsMeant(t, v, shown) ==
    CASE t = 3 -> AsMeant(v, shown)
      [] t = 4 ->
           /\ shown.as = "array"
           /\ Sure(v) \subseteq 1 .. Len(shown.v)
           /\ Unknowns(v) = {} => Len(shown.v) = Len(v)
           /\ \A i \in Sure(v) : ValueAsMeant(v[i].t, v[i].v, shown.v[i])
      [] OTHER -> shown = MeantValue(t, v)
AsMeant(es, shown) ==
    LET last(i) == \A j \in i + 1 .. Len(es) : es[j].key # es[i].key IN
    /\ shown.as = "document"
    /\ Unknowns(es) = {} => DOMAIN shown.v = {es[i].key : i \in 1 .. Len(es)} \ {<<>>}
    /\ \A i \in Sure(es) :
          es[i].key # <<>> =>
            /\ es[i].key \in DOMAIN shown.v
            /\ last(i) => ValueAsMeant(es[i].t, es[i].v, shown.v[es[i].key])

\* The sections of an OP_MSG: the command's document, of kind 0, and named
\* sequences of documents, of kind 1.
Section(s) ==
    LET documents == s.id \o <<0>> \o Encoded(s.doc) IN
    IF s.kind = 0 THEN <<0>> \o Encoded(s.doc)
    ELSE <<1>> \o Word32(4 + Len(documents)) \o documents

\* The name of the database is longer than two characters.
Database == <<97, 100, 109>>
BodyOf(m) ==
    CASE m.opcode = "OP_MSG" ->
           Word32(0) \o Section(m.first) \o (IF m.rest = <<>> THEN <<>> ELSE Section(m.rest[1]))
      [] m.opcode = "OP_QUERY" ->
           Word32(0) \o m.name \o <<0>> \o Word32(m.numbers[1]) \o Word32(m.numbers[2]) \o Encoded(m.doc)
      [] m.opcode = "OP_REPLY" ->
           Word32(0) \o Word32(7) \o Word32(0) \o Word32(0) \o Word32(Len(m.docs))
           \o (IF m.docs = <<>> THEN <<>> ELSE Encoded(m.docs[1]) \o Encoded(m.docs[Len(m.docs)]))
      [] m.opcode = "OP_INSERT" -> Word32(0) \o m.name \o <<0>> \o Encoded(m.doc)
      [] m.opcode = "OP_COMMAND" -> Database \o <<0>> \o m.name \o <<0>> \o Encoded(m.doc)

=============================================================================
