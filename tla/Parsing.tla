------------------------------ MODULE Parsing ------------------------------
(***************************************************************************)
(* The pure parts of the program, each called once with one of the given   *)
(* inputs and compared with what its result should be.                     *)
(***************************************************************************)
EXTENDS Matching, CommandLine, TripleFrames, JavaStream, MongoBody, DubboBody

CONSTANTS
    Wishes,             \* command lines
    FrameLists, Cuts,   \* HTTP/2 frames and where their bytes are cut
    JavaArgs,           \* arguments of Dubbo calls, as Java objects
    MapEntries,         \* keys and values of attachments
    Calls,              \* Dubbo requests
    Documents,          \* BSON documents
    MongoMessages

Init ==
    \/ MatchingInit
    \/ /\ Uncalled
       /\ \/ call = "main" /\ input \in Wishes
          \/ call = "triple" /\ input \in [frames : FrameLists, cuts : Cuts]
          \/ call = "javaArgs" /\ input \in [prefix : {<<>>, <<Tag("junk")>>}, args : JavaArgs]
          \/ call = "javaMap" /\ input \in [entries : MapEntries, inline : BOOLEAN]
          \/ call = "dubboBody" /\ input \in Calls
          \/ call = "bson" /\ input \in Documents
          \/ call = "mongo" /\ input \in MongoMessages

\* A HashMap as its writeObject method writes it, with the entries in the
\* annotation, or with the entries behind it, as the code reads it.
MapBody(entries, inline) ==
    LET all == [i \in 1 .. 2 * Len(entries) |-> entries[(i + 1) \div 2][2 - (i % 2)]]
        class == Class(HashMap, TRUE, <<Field("F", "loadFactor"), Field("I", "threshold")>>, NoSuper)
        block == <<[block |-> 0]>>
        hashMap == Object(class, [c \in {HashMap} |-> <<Prim("0.75"), Prim("12")>>],
                          [c \in {HashMap} |-> IF inline THEN block ELSE block \o all]) IN
    <<Tag("junk")>> \o WrittenStream(<<hashMap>> \o (IF inline THEN all ELSE <<>>))

HeaderOfCall(c) ==
    ParseDubboHeader(AlibabaTwoway + c.serialization, 0, Length(BodyOfCall(c)))

Next ==
    \/ MatchingNext
    \/ Returns("main", Main(Arguments(input)))
    \/ Returns("triple", ReadTripleMessages(Chunks(Joined(input.frames), input.cuts), 0))
    \/ Returns("javaArgs", ParseJavaSerializedArgs(input.prefix \o WrittenStream(input.args)))
    \/ Returns("javaMap", ParseJavaSerializedAttachments(MapBody(input.entries, input.inline)))
    \/ Returns("dubboBody", ParseDubboBody(HeaderOfCall(input), BodyOfCall(input)))
    \/ Returns("bson", BsonToMap(Encoded(input)))
    \/ Returns("mongo", ParseBody(input.opcode, BodyOf(input)))

Spec == Init /\ [][Next]_vars

-----------------------------------------------------------------------------
\* main does what the usage text promises for a command line, exactly if it is
\* none of those that Misread describes, which the help text says work: the
\* claim "usage" of Documented.
UsageRead == Called("main") => (output = Promised(input) <=> ~Misread(input))

\* ReadTripleMessages returns requests only, in their order.  It returns every
\* one that lies whole in a chunk and whose length fits in one byte, unless the
\* bytes before it look like a frame that reaches into it, and no other.  The
\* comment of the function claims them all: "frames" of Documented.
HeadersFound ==
    LET frames == input.frames
        found == {output[m].at : m \in 1 .. Len(output)} IN
    Called("triple") =>
        /\ \A m \in 1 .. Len(output) :
              /\ \E k \in 1 .. Len(frames) :
                    IsRequest(frames[k]) /\ output[m].at = StartOf(frames, k)
              /\ m > 1 => output[m - 1].at < output[m].at
        /\ \A k \in {j \in 1 .. Len(frames) : IsRequest(frames[j])} :
              /\ IsCut(frames, k, input.cuts) \/ Len(frames[k]) >= FrameHeaderSize + LenBase
                 => StartOf(frames, k) \notin found
              /\ /\ ~IsCut(frames, k, input.cuts)
                 /\ Len(frames[k]) < FrameHeaderSize + LenBase
                 /\ ~HasLookAlike(frames, k, input.cuts)
                 => StartOf(frames, k) \in found

\* The fields of the arguments of a call are read with their values, without
\* an error if there are any, if the objects are Readable and nothing in them is
\* a reference.  Of other objects they may be missing, but without superclasses
\* no field gets a value that is not its own, as far as the reader is not lost.
\* The comments of the readers claim that references are followed: "references"
\* of Documented.
JavaValuesRight ==
    Called("javaArgs") =>
        LET right == MeaningOfAll(input.args) IN
        /\ /\ \A i \in 1 .. Len(input.args) : Readable(input.args[i])
           /\ TokensAt(WrittenStream(input.args), "ref") = {}
           => /\ output.val = right
              /\ output.st.err = IF right = NoFields THEN "error" ELSE ""
        /\ output.st.err # "lost" /\ (\A i \in 1 .. Len(input.args) : Flat(input.args[i]))
           => \A k \in DOMAIN output.val : k \in DOMAIN right /\ output.val[k] = right[k]

\* The attachments of a call are found if they follow their map and no string
\* occurs twice; where ObjectOutputStream puts them none is found, although the
\* comment of the function says so: "entries" of Documented.
AttachmentsFound ==
    Called("javaMap") =>
        LET es == input.entries
            strings == {<<i, j>> \in (1 .. Len(es)) \X (1 .. 2) : Is("str", es[i][j])} IN
        /\ ~input.inline /\ es # <<>> => output = NoFields
        /\ input.inline /\ (\A p, q \in strings : es[p[1]][p[2]] = es[q[1]][q[2]] => p = q)
           => /\ DOMAIN output = {es[i][1].str : i \in 1 .. Len(es)}
              /\ \A i \in 1 .. Len(es) :
                    output[es[i][1].str] = IF Is("nil", es[i][2]) THEN Str("") ELSE es[i][2]

\* The method of a Dubbo request is shown, without a digit at its end.  Its
\* service is shown in exactly the cases that ServiceShown lists, and if the
\* strings are found one by one so are the versions, types and arguments.  The
\* other cases are at odds with comments: "hessian2" and "garbage" of Documented.
DubboNames ==
    Called("dubboBody") =>
        /\ output.method = SayHello
        /\ output.service = input.service /\ ~output.cut <=> ServiceShown(input)
        /\ Structured(input) =>
              /\ output.service = input.service
              /\ output.version = input.version
              /\ output.types = input.types
              /\ input.encoding = "utf" =>
                    output.argStart = Len(BodyOfCall(input)) - Len(JavaArguments) + 1

\* Of a BSON document every named element is shown, with the value that it
\* has, however documents and arrays are nested and whatever types precede it,
\* other than pointers (0x0C) and symbols (0x0E).  What comes behind one of
\* those is lost, but only in the document or array that it is in; a comment
\* says that it is skipped: "skipped" of Documented.
BsonRight == Called("bson") => AsMeant(input, output)

\* What is shown of a MongoDB message is what it says.  The exception is an
\* OP_MSG that does not begin with its command: then some end of the name of
\* the first section is shown as the command, against the comments there:
\* "bodySection" of Documented.
MongoRead ==
    Called("mongo") =>
        CASE input.opcode = "OP_MSG" ->
               IF input.first.kind = 0
               THEN /\ output.command = input.first.doc[1].key
                    /\ output.collection = (output.command # <<>>)
                    /\ AsMeant(input.first.doc, output.bson)
               ELSE \E i \in 3 .. 6 :
                       output.command = SubSeq(input.first.id, i, Len(input.first.id))
          [] input.opcode = "OP_QUERY" -> output.name = input.name /\ output.numbers = input.numbers
          [] input.opcode = "OP_REPLY" ->
               /\ output.numbers = <<Len(input.docs)>>
               /\ IF input.docs = <<>> THEN output.bson = NothingShown
                  ELSE AsMeant(input.docs[1], output.bson)
          [] input.opcode = "OP_INSERT" -> output.name = input.name
          [] input.opcode = "OP_COMMAND" -> output.command = input.name

=============================================================================
