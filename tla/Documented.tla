----------------------------- MODULE Documented -----------------------------
(***************************************************************************)
(* What the READMEs, the help text and the comments of the repository say  *)
(* about the pure parts of the program, put to the test.  Each trial calls *)
(* one function with an input to which a claim applies; a claim is refuted *)
(* when the function has returned something else than the claim says.      *)
(***************************************************************************)
EXTENDS Parsing, FiniteSets

CONSTANT Trials     \* a sequence of claims, each with a call and its input

VARIABLES
    trial,      \* the number of the trial that is under way
    refuted     \* the claims that earlier trials have refuted

\* The reader of a format, with the real sizes.
Reader(fmt) ==
    INSTANCE Framing WITH
        Formats <- {fmt}, Bodies <- {}, MaxMessages <- 0, BodyLimit <- 0,
        MySQLPayload <- 16777215, ShortFrame <- 125, MediumFrame <- 65535, PeekLen <- 24,
        format <- fmt, sent <- <<>>, delivered <- 0, closed <- FALSE, pos <- 0,
        reads <- 0, returned <- 0, pc <- "reading"

\* The order of the detectors in the picture of the architecture.
DocumentedOrder == <<"dubbo", "triple", "redis", "rocketmq", "mysql", "mongo", "http">>
FirstDocumented(h) ==
    LET peek == [h EXCEPT !.len = Peeked(h)]
        accepting == {i \in 1 .. Len(DocumentedOrder) : Accepts(DocumentedOrder[i], peek)} IN
    DocumentedOrder[CHOOSE i \in accepting : \A j \in accepting : i <= j]

\* What the claim says of the output for the input.
Says(claim, in, out) ==
    CASE \* "tcpshow -i eth0 redis -k 'user:*'"
         claim = "usage" -> out = Promised(in)
      [] \* "GET and HGET (wildcard)", for -redis-command 'GET*'
         claim = "wildcard" -> out
      [] \* "Tries dubbo, triple, redis, rocketmq, mysql, mongo, http in order"
         claim = "order" -> out = FirstDocumented(in)
      [] \* automatic detection, without naming the protocol
         claim = "recognised" -> out = in.proto
      [] \* "reads all available HTTP/2 frames [...] and extracts [the] messages"
         claim = "frames" ->
            Len(out) = Cardinality({k \in 1 .. Len(in.frames) : IsRequest(in.frames[k])})
      [] \* "parses a TC_REFERENCE and returns the previously-seen value"
         claim = "references" -> out.val = MeaningOfAll(in.args)
      [] \* "parses a java.util.HashMap [...] and returns its [...] entries"
         claim = "entries" -> DOMAIN out = {in.entries[i][1].str : i \in 1 .. Len(in.entries)}
      [] \* "serialization id (2 = Hessian2 in Dubbo convention)"
         claim = "hessian2" -> out.service = in.service
      [] \* "strip leading non-alpha garbage"
         claim = "garbage" -> ~out.cut
      [] \* "unknown type - try to skip"
         claim = "skipped" -> out = Meant(in)
      [] \* "skip sequence section, find body section"
         claim = "bodySection" -> out.command = in.rest[1].doc[1].key
      [] \* "EOF packet (0xfe)", of the type "eof"
         claim = "eof" -> out.type = "eof"
      [] \* "Find the last null-terminated string (auth plugin name)"
         claim = "plugin" -> out.text[2] = in.plugin
      [] \* "reads a complete MySQL protocol message"
         claim = "complete" -> out = Reader("mysql")!Size(in.message)
      [] \* "Full content including body / payload"
         claim = "body" -> out = Reader("http")!Size(in.message)

Claims == {Trials[i].claim : i \in 1 .. Len(Trials)}

-----------------------------------------------------------------------------
Contradicted ==
    IF called /\ ~Says(Trials[trial].claim, input, output) THEN {Trials[trial].claim} ELSE {}

TrialInit ==
    /\ Uncalled
    /\ trial = 1
    /\ refuted = {}
    /\ call = Trials[1].call
    /\ input = Trials[1].input

\* The function under test is at work; a reader returns with so many bytes
\* consumed.
Test ==
    /\ \/ Next
       \/ Returns("read", Reader(input.format)!Sum(Reader(input.format)!Reads(input.message)))
    /\ UNCHANGED <<trial, refuted>>

NextTrial ==
    /\ called
    /\ trial < Len(Trials)
    /\ trial' = trial + 1
    /\ refuted' = refuted \cup Contradicted
    /\ call' = Trials[trial + 1].call
    /\ input' = Trials[trial + 1].input
    /\ loop' = LoopStart
    /\ output' = <<>>
    /\ called' = FALSE

TrialNext == Test \/ NextTrial

TrialSpec == TrialInit /\ [][TrialNext]_<<vars, trial, refuted>>

-----------------------------------------------------------------------------
\* Of the claims of the documents and comments that the trials are about, at
\* least one is borne out by what the code does.  Its violation is a single
\* session in which the code contradicts every one of them.
SomeClaimHolds == refuted \cup Contradicted # Claims

=============================================================================
