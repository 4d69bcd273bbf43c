# A verification project for tcp-port

`tcp-port` captures TCP packets with libpcap, puts the two directions of every
connection back together, parses nine application protocols (Dubbo with its
Triple variant, Redis, RocketMQ, MySQL, MongoDB, HTTP, WebSocket, ZooKeeper,
Nacos) and prints each exchange with its latency. This directory models in
TLA+ the parts of it that keep state and run concurrently, and the parsers,
detectors and filters that decide what is shown; checks them with TLC on small
instances, and proves with TLAPS, for every instance, the safety of all the parts
that keep state, what the filters, the detection and the flags of Dubbo decide, and
what is shown of every MySQL packet.
`PROJECT.json` lists the components, the runs, the correspondence of
definitions and source lines (`map`), the hazards the properties are aimed at,
the findings and the theorems.

## 1. The system

One goroutine, the **capture loop** of `main` (`src/main.go`), takes packets,
a ticker of 30 seconds and the end of the input from channels. It is the only
caller of the assembler. Each connection has one **handler** goroutine; all
handlers share one **printer**, which has a goroutine of its own.

```
 pcap --> capture loop --> TCPAssembler --> 2 netStreams per connection --> handler --> MultiPrinter --> stdout, files
              |  ticker: FlushOlderThan        (bounded channels)           (1 goroutine      (bounded queue,
              |  end: FinishAll, Finish                                      per connection)    1 goroutine)
```

| component | state | operations | what makes it correct |
|---|---|---|---|
| sequence numbers (`assembler.go`) | none | `compareTCPSeq` | is a strict order on the live part of a stream, across the wrap too |
| receive window (`assembler.go`) | ring of packets, `start`, `size`, `expectBegin`, `lastAck` | `insert`, `expand`, `confirm` | acknowledged bytes leave in order, once, and none is lost |
| net stream (`assembler.go`, `text.go`) | channel of 1024 packets, flags `closed` and `ignore`, the bytes put back | `Read`, `Prepend`, `Close`, `finish`, `DiscardAll` | readers end when the connection does; no send or close on a closed channel |
| TCP assembler (`assembler.go`) | dictionary key -> connection; client and time of each | `Assemble`, `FlushOlderThan`, `FinishAll` | a connection is reachable exactly while it is open; one connection does not hold up the others |
| protocol handlers (`main.go`) | buffer, start time, requests seen | `Handle` of each protocol | requests are printed in order and once, with their own responses; the handler ends |
| auto handler (`main.go`) | bytes peeked | `Handle`, detectors | nothing is consumed by detection; unknown protocols are let go |
| `Printer`, `MultiPrinter` | bounded queue, open files | `Send`, `run`, `Finish` | order per handler, no silent loss, no handler blocked for good |
| detectors (`*port/*_protocol.go`, `main.go`) | none | `Detect...`, in a fixed order | the first bytes of a connection select the handler of its protocol |
| readers (`*port/*_protocol.go`) | none across messages | `Read...` | consume exactly one message |
| body parsers (Dubbo, Java, Triple, MySQL, MongoDB) | position and handles, within a message | `ParseDubboBody`, `ParseJavaSerializedArgs`, `ReadTripleMessages`, `parseBSONElement`, ... | show what the sender sent |
| command line, filters | none | `findSubcommand`, `matchCost`, `WildcardMatch` | the documented syntax selects what it says |
| formatters, test tools | none | text | - |

What is hard here: the handlers and the capture loop share channels that block
on both ends and flags that are not synchronised; a connection is finished by
its FINs, by the flush, or by the end of the input, and Go panics on every
mistake in that protocol; the handlers pair messages by their order only; the
window works with wrapping 32-bit numbers, duplicates and gaps; the printer
tests the length of its queue before it sends; and the parsers guess the layout
of what they read from lengths and single bytes, so that one wrong width or
order shifts all that follows. `PROJECT.json` lists these
hazards at the lines where they bite.

## 2. The modules

| module | code | role |
|---|---|---|
| `TCPSeq` | `compareTCPSeq`, its constants | operators |
| `OrderedStream` | (the promise of a stream) | abstract specification |
| `ReceiveWindow` | `receiveWindow` | implements `OrderedStream` |
| `ReceiveWindowProofs` | | theorems |
| `TCPAssembler` | `TCPAssembler`, `TCPConnection`, `netStream`, loop of `main`, control of the handlers | composition of capture loop and handlers |
| `TCPAssemblerProofs` | | theorems |
| `Handlers` | the loops of all the `Handle` methods | detailed control of one handler |
| `HandlersProofs` | | theorems: types, order of what is printed |
| `HandlersExchangeProofs` | | theorems: completeness, responses with their requests |
| `Printer` | `printer.go` | component, and abstract specification of `MultiPrinter` |
| `MultiPrinter` | `multiprinter.go` | implements `Printer` |
| `MultiPrinterProofs` | | theorems |
| `Framing` | the `Read...` functions of the `*port` packages | how one stream is cut into messages |
| `FramingProofs` | | theorems |
| `TextFilters` | a pass of the loop of `WildcardMatch`, `matchCost` | operators |
| `CommandLine` | `main` up to the capture, `findSubcommand`, the flag sets | operators |
| `Detectors` | the ten `Detect...`, the order of the auto handler, the assembler's detector | operators |
| `TripleFrames` | `triple_protocol.go` | operators |
| `DubboHeaders` | `dubbo_protocol.go`: the header and its flags | operators |
| `DubboBody` | `dubbo_protocol.go`: names in bodies | operators |
| `JavaStream` | `java_deserializer.go` | operators |
| `MongoBody` | `mongo_protocol.go`: bodies, BSON | operators |
| `MySQLPackets` | `mysql_protocol.go`: payloads | operators |
| `Matching` | (one call of `WildcardMatch`, `matchCost`, the detectors, `fixupFlags` or `ReadMySQLMessage`) | what the calls should return |
| `MatchingProofs` | | theorems |
| `Parsing` | (`Matching`, and one call of each of the other functions above) | what the calls should return |
| `Documented` | (what READMEs, help text and comments claim of these functions) | one trial per claim |
| `RecursionFacts` | | lemmas on induction and recursive functions, for the proofs |
| `MC*` | | values of the constants |

Operators whose comment begins with `Fault:` are deliberately wrong variants of
the definition that follows them. No specification uses them; `PROJECT.json`
("mutants") pairs each with the property that notices when it takes the place
of the right one.

### TCPSeq, OrderedStream, ReceiveWindow

The ring is the Go slice: a function on `0 .. cap-1` with `start` and `size`,
`Nil` for an empty slot. `Insert` is the whole of `insert`: the stale test, the
backward scan (stated by where it stops, `ScanStopsAt`), the test for an equal
sequence number, `expand`, and the shift. `confirm` blocks on the channel
between packets, so it is `BeginConfirm`, one `ConfirmSkip` or `ConfirmSend` per
iteration and `EndConfirm`; the capture goroutine does nothing else meanwhile,
which the guards on `pc` say. A payload is the run `[from, to)` of stream
offsets it carries; its sequence number is `(ISN + from) % Modulus`, and all
arithmetic wraps as `uint32` does, with the conversions to `int` and `int32`
where the code has them. `out`, `captured` and `acked` are history.

The environment delivers any segment of `Segments` any number of times in any
order, and any acknowledgement, repeated or old ones included. With
`LossyCapture = FALSE` an acknowledgement comes only after the capture has seen
what it covers, which is what being on the path of both directions gives;
with `TRUE` anything may be missing.

### TCPAssembler

The order of bytes is `ReceiveWindow`'s subject; here a stream is the number of
segments in its window and in its channel, and how many segments an
acknowledgement releases is free. `AssembleIgnored`, `AssembleKnown` and
`AssembleNew` are the paths through `Assemble` and `onReceive` up to the release
loop; `ConfirmSend` is an iteration of it and waits while the channel is full;
`EndAssemble` is the rest: the FIN, and `finish` when both streams have ended.
`FlushOlderThan` and `FinishAll` are the other calls of the capture loop, `Exit`
the return of `main`. The flush finishes connections after it has released the
lock; as only the capture loop uses the dictionary, no step of the assembler can
come in between, and the flush is one action.

The `ignore` flag is written by the handler and read by the capture loop
without synchronisation. A read that races with the write may return either
value, and no later read is ordered after the write either, so once it is set a
read returns TRUE or FALSE (`IgnoreRead`). `fresh` holds the connections younger
than two minutes; for a capture file the packets' own timestamps are compared
with the wall clock, so a packet need not make its connection fresh. What the
command line fixes, detection or an explicit protocol, device or file, is chosen
at the start (`modes`) and never changes.

The handler part keeps what every `Handle` has in common: which stream it reads
next is free, it may stop at any message, and then it discards the downstream,
discards the upstream and closes both, in the order of its deferred calls. With
detection it first peeks, puts the bytes back, and accepts or rejects.

### Handlers

Every `Handle` is the same loop with different decisions. The loop is written
once; a *profile* per protocol records what its `Handle` decides: whether it
reads a greeting, drops repeated ids, what it does with a request a filter
rejects, how many responses it reads and when it stops, what an unreadable
response does, and what the cost filter tests. `handleTriple` has its own loop
(`ReadTriple`, `TripleEnds`). A request has a set of traits (one-way, taken for a
heartbeat, rejected by a filter, repeated id, unreadable), a response says which
request it really answers, and a block of output is the list of requests and
responses in it.

The server is free. It answers whatever is not one-way, heartbeats included, for
which `handleDubbo` reads no response (`main.go:236`, `Awaits`). The servers of
Dubbo and RocketMQ, which answer by id, may take the requests in any order
(`Multiplexed`); they, Redis and ZooKeeper also send what nobody asked for
(`Push`): heartbeats, notices of a broker, messages of a subscription, watch
events. `upset` remembers the request whose answer was due when the server first
did either of these. The loops pair by order alone, so from that request on, and
from the first request that `Skews` (answered, and its response not read, or the
other way round), nothing is claimed of the pairs.

### Printer, MultiPrinter

`Send` tests the length of the queue and then sends, so it is two actions,
`Send` and `Enqueue`; `Receive`, `WriteStdout` and `WriteFile` / `OpenFails` are
the parts of an iteration of `run`, so that `main` may return with a block that
was received and not written. `run` ignores the errors of its writes; `stdout`
and `files` are what was handed to `Write`, and what the system makes of it is
not modelled. `MultiPrinter` is mapped to `Printer` by reading `stdout` as
`written`; `WriteFile` and `OpenFails` become stutters.

### Framing

One direction of a connection as the peer's messages, the bytes of them released
so far, and a reader. For each format `...Reads` gives the sizes of the
successive `ReadFull` and `ReadString` calls of its `Read...` function, computed
as the code does from the length field, the kind of the line or the number of
elements; `Size` and `LengthField` say what the peer sends. `Read` does one of
these reads when its bytes are there and returns the message after the last;
`ReadCut` is the end of the stream in the middle of one. Segments are cut
anywhere. Behind a message that is read in part the reader is `lost`, and what it
makes of the rest is not followed. The first message of a Nacos 2 client is the
HTTP/2 preface with its frames (kind `preface`), of which the reader takes the 24
bytes of the preface. For ZooKeeper and RocketMQ the length field
counts itself, as the comments, the tests and `tools/protocol_sender.go` of the
repository have it; a peer that does not count it would leave the reader four
bytes short with each message.

### Parsing and the modules of operators

The functions that keep no state from call to call are operators. `Parsing` has
one action per function under test, which calls it once with an input from a
constant set. The calls that the theorems are about are in `Matching`, which
`Parsing` extends; there `WildcardMatch` takes one step per pass of its loop, with
its local variables in `loop`. A behaviour of `Parsing` that makes one of these calls
is a behaviour of `MatchingSpec`, as `call` never changes. Each property compares the result with what the sender meant,
which is defined on the input itself and not by parsing. Where the code falls
short of that, the property says exactly for which inputs, in a definition of
its own (`Misread`, `TakenFor`, `Readable`, `ServiceShown`, `ShownOtherwise`),
with "if and only if" where the code decides it, so that the list of exceptions
is complete for the inputs of the run and each of them happens. That a property
with such a list holds does not mean that nobody promised otherwise: where a
README, the help text or a comment does, `Documented` has the claim.

* `TextFilters`: characters are model values; a cost expression is a sequence
  of numbers, signs and blanks, `ParseInt` takes an optional sign.
* `CommandLine`: an argument is a flag, a flag with a value behind `=`, or a
  word. `Arguments` writes down what a user wants, `Promised` is what the help
  text says of it.
* `Detectors`: the first message of a connection as its first bytes, its length
  and where in it the texts that detectors search for lie; the real numbers. A
  detector is given at most the first 24 bytes, as the auto handler peeks
  (`AutoDetect`), or all of the payload, as the assembler does (`Creates`).
  `IsFirstMessage` says which bytes, lengths and texts a first message of each
  protocol has; the heads of the run and those of the theorems satisfy it.
* `TripleFrames`: bytes, in which `:path` is one byte and the second byte of a
  length counts `LenBase` 8 instead of 256; the frames are those of a gRPC client
  and the bytes are cut where the chunks of `Read` end.
* `JavaStream`: a stream is a sequence of tokens, the tags of the serialization
  protocol with what belongs to them. Primitive values, sizes and field
  descriptions have no tag: a reader that meets one of them where it expects a
  tag, or a tag where it expects one of them, reads noise, is `lost`, and no
  longer followed. Handles are counted as the code counts them. A call that found
  no field of an object (no arguments, strings or nulls only, an error before the
  first one) returns an error (`ArgsOrError`). The writer is
  `ObjectOutputStream`, with its references, annotations and order of classes.
* `DubboBody`: a body is a sequence of words and bytes. A word stands for the
  characters of a name, of which the parser asks for the length, the first one
  and the kinds; names of all lengths from 12 to 130 are tried, since their
  length byte may be a readable character.
* `MongoBody`: bytes, with the code's widths and offsets. A slice beyond the data
  is `Panic`, which the properties exclude. The decoder does not step over values of
  the types 0x0C (DBPointer) and 0x0E (symbol); their bytes are read as further
  elements, and what those show is noise. `AsMeant` therefore asks for the right
  values up to the first of them in a document or array, and for nothing behind it;
  the inputs have no name before it that the noise could spell.
* `MySQLPackets`: bytes, with the code's widths and offsets. `IsPacket` says what a
  packet of each kind has in it, `PayloadOf` is how it is written and `Intended` what
  should be shown of it. Numbers are below 2^24, the most that three bytes hold; a
  larger one read by mistake counts as 2^24, which every later test treats alike.

### Documented

A claim of a document is put to the test by calling the function it is about with
one input to which it applies (`Trials`); `Says` is what the claim says of the
output, and a claim that was not borne out is `refuted`. The calls are the actions
of `Parsing`, and the readers of `Framing` with their real limits. All trials make
one session, and `SomeClaimHolds` says that they do not all fail. Its violation
is a behaviour in which every single claim fails: would one of the functions do as
its claim says, there would be no violation. Each input occurs in the lists of exceptions of
the properties of `Parsing`, `Matching` and `Framing`, whose comments name the claim.

| claim | said in | trial |
|---|---|---|
| `usage` | `main.go:929`, `:952` | `tcpshow -i eth0 redis -k 'user:*'` |
| `wildcard` | `README.en.md:205` | `HGET` and the filter `GET*` |
| `order` | `README.en.md:489` | a Redis array of ten elements |
| `recognised` | `README.md:9` | a MongoDB message of 256 bytes |
| `frames` | `triple_protocol.go:151`, `README.md:230` | a HEADERS frame in two reads |
| `references` | `java_deserializer.go:192`, `:474`, `:609` | two objects that share a string |
| `entries` | `java_deserializer.go:899`, `dubbo_protocol.go:563` | a map as `ObjectOutputStream` writes it |
| `hessian2` | `tools/protocol_sender.go:69` | a Hessian2 body with serialization 2 |
| `garbage` | `dubbo_protocol.go:509` | a service outside the known packages |
| `skipped` | `mongo_protocol.go:577`, `README.md:266` | a symbol before another element |
| `bodySection` | `mongo_protocol.go:169`, `:277` | an OP_MSG that begins with a document sequence |
| `eof` | `mysql_protocol.go:114`, `:297` | an EOF packet |
| `plugin` | `mysql_protocol.go:246` | a greeting with a terminated plugin name |
| `complete` | `mysql_protocol.go:153` | a payload of 2^24 - 1 bytes |
| `body` | `README.en.md:365` | an HTTP message with a body |

## 3. The runs

| run | instance | shows |
|---|---|---|
| `window_complete` | 5 bytes, 6 overlapping segments, ring of 2 slots | ring bookkeeping (`QueueSorted`), order (`InOrder`), completeness (`NoAckedByteLost`), refinement of `OrderedStream` |
| `window_wrap` | ISN 62 of 63 | **violation** of `NoAckedByteLost`: the wrap loses bytes |
| `window_repacketized` | two lengths for one sequence number | **violation** of `NoAckedByteLost` |
| `assembler` | 2 keys (1 watched), 2 connections, 3 packets; live with an explicit protocol, and a file with detection | no panic, open iff linked, drained ends, `AssembleReturns`, `FinishedHandlerEnds`, with peek, reject and the flush of old timestamps |
| `handlers` | all 10 loops, 3 requests with every trait, 3 kinds of answers, in any order where requests are multiplexed and unasked where servers do that, with and without cost filter | order, completeness and pairing of blocks, termination |
| `handlers_mongo` | MongoDB with a filter, 5 reads | **violation** of `PairedUpToShift`: a block with the response of an earlier and of a later request |
| `handlers_latency` | 2 requests, clock up to 2 | **violation** of `LatencyFromRequest` |
| `printer_finish` | 3 senders | **violation** of `FinishFlushes` |
| `multiprinter` | 3 handlers, 2 protocols, queue of 1 | files follow stdout, per-handler order, accounting, refinement of `Printer` with its liveness |
| `framing` | 10 formats, 2 messages, bodies of 0, 1, 2, 4 bytes | message boundaries (`InStep`), no truncated messages, no waiting beyond a message (`ReadReturns`) |
| `parsing` | about 110 000 inputs of 12 functions | filters and command line do what is documented, detection, flags, names, Java values, BSON and MySQL packets are right but for the cases stated |
| `documented` | 15 claims, one input each | **violation** of `SomeClaimHolds`: none is borne out |

### Bounds, and why they are enough

* **Sequence numbers**: `MaxTCPSeq` 63 and `TCPSeqWindow` 8 stand for `2^32 - 1`
  and 65535. Only the ratios matter: the window is small against the space, and
  the streams are shorter than half of it. The theorems hold for the real values.
* **Stream and ring**: five bytes with overlapping segments give every relation
  of two segments (apart, adjacent, overlapping, contained, repeated); a ring that
  starts with two slots is filled, rotated and grown while rolled over. Nothing
  is assumed in the proofs about either.
* **`ChanCap` 1** (1024 in the code) and **`QueueLen` 1**: blocking needs a full
  channel, and one slot fills soonest. The proof of `AssemblerSafety` is for any
  capacity.
* **Two connections, three packets**: one connection that ends and its successor
  under the same key; three packets are enough for SYN or data, data and FIN from
  both sides with an acknowledgement, a block on the full channel, and a packet
  that comes late. Two connections exist at once only under two keys, of which
  one is watched; the dictionary treats keys independently, and the proof covers
  any number.
* **`MySQLReads` 3, `MongoReads` 2** (10 and 5): more than one, and fewer than the
  messages of the instance, so that the loop ends in both ways. The `mongo` run
  uses the real number.
* **Three requests**: one that goes wrong, one after it, and one before it.
  `MaxUnread` 2 bounds the responses not yet read, the last place being kept for
  answers: two answers wait at once, or one behind an unasked message, which is
  enough to be read for the wrong request; more only put the streams further out
  of step, and the theorems hold for any bound.
  `MaxTime` 1 gives an elapsed time inside and one outside of the cost filter.

* **Framing**: header sizes are the real ones. Bodies of 0, 1, 2 and 4 bytes meet
  scaled limits (`BodyLimit` 3, `MySQLPayload` 2, `ShortFrame` 0, `MediumFrame` 1)
  on both sides, and `PeekLen` 6 lies between the shortest message and the others.
  Two messages are one and its successor, which is where a wrong boundary shows.

* **Parsing**: patterns, texts and cost expressions of up to four characters hold
  every combination of two wildcards with what is between and around them. Heads
  are taken from both sides of each threshold of the detectors (24 bytes,
  the largest frames, opcodes, markers). Three frames cut in up to two places give a
  frame before and behind each cut, whole and cut. Java arguments are one or two
  objects of depth two, with every kind of field, annotation, reference and
  superclass; documents have up to two elements of every type, alone, nested, and
  behind one another. Numbers of MySQL lie on both sides of each length encoding,
  and first columns of rows on both sides of the 10000 that a count may not reach.

`CHECK_DEADLOCK FALSE` is set where the system may stop: the program ends, or
the traffic does. The window never stops, and there deadlock is checked.

### Fairness

Weak fairness of the steps of a goroutine (each handler, the release loop, the
writer): the Go scheduler is preemptive and runs every goroutine that can run.
Strong fairness of `Enqueue`: senders blocked on a Go channel wait in a FIFO
queue, so one of them is not overtaken for ever. Nothing is assumed of the
peers, the packet source, the clock, or of `main` reaching the end of the input.

### What the liveness properties say, and do not say

`AssembleReturns` has an exception, `Stalled`: the capture loop may block for
good when the handler of *that very connection* waits for its other stream, or
rejected the connection without draining it. Such states are reachable: the loop
waits for the handler and the handler for a packet that only the loop can
deliver. With 1024 slots it takes a long one-sided transfer. No document claims
otherwise, so it is stated as the exact exception and not as a finding.
`FinishedHandlerEnds` holds in spite of it.

## 4. Findings

1. **Wrap of sequence numbers** (`assembler.go:326`, run `window_wrap`). The two
   wrap branches of `compareTCPSeq` convert a `uint32` to `int`, which is never
   negative, so across the wrap each number is greater than the other; segments
   are misplaced, held back or dropped.
2. **Repacketized retransmission** (`assembler.go:262`, run
   `window_repacketized`). Equal sequence numbers are taken for duplicates
   whatever the lengths, and the extra bytes of the longer one are lost.
3. **MongoDB reads five responses** (`main.go:497`, run `handlers_mongo`). The
   first request is printed with the answers of the next ones.
4. **Filters break the pairs** (`main.go:489`, run `handlers_mongo`). The loops of
   Dubbo, RocketMQ, MySQL and MongoDB skip a request that a filter rejects and leave
   its response to the next request, with a latency that is neither's.
   `README.md:242` promises pairs with their exact latency. In the violation of
   `PairedUpToShift` one block shows findings 3 and 4: it has a response from before
   its request and one from after it, either of which alone the property allows.
5. **Latency includes idle time** (`main.go:310`, run `handlers_latency`). The
   start time is taken before the handler waits for the request.
6. **`Finish` does not flush** (`printer.go:49`, run `printer_finish`), though
   its comment says so.
7. **Values of global flags** (`main.go:895`, run `documented`, claim `usage`). The
   first argument without a dash is taken for the protocol, so `tcpshow -i eth0
   redis`, an example of the help text (`main.go:952`), parses `-i` without a value
   and exits; only `-i=eth0` works.
8. **Fourteen more claims** (run `documented`): the other rows of the table in
   section 2, each with a finding of its own in `PROJECT.json`, which quotes the
   document and names the line that decides otherwise.

The properties below state where exactly the code falls short, as their
exceptions. In brackets are the claims of `Documented`, and the findings above,
that say otherwise; of what has no brackets no document speaks.

* *Readers* (`InStep`, `NothingTruncated`, `ReadReturns`): HTTP bodies [`body`],
  RESP3 maps, the frames behind an HTTP/2 preface
  and the continuation of a MySQL message of several packets [`complete`] stay in the stream; a
  stream that ends in the middle of headers, a Nacos body or an array yields a
  truncated message; a Nacos message of fewer than 24 bytes waits for the next.
* *Pairing* (`MatchUntilSkewed`) [finding 4 for all of it]: filters of Dubbo,
  RocketMQ, MySQL and MongoDB skip a request and leave its response in the stream;
  so does Dubbo with repeated ids and with heartbeats that are answered; answers
  that come out of turn, or unasked, go to the wrong requests; a MySQL capture that
  begins after the greeting takes the first answer for it.
* *Filters* (`WildcardRight`): a pattern is anchored at both ends [`wildcard`].
* *Detection* (`DetectedExactly`) [`recognised` for all of it]: HTTP requests whose method begins with P or H,
  and HTTP responses, are taken for WebSocket; most ZooKeeper messages, and
  MongoDB and MySQL messages whose length has a small low byte, for RocketMQ; Redis
  arrays of ten and more elements for MySQL [`order`]; a MySQL login for whatever its length
  looks like; a MongoDB or MySQL message of a length that is 48090 modulo 65536 begins
  with Dubbo's magic number and is taken for Dubbo. A WebSocket upgrade goes to the HTTP handler.
* *Command line* (`UsageRead`): values of global flags [`usage`]; a port beyond 65535 is cut to 16 bits.
* *Triple* (`HeadersFound`): frames cut by the end of a read, longer than 255 bytes
  or hidden by a look-alike are missed [`frames`]; of the rest every path reads `(parsed)`.
* *Dubbo* (`DubboFlags`, `DubboNames`): two-way calls in the layout of Apache's
  Dubbo with at most 50 bytes are read as events; a service outside the
  well-known packages loses its first letter [`garbage`], a method its trailing digit; in
  Hessian without a version byte, or with serialization 2 (which
  `tools/protocol_sender.go` sends) [`hessian2`], and in compacted Java with an empty service
  version, the version of Dubbo is shown as the service unless the length byte of
  the service happens to be a readable character.
* *Java* (`JavaValuesRight`, `AttachmentsFound`): only objects of one class with a
  `writeObject` method and without references are read; the base handle is not
  subtracted, so every reference is an error [`references`]; attachments are found
  only behind their map, not in its annotation, where `ObjectOutputStream` writes
  them [`entries`].
* *MongoDB* (`BsonRight`, `MongoRead`): an OP_MSG that begins with a document
  sequence shows a piece of the sequence's name as the command [`bodySection`];
  behind a DBPointer or a symbol nothing of the document is sure to be found
  [`skipped`]; elements with an empty name are left out.
* *MySQL* (`MySQLShown`): EOF packets are shown as OK [`eof`], column definitions and rows
  by the length of their first column, logins as commands; a result of 10000 or
  more columns, and a row whose first column has as many bytes, is unknown; a
  terminated plugin name is not found [`plugin`]; queries are cut after 200 bytes, and of the
  commands other than Query, Prepare, InitDB and Execute the text is left out.

## 5. What is proved

All proofs are checked by TLAPS with no step left open.

**`WindowSafety`** (assumes `NoWrap`): `TypeOK`, `QueueSorted` and `InOrder`
always hold, for every set of segments, every size of the ring and any loss.
`NoWrap` says that the stream does not start at 0, ends below the wrap, and is
short enough for `int32` differences and for the wrap branches not to be taken
wrongly. It is needed: without it `window_wrap` is a counterexample. The lemma
that carries it is `CompareOffsets`: under `NoWrap` the comparison of sequence
numbers is the comparison of offsets. The invariant adds to the properties that
`expectBegin` is the sequence number of the first byte not released
(`ExpectMatches`), without which the trimming of overlaps says nothing. The ring
is dealt with once, by lemmas on `Inserted`, `Expanded`, release and rotation
(`PushFacts`, `ReleaseFacts`, `RotateFacts`).

**`WindowComplete`** (assumes `NoWrap`, `StableLengths`, `~LossyCapture`): no
acknowledged byte is lost. The invariant adds that every captured byte is
released or in a queued segment (`CapturedKept`), that acknowledgements are
behind the capture and behind the releases (`AckedCaptured`, `AckedHanded`), and
that what was released has no gap. `StableLengths` (a retransmission that begins
at the same byte has the same length) is needed: see `window_repacketized`.

**`WindowImplementsOrderedStream`** (assumes `NoWrap`, and `StableLengths` or a
lossy capture): every step of the window is a step of `OrderedStream`, gapless
when the capture is complete.

**`AssemblerSafety`** (assumes only the types of the constants): `TypeOK`,
`NoPanic`, `OpenIffLinked` and `EndsDrained`, for any keys, connections,
packets, capacity and mode. The invariant adds that the dictionary and the keys
of the open connections are inverse to each other (`Links`), that a call of
`Assemble` in progress is about an open connection (`Busy`), and what a handler
has behind it at each stage of its deferred calls (`Drained`).

`AssemblerTypeCorrect`, `AssemblerNoPanic`, `AssemblerEndsDrained`,
`WindowTypeCorrect` and `WindowQueueSorted` state the parts of these two results
one by one.

**`PrinterTypeCorrect`, `PrinterOrder`, `PrinterAccounted`, `PrinterFiles`**
(assume only the types of the constants and finitely many handlers): `TypeOK`, `SenderOrder`, `Accounted`
and `FilesMirrorStdout`, for any number of
handlers, blocks and protocols and any queue length.
A handler is between the length test of `Send` and the send at the same time as
others, so the order is inductive only together with `Numbered`: the block in
hand is counted already, and what its handler has had accepted is older. The
files need `Filing`: a block is received when the one before it has been filed,
it waits for a file only where there is one to put it in, and a file that was not
opened is empty. **`PrinterRefined`** is the safety
half of `ImplementsPrinter`: the initial states and every step.

**`HandlersTypeCorrect`, `HandlersPrintInOrder`** (assume that the protocols are
those of `main.go`): `TypeOK` and `PrintedInOrder` for any number of requests,
any traffic and any times. The invariant `OrderInv` adds what the handler knows
at each place of its loop (`Control`: the request stream holds the requests not
read yet, the buffer the one just read, and it is none that a filter hides) and
how the buffer continues what has been printed (`PrintOrder`). The profiles
enter through one lemma, `ProfileFacts`, which evaluates the ten of them.

**`HandlersSkipNothing`, `HandlersUnansweredPrinted`**: no request that should be
shown is passed over, and a cost filter hides only what was answered, the latter
with the same proviso on the streams. `Coverage`
says for every place of the loop which requests are printed, in the buffer or
excused by the filter, and why a handler that left its loop did so: the requests
ended, one was unreadable, or one was printed twice.

**`HandlersMatch`**: responses are printed with the request they answer, if the
capture has MySQL's greeting, up to the first request that is skipped or taken for a
heartbeat with its response unread, or awaited without an answer, and up to the
first one whose turn the server did not keep (`upset`): for every traffic, servers
that answer in any order and unasked included. Order
alone pairs them, so the invariant
(`Pairing`) is about the response stream: up to that point answers lie in it in the
order of the requests and each is complete, and the first of
them answers the request awaited. If MySQL is among the protocols the theorem
assumes `CompleteAnswers`: no answer has more messages than the ten the handler
reads, and only the last one looks final. It is needed, since a longer result is
cut by the handler (`main.go:448`) and its rest is taken
for the answer of the next command; the answers of the run `handlers` satisfy it.

**`FramingTypeCorrect`, `FramingInStep`, `FramingNothingTruncated`** (assume only
the types of the constants and that an extended length of two bytes holds more
than none): for every size of a body, every number of messages and every
segmentation, with the real limits as with the scaled ones. `InStep` speaks of
the starts of messages; the invariant adds where the reader is within one
(`Progress`: behind the previous message and the reads done for this one). What
the step needs of the formats is `ReadsFacts`: the reads for a message add up to
its size unless it is one of those that derail the reader. For RESP that is a
statement about the recursion over the elements: `CommandFacts`, and
`ResponseFacts` with the number of elements still awaited.

The proofs about `Handlers`, `MultiPrinter` and `Framing` need induction over
sequences. The induction theorems of the library take an operator as a parameter,
which the provers cannot instantiate; `RecursionFacts` states induction with the
*set* of the numbers for which a statement holds, and recursion with the *function*
that is its step, and proves that recursive functions over `0 .. n` exist, have the
type of their steps, and are determined by them. The recursive functions
`Printed`, `Shown`, `Sum` and those of the RESP readers are unfolded with it.

**`WildcardIsRight`** (assumes that texts and patterns are sequences of
characters): `WildcardMatch` accepts a text exactly if the pattern denotes it. The
code goes back only to the last asterisk and gives up all choices it made for
earlier ones. Why that loses nothing is the invariant `WildcardInv`: while the loop
runs, the pattern denotes the text if and only if `Left` holds, which is what the loop
has still to find out: the rest of the pattern denotes the rest of the text, or what
follows the last asterisk denotes the text from a later place (`Later`). It also says
that what was compared since the last asterisk is as long in the pattern as in the
text and has no asterisk in it (`Compared`). The lemma that carries it is
`LaterIsBehind`: any later attempt from the last asterisk ends behind the place
reached, so that a new asterisk, which takes in whatever comes there, makes it
superfluous to try the former one again.
**`WildcardLoopEnds`** is the safety half of its termination: every pass of the loop
advances (`Advances`) in an order that the lengths of text and pattern bound
(`LoopType`). That the passes are taken is fairness and left to TLC.

**`CostIsAsDocumented`**: `matchCost` admits what the documented forms admit, for
every expression of signs, blanks and numbers and all times.
**`DubboFlagsAreRead`**: for every header of either layout; in the model's terms the
flags are found if and only if `DubboFlags` says so.

**`DetectionIsExact`** (assumes `IsFirstMessage` of the heads): the auto handler takes
every first message for what it is except in the cases of `TakenFor`, and there for
what that says. There is a lemma for each protocol and detector on the bytes of the
messages that the detector accepts, and `FirstAcceptingIs` for the order in which they
are asked. The proof found an exception that the inputs of the run did not have, the
lengths of 48090 modulo 65536 of section 4; the run has them now.
**`CreatedConnectionIsHandled`**: a packet for which the assembler creates a connection
is recognised by the auto handler, though this sees only 24 bytes of it, but for MySQL
logins. It follows from `WholeIsSeen` (a message of at most 24 bytes is the same to
both) and `UnknownIsMySQL` (what the handler does not know is a MySQL message).

**`MySQLIsShown`** (assumes `IsPacket` of the packets): for packets with any names,
texts, numbers and lengths, what is shown is what was sent if and only if the packet is
none of `ShownOtherwise`, and then its type is the one that `MistakenType` says.
The argument follows the bytes: `LiesAt` says where a part of a payload lies,
`TwoParts` to `SixParts` find it for payloads of that many parts, `SliceOf` and
`ReadsLenEnc` say what a slice or a length-encoded integer read there is. One lemma for
each kind of packet (`GreetingShown`, `OkShown`, `ErrorShown`, `ColumnsShown`,
`RowShown`, `FixedShown`, `CommandShown`) computes what is shown, and `PacketShown`
compares it with `Intended`. The attempt to prove it found two cases the property had
wrong and the run had not met: a row whose first column has 10000 bytes or more is not
taken for a result, and a query of 203 bytes that ends in three dots is shown unchanged
although it is cut.

Only model-checked: the liveness properties and the fairness in
`ImplementsPrinter` (out of the prover's reach), and the properties `UsageRead`,
`HeadersFound`, `JavaValuesRight`, `AttachmentsFound`, `DubboNames`, `BsonRight` and
`MongoRead` of `Parsing`. The functions they are about are
`RECURSIVE` operators over the data, which the prover does not accept and for which
it has no induction. There the run is exhaustive for the inputs of section 3 and
nothing is claimed beyond.

## 6. What is not modelled

* Opening devices and files, BPF filters: libpcap's concern. `mergeChannels` never
  closes its channel, so that a capture on all devices has no end of input.
* What `Handlers` does with a message and what `Parsing` finds in it are separate:
  there messages are readable or not and have traits, and their contents are free.
* `parseBodyParams` of Dubbo, which lists readable names behind the arguments
  without a claim to be complete; the JSON in RocketMQ headers, the paths of
  ZooKeeper and the parameters of Nacos, which are shown as they are.
* Malformed messages: the writers of `Parsing` and `Framing` send well-formed ones,
  cut or ended anywhere.
* Formatting of output, character sets: no property depends on them.
* Two handlers of one connection key at the same time with a shared printer. That
  blocks sent after `Finish` are lost or panic is in `Printer` and `MultiPrinter`,
  whose senders go on after it. Errors of writing the output, which the code
  ignores.
* Lost segments are in no run, since `window_complete` is about complete captures;
  `InOrder` and the refinement of `OrderedStream` with gaps are proved
  (`WindowSafety`, `WindowImplementsOrderedStream`).
* The key filter that every Redis handler compiles into the shared configuration:
  a data race whose outcomes are equal expressions.
* `UrlLevel` is a constant of `Handlers`; the runs use the default level.

## 7. Plan

1. *Done*: `TCPSeq`, `OrderedStream`, `ReceiveWindow`, `TCPAssembler`,
   `Handlers`, `Printer`, `MultiPrinter`; proofs of the window and the assembler.
2. *Done*: `Framing` of the binary and the text formats.
3. *Done*: `Detectors`, `TripleFrames`, `DubboBody`, `JavaStream`, `MongoBody`,
   `MySQLPackets`, `TextFilters` and `CommandLine`, with the run of `Parsing`.
4. *Done*: proofs about `MultiPrinter`, `Handlers` and `Framing`, with
   `RecursionFacts`.
5. *Done*: `Documented`, the claims of the documents that the code contradicts.
6. *Done*: `Matching` and `MatchingProofs`: the wildcards, cost expressions,
   detection, flags of Dubbo and packets of MySQL for every input.
