---------------------------- MODULE TripleFrames ----------------------------
(***************************************************************************)
(* ReadTripleMessages looks for HTTP/2 HEADERS frames in each chunk that a *)
(* read returns, by a pattern of three bytes that it tries at every place. *)
(* A byte is a number; PathText stands for the text ":path" and OtherText  *)
(* for any other part of a payload.  LenBase scales the 256 values of a    *)
(* byte of the length down.                                                *)
(***************************************************************************)
EXTENDS Integers, Sequences

FrameHeaderSize == 9
HeadersType == 1
LenBase == 8
PathText == 58
OtherText == 99

\* ParseTriplePath: a path is a sequence of names and slashes.
Slash == "/"
ParseTriplePath(path) ==
    LET p == IF path # <<>> /\ path[1] = Slash THEN Tail(path) ELSE path
        slashes == {i \in 1 .. Len(p) : p[i] = Slash}
        last == CHOOSE i \in slashes : \A j \in slashes : j <= i IN
    IF slashes = {} THEN [service |-> p, method |-> <<>>]
    ELSE [service |-> SubSeq(p, 1, last - 1), method |-> SubSeq(p, last + 1, Len(p))]

\* The value of every header found is this text, the path's included.
Parsed == <<"(parsed)">>

\* parseTripleHeaders: what is known of a header block is whether ":path" is
\* spelled out in it.
ParseTripleHeaders(block) ==
    IF \E k \in 1 .. Len(block) : block[k] = PathText THEN ParseTriplePath(Parsed)
    ELSE [service |-> <<>>, method |-> <<>>]

\* The three bytes by which a HEADERS frame is known.
LooksLikeHeaders(data, i) ==
    /\ i + FrameHeaderSize - 1 <= Len(data)
    /\ data[i] = 0 /\ data[i + 1] = 0 /\ data[i + 3] = HeadersType

RECURSIVE ScanChunk(_, _, _)

\* Fault: a frame that goes on behind the chunk is taken for what there is of it.
ScanChunkCut(data, i, base) ==
    IF i > Len(data) - FrameHeaderSize + 1 THEN <<>>
    ELSE LET next == i + FrameHeaderSize + data[i + 2]
             block == SubSeq(data, i + FrameHeaderSize,
                             IF next > Len(data) THEN Len(data) ELSE next - 1)
             msg == ParseTripleHeaders(block) IN
         IF ~LooksLikeHeaders(data, i) THEN ScanChunk(data, i + 1, base)
         ELSE (IF msg.service = <<>> /\ msg.method = <<>> THEN <<>>
               ELSE <<[at |-> base + i, service |-> msg.service, method |-> msg.method]>>)
              \o ScanChunk(data, next, base)

\* The scan of a chunk from its i-th byte on; base is where the chunk begins.
ScanChunk(data, i, base) ==
    IF i > Len(data) - FrameHeaderSize + 1 THEN <<>>
    ELSE LET next == i + FrameHeaderSize + data[i + 2]
             block == SubSeq(data, i + FrameHeaderSize, next - 1)
             msg == ParseTripleHeaders(block) IN
         IF ~LooksLikeHeaders(data, i) \/ next > Len(data) + 1
         THEN ScanChunk(data, i + 1, base)
         ELSE (IF msg.service = <<>> /\ msg.method = <<>> THEN <<>>
               ELSE <<[at |-> base + i, service |-> msg.service, method |-> msg.method]>>)
              \o ScanChunk(data, next, base)

\* The loop over the reads, up to the end of the stream.
RECURSIVE ReadTripleMessages(_, _)
ReadTripleMessages(chunks, base) ==
    IF chunks = <<>> THEN <<>>
    ELSE ScanChunk(Head(chunks), 1, base)
         \o ReadTripleMessages(Tail(chunks), base + Len(Head(chunks)))

-----------------------------------------------------------------------------
(***************************************************************************)
(* The client's frames, and the chunks their bytes arrive in.              *)
(***************************************************************************)
Text(n, first) == [k \in 1 .. n |-> IF k = 1 THEN first ELSE OtherText]

FrameBytes(type, stream, payload) ==
    <<0, Len(payload) \div LenBase, Len(payload) % LenBase, type, 0, 0, 0, 0, stream>>
    \o payload

HeadersFrame(stream, n, path) ==
    FrameBytes(HeadersType, stream, Text(n, IF path THEN PathText ELSE OtherText))

SettingsFrame(id) == FrameBytes(4, 0, <<0, id, 0, 0, 16, 0>>)

\* One gRPC message of n bytes, or the empty frame that ends a request.
DataFrame(stream, n) == FrameBytes(0, stream, <<0, 0, 0, 0, n>> \o Text(n, OtherText))
EndFrame(stream) == FrameBytes(0, stream, <<>>)

RECURSIVE Joined(_)
Joined(ss) == IF ss = <<>> THEN <<>> ELSE Head(ss) \o Joined(Tail(ss))

\* Where the k-th of several sequences begins in all of them.
StartOf(ss, k) == Len(Joined(SubSeq(ss, 1, k - 1))) + 1

\* The bytes cut behind each of the places in cuts.
Chunks(bytes, cuts) ==
    LET ends == cuts \cup {Len(bytes)}
        end[k \in 0 .. Len(bytes)] ==
            IF k = 0 THEN 0
            ELSE LET later == {e \in ends : e > end[k - 1]} IN
                 IF later = {} THEN Len(bytes) ELSE CHOOSE e \in later : \A x \in later : e <= x
        n == CHOOSE m \in 1 .. Len(bytes) : end[m] = Len(bytes) /\ end[m - 1] < Len(bytes) IN
    [k \in 1 .. n |-> SubSeq(bytes, end[k - 1] + 1, end[k])]

\* A frame that is cut by the end of a chunk.
IsCut(frames, k, cuts) ==
    \E c \in cuts : c \in StartOf(frames, k) .. StartOf(frames, k + 1) - 2

\* The pattern shows up in the bytes before the frame that are in its chunk,
\* fewer than a frame header away from it.
HasLookAlike(frames, k, cuts) ==
    LET start == StartOf(frames, k)
        bytes == Joined(frames) IN
    \E i \in 1 .. start - 1 :
        /\ i > start - FrameHeaderSize
        /\ LooksLikeHeaders(bytes, i)
        /\ \A c \in cuts : c \notin i .. start - 1

IsRequest(frame) ==
    /\ frame[4] = HeadersType
    /\ Len(frame) > FrameHeaderSize
    /\ frame[FrameHeaderSize + 1] = PathText

=============================================================================
