---------------------------- MODULE MultiPrinter ----------------------------
(***************************************************************************)
(* MultiPrinter of tcpport/multiprinter.go, the printer main.go uses: a    *)
(* queue like Printer's, whose goroutine writes every message to the       *)
(* standard output and, when an output directory is set, to a file per     *)
(* protocol that is opened on first use.                                   *)
(***************************************************************************)
EXTENDS Integers, Sequences, FiniteSets

CONSTANTS
    Senders,        \* the handler goroutines
    Protocols,      \* the protocols, "" (none) left out
    ProtocolOf,     \* the protocol of each sender, or NoProtocol
    NoProtocol,     \* the empty protocol name
    HasOutputDir,   \* outputDir # ""
    MaxMessages,    \* bound on the messages of each sender
    QueueLen        \* maxQueueLen

ASSUME MultiPrinterAssumption ==
    /\ IsFiniteSet(Senders)
    /\ NoProtocol \notin Protocols
    /\ ProtocolOf \in [Senders -> Protocols \cup {NoProtocol}]
    /\ HasOutputDir \in BOOLEAN
    /\ MaxMessages \in Nat
    /\ QueueLen \in Nat \ {0}

VARIABLES
    queue,      \* outputQueue
    closed,     \* outputQueue is closed
    sent,       \* messages each sender has called Send with
    sending,    \* senders past the length test of Send
    dropped,    \* messages Send has dropped
    taken,      \* what run has received and not yet written, at most one
    stdout,     \* what was handed to Write of the standard output
    files,      \* what was handed to Write of each protocol's file
    opened,     \* the protocols with an entry in p.files
    item,       \* the message run has printed and not yet filed, if any
    writer,     \* the goroutine run: "run" or "ended"
    process     \* "up", "exited" after main, "crashed" after a panic

vars == <<queue, closed, sent, sending, dropped, taken, stdout, files, opened,
          item, writer, process>>

Messages == Senders \X (1 .. MaxMessages)

Init ==
    /\ queue = <<>>
    /\ closed = FALSE
    /\ sent = [s \in Senders |-> 0]
    /\ sending = {}
    /\ dropped = {}
    /\ taken = <<>>
    /\ stdout = <<>>
    /\ files = [p \in Protocols |-> <<>>]
    /\ opened = {}
    /\ item = <<>>
    /\ writer = "run"
    /\ process = "up"

\* Fault: a message is dropped while there is still room for one.
SendDropsEarly(s) ==
    /\ process = "up"
    /\ s \notin sending
    /\ sent[s] < MaxMessages
    /\ sent' = [sent EXCEPT ![s] = @ + 1]
    /\ dropped' = IF Len(queue) >= QueueLen - 1
                  THEN dropped \cup {<<s, sent'[s]>>} ELSE dropped
    /\ sending' = IF Len(queue) >= QueueLen - 1 THEN sending ELSE sending \cup {s}
    /\ UNCHANGED <<queue, closed, taken, stdout, files, opened, item, writer,
                   process>>

\* Send: the queue is full, the message is dropped; or it goes on to send.
Send(s) ==
    /\ process = "up"
    /\ s \notin sending
    /\ sent[s] < MaxMessages
    /\ sent' = [sent EXCEPT ![s] = @ + 1]
    /\ \/ /\ Len(queue) = QueueLen
          /\ dropped' = dropped \cup {<<s, sent'[s]>>}
          /\ UNCHANGED sending
       \/ /\ Len(queue) # QueueLen
          /\ sending' = sending \cup {s}
          /\ UNCHANGED dropped
    /\ UNCHANGED <<queue, closed, taken, stdout, files, opened, item, writer,
                   process>>

\* Fault: the queue has no limit.
EnqueueUnbounded(s) ==
    /\ process = "up"
    /\ s \in sending
    /\ ~closed
    /\ sending' = sending \ {s}
    /\ queue' = Append(queue, <<s, sent[s]>>)
    /\ UNCHANGED <<closed, sent, dropped, process, taken, stdout, files,
                   opened, item, writer>>

\* Fault: a full queue is not waited for.
EnqueueOrLose(s) ==
    /\ process = "up"
    /\ s \in sending
    /\ ~closed
    /\ sending' = sending \ {s}
    /\ queue' = IF Len(queue) < QueueLen THEN Append(queue, <<s, sent[s]>>) ELSE queue
    /\ UNCHANGED <<closed, sent, dropped, process, taken, stdout, files,
                   opened, item, writer>>

\* Fault: a send that has succeeded is tried again.
EnqueueRetried(s) ==
    /\ process = "up"
    /\ s \in sending
    /\ ~closed
    /\ Len(queue) < QueueLen
    /\ queue' = Append(queue, <<s, sent[s]>>)
    /\ UNCHANGED <<closed, sent, sending, dropped, process, taken, stdout, files,
                   opened, item, writer>>

\* The channel send of Send: it waits for room, and panics once the queue is
\* closed.
Enqueue(s) ==
    /\ process = "up"
    /\ s \in sending
    /\ sending' = sending \ {s}
    /\ \/ /\ closed
          /\ process' = "crashed"
          /\ UNCHANGED queue
       \/ /\ ~closed
          /\ Len(queue) < QueueLen
          /\ queue' = Append(queue, <<s, sent[s]>>)
          /\ UNCHANGED process
    /\ UNCHANGED <<closed, sent, dropped, taken, stdout, files, opened, item,
                   writer>>

\* run receives the next message.
Receive ==
    /\ process = "up"
    /\ writer = "run"
    /\ taken = <<>>
    /\ item = <<>>
    /\ queue # <<>>
    /\ taken' = <<Head(queue)>>
    /\ queue' = Tail(queue)
    /\ UNCHANGED <<closed, sent, sending, dropped, stdout, files, opened, item,
                   writer, process>>

\* run writes it to the standard output, and whether that worked makes no
\* difference; with an output directory and a protocol it has still to be
\* filed.
WriteStdout ==
    LET m == Head(taken) IN
    /\ process = "up"
    /\ taken # <<>>
    /\ stdout' = Append(stdout, m)
    /\ taken' = <<>>
    /\ item' = IF HasOutputDir /\ ProtocolOf[m[1]] # NoProtocol THEN m ELSE <<>>
    /\ UNCHANGED <<queue, closed, sent, sending, dropped, files, opened, writer,
                   process>>

\* getFile finds or opens the file, and the message is written to it.
WriteFile ==
    LET p == ProtocolOf[item[1]] IN
    /\ process = "up"
    /\ item # <<>>
    /\ files' = [files EXCEPT ![p] = Append(@, item)]
    /\ opened' = opened \cup {p}
    /\ item' = <<>>
    /\ UNCHANGED <<queue, closed, sent, sending, dropped, taken, stdout,
                   writer, process>>

\* Fault: the file is opened anew for every message.
OpenFailsAnytime ==
    /\ process = "up"
    /\ item # <<>>
    /\ item' = <<>>
    /\ UNCHANGED <<queue, closed, sent, sending, dropped, taken, stdout, files,
                   opened, writer, process>>

\* getFile cannot open the file: this message is not filed, the next one
\* tries again.
OpenFails ==
    /\ process = "up"
    /\ item # <<>>
    /\ ProtocolOf[item[1]] \notin opened
    /\ item' = <<>>
    /\ UNCHANGED <<queue, closed, sent, sending, dropped, taken, stdout, files,
                   opened, writer, process>>

\* Fault: run ends whenever it finds the queue empty.
EndRunEarly ==
    /\ process = "up"
    /\ writer = "run"
    /\ taken = <<>>
    /\ item = <<>>
    /\ queue = <<>>
    /\ writer' = "ended"
    /\ UNCHANGED <<queue, closed, sent, sending, dropped, taken, stdout, files,
                   opened, item, process>>

\* run ends with the closed and empty queue, closing the files.
EndRun ==
    /\ process = "up"
    /\ writer = "run"
    /\ taken = <<>>
    /\ item = <<>>
    /\ queue = <<>>
    /\ closed
    /\ writer' = "ended"
    /\ UNCHANGED <<queue, closed, sent, sending, dropped, taken, stdout, files,
                   opened, item, process>>

Finish ==
    /\ process = "up"
    /\ ~closed
    /\ closed' = TRUE
    /\ UNCHANGED <<queue, sent, sending, dropped, taken, stdout, files, opened,
                   item, writer, process>>

\* main returns right after Finish.
Exit ==
    /\ process = "up"
    /\ closed
    /\ process' = "exited"
    /\ UNCHANGED <<queue, closed, sent, sending, dropped, taken, stdout, files,
                   opened, item, writer>>

Next ==
    \/ \E s \in Senders : Send(s) \/ Enqueue(s)
    \/ Receive
    \/ WriteStdout
    \/ WriteFile
    \/ OpenFails
    \/ EndRun
    \/ Finish
    \/ Exit

\* As in Printer; run never stays in the middle of a message.
Fairness ==
    /\ WF_vars(Receive)
    /\ WF_vars(WriteStdout)
    /\ WF_vars(WriteFile \/ OpenFails)
    /\ WF_vars(EndRun)
    /\ \A s \in Senders : SF_vars(Enqueue(s))

Spec == Init /\ [][Next]_vars /\ Fairness

-----------------------------------------------------------------------------
\* The values of the state; the queue never holds more than its capacity.
TypeOK ==
    /\ queue \in Seq(Messages)
    /\ Len(queue) <= QueueLen
    /\ closed \in BOOLEAN
    /\ sent \in [Senders -> 0 .. MaxMessages]
    /\ sending \subseteq Senders
    /\ dropped \subseteq Messages
    /\ taken \in {<<>>} \cup {<<m>> : m \in Messages}
    /\ stdout \in Seq(Messages)
    /\ files \in [Protocols -> Seq(Messages)]
    /\ opened \subseteq Protocols
    /\ item \in Messages \cup {<<>>}
    /\ writer \in {"run", "ended"}
    /\ process \in {"up", "exited", "crashed"}

\* What the standard output shows of a protocol.
Shown(p) ==
    LET shown[i \in 0 .. Len(stdout)] ==
            IF i = 0 THEN <<>>
            ELSE IF ProtocolOf[stdout[i][1]] = p THEN Append(shown[i - 1], stdout[i])
            ELSE shown[i - 1]
    IN  shown[Len(stdout)]

\* The message of p that is printed and about to be filed.
Pending(p) ==
    IF item # <<>> /\ ProtocolOf[item[1]] = p THEN <<item>> ELSE <<>>

\* A protocol's file holds what the standard output showed of the protocol,
\* in the same order, missing at most the messages printed before the file
\* could be opened; without an output directory there is nothing in it.
FilesMirrorStdout ==
    \A p \in Protocols :
        LET shown == Shown(p)
            kept  == files[p] \o Pending(p) IN
        IF HasOutputDir
        THEN /\ Len(kept) <= Len(shown)
             /\ kept = SubSeq(shown, Len(shown) - Len(kept) + 1, Len(shown))
        ELSE files[p] = <<>>

\* Seen from the standard output, MultiPrinter is a Printer: filing a message
\* delays the queue and changes nothing else.
P == INSTANCE Printer WITH written <- stdout

\* Every step is a step of Printer, under Printer's fairness.
ImplementsPrinter == P!Spec

\* Each handler's blocks are printed in the order it sent them and at most
\* once, however the handlers interleave between the length test of Send and
\* the send itself.
SenderOrder == P!SenderOrder

\* A block handed to Send is printed, about to be printed, queued, waiting for
\* room or dropped for want of it, and only one of these, as long as the program has not crashed.
Accounted == P!Accounted

\* Send never blocks its handler for good: the length test may be stale when
\* several handlers race for the last slot, but the writer makes room.
SendReturns == P!SendReturns

=============================================================================
