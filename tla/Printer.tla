------------------------------ MODULE Printer ------------------------------
(***************************************************************************)
(* Printer of tcpport/printer.go: handler goroutines queue messages, one   *)
(* goroutine writes them out.  Send looks at the length of the queue and   *)
(* then sends, two steps that other senders may come between; Finish       *)
(* closes the queue.  A message is known by its sender and its number.     *)
(***************************************************************************)
EXTENDS Integers, Sequences

CONSTANTS
    Senders,        \* the handler goroutines
    MaxMessages,    \* bound on the messages of each
    QueueLen        \* maxOutputQueueLen

VARIABLES
    queue,      \* outputQueue
    closed,     \* outputQueue is closed
    sent,       \* messages each sender has called Send with
    sending,    \* senders past the length test of Send
    dropped,    \* messages Send has dropped
    taken,      \* what run has received and not yet written, at most one
    written,    \* what was handed to Write of the output, whose error is ignored
    writer,     \* the goroutine run: "run" or "ended"
    process     \* "up", "exited" after main, "crashed" after a panic

vars == <<queue, closed, sent, sending, dropped, taken, written, writer, process>>

Messages == Senders \X (1 .. MaxMessages)

Init ==
    /\ queue = <<>>
    /\ closed = FALSE
    /\ sent = [s \in Senders |-> 0]
    /\ sending = {}
    /\ dropped = {}
    /\ taken = <<>>
    /\ written = <<>>
    /\ writer = "run"
    /\ process = "up"

\* Send: the queue is full, the message is dropped; or it goes on to send.
Send(s) ==
    /\ process = "up"
    /\ s \notin sending
    /\ sent[s] < MaxMessages
    /\ sent' = [sent EXCEPT ![s] = @ + 1]
    /\ \/ /\ Len(queue) = QueueLen
          /\ dropped' = dropped \cup {<<s, sent'[s]>>}
          /\ UNCHANGED sending
       \/ /\ Len(queue) # QueueLen
          /\ sending' = sending \cup {s}
          /\ UNCHANGED dropped
    /\ UNCHANGED <<queue, closed, taken, written, writer, process>>

\* The channel send of Send: it waits for room, and panics once the queue is
\* closed.
Enqueue(s) ==
    /\ process = "up"
    /\ s \in sending
    /\ sending' = sending \ {s}
    /\ \/ /\ closed
          /\ process' = "crashed"
          /\ UNCHANGED queue
       \/ /\ ~closed
          /\ Len(queue) < QueueLen
          /\ queue' = Append(queue, <<s, sent[s]>>)
          /\ UNCHANGED process
    /\ UNCHANGED <<closed, sent, dropped, taken, written, writer>>

\* run receives the next message.
Receive ==
    /\ process = "up"
    /\ writer = "run"
    /\ taken = <<>>
    /\ queue # <<>>
    /\ taken' = <<Head(queue)>>
    /\ queue' = Tail(queue)
    /\ UNCHANGED <<closed, sent, sending, dropped, written, writer, process>>

\* run writes the message it has received.
Write ==
    /\ process = "up"
    /\ taken # <<>>
    /\ written' = Append(written, Head(taken))
    /\ taken' = <<>>
    /\ UNCHANGED <<queue, closed, sent, sending, dropped, writer, process>>

\* run ends with the closed and empty queue.
EndRun ==
    /\ process = "up"
    /\ writer = "run"
    /\ taken = <<>>
    /\ queue = <<>>
    /\ closed
    /\ writer' = "ended"
    /\ UNCHANGED <<queue, closed, sent, sending, dropped, taken, written, process>>

Finish ==
    /\ process = "up"
    /\ ~closed
    /\ closed' = TRUE
    /\ UNCHANGED <<queue, sent, sending, dropped, taken, written, writer, process>>

\* main returns after Finish.
Exit ==
    /\ process = "up"
    /\ closed
    /\ process' = "exited"
    /\ UNCHANGED <<queue, closed, sent, sending, dropped, taken, written, writer>>

Next ==
    \/ \E s \in Senders : Send(s) \/ Enqueue(s)
    \/ Receive
    \/ Write
    \/ EndRun
    \/ Finish
    \/ Exit

\* The writer goroutine and a sender that can send are scheduled; whether
\* there is something to send is up to the traffic.
Fairness ==
    /\ WF_vars(Receive)
    /\ WF_vars(Write)
    /\ WF_vars(EndRun)
    /\ \A s \in Senders : SF_vars(Enqueue(s))

Spec == Init /\ [][Next]_vars /\ Fairness

-----------------------------------------------------------------------------
\* The values of the state; the queue never holds more than its capacity.
TypeOK ==
    /\ queue \in Seq(Messages)
    /\ Len(queue) <= QueueLen
    /\ closed \in BOOLEAN
    /\ sent \in [Senders -> 0 .. MaxMessages]
    /\ sending \subseteq Senders
    /\ dropped \subseteq Messages
    /\ taken \in {<<>>} \cup {<<m>> : m \in Messages}
    /\ written \in Seq(Messages)
    /\ writer \in {"run", "ended"}
    /\ process \in {"up", "exited", "crashed"}

\* The messages that got into the queue.
Accepted == written \o (taken \o queue)

\* Each sender's messages are written in the order it sent them and at most
\* once, however the senders interleave between the length test and the send.
SenderOrder ==
    \A i, j \in 1 .. Len(Accepted) :
        i < j /\ Accepted[i][1] = Accepted[j][1] => Accepted[i][2] < Accepted[j][2]

\* A message handed to Send is written, about to be written, queued, waiting
\* for room or dropped, and only one of these, as long as the program has not crashed.
Accounted ==
    process # "crashed" =>
        \A s \in Senders, n \in 1 .. MaxMessages :
            LET m == <<s, n>>
                accepted == \E i \in 1 .. Len(Accepted) : Accepted[i] = m
                waiting == s \in sending /\ n = sent[s] IN
            /\ n <= sent[s] <=> accepted \/ waiting \/ m \in dropped
            /\ ~(accepted /\ waiting)
            /\ ~(m \in dropped /\ (accepted \/ waiting))

\* Send never blocks its handler for good: the length test may be stale when
\* several senders race for the last slot, but the writer makes room.
SendReturns ==
    \A s \in Senders : s \in sending ~> s \notin sending \/ process # "up"

\* Finish waits for all output to flush.
FinishFlushes == closed => taken \o queue = <<>>

=============================================================================
