------------------------- MODULE TCPAssemblerProofs -------------------------
(***************************************************************************)
(* The capture loop and the handlers, for any number of connections and    *)
(* packets and any capacity of the channels: no panic, a connection's      *)
(* channels are open exactly while it can be found, and a handler that     *)
(* recognised its protocol ends with both streams drained.                 *)
(*                                                                         *)
(* SafeInv, the inductive invariant, adds to the properties that the       *)
(* dictionary and connKey are inverse to each other on the open            *)
(* connections (Links), that a call of Assemble in progress is about an    *)
(* open connection and releases no more than its window holds (Busy), and  *)
(* what a handler has behind it once it drains its streams (Drained).      *)
(***************************************************************************)
EXTENDS TCPAssembler, TLAPS

\* connectionDict and the keys of the open connections are inverse to each other.
Links ==
    /\ \A k \in Keys : dict[k] # None =>
          /\ dict[k] \in 1 .. nconns
          /\ dict[k] \notin finished
          /\ connKey[dict[k]] = k
    /\ \A c \in 1 .. nconns : c \notin finished =>
          /\ connKey[c] \in Keys
          /\ dict[connKey[c]] = c
    /\ finished \subseteq 1 .. nconns

\* Assemble in progress is about an open connection.
Busy ==
    pc = "confirm" =>
        /\ cur.conn \in 1 .. nconns
        /\ cur.conn \notin finished
        /\ cur.count <= window[cur.conn][cur.stream]

\* The handler has discarded both streams.
Closing == {"closeDown", "closeUp", "done"}

\* What a handler that discards its streams has behind it.
Drained ==
    /\ \A c \in ConnIds : handler[c] \in Closing \cup {"drainUp"} =>
          c \in finished /\ channel[c]["down"] = 0
    /\ \A c \in ConnIds : handler[c] \in Closing => channel[c]["up"] = 0

\* The inductive invariant.
SafeInv == TypeOK /\ NoPanic /\ Links /\ Busy /\ Drained

\* The invariant implies the properties.
LEMMA SafeInvImplies == SafeInv => TypeOK /\ NoPanic /\ OpenIffLinked /\ EndsDrained
<1> SUFFICES ASSUME SafeInv PROVE TypeOK /\ NoPanic /\ OpenIffLinked /\ EndsDrained
  OBVIOUS
<1> USE AssemblerAssumption DEF ConnIds
<1>1. TypeOK /\ NoPanic
  BY DEF SafeInv
<1>2. OpenIffLinked
  <2>1. ASSUME NEW c \in Linked PROVE c \in (1 .. nconns) \ finished
    BY <2>1 DEF Linked, SafeInv, Links, TypeOK
  <2>2. ASSUME NEW c \in (1 .. nconns) \ finished PROVE c \in Linked
    <3>1. c \in ConnIds /\ connKey[c] \in Keys /\ dict[connKey[c]] = c
      BY <2>2 DEF SafeInv, Links, TypeOK
    <3> QED
      BY <3>1 DEF Linked
  <2> QED
    BY <2>1, <2>2 DEF OpenIffLinked
<1>3. EndsDrained
  BY DEF EndsDrained, SafeInv, Drained, Closing, Streams
<1> QED
  BY <1>1, <1>2, <1>3

\* The initial state satisfies the invariant.
LEMMA SafeInit == Init => SafeInv
<1> SUFFICES ASSUME Init PROVE SafeInv
  OBVIOUS
<1> USE AssemblerAssumption DEF ConnIds
<1>1. /\ dict \in [Keys -> ConnIds \cup {None}] /\ nconns = 0 /\ finished = {}
      /\ \A k \in Keys : dict[k] = None
  BY DEF Init
<1>2. /\ handler \in [ConnIds -> HandlerStates]
      /\ \A c \in ConnIds : handler[c] = "none"
  BY DEF Init, HandlerStates
<1>3. /\ window \in [ConnIds -> [Streams -> Nat]]
      /\ channel \in [ConnIds -> [Streams -> 0 .. ChanCap]]
  BY DEF Init
<1>4. cur \in Calls /\ pc = "loop" /\ panic = FALSE /\ left \in 0 .. MaxPackets
  BY DEF Init, Idle, Calls, Streams
<1>5. /\ connKey \in [ConnIds -> Keys \cup {None}]
      /\ client \in [ConnIds -> Sides]
      /\ fresh \subseteq ConnIds
      /\ peeked \subseteq ConnIds
      /\ ending \in [ConnIds -> SUBSET Streams]
      /\ ignore \in [ConnIds -> SUBSET Streams]
  BY DEF Init, Sides
<1>6. TypeOK
  <2>1. /\ nconns \in 0 .. MaxConns
        /\ finished \subseteq ConnIds
        /\ pc \in {"loop", "confirm", "finishing", "exited"}
    BY <1>1, <1>4
  <2>2. panic \in BOOLEAN /\ modes \subseteq Modes
    BY <1>4 DEF Init
  <2> HIDE DEF ConnIds
  <2> QED
    BY <2>1, <2>2, <1>1, <1>2, <1>3, <1>4, <1>5 DEF TypeOK
<1>7. Links /\ Busy /\ NoPanic
  BY <1>1, <1>4 DEF Links, Busy, NoPanic
<1>8. Drained
  BY <1>2 DEF Drained, Closing
<1> QED
  BY <1>6, <1>7, <1>8 DEF SafeInv

\* Steps of the capture loop that leave connections, channels and handlers
\* alone: an ignored packet, the passing of time, the end of the program.
LEMMA SafeQuiet ==
    ASSUME SafeInv,
           \/ \E p \in Packets : AssembleIgnored(p)
           \/ \E c \in ConnIds : Age(c)
           \/ Exit
    PROVE  SafeInv'
<1>1. ASSUME NEW p \in Packets, AssembleIgnored(p) PROVE SafeInv'
  BY <1>1, AssemblerAssumption
  DEF AssembleIgnored, SafeInv, TypeOK, NoPanic, Links, Busy, Drained
<1>2. ASSUME NEW c \in ConnIds, Age(c) PROVE SafeInv'
  BY <1>2 DEF Age, SafeInv, TypeOK, NoPanic, Links, Busy, Drained
<1>3. CASE Exit
  BY <1>3 DEF Exit, SafeInv, TypeOK, NoPanic, Links, Busy, Drained
<1> QED
  BY <1>1, <1>2, <1>3

\* A packet of a connection, known or just created, is taken in.
LEMMA ReceiveFacts ==
    ASSUME TypeOK, NEW c \in ConnIds, NEW p \in Packets, NEW cl \in Sides,
           left > 0, OnReceive(c, p, cl)
    PROVE  /\ fresh' \subseteq ConnIds
           /\ window' \in [ConnIds -> [Streams -> Nat]]
           /\ pc' = "confirm"
           /\ cur' \in Calls
           /\ cur'.conn = c
           /\ cur'.count <= window'[c][cur'.stream]
           /\ left' \in 0 .. MaxPackets
<1> USE AssemblerAssumption DEF ConnIds
<1> DEFINE s == IF cl = p.src THEN "up" ELSE "down"
<1>1. s \in Streams /\ Other(s) \in Streams /\ Other(s) # s
  BY DEF Streams, Other
<1>2. PICK add \in {0, 1} : window' = [window EXCEPT ![c][s] = @ + add]
  BY DEF OnReceive
<1>3. PICK n \in 0 .. window[c][Other(s)] :
         cur' = [conn |-> c, stream |-> Other(s), count |-> n, fin |-> p.fin]
  BY DEF OnReceive
<1>4. window \in [ConnIds -> [Streams -> Nat]] /\ fresh \subseteq ConnIds /\ left \in 0 .. MaxPackets
  BY DEF TypeOK
<1>5. window' \in [ConnIds -> [Streams -> Nat]] /\ window'[c][Other(s)] = window[c][Other(s)]
  BY <1>1, <1>2, <1>4
<1>6. p.fin \in BOOLEAN
  BY DEF Packets
<1>7. fresh' \subseteq ConnIds /\ pc' = "confirm" /\ left' = left - 1
  BY <1>4 DEF OnReceive
<1>8. n \in Nat /\ n <= window[c][Other(s)]
  BY <1>1, <1>3, <1>4
<1> HIDE DEF s
<1>9. cur' \in Calls /\ cur'.conn = c /\ cur'.count = n /\ cur'.stream = Other(s)
  BY <1>1, <1>3, <1>6, <1>8 DEF Calls
<1> QED
  BY <1>4, <1>5, <1>7, <1>8, <1>9

\* A packet of a connection in the dictionary.
LEMMA SafeKnown ==
    ASSUME SafeInv, NEW p \in Packets, AssembleKnown(p)
    PROVE  SafeInv'
<1> USE AssemblerAssumption DEF ConnIds
<1> DEFINE c == dict[p.key]
<1>1. p.key \in Keys
  BY DEF Packets
<1>2. c \in ConnIds /\ c \in 1 .. nconns /\ c \notin finished /\ client[c] \in Sides
  BY <1>1 DEF SafeInv, Links, TypeOK, AssembleKnown
<1>3. left > 0 /\ OnReceive(c, p, client[c]) /\ TypeOK
  BY DEF AssembleKnown, SafeInv
<1> HIDE DEF c
<1>4. /\ fresh' \subseteq ConnIds
      /\ window' \in [ConnIds -> [Streams -> Nat]]
      /\ pc' = "confirm"
      /\ cur' \in Calls
      /\ cur'.conn = c
      /\ cur'.count <= window'[c][cur'.stream]
      /\ left' \in 0 .. MaxPackets
  BY <1>2, <1>3, ReceiveFacts
<1>5. UNCHANGED <<dict, nconns, connKey, client, channel, ending, finished,
                  ignore, peeked, handler, panic, modes>>
  BY DEF AssembleKnown
<1>6. TypeOK'
  BY <1>3, <1>4, <1>5 DEF TypeOK
<1>7. NoPanic' /\ Links' /\ Drained'
  BY <1>5 DEF SafeInv, NoPanic, Links, Drained
<1>8. Busy'
  BY <1>2, <1>4, <1>5 DEF Busy
<1> QED
  BY <1>6, <1>7, <1>8 DEF SafeInv

\* A packet that creates its connection.
LEMMA SafeNew ==
    ASSUME SafeInv, NEW p \in Packets, AssembleNew(p)
    PROVE  SafeInv'
<1> USE AssemblerAssumption DEF ConnIds
<1> DEFINE c == nconns + 1
<1>1. p.key \in Keys /\ p.src \in Sides
  BY DEF Packets
<1>2. TypeOK /\ nconns \in 0 .. MaxConns /\ nconns < MaxConns
  BY DEF AssembleNew, SafeInv, TypeOK
<1>3. c \in ConnIds /\ c \notin 1 .. nconns /\ c # None
  BY <1>2
<1>4. left > 0 /\ OnReceive(c, p, p.src) /\ dict[p.key] = None
  BY DEF AssembleNew
<1>5. /\ nconns' = c
      /\ dict' = [dict EXCEPT ![p.key] = c]
      /\ connKey' = [connKey EXCEPT ![c] = p.key]
      /\ client' = [client EXCEPT ![c] = p.src]
      /\ handler' = [handler EXCEPT ![c] = "start"]
      /\ UNCHANGED <<channel, ending, finished, ignore, peeked, panic, modes>>
  BY DEF AssembleNew
<1>6. nconns' \in 0 .. MaxConns /\ 1 .. nconns' = (1 .. nconns) \cup {c}
  BY <1>2, <1>5
<1> HIDE DEF c
<1>7. /\ fresh' \subseteq ConnIds
      /\ window' \in [ConnIds -> [Streams -> Nat]]
      /\ pc' = "confirm"
      /\ cur' \in Calls
      /\ cur'.conn = c
      /\ cur'.count <= window'[c][cur'.stream]
      /\ left' \in 0 .. MaxPackets
  BY <1>1, <1>2, <1>3, <1>4, ReceiveFacts
<1>8. c \notin finished
  BY <1>3 DEF SafeInv, Links
<1>9. TypeOK'
  BY <1>1, <1>2, <1>3, <1>5, <1>6, <1>7 DEF TypeOK, HandlerStates
<1>10. Links'
  <2>1. ASSUME NEW k \in Keys, dict'[k] # None
        PROVE  dict'[k] \in 1 .. nconns' /\ dict'[k] \notin finished' /\ connKey'[dict'[k]] = k
    <3>1. CASE k = p.key
      BY <3>1, <1>2, <1>3, <1>5, <1>6, <1>8 DEF TypeOK
    <3>2. CASE k # p.key
      <4>1. dict'[k] = dict[k] /\ dict[k] \in 1 .. nconns /\ dict[k] \notin finished
            /\ connKey[dict[k]] = k
        BY <3>2, <2>1, <1>2, <1>5 DEF TypeOK, SafeInv, Links
      <4> QED
        BY <4>1, <1>2, <1>3, <1>5, <1>6 DEF TypeOK
    <3> QED
      BY <3>1, <3>2
  <2>2. ASSUME NEW d \in 1 .. nconns', d \notin finished'
        PROVE  connKey'[d] \in Keys /\ dict'[connKey'[d]] = d
    <3>1. CASE d = c
      BY <3>1, <1>1, <1>2, <1>3, <1>5 DEF TypeOK
    <3>2. CASE d # c
      <4>1. d \in 1 .. nconns /\ d \in ConnIds /\ d # None
        BY <3>2, <2>2, <1>2, <1>6
      <4>2. connKey[d] \in Keys /\ dict[connKey[d]] = d /\ connKey'[d] = connKey[d]
        BY <3>2, <2>2, <4>1, <1>2, <1>5 DEF SafeInv, Links, TypeOK
      <4>3. connKey[d] # p.key
        BY <4>1, <4>2, <1>4
      <4> QED
        BY <4>2, <4>3, <1>2, <1>5 DEF TypeOK
    <3> QED
      BY <3>1, <3>2
  <2>3. finished' \subseteq 1 .. nconns'
    BY <1>5, <1>6 DEF SafeInv, Links
  <2> QED
    BY <2>1, <2>2, <2>3 DEF Links
<1>11. Busy'
  BY <1>5, <1>6, <1>7, <1>8 DEF Busy
<1>12. NoPanic' /\ Drained'
  BY <1>2, <1>3, <1>5 DEF SafeInv, NoPanic, Drained, Closing, TypeOK
<1> QED
  BY <1>9, <1>10, <1>11, <1>12 DEF SafeInv

\* A segment goes to the channel: it is open, and not full.
LEMMA SafeConfirmSend == SafeInv /\ ConfirmSend => SafeInv'
<1> SUFFICES ASSUME SafeInv, ConfirmSend PROVE SafeInv'
  OBVIOUS
<1> USE AssemblerAssumption DEF ConnIds
<1> DEFINE c == cur.conn
           s == cur.stream
<1>1. TypeOK /\ pc = "confirm" /\ cur.count > 0
  BY DEF SafeInv, ConfirmSend
<1>2. c \in 1 .. nconns /\ c \in ConnIds /\ c \notin finished /\ cur.count <= window[c][s]
  BY <1>1 DEF SafeInv, Busy, TypeOK
<1>3. s \in Streams /\ cur \in Calls /\ cur.count \in Nat
  BY <1>1 DEF TypeOK, Calls
<1>4. window[c][s] \in Nat /\ channel[c][s] \in 0 .. ChanCap
  BY <1>1, <1>2, <1>3 DEF TypeOK
<1>5. /\ channel[c][s] < ChanCap
      /\ panic' = panic
      /\ window' = [window EXCEPT ![c][s] = @ - 1]
      /\ channel' = [channel EXCEPT ![c][s] = @ + 1]
      /\ cur' = [cur EXCEPT !.count = @ - 1]
      /\ UNCHANGED <<dict, nconns, connKey, client, fresh, ending, finished,
                     ignore, peeked, pc, left, handler, modes>>
  BY <1>1, <1>2 DEF ConfirmSend, TypeOK
<1>6. /\ cur' \in Calls /\ cur'.conn = c /\ cur'.stream = s
      /\ cur'.count = cur.count - 1
  BY <1>1, <1>3, <1>5 DEF Calls
<1> HIDE DEF c, s
<1>7. /\ window' \in [ConnIds -> [Streams -> Nat]]
      /\ window'[c][s] = window[c][s] - 1
  BY <1>1, <1>2, <1>3, <1>4, <1>5 DEF TypeOK
<1>8. channel' \in [ConnIds -> [Streams -> 0 .. ChanCap]]
  BY <1>1, <1>2, <1>3, <1>4, <1>5 DEF TypeOK
<1>9. TypeOK'
  BY <1>1, <1>5, <1>6, <1>7, <1>8 DEF TypeOK
<1>10. Busy'
  BY <1>2, <1>3, <1>4, <1>5, <1>6, <1>7 DEF Busy
<1>11. Links' /\ NoPanic'
  BY <1>5 DEF SafeInv, Links, NoPanic
<1>12. \A d \in ConnIds : d \in finished => channel'[d] = channel[d]
  BY <1>1, <1>2, <1>5 DEF TypeOK
<1>13. Drained'
  <2>1. ASSUME NEW d \in ConnIds, handler'[d] \in Closing \cup {"drainUp"}
        PROVE  d \in finished' /\ channel'[d]["down"] = 0
    BY <2>1, <1>5, <1>12 DEF SafeInv, Drained
  <2>2. ASSUME NEW d \in ConnIds, handler'[d] \in Closing
        PROVE  channel'[d]["up"] = 0
    <3>1. d \in finished
      BY <2>2, <1>5 DEF SafeInv, Drained
    <3> QED
      BY <3>1, <2>2, <1>5, <1>12 DEF SafeInv, Drained
  <2> QED
    BY <2>1, <2>2 DEF Drained
<1> QED
  BY <1>9, <1>10, <1>11, <1>13 DEF SafeInv

\* Closing a set of open connections that the dictionary forgets keeps the
\* dictionary and connKey inverse to each other.
LEMMA ForgetLinks ==
    ASSUME SafeInv, NEW S, S \subseteq (1 .. nconns) \ finished,
           finished' = finished \cup S,
           dict' = [k \in Keys |-> IF dict[k] \in S THEN None ELSE dict[k]],
           UNCHANGED <<nconns, connKey>>
    PROVE  /\ Links'
           /\ dict' \in [Keys -> ConnIds \cup {None}]
           /\ finished' \subseteq ConnIds
<1> USE AssemblerAssumption DEF ConnIds
<1>1. /\ dict \in [Keys -> ConnIds \cup {None}]
      /\ finished \subseteq ConnIds
      /\ nconns \in 0 .. MaxConns
  BY DEF SafeInv, TypeOK
<1>2. dict' \in [Keys -> ConnIds \cup {None}] /\ finished' \subseteq ConnIds
  BY <1>1
<1>3. ASSUME NEW k \in Keys, dict'[k] # None
      PROVE  dict'[k] \in 1 .. nconns' /\ dict'[k] \notin finished' /\ connKey'[dict'[k]] = k
  <2>1. dict[k] \notin S /\ dict'[k] = dict[k]
    BY <1>3
  <2> QED
    BY <2>1, <1>3 DEF SafeInv, Links
<1>4. ASSUME NEW d \in 1 .. nconns', d \notin finished'
      PROVE  connKey'[d] \in Keys /\ dict'[connKey'[d]] = d
  <2>1. connKey[d] \in Keys /\ dict[connKey[d]] = d /\ d \notin S
    BY <1>4 DEF SafeInv, Links
  <2> QED
    BY <2>1
<1>5. finished' \subseteq 1 .. nconns'
  BY DEF SafeInv, Links
<1> QED
  BY <1>2, <1>3, <1>4, <1>5 DEF Links

\* Assemble returns, having finished the connection if both streams ended.
LEMMA SafeEndAssemble == SafeInv /\ EndAssemble => SafeInv'
<1> SUFFICES ASSUME SafeInv, EndAssemble PROVE SafeInv'
  OBVIOUS
<1> USE AssemblerAssumption DEF ConnIds
<1> DEFINE c == cur.conn
           e == IF cur.fin THEN ending[c] \cup {Other(cur.stream)} ELSE ending[c]
<1>1. TypeOK /\ pc = "confirm"
  BY DEF SafeInv, EndAssemble
<1>2. c \in 1 .. nconns /\ c \in ConnIds /\ c \notin finished
  BY <1>1 DEF SafeInv, Busy, TypeOK
<1>3. e \in SUBSET Streams
  BY <1>1, <1>2 DEF TypeOK, Streams, Other
<1>4. /\ ending' = [ending EXCEPT ![c] = e]
      /\ pc' = "loop"
      /\ cur' = Idle
      /\ UNCHANGED <<nconns, connKey, client, fresh, window, channel, ignore,
                     peeked, left, handler, modes>>
  BY DEF EndAssemble
<1>5. \/ UNCHANGED <<dict, finished, panic>>
      \/ /\ dict' = [dict EXCEPT ![connKey[c]] = None]
         /\ Finish({c})
  BY DEF EndAssemble
<1> HIDE DEF c, e
<1>6. ending' \in [ConnIds -> SUBSET Streams] /\ cur' \in Calls
  BY <1>1, <1>2, <1>3, <1>4 DEF TypeOK, Idle, Calls, Streams
<1>7. /\ Links'
      /\ dict' \in [Keys -> ConnIds \cup {None}]
      /\ finished' \subseteq ConnIds
      /\ finished \subseteq finished'
      /\ panic' = FALSE
  <2>1. CASE UNCHANGED <<dict, finished, panic>>
    BY <2>1, <1>1, <1>4 DEF SafeInv, Links, TypeOK, NoPanic
  <2>2. CASE dict' = [dict EXCEPT ![connKey[c]] = None] /\ Finish({c})
    <3>1. finished' = finished \cup {c} /\ panic' = FALSE
      BY <2>2, <1>1, <1>2 DEF Finish, SafeInv, NoPanic, TypeOK
    <3>2. \A k \in Keys : dict[k] = c <=> k = connKey[c]
      <4>1. connKey[c] \in Keys /\ dict[connKey[c]] = c /\ c # None
        BY <1>1, <1>2 DEF SafeInv, Links
      <4>2. \A k \in Keys : dict[k] = c => k = connKey[c]
        BY <4>1 DEF SafeInv, Links
      <4> QED
        BY <4>1, <4>2
    <3>3. dict' = [k \in Keys |-> IF dict[k] \in {c} THEN None ELSE dict[k]]
      BY <2>2, <3>2, <1>1 DEF TypeOK
    <3> QED
      BY <3>1, <3>3, <1>2, <1>4, ForgetLinks
  <2> QED
    BY <1>5, <2>1, <2>2
<1>8. TypeOK'
  BY <1>1, <1>4, <1>6, <1>7 DEF TypeOK
<1>9. NoPanic' /\ Busy' /\ Drained'
  BY <1>4, <1>7 DEF SafeInv, NoPanic, Busy, Drained
<1> QED
  BY <1>7, <1>8, <1>9 DEF SafeInv

\* The connections in the dictionary are open ones.
LEMMA LinkedOpen == SafeInv => Linked \subseteq (1 .. nconns) \ finished
  BY DEF SafeInv, Links, Linked

\* FlushOlderThan finishes the old connections, each of them once.
LEMMA SafeFlush == SafeInv /\ FlushOlderThan => SafeInv'
<1> SUFFICES ASSUME SafeInv, FlushOlderThan PROVE SafeInv'
  OBVIOUS
<1> USE AssemblerAssumption DEF ConnIds
<1> DEFINE S == Linked \ fresh
<1>1. S \subseteq (1 .. nconns) \ finished
  BY LinkedOpen
<1>2. /\ TypeOK
      /\ dict' = [k \in Keys |-> IF dict[k] \in S THEN None ELSE dict[k]]
      /\ ending' = [c \in ConnIds |-> IF c \in S THEN Streams ELSE ending[c]]
      /\ Finish(S)
      /\ UNCHANGED <<nconns, connKey, client, fresh, window, channel, ignore,
                     peeked, pc, cur, left, handler, modes>>
      /\ pc = "loop"
  BY DEF FlushOlderThan, SafeInv
<1> HIDE DEF S
<1>3. finished' = finished \cup S /\ panic' = FALSE
  BY <1>1, <1>2 DEF Finish, SafeInv, NoPanic, TypeOK
<1>4. /\ Links'
      /\ dict' \in [Keys -> ConnIds \cup {None}]
      /\ finished' \subseteq ConnIds
  BY <1>1, <1>2, <1>3, ForgetLinks
<1>5. ending' \in [ConnIds -> SUBSET Streams]
  BY <1>2 DEF TypeOK
<1>6. TypeOK'
  BY <1>2, <1>3, <1>4, <1>5 DEF TypeOK
<1>7. NoPanic' /\ Busy' /\ Drained'
  BY <1>2, <1>3 DEF SafeInv, NoPanic, Busy, Drained
<1> QED
  BY <1>4, <1>6, <1>7 DEF SafeInv

\* FinishAll finishes every connection left, each of them once.
LEMMA SafeFinishAll == SafeInv /\ FinishAll => SafeInv'
<1> SUFFICES ASSUME SafeInv, FinishAll PROVE SafeInv'
  OBVIOUS
<1> USE AssemblerAssumption DEF ConnIds
<1> DEFINE S == Linked
<1>1. S \subseteq (1 .. nconns) \ finished
  BY LinkedOpen
<1>2. /\ TypeOK
      /\ Finish(S)
      /\ UNCHANGED <<nconns, connKey, client, fresh, window, channel, ending,
                     ignore, peeked, cur, left, handler, modes>>
      /\ pc' = "finishing"
  BY DEF FinishAll, SafeInv
<1>3. dict' = [k \in Keys |-> IF dict[k] \in S THEN None ELSE dict[k]]
  BY DEF FinishAll, Linked
<1> HIDE DEF S
<1>4. finished' = finished \cup S /\ panic' = FALSE
  BY <1>1, <1>2 DEF Finish, SafeInv, NoPanic, TypeOK
<1>5. /\ Links'
      /\ dict' \in [Keys -> ConnIds \cup {None}]
      /\ finished' \subseteq ConnIds
  BY <1>1, <1>2, <1>3, <1>4, ForgetLinks
<1>6. TypeOK'
  BY <1>2, <1>4, <1>5 DEF TypeOK
<1>7. NoPanic' /\ Busy' /\ Drained'
  BY <1>2, <1>4 DEF SafeInv, NoPanic, Busy, Drained
<1> QED
  BY <1>5, <1>6, <1>7 DEF SafeInv

\* A step of a handler that leaves the streams as they are or takes one
\* segment, with what it must know when it reaches the end of a stream.
LEMMA HandlerMoves ==
    ASSUME SafeInv, NEW c \in ConnIds, NEW h \in HandlerStates,
           UNCHANGED mainVars,
           handler' = [handler EXCEPT ![c] = h],
           channel' \in [ConnIds -> [Streams -> 0 .. ChanCap]],
           \A d \in ConnIds, s \in Streams : channel'[d][s] <= channel[d][s],
           peeked' \subseteq ConnIds,
           ignore' \in [ConnIds -> SUBSET Streams],
           h \in Closing \cup {"drainUp"} => c \in finished /\ channel'[c]["down"] = 0,
           h \in Closing => channel'[c]["up"] = 0
    PROVE  SafeInv'
<1> USE AssemblerAssumption DEF ConnIds
<1>1. TypeOK /\ UNCHANGED <<dict, nconns, connKey, client, fresh, window, ending,
                            finished, pc, cur, left, panic, modes>>
  BY DEF SafeInv, mainVars
<1>2. handler' \in [ConnIds -> HandlerStates]
  BY <1>1 DEF TypeOK
<1>3. TypeOK'
  BY <1>1, <1>2 DEF TypeOK
<1>4. Links' /\ Busy' /\ NoPanic'
  BY <1>1 DEF SafeInv, Links, Busy, NoPanic
<1>5. Drained'
  <2>1. ASSUME NEW d \in ConnIds, handler'[d] \in Closing \cup {"drainUp"}
        PROVE  d \in finished' /\ channel'[d]["down"] = 0
    <3>1. CASE d = c
      BY <3>1, <2>1, <1>1 DEF TypeOK
    <3>2. CASE d # c
      <4>1. d \in finished /\ channel[d]["down"] = 0
        BY <3>2, <2>1, <1>1 DEF TypeOK, SafeInv, Drained
      <4>2. channel'[d]["down"] \in Nat /\ channel'[d]["down"] <= channel[d]["down"]
        BY DEF Streams
      <4> QED
        BY <4>1, <4>2, <1>1
    <3> QED
      BY <3>1, <3>2
  <2>2. ASSUME NEW d \in ConnIds, handler'[d] \in Closing
        PROVE  channel'[d]["up"] = 0
    <3>1. CASE d = c
      BY <3>1, <2>2, <1>1 DEF TypeOK
    <3>2. CASE d # c
      <4>1. channel[d]["up"] = 0
        BY <3>2, <2>2, <1>1 DEF TypeOK, SafeInv, Drained
      <4>2. channel'[d]["up"] \in Nat /\ channel'[d]["up"] <= channel[d]["up"]
        BY DEF Streams
      <4> QED
        BY <4>1, <4>2
    <3> QED
      BY <3>1, <3>2
  <2> QED
    BY <2>1, <2>2 DEF Drained
<1> QED
  BY <1>3, <1>4, <1>5 DEF SafeInv

\* Taking a segment from a channel makes no channel longer.
LEMMA TakeSegment ==
    ASSUME TypeOK, NEW c \in ConnIds, NEW s \in Streams, channel[c][s] > 0,
           channel' = [channel EXCEPT ![c][s] = @ - 1]
    PROVE  /\ channel' \in [ConnIds -> [Streams -> 0 .. ChanCap]]
           /\ \A d \in ConnIds, t \in Streams : channel'[d][t] <= channel[d][t]
<1> USE AssemblerAssumption DEF ConnIds
<1>1. /\ channel \in [ConnIds -> [Streams -> 0 .. ChanCap]]
      /\ channel[c][s] \in 0 .. ChanCap
      /\ channel[c][s] - 1 \in 0 .. ChanCap
  BY SMTT(60) DEF TypeOK
<1>2. ASSUME NEW d \in ConnIds, NEW t \in Streams
      PROVE  channel'[d][t] = IF d = c /\ t = s THEN channel[c][s] - 1 ELSE channel[d][t]
  BY <1>1
<1>3. channel' \in [ConnIds -> [Streams -> 0 .. ChanCap]]
  BY <1>1
<1>4. ASSUME NEW d \in ConnIds, NEW t \in Streams
      PROVE  channel'[d][t] <= channel[d][t]
  <2>1. channel[d][t] \in 0 .. ChanCap
    BY <1>1
  <2> QED
    BY <2>1, <1>1, <1>2
<1> QED
  BY <1>3, <1>4

\* Channels that do not change do not get longer.
LEMMA KeepSegments ==
    ASSUME TypeOK, UNCHANGED channel
    PROVE  /\ channel' \in [ConnIds -> [Streams -> 0 .. ChanCap]]
           /\ \A d \in ConnIds, t \in Streams : channel'[d][t] <= channel[d][t]
<1>1. channel \in [ConnIds -> [Streams -> 0 .. ChanCap]]
  BY DEF TypeOK
<1>2. ASSUME NEW d \in ConnIds, NEW t \in Streams PROVE channel[d][t] <= channel[d][t]
  <2>1. channel[d][t] \in Int
    BY <1>1, AssemblerAssumption
  <2> QED
    BY <2>1
<1> QED
  BY <1>1, <1>2

\* What a Read of a stream leaves behind, with and without the end of stream.
LEMMA ReadFacts ==
    ASSUME TypeOK, NEW c \in ConnIds, NEW s \in Streams,
           Receive(c, s) \/ ReceiveEOF(c, s)
    PROVE  /\ channel' \in [ConnIds -> [Streams -> 0 .. ChanCap]]
           /\ \A d \in ConnIds, t \in Streams : channel'[d][t] <= channel[d][t]
           /\ peeked' \subseteq ConnIds
<1>1. peeked' \subseteq ConnIds
  BY DEF TypeOK, Receive, ReceiveEOF
<1>2. CASE UNCHANGED channel
  BY <1>1, <1>2, KeepSegments
<1>3. CASE channel[c][s] > 0 /\ channel' = [channel EXCEPT ![c][s] = @ - 1]
  BY <1>1, <1>3, TakeSegment
<1> QED
  BY <1>2, <1>3 DEF Receive, ReceiveEOF

\* Every step of a handler keeps the invariant.
LEMMA SafeHandle == ASSUME SafeInv, NEW c \in ConnIds, Handle(c) PROVE SafeInv'
<1> USE DEF HandlerStates, Closing
<1>1. TypeOK /\ "up" \in Streams /\ "down" \in Streams /\ handler \in [ConnIds -> HandlerStates]
  BY DEF SafeInv, TypeOK, Streams
<1>2. ignore \in [ConnIds -> SUBSET Streams] /\ peeked \subseteq ConnIds
  BY <1>1 DEF TypeOK
<1>3. CASE HandlerStart(c)
  <2>1. UNCHANGED <<channel, ignore, peeked>> /\ UNCHANGED mainVars
    BY <1>3 DEF HandlerStart
  <2>2. PICK h \in {"peek", "readUp", "readDown"} : handler' = [handler EXCEPT ![c] = h]
    BY <1>3 DEF HandlerStart, GoTo
  <2> QED
    BY <2>1, <2>2, <1>1, <1>2, KeepSegments, HandlerMoves
<1>4. CASE Peek(c)
  <2>1. UNCHANGED ignore /\ UNCHANGED mainVars
    BY <1>4 DEF Peek
  <2>2. PICK h \in {"readUp", "readDown", "rejectUp"} : handler' = [handler EXCEPT ![c] = h]
    BY <1>4 DEF Peek, GoTo
  <2>3. /\ channel' \in [ConnIds -> [Streams -> 0 .. ChanCap]]
        /\ \A d \in ConnIds, t \in Streams : channel'[d][t] <= channel[d][t]
        /\ peeked' \subseteq ConnIds
    <3>1. CASE ReceiveEOF(c, "up")
      BY <3>1, <1>1, ReadFacts
    <3>2. CASE /\ channel[c]["up"] > 0
               /\ channel' = [channel EXCEPT ![c]["up"] = @ - 1]
               /\ peeked' = peeked \cup {c}
      BY <3>2, <1>1, <1>2, TakeSegment
    <3> QED
      BY <1>4, <3>1, <3>2 DEF Peek
  <2> QED
    BY <2>1, <2>2, <2>3, <1>2, HandlerMoves
<1>5. CASE ReadUp(c)
  <2>1. UNCHANGED ignore /\ UNCHANGED mainVars /\ (Receive(c, "up") \/ ReceiveEOF(c, "up"))
    BY <1>5 DEF ReadUp
  <2>2. PICK h \in {"readUp", "readDown", "drainDown"} : handler' = [handler EXCEPT ![c] = h]
    BY <1>5 DEF ReadUp, GoTo
  <2> QED
    BY <2>1, <2>2, <1>1, <1>2, ReadFacts, HandlerMoves
<1>6. CASE ReadDown(c)
  <2>1. UNCHANGED ignore /\ UNCHANGED mainVars /\ (Receive(c, "down") \/ ReceiveEOF(c, "down"))
    BY <1>6 DEF ReadDown
  <2>2. PICK h \in {"readUp", "readDown", "drainDown"} : handler' = [handler EXCEPT ![c] = h]
    BY <1>6 DEF ReadDown, GoTo
  <2> QED
    BY <2>1, <2>2, <1>1, <1>2, ReadFacts, HandlerMoves
<1>7. CASE DrainDown(c)
  <2>1. /\ UNCHANGED ignore /\ UNCHANGED mainVars
        /\ Receive(c, "down") \/ ReceiveEOF(c, "down")
        /\ handler[c] = "drainDown"
    BY <1>7 DEF DrainDown, Drain
  <2>2. /\ channel' \in [ConnIds -> [Streams -> 0 .. ChanCap]]
        /\ \A d \in ConnIds, t \in Streams : channel'[d][t] <= channel[d][t]
        /\ peeked' \subseteq ConnIds
    BY <2>1, <1>1, ReadFacts
  <2>3. CASE Receive(c, "down") /\ UNCHANGED handler
    <3>1. handler' = [handler EXCEPT ![c] = "drainDown"]
      BY <2>1, <2>3, <1>1
    <3> QED
      BY <3>1, <2>1, <2>2, <1>2, HandlerMoves
  <2>4. CASE ReceiveEOF(c, "down") /\ GoTo(c, "drainUp")
    <3>1. c \in finished /\ channel'[c]["down"] = 0 /\ handler' = [handler EXCEPT ![c] = "drainUp"]
      BY <2>4 DEF ReceiveEOF, GoTo
    <3> QED
      BY <3>1, <2>1, <2>2, <1>2, HandlerMoves
  <2> QED
    BY <1>7, <2>3, <2>4 DEF DrainDown, Drain
<1>8. CASE DrainUp(c)
  <2>1. /\ UNCHANGED ignore /\ UNCHANGED mainVars
        /\ Receive(c, "up") \/ ReceiveEOF(c, "up")
        /\ handler[c] = "drainUp"
    BY <1>8 DEF DrainUp, Drain
  <2>2. /\ channel' \in [ConnIds -> [Streams -> 0 .. ChanCap]]
        /\ \A d \in ConnIds, t \in Streams : channel'[d][t] <= channel[d][t]
        /\ peeked' \subseteq ConnIds
    BY <2>1, <1>1, ReadFacts
  <2>3. c \in finished /\ channel'[c]["down"] = 0
    <3>1. c \in finished /\ channel[c]["down"] = 0
      BY <2>1 DEF SafeInv, Drained
    <3>2. channel'[c]["down"] \in Nat /\ channel'[c]["down"] <= channel[c]["down"]
      BY <2>2, <1>1, AssemblerAssumption
    <3> QED
      BY <3>1, <3>2
  <2>4. CASE Receive(c, "up") /\ UNCHANGED handler
    <3>1. handler' = [handler EXCEPT ![c] = "drainUp"]
      BY <2>1, <2>4, <1>1
    <3> QED
      BY <3>1, <2>1, <2>2, <2>3, <1>2, HandlerMoves
  <2>5. CASE ReceiveEOF(c, "up") /\ GoTo(c, "closeDown")
    <3>1. channel'[c]["up"] = 0 /\ handler' = [handler EXCEPT ![c] = "closeDown"]
      BY <2>5 DEF ReceiveEOF, GoTo
    <3> QED
      BY <3>1, <2>1, <2>2, <2>3, <1>2, HandlerMoves
  <2> QED
    BY <1>8, <2>4, <2>5 DEF DrainUp, Drain
<1>9. ASSUME NEW s \in Streams, NEW here, NEW h \in HandlerStates,
             CloseStream(c, s, here, h),
             here \in Closing \/ h \notin Closing \cup {"drainUp"}
      PROVE  SafeInv'
  <2>1. /\ UNCHANGED <<channel, peeked>> /\ UNCHANGED mainVars
        /\ handler[c] = here
        /\ handler' = [handler EXCEPT ![c] = h]
        /\ ignore' = [ignore EXCEPT ![c] = @ \cup {s}]
    BY <1>9 DEF CloseStream, GoTo
  <2>2. ignore' \in [ConnIds -> SUBSET Streams]
    BY <2>1, <1>2
  <2>3. here \in Closing => c \in finished /\ channel'[c]["down"] = 0 /\ channel'[c]["up"] = 0
    BY <2>1 DEF SafeInv, Drained
  <2> QED
    BY <2>1, <2>2, <2>3, <1>1, <1>2, <1>9, KeepSegments, HandlerMoves
<1>10. CASE CloseDown(c)
  BY <1>1, <1>9, <1>10 DEF CloseDown
<1>11. CASE CloseUp(c)
  BY <1>1, <1>9, <1>11 DEF CloseUp
<1>12. CASE RejectUp(c)
  BY <1>1, <1>9, <1>12 DEF RejectUp
<1>13. CASE RejectDown(c)
  BY <1>1, <1>9, <1>13 DEF RejectDown
<1> QED
  BY <1>3, <1>4, <1>5, <1>6, <1>7, <1>8, <1>10, <1>11, <1>12, <1>13 DEF Handle

\* Every step keeps the invariant.
LEMMA SafeNext == SafeInv /\ [Next]_vars => SafeInv'
<1> SUFFICES ASSUME SafeInv, [Next]_vars PROVE SafeInv'
  OBVIOUS
<1>1. CASE UNCHANGED vars
  BY <1>1 DEF vars, SafeInv, TypeOK, NoPanic, Links, Busy, Drained
<1>2. CASE Main
  BY <1>2, SafeQuiet, SafeKnown, SafeNew, SafeConfirmSend, SafeEndAssemble,
     SafeFlush, SafeFinishAll DEF Main
<1>3. CASE \E c \in ConnIds : Age(c)
  BY <1>3, SafeQuiet
<1>4. CASE \E c \in ConnIds : Handle(c)
  BY <1>4, SafeHandle
<1> QED
  BY <1>1, <1>2, <1>3, <1>4 DEF Next

\* For every set of keys, number of connections and packets and capacity of
\* the channels: Assemble, FlushOlderThan and FinishAll neither close a
\* channel twice nor send on a closed one, the channels of a connection are
\* open exactly while connectionDict has it, and a handler that recognised
\* its protocol has drained both streams before it closes them.
THEOREM AssemblerSafety == Spec => [](TypeOK /\ NoPanic /\ OpenIffLinked /\ EndsDrained)
<1>1. Init => SafeInv
  BY SafeInit
<1>2. SafeInv /\ [Next]_vars => SafeInv'
  BY SafeNext
<1>3. SafeInv => TypeOK /\ NoPanic /\ OpenIffLinked /\ EndsDrained
  BY SafeInvImplies
<1> QED
  BY <1>1, <1>2, <1>3, PTL DEF Spec

\* For every value of the constants, the dictionary, the channels and the
\* handlers of Assemble and FinishAll stay within their types: no channel is
\* filled over its capacity.
THEOREM AssemblerTypeCorrect == Spec => []TypeOK
  BY AssemblerSafety, PTL

\* No channel is closed twice and nothing is sent on a closed one, whatever
\* the order of packets, flushes and the final FinishAll.
THEOREM AssemblerNoPanic == Spec => []NoPanic
  BY AssemblerSafety, PTL

\* A handler that recognised its protocol ends only when both of its streams
\* are closed and drained, so the assembler never waits for it in vain.
THEOREM AssemblerEndsDrained == Spec => []EndsDrained
  BY AssemblerSafety, PTL

=============================================================================
