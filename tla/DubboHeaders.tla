---------------------------- MODULE DubboHeaders ----------------------------
(***************************************************************************)
(* The flags in the header of a Dubbo message, for which there are two     *)
(* layouts.                                                                *)
(***************************************************************************)
EXTENDS Integers

AlibabaTwoway == 32
AlibabaEvent == 64
ApacheTwoway == 64
ApacheEvent == 32
SetIn(flag, mask) == (flag \div mask) % 2 = 1

\* ParseDubboHeader: a status of 0 makes a request, and the flags are read in
\* the layout of Alibaba's Dubbo.
ParseDubboHeader(flag, status, length) ==
    [serialization |-> flag % 32, isRequest |-> status = 0, length |-> length,
     twoway |-> SetIn(flag, AlibabaTwoway), event |-> SetIn(flag, AlibabaEvent)]

HeartbeatLimit == 50
LargeBody == 200

\* Fault: the length of the body is not looked at.
FixupFlagsAlways(h, flag) ==
    LET apache == [h EXCEPT !.twoway = SetIn(flag, ApacheTwoway), !.event = SetIn(flag, ApacheEvent)] IN
    IF h.isRequest /\ ~(h.twoway /\ ~h.event) /\ apache.twoway THEN apache ELSE h

\* Whether the flags are those of Apache's Dubbo, where the two are swapped.
FixupFlags(h, flag) ==
    LET apache == [h EXCEPT !.twoway = SetIn(flag, ApacheTwoway), !.event = SetIn(flag, ApacheEvent)] IN
    IF \/ ~h.isRequest
       \/ h.length <= HeartbeatLimit
       \/ h.twoway /\ ~h.event
    THEN h
    ELSE IF apache.twoway /\ ~apache.event THEN apache
    ELSE IF h.length > LargeBody /\ apache.twoway /\ ~h.twoway THEN apache
    ELSE h

\* The flags of a request in the two layouts.
FlagOf(r) ==
    LET twoway == IF r.apache THEN ApacheTwoway ELSE AlibabaTwoway
        event == IF r.apache THEN ApacheEvent ELSE AlibabaEvent IN
    (IF r.twoway THEN twoway ELSE 0) + (IF r.event THEN event ELSE 0)

DubboHeader(r) == ParseDubboHeader(FlagOf(r), r.status, r.length)

=============================================================================
