----------------------------- MODULE DubboBody -----------------------------
(***************************************************************************)
(* How the Dubbo parser finds out what a request is: the names in its      *)
(* body.                                                                   *)
(*                                                                         *)
(* A body is a sequence of atoms: words, which stand for their characters, *)
(* and single bytes.  Of a word the parser only asks for its length, its   *)
(* first character and what characters there are in it.  Names are         *)
(* sequences of atoms; with "cut" the first character is missing.          *)
(***************************************************************************)
EXTENDS Integers, Sequences, DubboHeaders

IsRealHeartbeat(h) == h.isRequest /\ h.event /\ h.length <= HeartbeatLimit

-----------------------------------------------------------------------------
Atom(name, len, first, dotted, numeric, wordy, package) ==
    [name |-> name, len |-> len, first |-> first, dotted |-> dotted, numeric |-> numeric,
     wordy |-> wordy, package |-> package]

LowerCase == 97 .. 122
UpperCase == 65 .. 90
Digits == 48 .. 57
Dot == 46
Underscore == 95
Dollar == 36
SlashByte == 47
Letters == LowerCase \cup UpperCase
ReadableBytes == Letters \cup Digits \cup {Dot, Underscore, SlashByte, Dollar}

OneByte(b) ==
    Atom("", 1, b, b = Dot, b \in Digits \cup {Dot},
         b \in Letters \cup Digits \cup {Underscore, Dollar}, FALSE)
Readable1(a) == a.name # "" \/ a.first \in ReadableBytes

RECURSIVE Length(_)
Length(s) == IF s = <<>> THEN 0 ELSE Head(s).len + Length(Tail(s))

ContainsDot(s) == \E i \in 1 .. Len(s) : s[i].dotted
IsNumericDotOnly(s) == s # <<>> /\ \A i \in 1 .. Len(s) : s[i].numeric
IsJavaMethodName(s) ==
    /\ Length(s) \in 2 .. 64
    /\ s[1].first \in LowerCase \cup {Underscore, Dollar}
    /\ \A i \in 1 .. Len(s) : s[i].wordy
LooksLikeMethodOrParam(s) == Length(s) < 2 \/ s[1].first \in LowerCase \cup {40, 91, 76}

\* The runs of readable characters that are at least minLen long.
ExtractReadableStrings(body, minLen) ==
    LET ends == {r \in (1 .. Len(body)) \X (1 .. Len(body)) :
                    /\ r[1] <= r[2]
                    /\ \A i \in r[1] .. r[2] : Readable1(body[i])
                    /\ r[1] = 1 \/ ~Readable1(body[r[1] - 1])
                    /\ r[2] = Len(body) \/ ~Readable1(body[r[2] + 1])
                    /\ Length(SubSeq(body, r[1], r[2])) >= minLen}
        RECURSIVE InOrder(_)
        InOrder(R) ==
            IF R = {} THEN <<>>
            ELSE LET r == CHOOSE r \in R : \A q \in R : r[1] <= q[1] IN
                 <<SubSeq(body, r[1], r[2])>> \o InOrder(R \ {r}) IN
    InOrder(ends)

\* The first of the strings that satisfies a condition, none if there is none.
FirstWhere(strs, P(_)) ==
    LET found == {i \in 1 .. Len(strs) : P(strs[i])} IN
    IF found = {} THEN <<>> ELSE strs[CHOOSE i \in found : \A j \in found : i <= j]

NoNames == [service |-> <<>>, version |-> <<>>, method |-> <<>>, types |-> <<>>,
            cut |-> FALSE, argStart |-> 0, label |-> ""]

FirstLetter(s) ==
    CHOOSE i \in 1 .. Len(s) + 1 :
        /\ i <= Len(s) => s[i].first \in Letters /\ (i > 1 \/ s[i].len > 1)
        /\ \A j \in 1 .. i - 1 : s[j].first \notin Letters \/ (j = 1 /\ s[j].len = 1)

\* Fault: the well-known packages are not looked for.
CleanClassNameAnywhere(names) ==
    LET s == names.service
        start == FirstLetter(s)
        rest == SubSeq(s, start, Len(s)) IN
    IF IsNumericDotOnly(s) THEN [names EXCEPT !.service = <<>>]
    ELSE IF ContainsDot(rest) /\ Length(rest) > 10
    THEN [names EXCEPT !.service = rest, !.cut = start = 1]
    ELSE names

\* cleanClassName: what begins with a well-known package or, for other names,
\* what begins at the first letter, which is never looked for at the very
\* beginning.
CleanClassName(names) ==
    LET s == names.service
        packaged == {i \in 1 .. Len(s) : s[i].package}
        start == FirstLetter(s)
        rest == SubSeq(s, start, Len(s))
        left == Length(rest) - (IF start = 1 THEN 1 ELSE 0) IN
    IF IsNumericDotOnly(s) THEN [names EXCEPT !.service = <<>>]
    ELSE IF packaged # {}
    THEN [names EXCEPT !.service = SubSeq(s, CHOOSE i \in packaged : \A j \in packaged : i <= j, Len(s))]
    ELSE IF ContainsDot(rest) /\ left >= 10
    THEN [names EXCEPT !.service = rest, !.cut = start = 1]
    ELSE names

\* cleanMethodName: one trailing digit byte behind a word goes.
CleanMethodName(names) ==
    LET m == names.method IN
    IF Len(m) > 1 /\ m[Len(m)].first \in Digits /\ m[Len(m) - 1].name # ""
    THEN [names EXCEPT !.method = SubSeq(m, 1, Len(m) - 1)] ELSE names

-----------------------------------------------------------------------------
\* The last of the atoms from p on that make up length characters.
LastAtom(body, p, length) ==
    CHOOSE e \in p - 1 .. Len(body) : Length(SubSeq(body, p, e)) = length

IsReadableString(s) == \A i \in 1 .. Len(s) : s[i].name # "" \/ s[i].first \in 32 .. 126

\* Strings with two bytes of length, up to eight of them: they end with an
\* empty one or with what is no length, such as the start of a Java stream.
\* Only readable ones count, and the end is that of the last of them.
RECURSIVE ReadUTFs(_, _, _)
WithString(str, next, rest) ==
    IF ~IsReadableString(str) THEN rest
    ELSE [strs |-> <<str>> \o rest.strs,
          end |-> IF rest.strs = <<>> THEN next ELSE rest.end]
ReadUTFs(body, p, n) ==
    LET length == body[p].first * 256 + body[p + 1].first
        left == Length(SubSeq(body, p + 2, Len(body))) IN
    IF n = 0 \/ p + 1 > Len(body) THEN [strs |-> <<>>, end |-> p]
    ELSE IF length = 0 \/ length > 10000 \/ length > left THEN [strs |-> <<>>, end |-> p]
    ELSE LET last == LastAtom(body, p + 2, length)
             str == SubSeq(body, p + 2, last)
             rest == ReadUTFs(body, last + 1, n - 1) IN
         WithString(str, last + 1, rest)

\* The first place from p on that may be the start of a Java stream, 0 if
\* there is none: the magic number and version, or an "s", the tag of objects.
StreamMagic == <<172, 237, 0, 5>>
TcObject == 115
HasS(a) == a.first = TcObject \/ a.name \in {"service", "sayHello"}
ScanForStream(body, p) ==
    LET starts == {i \in p .. Len(body) - 1 :
                      \/ HasS(body[i])
                      \/ i + 3 <= Len(body) /\ \A k \in 1 .. 4 : body[i + k - 1].first = StreamMagic[k]} IN
    IF starts = {} THEN 0 ELSE CHOOSE i \in starts : \A j \in starts : i <= j

TypeMarks == {40, 59}
MethodOr(s) == IF IsJavaMethodName(s) THEN s ELSE <<>>
At(strs, i) == IF i <= Len(strs) THEN strs[i] ELSE <<>>

\* The strings are the versions of Dubbo, the service, its version, the method
\* and the types of the parameters, perhaps with one more in front.  If the
\* method is none it is looked for before the types.
NamesAmong(body, read) ==
    LET strs == read.strs
        shift == CASE IsNumericDotOnly(At(strs, 2)) -> IF Len(strs) >= 5 THEN 1 ELSE 2
                   [] ~IsNumericDotOnly(At(strs, 2)) /\ ContainsDot(At(strs, 2)) -> 0
                   [] OTHER -> 1
        named == shift < 2 /\ Len(strs) >= 4 /\ ContainsDot(At(strs, 2 + shift))
        method == IF named THEN MethodOr(At(strs, 4 + shift)) ELSE <<>>
        service == IF named THEN At(strs, 2 + shift) ELSE <<>>
        version == IF named THEN At(strs, 3 + shift) ELSE <<>>
        types == {i \in 1 .. Len(strs) : \E k \in 1 .. Len(strs[i]) : strs[i][k].first \in TypeMarks}
        before == {i \in 1 .. Len(strs) : \A j \in types : i < j}
        candidate(s) ==
            IsJavaMethodName(s) /\ s # service /\ s # version /\ \E i \in before : strs[i] = s IN
    [NoNames EXCEPT
        !.argStart = ScanForStream(body, read.end),
        !.service = service,
        !.version = version,
        !.method = IF method = <<>> /\ Len(strs) >= 4 THEN FirstWhere(strs, candidate) ELSE method,
        !.types = IF Len(strs) >= 5 THEN strs[Len(strs)] ELSE <<>>]
ParseCompactedJavaDirect(body) ==
    IF Len(body) < 2 THEN NoNames ELSE NamesAmong(body, ReadUTFs(body, 1, 8))

\* The longest name with a dot that does not begin with a small letter or,
\* without one, the first of eight characters.  Looking for the method in
\* front of the attachments first makes no difference.
LongestName(strs) ==
    LET fit(s) == ContainsDot(s) /\ ~LooksLikeMethodOrParam(s)
        longest(s) == fit(s) /\ \A i \in 1 .. Len(strs) : fit(strs[i]) => Length(strs[i]) <= Length(s) IN
    FirstWhere(strs, longest)
FirstLong(strs) == LET long(s) == Length(s) >= 8 IN FirstWhere(strs, long)
OneOf(s, t) == IF s # <<>> THEN s ELSE t
WithMethod(names, strs, service) ==
    LET candidate(s) == IsJavaMethodName(s) /\ s # service IN
    [names EXCEPT !.service = service, !.method = OneOf(@, FirstWhere(strs, candidate))]
NamesIn(strs, names) == WithMethod(names, strs, OneOf(LongestName(strs), FirstLong(strs)))
ParseCompactedJavaBody(body, names) == NamesIn(ExtractReadableStrings(body, 5), names)

DottedNameIn(strs, names) ==
    WithMethod(names, strs, OneOf(names.service, FirstWhere(strs, ContainsDot)))
ParseGenericBody(body, names) == DottedNameIn(ExtractReadableStrings(body, 4), names)

TooLong == 16777216    \* 2^24

\* readHessian2String: a tag that is the length, or one that says how many
\* bytes the length has.  What lies inside a word is only read as a tag: all
\* lengths that its characters make are too long, and so are those of 2^24 and
\* more.
ReadHessian2String(body, p) ==
    LET tag == body[p].first
        text(size, length) ==
            IF body[p].name # "" \/ length > Length(SubSeq(body, p + 1 + size, Len(body)))
            THEN [str |-> <<>>, next |-> 0]
            ELSE LET last == LastAtom(body, p + 1 + size, length) IN
                 [str |-> SubSeq(body, p + 1 + size, last), next |-> last + 1] IN
    CASE tag <= 31 -> text(0, tag)
      [] tag = 48 /\ p < Len(body) -> text(1, body[p + 1].first)
      [] tag = 49 /\ p + 1 < Len(body) -> text(2, body[p + 1].first * 256 + body[p + 2].first)
      [] tag \in {50, 51} /\ p + 3 < Len(body) ->
           text(4, IF body[p + 1].first > 0 THEN TooLong
                   ELSE (body[p + 2].first * 256 + body[p + 3].first) * 256 + body[p + 4].first)
      [] OTHER -> [str |-> <<>>, next |-> 0]

RECURSIVE ReadHessianStrings(_, _, _)
WithHessianString(s, body, n) ==
    IF s.next = 0 THEN <<>> ELSE <<s.str>> \o ReadHessianStrings(body, s.next, n - 1)
ReadHessianStrings(body, p, n) ==
    IF n = 0 \/ p > Len(body) THEN <<>>
    ELSE WithHessianString(ReadHessian2String(body, p), body, n)

\* The first byte is taken for the version of Hessian.
Metadata(strs) ==
    IF Len(strs) < 4 THEN NoNames
    ELSE [NoNames EXCEPT !.service = strs[2], !.version = strs[3], !.method = strs[4],
                         !.types = At(strs, 5)]
ParseRequestMetadata(body) == Metadata(ReadHessianStrings(body, 2, 6))

Hessian2 == 0
CompactedJava == 2
Hessian1 == 5

Empty(names) == names.service = <<>> /\ names.method = <<>>

\* Compacted Java is scanned when its strings give no name.
DirectOrScanned(body, names) ==
    IF Empty(names) THEN ParseCompactedJavaBody(body, names) ELSE names

ParsedByType(serialization, body) ==
    CASE serialization = CompactedJava -> DirectOrScanned(body, ParseCompactedJavaDirect(body))
      [] serialization \in {Hessian2, Hessian1} -> ParseRequestMetadata(body)
      [] OTHER -> ParseGenericBody(body, NoNames)

Fallback(body, names) ==
    IF Empty(names) /\ Length(body) > 2 THEN ParseGenericBody(body, names) ELSE names

\* With nothing but numbers for a name, compacted Java is scanned once more.
Rescanned(serialization, body, names) ==
    IF serialization = CompactedJava /\ names.service = <<>>
    THEN ParseCompactedJavaBody(body, names) ELSE names

Labelled(h, names) ==
    [names EXCEPT !.label = IF ~h.event \/ names.method # <<>> THEN ""
                            ELSE IF IsRealHeartbeat(h) THEN "heartbeat" ELSE "(event)"]

\* ParseDubboBody of a request.
ParseDubboBody(h, body) ==
    Labelled(h,
        Rescanned(h.serialization, body,
            CleanMethodName(CleanClassName(
                Fallback(body, ParsedByType(h.serialization, body))))))

-----------------------------------------------------------------------------
(***************************************************************************)
(* Requests.  The strings of a request are sent with two bytes of length   *)
(* ("utf"), or in Hessian, with or without a version of Hessian in front.  *)
(***************************************************************************)
Bytes(s) == [i \in 1 .. Len(s) |-> OneByte(s[i])]

DubboVersion == <<Atom("2.0.2", 5, 50, TRUE, TRUE, FALSE, FALSE)>>
ServiceVersion == <<Atom("1.0.0", 5, 49, TRUE, TRUE, FALSE, FALSE)>>
\* A name in a well-known package, or in another one.
ServiceName(len, package) == <<Atom("service", len, 99, TRUE, FALSE, FALSE, package)>>
SayHello == <<Atom("sayHello", 8, 115, FALSE, FALSE, TRUE, FALSE)>>
ParamTypes == <<Atom("types", 17, 76, FALSE, FALSE, FALSE, FALSE), OneByte(59)>>

Utf(s) == Bytes(<<Length(s) \div 256, Length(s) % 256>>) \o s
HessianString(s) == Bytes(IF Length(s) < 32 THEN <<Length(s)>> ELSE <<48, Length(s)>>) \o s

StringsOf(strs, utf) ==
    LET enc(s) == IF utf THEN Utf(s) ELSE HessianString(s) IN
    enc(strs[1]) \o enc(strs[2]) \o enc(strs[3]) \o enc(strs[4]) \o enc(strs[5])

\* The argument is an object, or in Hessian a string; an empty map of
\* attachments follows.
World == <<Atom("world", 5, 119, FALSE, FALSE, TRUE, FALSE)>>
JavaArguments ==
    Bytes(StreamMagic \o <<115, 114, 0, 15>>)
    \o <<Atom("argument", 15, 99, TRUE, FALSE, FALSE, TRUE)>> \o Bytes(<<0, 1, 120, 112>>)

BodyOfCall(c) ==
    LET strs == <<DubboVersion, c.service, c.version, c.method, c.types>>
        arguments == IF c.types = <<>> THEN <<>> ELSE HessianString(World) IN
    CASE c.encoding = "utf" -> StringsOf(strs, TRUE) \o JavaArguments
      [] c.encoding = "hessian" -> StringsOf(strs, FALSE) \o arguments \o Bytes(<<72, 90>>)
      [] c.encoding = "versioned" -> Bytes(<<2>>) \o StringsOf(strs, FALSE) \o arguments \o Bytes(<<72, 90>>)

\* The strings are found one by one.
Structured(c) ==
    \/ c.encoding = "utf" /\ c.version # <<>>
    \/ c.encoding = "versioned" /\ c.serialization \in {Hessian2, Hessian1}

\* Whether the right service is shown.  Among the strings, its first letter is
\* lost unless the package is well known.  In a scan of the body the version
\* of Dubbo comes first and is taken for the name, unless the name, together
\* with the byte of its length, is longer or goes with the version.
ServiceShown(c) ==
    LET len == Length(c.service)
        package == c.service[1].package IN
    CASE Structured(c) -> package
      [] ~Structured(c) /\ c.encoding = "utf" -> len \in ReadableBytes \ (LowerCase \cup {76})
      [] ~Structured(c) /\ c.encoding # "utf" ->
           len >= 32 /\ len \in ReadableBytes /\ (package \/ len \notin Letters)

=============================================================================
