----------------------------- MODULE MCParsing -----------------------------
(***************************************************************************)
(* The inputs of Parsing for TLC.                                          *)
(***************************************************************************)
EXTENDS Parsing

SeqsUpTo(S, n) == UNION {[1 .. k -> S] : k \in 0 .. n}

ShortTexts == SeqsUpTo({"a", "b"}, 4)
ShortPatterns == SeqsUpTo({"a", "b", Any, One}, 4)

\* Two adjacent numbers would be one.
CostTexts ==
    {f \in SeqsUpTo({Plus, Minus, Space, 1, 3}, 4) :
        \A i \in 1 .. Len(f) - 1 : f[i] < 0 \/ f[i + 1] < 0}
SmallTimes == 0 .. 4

Option(name, value, joined) == [name |-> name, value |-> value, joined |-> joined]
Switch(name) == Option(name, NoValue, TRUE)

GlobalOptions ==
    {Option(n, 7, j) : n \in {"i", "r"}, j \in BOOLEAN}
    \cup {Option("port", n, TRUE) : n \in {80, 65535, 65536}}
    \cup {Switch("h"), Switch("v")}
RedisOptions ==
    {Option(n, 8, j) : n \in {"k", "key", "C"}, j \in BOOLEAN} \cup {Switch("help")}
DubboOptions == {Option("service", 9, FALSE), Switch("b")}

SomeWishes ==
    LET wishes(protocols, options) ==
            [global : SeqsUpTo(GlobalOptions, 2), protocol : protocols,
             proto : SeqsUpTo(options, 2)] IN
    wishes({"auto"}, {}) \cup wishes({"redis", "r"}, RedisOptions)
    \cup wishes({"d", "dubbo"}, DubboOptions)

SomeHeads ==
    {DubboHead(n) : n \in {16, 80}}
    \cup {TripleHead(n) : n \in {2, 8, 14, 23, 24, 80}}
    \cup {RocketMQHead(n, m) : n \in {2, 11, 12, 13, 60, 300}, m \in {0, 4, 40, 70000}}
    \cup {MongoHead(n, id) : n \in {16, 60, 255, 256, 260, 262, 263, 48090, 70000}, id \in {1, 1000, 4 * 16777216, 16 * 16777216, 17 * 16777216}}
    \cup {MySQLHead(n, 0, b) : n \in {1, 5, 6, 7, 20, 21, 256, 300, 48090}, b \in {1, 3, 14, 40, 250, 251, 252, 253, 254}}
    \cup {MySQLHead(n, 1, b) : n \in 32 .. 48 \cup {262, 263}, b \in {5, 133, 141, 252}}
    \cup {RedisHead(n) : n \in {1, 3, 9, 10, 25}}
    \cup {ZooKeeperHead(n, x, t) : n \in {12, 20, 24, 25, 80, 255, 256, 70000},
                                   x \in {0, 1, 3, 4, 12, 16, 17, 100}, t \in {1, 11, 14}}
    \cup {WebSocketHead(o, n, m) : o \in {1, 2, 8, 9}, n \in {0, 5, 125}, m \in {0, 1, 31, 32, 255}}
    \cup {HTTPHead(l, n, Never, Never) : l \in MethodLetters, n \in {3, 4, 6, 7}}
    \cup {HTTPHead(l, n, p, Never) : l \in {71, 80, 68}, n \in {3, 6}, p \in {12, 24, 25}}
    \cup {HTTPHead(71, 3, Never, 60), HTTPResponseHead}

SomeFrames ==
    {HeadersFrame(s, n, TRUE) : s \in {1, 3}, n \in {3, LenBase}}
    \cup {HeadersFrame(1, 3, FALSE), SettingsFrame(1), SettingsFrame(4),
          DataFrame(1, 4), DataFrame(3, 1), EndFrame(1), EndFrame(3)}
ThreeFrames == [1 .. 3 -> SomeFrames]
FewCuts == {{}, {10}, {14}, {21}, {24, 30}}

Ints == {Prim("1"), Prim(BlockLike)}
OneClass(name, write, fields, values, extra) ==
    Object(Class(name, write, fields, NoSuper), [c \in {name} |-> values], [c \in {name} |-> extra])
Inner ==
    {OneClass("B", TRUE, <<Field("J", "b")>>, <<v>>, x) : v \in Ints, x \in {<<>>, <<[block |-> 0]>>}}
Extras == {<<>>, <<[block |-> 0]>>, <<[block |-> 0], [block |-> 0]>>, <<[block |-> 0], Str("x")>>}
Pairs ==
    {OneClass("Q", TRUE, <<Field("L", "o"), Field("[", "q")>>, <<o, Nil>>, x) :
        o \in Inner, x \in Extras}
Simple ==
    {OneClass("A", TRUE, <<Field("I", "a"), Field("L", "o")>>, <<v, o>>, x) :
        v \in Ints, o \in {Nil, Str("x"), List(<<Str("x")>>), [enum |-> "ON"]} \cup Inner, x \in Extras}
Plain == {OneClass("P", FALSE, <<Field("I", "p")>>, <<v>>, <<>>) : v \in Ints}
Custom ==
    {OneClass("N", TRUE, fields, <<>>, x) : fields \in {<<>>, <<Field("I", "n")>>}, x \in Extras}
Derived ==
    LET base(write, name) == Class("S", write, <<Field("I", name)>>, NoSuper)
        both(vs, ws) == [c \in {"D", "S"} |-> IF c = "S" THEN vs ELSE ws] IN
    {Object(Class("D", TRUE, <<Field("I", "d")>>, <<base(w, n)>>),
            both(<<Prim("1")>>, <<Prim("2")>>), both(<<>>, <<>>)) :
        w \in BOOLEAN, n \in {"s", "d"}}
SomeArgs ==
    LET all == Simple \cup Pairs \cup Plain \cup Custom \cup Derived \cup {Str("x"), Nil} IN
    {<<>>} \cup {<<a>> : a \in all} \cup {<<a, b>> : a \in all, b \in all}

SomeEntries == SeqsUpTo({Str(k) : k \in {"path", "group", "v"}} \X {Str("v"), Str("w"), Nil}, 2)

SomeHeaders ==
    [apache : BOOLEAN, twoway : BOOLEAN, event : BOOLEAN, status : {0, 20},
     length : {1, 50, 51, 200, 201}]

SomeCalls ==
    LET calls(encoding, serializations) ==
            [encoding : {encoding}, serialization : serializations,
             service : {ServiceName(n, p) : n \in 12 .. 130, p \in BOOLEAN},
             version : {<<>>, ServiceVersion},
             method : {SayHello, SayHello \o Bytes(<<49>>)}, types : {<<>>, ParamTypes}] IN
    calls("utf", {CompactedJava}) \cup calls("versioned", {Hessian2, Hessian1, CompactedJava})
    \cup calls("hessian", {Hessian2, CompactedJava, 4})

Filled(n) == [i \in 1 .. n |-> i]
SomeKeys == {<<>>, <<97>>, <<98, 99>>}
SomeElements ==
    {Element(k, t, Filled(8)) : k \in SomeKeys, t \in {1, 9, 17, 18}}
    \cup {Element(k, t[1], Filled(t[2])) : k \in SomeKeys, t \in {<<7, 12>>, <<16, 4>>, <<19, 16>>}}
    \cup {Element(k, 8, <<b>>) : k \in SomeKeys, b \in {0, 1}}
    \cup {Element(k, t, v) : k \in SomeKeys, t \in {2, 5, 13, 14}, v \in {<<>>, <<7>>, <<7, 2>>}}
    \cup {Element(k, 12, <<v, Filled(12)>>) : k \in SomeKeys, v \in {<<>>, <<7, 2>>}}
    \cup {Element(k, 11, <<p, o>>) : k \in SomeKeys, p \in {<<>>, <<16>>}, o \in {<<>>, <<105>>}}
    \cup {Element(k, 15, Filled(9)) : k \in SomeKeys}
    \cup {Element(k, t, <<>>) : k \in SomeKeys, t \in {6, 10, 127, 255}}
ArrayOf(es) == [i \in 1 .. Len(es) |-> [es[i] EXCEPT !.key = Index(i - 1)]]
Nested ==
    {Element(k, 3, <<e>>) : k \in SomeKeys, e \in SomeElements}
    \cup {Element(k, 4, ArrayOf(<<e, f>>)) : k \in {<<97>>}, e \in SomeElements,
             f \in {Element(<<97>>, 7, Filled(12)), Element(<<97>>, 3, <<Element(<<98>>, 8, <<1>>)>>)}}
SomeDocuments ==
    {<<>>} \cup {<<e>> : e \in SomeElements \cup Nested}
    \cup {<<e, f>> : e \in SomeElements \cup Nested, f \in SomeElements}

Commands ==
    {<<Element(<<102, 105>>, 2, <<111, 114>>), e>> : e \in SomeElements}
    \cup {<<Element(<<>>, 16, Filled(4))>>, <<Element(<<112>>, 7, Filled(12))>>}
FewDocuments == {<<Element(<<97>>, 2, Filled(n))>> : n \in {1, 220, 240, 250, 300}}
BodySection(doc) == [kind |-> 0, id |-> <<>>, doc |-> doc]
SomeMongoMessages ==
    LET name == <<116, 46, 117, 115>>
        sections == [kind : {1}, id : {<<100, 111, 99, 117, 109, 101, 110, 116, 115>>}, doc : FewDocuments] IN
    {[opcode |-> "OP_MSG", first |-> BodySection(d), rest |-> r] :
        d \in Commands, r \in {<<>>} \cup {<<s>> : s \in sections}}
    \cup {[opcode |-> "OP_MSG", first |-> s, rest |-> <<BodySection(d)>>] : s \in sections, d \in Commands}
    \cup {[opcode |-> "OP_QUERY", name |-> name, numbers |-> <<n, m>>, doc |-> d] :
             n \in {0, 5}, m \in {1, 70000}, d \in Commands}
    \cup {[opcode |-> "OP_REPLY", docs |-> ds] : ds \in {<<>>} \cup {<<d, e>> : d \in Commands, e \in FewDocuments}}
    \cup {[opcode |-> o, name |-> name, doc |-> d] : o \in {"OP_INSERT", "OP_COMMAND"}, d \in Commands}

TextOf(n) == [i \in 1 .. n |-> 98]
SomePackets ==
    {[kind |-> "greeting", version |-> TextOf(6), between |-> b, plugin |-> TextOf(n), terminated |-> t] :
        b \in {Filled(12) \o <<0>>, [i \in 1 .. 44 |-> i % 4]}, n \in {0, 1, 21}, t \in BOOLEAN}
    \cup {[kind |-> "ok", header |-> h, rows |-> r, id |-> i, status |-> s] :
             h \in {ResponseOK, ResponseEOF}, r \in {0, 250, 251, 65535, 65536}, i \in {0, 255, 70000},
             s \in {0, 2, 16386}}
    \cup {[kind |-> "error", code |-> c, state |-> s, text |-> TextOf(n)] :
             c \in {1045, 2000}, s \in {<<>>, TextOf(5)}, n \in {0, 30}}
    \cup {[kind |-> "columns", count |-> n] : n \in {1, 10, 250, 251, 4096, 4097, 9999, 10000, 65536}}
    \cup {[kind |-> "definition"], [kind |-> "eof"]}
    \cup {[kind |-> "row", null |-> n, column |-> TextOf(m)] : n \in BOOLEAN, m \in {0, 1, 9, 10, 11, 250, 251, 9999, 10000}}
    \cup {[kind |-> "command", command |-> c, text |-> TextOf(n)] :
             c \in {ComInitDB, ComQuery, ComStmtPrepare}, n \in {0, 9, 199, 200, 201}}
    \cup {[kind |-> "command", command |-> ComQuery, text |-> TextOf(n) \o Ellipsis] : n \in {199, 200}}
    \cup {[kind |-> "command", command |-> c, text |-> TextOf(n)] : c \in {1, 5}, n \in {0, 4}}
    \cup {[kind |-> "command", command |-> ComStmtExecute, text |-> Filled(n)] : n \in {4, 14}}
    \cup {[kind |-> "login", flags |-> f] : f \in {3, 5, 133, 141}}

=============================================================================
