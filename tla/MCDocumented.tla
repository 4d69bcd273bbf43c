---------------------------- MODULE MCDocumented ----------------------------
(***************************************************************************)
(* One input for each claim of Documented.                                 *)
(***************************************************************************)
EXTENDS Documented

Trial(claim, function, in) == [claim |-> claim, call |-> function, input |-> in]

\* tcpshow -i eth0 redis -k 'user:*'
UsageExample ==
    [global |-> <<[name |-> "i", value |-> 7, joined |-> FALSE]>>, protocol |-> "redis",
     proto |-> <<[name |-> "k", value |-> 8, joined |-> FALSE]>>]

\* Two objects of different classes with the same string in a field.
SameString ==
    LET object(class, field) ==
            Object(Class(class, TRUE, <<Field("L", field)>>, NoSuper),
                   [c \in {class} |-> <<Str("x")>>], [c \in {class} |-> <<>>]) IN
    [prefix |-> <<>>, args |-> <<object("A", "a"), object("B", "b")>>]

Request(encoding, len) ==
    [encoding |-> encoding, serialization |-> CompactedJava, service |-> ServiceName(len, FALSE),
     version |-> ServiceVersion, method |-> SayHello, types |-> ParamTypes]

\* { old: Symbol("a"), n: 5 }
WithSymbol == <<Element(<<111, 108, 100>>, 14, <<97>>), Element(<<110>>, 16, <<5, 0, 0, 0>>)>>

\* An insert whose documents come before the command.
Insert ==
    [opcode |-> "OP_MSG",
     first |-> [kind |-> 1, id |-> <<100, 111, 99, 115>>, doc |-> <<Element(<<97>>, 10, <<>>)>>],
     rest |-> <<[kind |-> 0, id |-> <<>>, doc |-> <<Element(<<105, 110, 115>>, 2, <<116>>)>>]>>]

NativePassword ==
    [kind |-> "greeting", version |-> <<53, 46, 55>>,
     between |-> [i \in 1 .. 44 |-> i % 4], plugin |-> <<110, 97, 116>>, terminated |-> TRUE]

AllTrials ==
    <<Trial("usage", "main", UsageExample),
      Trial("wildcard", "WildcardMatch",
            [str |-> <<"H", "G", "E", "T">>, pattern |-> <<"G", "E", "T", Any>>]),
      Trial("order", "detect", RedisHead(10)),
      Trial("recognised", "detect", MongoHead(256, 1)),
      Trial("frames", "triple", [frames |-> <<HeadersFrame(1, 3, TRUE)>>, cuts |-> {10}]),
      Trial("references", "javaArgs", SameString),
      Trial("entries", "javaMap", [entries |-> <<<<Str("path"), Str("v")>>>>, inline |-> FALSE]),
      Trial("hessian2", "dubboBody", Request("hessian", 20)),
      Trial("garbage", "dubboBody", Request("utf", 20)),
      Trial("skipped", "bson", WithSymbol),
      Trial("bodySection", "mongo", Insert),
      Trial("eof", "mysql", [kind |-> "eof"]),
      Trial("plugin", "mysql", NativePassword),
      Trial("complete", "read",
            [format |-> "mysql", message |-> [kind |-> "plain", body |-> 16777215]]),
      Trial("body", "read", [format |-> "http", message |-> [kind |-> "headers", body |-> 5]])>>

=============================================================================
