---------------------------- MODULE CommandLine ----------------------------
(***************************************************************************)
(* How main reads its arguments: global flags, the protocol, the flags of  *)
(* the protocol.  An argument is a word, or a flag with or without a value *)
(* behind an equals sign.  The texts of values are numbers, as only their  *)
(* identity matters; that of -port is the port.                            *)
(***************************************************************************)
EXTENDS Integers, Sequences

NoValue == -1

Flag(name) == [dash |-> TRUE, name |-> name, value |-> NoValue]
FlagWith(name, value) == [dash |-> TRUE, name |-> name, value |-> value]
Protocol(name) == [dash |-> FALSE, name |-> name, value |-> 0]
Word(value) == [dash |-> FALSE, name |-> "", value |-> value]

\* The protocols, with the field of ProtoConfig that each flag sets.
Subcommands ==
    LET cost == [C |-> "cost", cost |-> "cost"] IN
    [dubbo |->
        [aliases |-> {"d"},
         flags |-> [s |-> "service", service |-> "service", m |-> "method",
                    method |-> "method", b |-> "body", body |-> "body",
                    C |-> "cost", cost |-> "cost"]],
     redis |->
        [aliases |-> {"r"},
         flags |-> [k |-> "key", key |-> "key", c |-> "command",
                    cmd |-> "command", C |-> "cost", cost |-> "cost"]],
     mysql |->
        [aliases |-> {"m"},
         flags |-> [c |-> "command", cmd |-> "command", q |-> "query",
                    query |-> "query", C |-> "cost", cost |-> "cost"]],
     mongo |->
        [aliases |-> {},
         flags |-> [opcode |-> "code", C |-> "cost", cost |-> "cost"]],
     rocketmq |->
        [aliases |-> {"rmq"},
         flags |-> [code |-> "code", C |-> "cost", cost |-> "cost"]],
     http      |-> [aliases |-> {}, flags |-> cost],
     websocket |-> [aliases |-> {"ws"}, flags |-> cost],
     zookeeper |-> [aliases |-> {"zk"}, flags |-> cost],
     nacos     |-> [aliases |-> {}, flags |-> cost]]

GlobalFlags ==
    [i |-> "interface", ip |-> "ip", port |-> "port", o |-> "output",
     l |-> "level", r |-> "file", h |-> "help"]

\* The flags without a value.
Switches == {"body", "help"}

Has(args, names) == \E i \in 1 .. Len(args) : args[i].dash /\ args[i].name \in names

HelpFlags == {"h", "help"}

\* Fault: help is not looked for in front of the protocol.
FindSubcommandNoHelp(args) ==
    CHOOSE i \in 1 .. Len(args) + 1 :
        /\ i <= Len(args) => ~args[i].dash
        /\ \A k \in 1 .. i - 1 : args[k].dash

\* The place of the first argument that is not a flag, one past the end if
\* there is none, or 0 if help is asked for before it.
FindSubcommand(args) ==
    LET stop == CHOOSE i \in 1 .. Len(args) + 1 :
                    /\ i <= Len(args) => ~args[i].dash \/ args[i].name \in HelpFlags
                    /\ \A k \in 1 .. i - 1 :
                          args[k].dash /\ args[k].name \notin HelpFlags IN
    IF stop <= Len(args) /\ args[stop].dash THEN 0 ELSE stop

NoProtocol == "none"

SubcommandByName(name) ==
    LET named == {p \in DOMAIN Subcommands :
                    name = p \/ name \in Subcommands[p].aliases} IN
    IF named = {} THEN NoProtocol ELSE CHOOSE p \in named : TRUE

\* What the flag package makes of a list of arguments: the fields set, up to
\* the first word; a flag without a value takes the next argument for it.
FlagText == 0
FieldsOf(flags) == {flags[f] : f \in DOMAIN flags}
Unset(flags) == [f \in FieldsOf(flags) |-> NoValue]
ParseError == [x \in {} |-> 0]

RECURSIVE ParseFlags(_, _, _)
ParseFlags(args, flags, got) ==
    IF args = <<>> \/ ~Head(args).dash THEN got
    ELSE LET a == Head(args)
             Set(v) == [got EXCEPT ![flags[a.name]] = v] IN
         IF a.name \notin DOMAIN flags THEN ParseError
         ELSE IF flags[a.name] \in Switches
              THEN ParseFlags(Tail(args), flags, Set(1))
         ELSE IF a.value # NoValue
              THEN ParseFlags(Tail(args), flags, Set(a.value))
         ELSE IF Len(args) = 1 THEN ParseError
         ELSE ParseFlags(Tail(Tail(args)), flags,
                         Set(IF args[2].dash THEN FlagText ELSE args[2].value))

Ends(how) == [end |-> how]

Runs(protocol, global, proto) ==
    [end |-> "run", protocol |-> protocol, global |-> global, proto |-> proto]

\* The port is cut to 16 bits.
PortModulus == 65536
CutPort(global) == [global EXCEPT !["port"] = IF @ = NoValue THEN 0 ELSE @ % PortModulus]

\* What main does with its arguments before it opens the capture.
Main(args) ==
    LET sub == FindSubcommand(args)
        globalArgs == SubSeq(args, 1, sub - 1)
        protoArgs == SubSeq(args, sub + 1, Len(args))
        global == ParseFlags(globalArgs, GlobalFlags, Unset(GlobalFlags))
        sc == SubcommandByName(args[sub].name)
        flags == Subcommands[sc].flags
        proto == ParseFlags(protoArgs, flags, Unset(flags)) IN
    IF Has(args, {"v", "version"}) THEN Ends("version")
    ELSE IF sub = 0 THEN Ends("globalHelp")
    ELSE IF Has(args, {"all"}) THEN Ends("allHelp")
    ELSE IF global = ParseError THEN Ends("flagError")
    ELSE IF sub > Len(args) THEN Runs("auto", CutPort(global), ParseError)
    ELSE IF sc = NoProtocol THEN Ends("unknownProtocol")
    ELSE IF Has(protoArgs, HelpFlags) THEN Ends("protoHelp")
    ELSE IF proto = ParseError THEN Ends("flagError")
    ELSE Runs(sc, CutPort(global), proto)

-----------------------------------------------------------------------------
(***************************************************************************)
(* What a user asks for: options with values, each written as one argument *)
(* or as two, around the name of a protocol.                               *)
(***************************************************************************)
Written(o) ==
    IF o.value = NoValue THEN <<Flag(o.name)>>
    ELSE IF o.joined THEN <<FlagWith(o.name, o.value)>>
    ELSE <<Flag(o.name), Word(o.value)>>

RECURSIVE WrittenAll(_)
WrittenAll(os) == IF os = <<>> THEN <<>> ELSE Written(Head(os)) \o WrittenAll(Tail(os))

Arguments(wish) ==
    WrittenAll(wish.global) \o
    (IF wish.protocol = "auto" THEN <<>>
     ELSE <<Protocol(wish.protocol)>> \o WrittenAll(wish.proto))

\* The last of the options for a field sets it.
Wanted(os, flags) ==
    [f \in FieldsOf(flags) |->
        LET of == {i \in 1 .. Len(os) : os[i].name \in DOMAIN flags /\ flags[os[i].name] = f} IN
        IF of = {} THEN NoValue
        ELSE LET o == os[CHOOSE i \in of : \A j \in of : j <= i] IN
             IF f \in Switches THEN 1 ELSE o.value]

Asks(os, names) == \E i \in 1 .. Len(os) : os[i].name \in names

\* What the usage text promises for it.
Promised(wish) ==
    LET sc == SubcommandByName(wish.protocol)
        global == Wanted(wish.global, GlobalFlags) IN
    IF Asks(wish.global \o wish.proto, {"v"}) THEN Ends("version")
    ELSE IF Asks(wish.global, HelpFlags) THEN Ends("globalHelp")
    ELSE IF Asks(wish.proto, HelpFlags) THEN Ends("protoHelp")
    ELSE IF wish.protocol = "auto"
         THEN Runs("auto", [global EXCEPT !["port"] = IF @ = NoValue THEN 0 ELSE @], ParseError)
    ELSE Runs(sc, [global EXCEPT !["port"] = IF @ = NoValue THEN 0 ELSE @],
              Wanted(wish.proto, Subcommands[sc].flags))

\* The command lines that main misreads: a global flag with its value as a
\* word of its own, which is taken for the protocol (unless version or, before
\* it, help is asked for), or a port beyond 16 bits.
Misread(wish) ==
    \/ /\ ~Asks(wish.global \o wish.proto, {"v"})
       /\ \E i \in 1 .. Len(wish.global) :
             /\ ~wish.global[i].joined
             /\ ~Asks(SubSeq(wish.global, 1, i - 1), HelpFlags)
    \/ /\ Promised(wish).end = "run"
       /\ Promised(wish).global["port"] >= PortModulus

=============================================================================
