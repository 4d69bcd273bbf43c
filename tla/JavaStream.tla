----------------------------- MODULE JavaStream -----------------------------
(***************************************************************************)
(* The deserializer of Java objects in Dubbo bodies, against streams as    *)
(* java.io.ObjectOutputStream writes them.                                 *)
(*                                                                         *)
(* A stream is a sequence of tokens: the tags of the protocol with what    *)
(* belongs to them, and the untagged parts (descriptions of fields, sizes, *)
(* primitive values).  A reader that meets an untagged part where it       *)
(* expects something else reads noise: it is "lost" and not followed.      *)
(* Every reader takes a state and returns the state after it and a value;  *)
(* in a state with an error no reader finds a token.                       *)
(***************************************************************************)
EXTENDS Integers, Sequences

\* Values; an object is the map of its fields.
Nil == [nil |-> 0]
Prim(v) == [prim |-> v]
Str(s) == [str |-> s]
Map(m) == [map |-> m]
List(s) == [list |-> s]
Desc(d) == [desc |-> d]
Is(kind, v) == kind \in DOMAIN v

\* The first handle of a stream is 0x7E0000.
BaseHandle == 8257536

Tag(t) == [tag |-> t]
Untagged == {"prim", "size", "field", "junk"}

Token(st) ==
    IF st.err = "" /\ st.pos <= Len(st.data) THEN st.data[st.pos] ELSE Tag("none")
Consume(st) == [st EXCEPT !.pos = @ + 1]
AddHandle(st, v) == [st EXCEPT !.handles = Append(@, v)]
Done(st, v) == [st |-> st, val |-> v]
\* The handle was reserved before the value was read.
Registered(st, handle, v) == Done([st EXCEPT !.handles[handle] = v], v)

\* An error, or noise if the token has no tag.
Fails(st) ==
    Done([st EXCEPT !.err = IF @ # "" THEN @
                            ELSE IF Token(st).tag \in Untagged THEN "lost" ELSE "error"], Nil)

Merged(a, b) ==
    [k \in DOMAIN a \cup DOMAIN b |-> IF k \in DOMAIN a THEN a[k] ELSE b[k]]
NoFields == [k \in {} |-> Nil]

\* A primitive value whose first byte is that of the tag of block data.
BlockLike == "0x77"
LooksLikeBlock(t) == t.tag \in {"block", "blockLong"} \/ (t.tag = "prim" /\ t.v = BlockLike)

PrimitiveTypes == {"B", "C", "D", "F", "I", "J", "S", "Z"}

RECURSIVE ReadContent(_), ReadClassDesc(_), ReadClassData(_, _, _),
          ReadFields(_, _, _), ReadValues(_, _, _), ReadElements(_, _, _, _),
          SkipObjectAnnotation(_)

\* The handle of a reference is used as an index.
ReadReference(st) ==
    LET h == Token(st).handle IN
    IF h < Len(st.handles) THEN Done(Consume(st), st.handles[h + 1]) ELSE Fails(Consume(st))

\* readString and readLongString.
ReadString(st) == LET s == Str(Token(st).s) IN Done(AddHandle(Consume(st), s), s)

ReadObjectString(st) ==
    CASE Token(st).tag \in {"string", "longString"} -> ReadString(st)
      [] Token(st).tag = "ref" ->
            LET r == ReadReference(st) IN IF Is("str", r.val) THEN r ELSE Fails(r.st)
      [] OTHER -> Fails(st)

\* skipBlockData and skipBlockDataLong.
SkipBlockData(st) == Done(Consume(st), Nil)

\* Fault: the block data is taken for all of the annotation.
SkipObjectAnnotationShort(st) ==
    IF Token(st).tag \in {"block", "blockLong", "end"} THEN Consume(st)
    ELSE Fails(st).st

\* Block data up to the end; anything else is an error.
SkipObjectAnnotation(st) ==
    CASE Token(st).tag = "end" -> Consume(st)
      [] Token(st).tag \in {"block", "blockLong"} -> SkipObjectAnnotation(SkipBlockData(st).st)
      [] OTHER -> Fails(st).st

\* n descriptions of fields, with the class names of those of objects.
ReadFields(st, n, fields) ==
    IF n = 0 THEN Done(st, fields)
    ELSE IF Token(st).tag # "field" THEN Done(Fails(st).st, fields)
    ELSE LET f == Token(st)
             after == IF f.type \in {"L", "["} THEN ReadObjectString(Consume(st)).st
                      ELSE Consume(st) IN
         ReadFields(after, n - 1, Append(fields, [type |-> f.type, name |-> f.name]))

\* A descriptor and those of its superclasses.  The class annotation is read
\* only for a class that has a writeObject method.
Described(t, handle, fields, super) ==
    Registered(super.st, handle,
               Desc([name |-> t.name, elem |-> t.elem, write |-> t.write,
                     fields |-> fields, super |-> super.val]))
AfterFields(t, handle, fs) ==
    Described(t, handle, fs.val,
              ReadClassDesc(IF t.write THEN SkipObjectAnnotation(fs.st) ELSE fs.st))
DescReferred(r) == IF Is("desc", r.val) THEN r ELSE Fails(r.st)
ReadClassDesc(st) ==
    CASE Token(st).tag = "null" -> Done(Consume(st), Nil)
      [] Token(st).tag = "ref"  -> DescReferred(ReadReference(st))
      [] Token(st).tag = "classDesc" ->
            AfterFields(Token(st), Len(st.handles) + 1,
                        ReadFields(AddHandle(Consume(st), Nil), Token(st).count, <<>>))
      [] OTHER -> Fails(st)

\* A primitive value has no tag: whatever lies there is read as one.
ReadRawPrimitive(st, type) ==
    IF Token(st).tag = "prim" /\ Token(st).type = type
         THEN Done(Consume(st), Prim(Token(st).v))
    ELSE IF Token(st).tag = "none" THEN Fails(st)
    ELSE Done([st EXCEPT !.err = "lost"], Nil)

ReadFieldValue(st, type) ==
    IF type \in PrimitiveTypes THEN ReadRawPrimitive(st, type) ELSE ReadContent(st)

\* The values of the fields; the first one of a name stays.
WithValue(r, fields, result) ==
    ReadValues(r.st, Tail(fields),
               IF r.st.err # "" THEN result
               ELSE Merged(result, [k \in {Head(fields).name} |-> r.val]))
ReadValues(st, fields, result) ==
    IF fields = <<>> \/ st.err # "" THEN Done(st, result)
    ELSE WithValue(ReadFieldValue(st, Head(fields).type), fields, result)

\* The data of a class and then of its superclasses, for readClassData and
\* for skipClassData, which drops the result.
SuperData(vs, d) ==
    ReadClassData(IF d.write THEN SkipObjectAnnotation(vs.st) ELSE vs.st, d.super, vs.val)
ReadClassData(st, desc, result) ==
    IF Is("nil", desc) THEN Done(st, result)
    ELSE IF desc.desc.write /\ LooksLikeBlock(Token(st))
    THEN ReadClassData(SkipObjectAnnotation(st), desc.desc.super, result)
    ELSE SuperData(ReadValues(st, desc.desc.fields, result), desc.desc)

ObjectOf(data, handle) == Registered(data.st, handle, Map(data.val))
ObjectData(cd) ==
    IF cd.st.err # "" THEN cd
    ELSE ObjectOf(ReadClassData(AddHandle(cd.st, Nil), cd.val, NoFields), Len(cd.st.handles) + 1)
ReadObject(st) == ObjectData(ReadClassDesc(Consume(st)))

WithElement(r, n, elem, list) == ReadElements(r.st, n - 1, elem, Append(list, r.val))
ReadElements(st, n, elem, list) ==
    IF n = 0 \/ st.err # "" THEN Done(st, list)
    ELSE WithElement(ReadFieldValue(st, elem), n, elem, list)

ListOf(es, handle) == Registered(es.st, handle, List(es.val))
ArrayData(cd) ==
    IF cd.st.err # "" THEN cd
    ELSE IF Is("nil", cd.val) \/ Token(cd.st).tag # "size" THEN Fails(cd.st)
    ELSE ListOf(ReadElements(AddHandle(Consume(cd.st), Nil), Token(cd.st).n,
                             cd.val.desc.elem, <<>>),
                Len(cd.st.handles) + 1)
ReadArray(st) == ArrayData(ReadClassDesc(Consume(st)))

\* The handle of an enum constant comes after that of its name.
EnumOf(name) ==
    IF name.st.err # "" THEN name ELSE Done(AddHandle(name.st, name.val), name.val)
ReadEnum(st) == EnumOf(ReadObjectString(ReadClassDesc(Consume(st)).st))

ClassOf(cd) ==
    LET name == Str(IF Is("desc", cd.val) THEN cd.val.desc.name ELSE "") IN
    IF cd.st.err # "" THEN cd
    ELSE Done(AddHandle(cd.st, name), Map([k \in {"class"} |-> name]))
ReadClass(st) == ClassOf(ReadClassDesc(Consume(st)))

ReadContent(st) ==
    LET tag == Token(st).tag IN
    CASE tag = "null"                   -> Done(Consume(st), Nil)
      [] tag \in {"block", "blockLong"} -> SkipBlockData(st)
      [] tag = "ref"                    -> ReadReference(st)
      [] tag = "object"                 -> ReadObject(st)
      [] tag \in {"string", "longString"} -> ReadString(st)
      [] tag = "array"                  -> ReadArray(st)
      [] tag = "enum"                   -> ReadEnum(st)
      [] tag = "class"                  -> ReadClass(st)
      [] OTHER                          -> Fails(st)

-----------------------------------------------------------------------------
Start(data, pos) == [data |-> data, pos |-> pos, handles |-> <<>>, err |-> ""]

\* The loop of deserializeJavaArgs: the fields of all objects, the first of a
\* name, up to the end or to the first error.
RECURSIVE ReadArgs(_, _)
WithArg(r, result) ==
    IF r.st.err # "" THEN Done(r.st, result)
    ELSE ReadArgs(r.st, IF Is("map", r.val) THEN Merged(result, r.val.map) ELSE result)
ReadArgs(st, result) ==
    CASE Token(st).tag = "none"  -> Done(st, result)
      [] Token(st).tag = "end"   -> ReadArgs(Consume(st), result)
      [] Token(st).tag = "reset" -> ReadArgs([Consume(st) EXCEPT !.handles = <<>>], result)
      [] OTHER                   -> WithArg(ReadContent(st), result)

\* What was read before an error counts, but without any field there is an
\* error in any case.
ArgsOrError(r) ==
    Done([r.st EXCEPT !.err = CASE @ = "lost"         -> @
                                [] r.val = NoFields   -> "error"
                                [] OTHER              -> ""], r.val)
DeserializeJavaArgs(data) ==
    ArgsOrError(IF data = <<>> THEN Done(Start(data, 1), NoFields)
                ELSE ReadArgs(Start(data, IF data[1].tag = "magic" THEN 2 ELSE 1), NoFields))

TokensAt(data, tag) == {i \in 1 .. Len(data) : data[i].tag = tag}
Least(S) == CHOOSE i \in S : \A j \in S : i <= j

\* Where ParseJavaSerializedArgs finds the stream in a body, 0 for nowhere.
StreamStart(body) ==
    IF body = <<>> THEN 0
    ELSE IF body[1].tag \in {"magic", "object"} THEN 1
    ELSE IF TokensAt(body, "magic") # {} THEN Least(TokensAt(body, "magic"))
    ELSE IF TokensAt(body, "object") # {} THEN Least(TokensAt(body, "object"))
    ELSE 0

ParseJavaSerializedArgs(body) ==
    IF StreamStart(body) = 0 THEN Done([Start(body, 1) EXCEPT !.err = "error"], NoFields)
    ELSE DeserializeJavaArgs(SubSeq(body, StreamStart(body), Len(body)))

\* Fault: null is not expected among the values.
EntryValueNoNull(tag, r) ==
    CASE tag \in {"string", "longString", "ref"} -> r
      [] tag = "object" -> IF r.st.err = "" /\ "value" \in DOMAIN r.val.map
                           THEN Done(r.st, r.val.map["value"]) ELSE r
      [] OTHER          -> Done(r.st, Str("<non-string>"))

\* readEntryValue: a string, or the "value" of a boxed primitive.
EntryValue(tag, r) ==
    CASE tag \in {"string", "longString", "ref"} -> r
      [] tag = "null"   -> Done(r.st, Str(""))
      [] tag = "object" -> IF r.st.err = "" /\ "value" \in DOMAIN r.val.map
                           THEN Done(r.st, r.val.map["value"]) ELSE r
      [] OTHER          -> Done(r.st, Str("<non-string>"))
ReadEntryValue(st) == EntryValue(Token(st).tag, ReadContent(st))

\* Pairs of a key and a value, up to the end or to the first error.
RECURSIVE ReadEntries(_, _)
WithEntry(key, value, result) ==
    IF value.st.err # "" THEN Merged([k \in {key} |-> Str("<parse-error>")], result)
    ELSE ReadEntries(value.st, Merged([k \in {key} |-> value.val], result))
AfterKey(key, result) ==
    IF key.st.err # "" \/ Token(key.st).tag = "none" THEN result
    ELSE WithEntry(key.val.str, ReadEntryValue(key.st), result)
ReadEntries(st, result) == AfterKey(ReadObjectString(st), result)

HashMap == "java.util.HashMap"

\* The place of the first description of a class of that name, 0 for none.
FindClassDesc(body, name) ==
    LET descs == {i \in TokensAt(body, "classDesc") : body[i].name = name} IN
    IF descs = {} THEN 0 ELSE Least(descs)

\* skipClassDescWithData with skipClassData, which reads what readClassData does.
DataSkipped(cd) == ReadClassData(cd.st, cd.val, NoFields).st
SkipClassDescWithData(st) == DataSkipped(ReadClassDesc(st))

\* The entries behind the first HashMap of the body.
ParseJavaSerializedAttachments(body) ==
    LET at == FindClassDesc(body, HashMap) IN
    IF at <= 1 \/ body[at - 1].tag # "object" THEN NoFields
    ELSE ReadEntries(SkipClassDescWithData(Start(body, at)), NoFields)

-----------------------------------------------------------------------------
(***************************************************************************)
(* What ObjectOutputStream writes.  A class has a name, fields, perhaps a  *)
(* writeObject method ("write") and a superclass; an object its class and, *)
(* for each class of the chain, the values of the fields and what          *)
(* writeObject adds to them.  A string or a class that was written before  *)
(* is written as a reference.                                              *)
(***************************************************************************)
Field(type, name) == [type |-> type, name |-> name]
Class(name, write, fields, super) ==
    [name |-> name, write |-> write, fields |-> fields, super |-> super]
NoSuper == <<>>

Object(class, values, extra) ==
    [object |-> [class |-> class, values |-> values, extra |-> extra]]

\* The classes of a chain, the base class first.
RECURSIVE Chain(_)
Chain(c) == (IF c.super = NoSuper THEN <<>> ELSE Chain(c.super[1])) \o <<c>>

Emit(w, t) == [w EXCEPT !.out = Append(@, t)]
Known(w, key) == \E i \in 1 .. Len(w.keys) : w.keys[i] = key
Reference(w, key) ==
    Emit(w, [tag |-> "ref",
             handle |-> BaseHandle + (CHOOSE i \in 1 .. Len(w.keys) : w.keys[i] = key) - 1])
Define(w, key, t) == [Emit(w, t) EXCEPT !.keys = Append(@, key)]

WriteString(w, s) ==
    IF Known(w, [s |-> s]) THEN Reference(w, [s |-> s])
    ELSE Define(w, [s |-> s], [tag |-> "string", s |-> s])

RECURSIVE WriteFields(_, _), WriteDesc(_, _), WriteValues(_, _, _), WriteData(_, _, _),
          WriteValue(_, _, _), WriteAll(_, _)

WriteFields(w, fields) ==
    IF fields = <<>> THEN w
    ELSE LET f == Head(fields)
             w1 == Emit(w, [tag |-> "field", type |-> f.type, name |-> f.name]) IN
         WriteFields(CASE f.type = "L" -> WriteString(w1, "Ljava/lang/Object;")
                       [] f.type = "[" -> WriteString(w1, "[Ljava/lang/Object;")
                       [] OTHER        -> w1,
                     Tail(fields))

WriteDesc(w, c) ==
    IF Known(w, [class |-> c.name]) THEN Reference(w, [class |-> c.name])
    ELSE LET t == [tag |-> "classDesc", name |-> c.name, elem |-> "L", write |-> c.write,
                   count |-> Len(c.fields)]
             w1 == Emit(WriteFields(Define(w, [class |-> c.name], t), c.fields), Tag("end")) IN
         IF c.super = NoSuper THEN Emit(w1, Tag("null")) ELSE WriteDesc(w1, c.super[1])

WriteValue(w, type, v) ==
    IF type \in PrimitiveTypes THEN Emit(w, [tag |-> "prim", type |-> type, v |-> v.prim])
    ELSE IF Is("nil", v) THEN Emit(w, Tag("null"))
    ELSE IF Is("str", v) THEN WriteString(w, v.str)
    ELSE IF Is("block", v) THEN Emit(w, Tag("block"))
    ELSE IF Is("enum", v)
         THEN LET w1 == WriteDesc(Emit(w, Tag("enum")), Class("E", FALSE, <<>>, NoSuper)) IN
              WriteString([w1 EXCEPT !.keys = Append(@, [o |-> Len(w1.out)])], v.enum)
    ELSE IF Is("list", v)
         THEN LET w1 == WriteDesc(Emit(w, Tag("array")), Class("[L", FALSE, <<>>, NoSuper)) IN
              WriteAll(Emit([w1 EXCEPT !.keys = Append(@, [o |-> Len(w1.out)])],
                            [tag |-> "size", n |-> Len(v.list)]), v.list)
    ELSE LET o == v.object
             w1 == WriteDesc(Emit(w, Tag("object")), o.class) IN
         WriteData([w1 EXCEPT !.keys = Append(@, [o |-> Len(w1.out)])], Chain(o.class), o)

WriteValues(w, fields, values) ==
    IF values = <<>> THEN w
    ELSE WriteValues(WriteValue(w, Head(fields).type, Head(values)), Tail(fields), Tail(values))

\* The data of the classes, of the base class first.
WriteData(w, chain, o) ==
    IF chain = <<>> THEN w
    ELSE LET c == Head(chain)
             w1 == WriteValues(w, c.fields, o.values[c.name])
             w2 == IF c.write THEN Emit(WriteAll(w1, o.extra[c.name]), Tag("end")) ELSE w1 IN
         WriteData(w2, Tail(chain), o)

WriteAll(w, vs) == IF vs = <<>> THEN w ELSE WriteAll(WriteValue(w, "L", Head(vs)), Tail(vs))

WrittenStream(vs) == WriteAll([out |-> <<Tag("magic")>>, keys |-> <<>>], vs).out

\* What the fields of an object should be read as, those of the subclasses
\* before those of the superclasses.
RECURSIVE Meaning(_), MeaningOf(_, _)
MeaningOf(fields, values) ==
    IF values = <<>> THEN NoFields
    ELSE Merged([k \in {Head(fields).name} |-> Meaning(Head(values))],
                MeaningOf(Tail(fields), Tail(values)))
Meaning(v) ==
    IF ~Is("object", v) THEN v
    ELSE LET o == v.object
             upTo[n \in 0 .. Len(Chain(o.class))] ==
                IF n = 0 THEN NoFields
                ELSE LET c == Chain(o.class)[n] IN
                     Merged(MeaningOf(c.fields, o.values[c.name]), upTo[n - 1]) IN
         Map(upTo[Len(Chain(o.class))])

RECURSIVE MeaningOfAll(_)
MeaningOfAll(vs) ==
    IF vs = <<>> THEN NoFields
    ELSE LET m == Meaning(Head(vs)) IN
         Merged(IF Is("map", m) THEN m.map ELSE NoFields, MeaningOfAll(Tail(vs)))

\* The objects that can be read: each of a single class, which has a
\* writeObject method that writes the fields and then only primitive data, or
\* primitive data alone; no arrays and no enum constants.
RECURSIVE Readable(_)
Readable(v) ==
    /\ ~Is("enum", v) /\ ~Is("list", v)
    /\ Is("object", v) =>
        LET c == v.object.class
            values == v.object.values[c.name]
            extra == v.object.extra[c.name] IN
        /\ c.write /\ c.super = NoSuper
        /\ \A i \in 1 .. Len(extra) : Is("block", extra[i])
        /\ IF values = <<>> THEN extra # <<>> \/ c.fields = <<>> ELSE values[1] # Prim(BlockLike)
        /\ \A i \in 1 .. Len(values) : Readable(values[i])

\* No class of the object has a superclass.
RECURSIVE Flat(_)
Flat(v) ==
    Is("object", v) =>
        LET c == v.object.class IN
        /\ c.super = NoSuper
        /\ \A i \in 1 .. Len(v.object.values[c.name]) : Flat(v.object.values[c.name][i])

=============================================================================
