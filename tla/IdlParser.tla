-------------------------------- MODULE IdlParser --------------------------------
(***************************************************************************)
(* The Parser of flatbuffers reading JSON into a buffer (src/flatbuffers/  *)
(* src/idl_parser.cpp) with the options and the calls of                   *)
(* FlatbuffersStreamingJsonParser::parse() and FlatbuffersParser::parse(). *)
(*                                                                         *)
(* One Parser, with its stack of fields and its builder, reads one text    *)
(* after another, whatever became of the last one.  A text is a sequence   *)
(* of tokens; a word is a string, spelled as Spelling says.  The schema is *)
(* the one of FlatBuffer: tables of scalars, strings, tables and vectors   *)
(* of the last two (no structs, unions, enums, hashes or nested buffers),  *)
(* and a text declares nothing.                                            *)
(***************************************************************************)
EXTENDS Integers, SequencesExt

CONSTANTS
  Spelling,   \* the bytes of each word that is a value
  Numerals    \* the numbers of the words that StringToInt() reads to their end

Build == INSTANCE FlatBufferBuilder WITH
  InitialSize <- 64, Texts <- {}, Types <- {}, Numbers <- {}, MaxObjects <- 0, MaxBuffers <- 0,
  fbb <- <<>>, made <- <<>>, left <- <<>>
Fb == INSTANCE FlatBuffer WITH MaxBufferSize <- 1073741823, MaxDepth <- 64, MaxTables <- 1000000

\* A token: a mark, "word" in quotes, "name" without, "int", "float", "eof", or "bad"
\* for what Next() refuses; with the word, or the number of it.
Mark(is) == [is |-> is, word |-> "", n |-> 0]
Word(is, word) == [is |-> is, word |-> word, n |-> 0]
Number(is, n) == [is |-> is, word |-> "", n |-> n]

\* A Parser: the text and the place of the token in it, the builder, the stack of the
\* values parsed and not yet built with the fields they are for (vt = 0 for elements).
\* val is what the last call returns, ok whether none has returned an error;
\* undefined is set where the code reads past the end of a vector.
NewParser ==
  [text |-> <<Mark("eof")>>, at |-> 1, fbb |-> Build!NewBuilder, field_stack |-> <<>>,
   val |-> 0, ok |-> TRUE, undefined |-> FALSE]

Token(p) == p.text[p.at]
Is(p, t) == Token(p).is = t
Fail(p) == [p EXCEPT !.ok = FALSE]
Return(p, val) == [p EXCEPT !.val = val]

\* Next(): the end of the text is not passed.
Advance(p) ==
  LET next == Min({p.at + 1, Len(p.text)})
  IN [p EXCEPT !.at = next, !.ok = @ /\ p.text[next].is # "bad"]
Expect(p, t) == IF p.ok /\ Is(p, t) THEN Advance(p) ELSE Fail(p)

\* CheckInRange() of the type of a field.
Limits(type) ==
  CASE type = "int8" -> -128..127 [] type = "uint8" -> 0..255
    [] type = "uint16" -> 0..65535 [] OTHER -> Int

-----------------------------------------------------------------------------
\* ParseString(): the string is written into the buffer at once.
Pushed(p, b) == [p EXCEPT !.fbb = b, !.val = Build!GetSize(b)]
ParseString(p) ==
  IF ~Is(p, "word") THEN Fail(p)
  ELSE Pushed(Advance(p), Build!CreateString(p.fbb, Spelling[Token(p).word]))

\* ParseSingleValue() of a number: a word may be one in quotes; names, true and false
\* among them, are taken for those of enums.
ParseSingleValue(p, type) ==
  CASE Is(p, "word") /\ Token(p).word \in DOMAIN Numerals -> Return(Advance(p), Numerals[Token(p).word])
    [] Is(p, "int") \/ (Is(p, "float") /\ type = "double") -> Return(Advance(p), Token(p).n)
    [] OTHER -> Fail(p)

RECURSIVE ParseMembers(_, _, _, _), MoreMembers(_, _, _)
RECURSIVE ParseElements(_, _, _), MoreElements(_, _, _)

\* SkipAnyJsonValue(): the members and elements of no type.
SkipAnyJsonValue(p) ==
  IF ~p.ok THEN p
  ELSE CASE Is(p, "{") -> ParseMembers(Advance(p), "skip", "}", 0)
         [] Is(p, "[") -> ParseElements(Advance(p), "skip", 0)
         [] Token(p).is \in {"word", "int", "float"} -> Advance(p)
         [] OTHER -> IF Is(p, "name") /\ Token(p).word \in {"true", "false", "null"} THEN Advance(p)
                     ELSE Fail(p)

\* The fieldn values on top of the stack: the ones of the table being parsed.
Own(p, fieldn) == SubSeq(p.field_stack, Len(p.field_stack) - fieldn + 1, Len(p.field_stack))

\* How many values of a table are passed over before the place of one for field.
\* A slip: the search stops at the same field before comparing.
Passed_stops(p, field, fieldn) ==
  LET own == Own(p, fieldn)
  IN Max({n \in 0..fieldn : \A i \in (fieldn - n + 1)..fieldn : own[i].field.vt > field.vt})

Passed(p, field, fieldn) ==
  LET own == Own(p, fieldn)
  IN Max({n \in 0..fieldn : \A i \in (fieldn - n + 1)..fieldn : own[i].field.vt >= field.vt})

\* The insertion sort of ParseTable(): a field that is passed over is there twice.
InsertField(p, field, fieldn) ==
  LET passed == Passed(p, field, fieldn)
      size == Len(p.field_stack)
  IN IF ~p.ok \/ \E i \in (size - passed + 1)..size : p.field_stack[i].field = field THEN Fail(p)
     ELSE [p EXCEPT !.field_stack = InsertAt(@, size - passed + 1, [field |-> field, val |-> p.val])]

\* ParseTable() once its values are parsed: none required is missing, and they are
\* added in reverse, the ones of the largest size first.
Built(p, table, fieldn) ==
  [p EXCEPT !.fbb = table.fbb, !.val = table.off,
            !.field_stack = SubSeq(@, 1, Len(@) - fieldn)]
BuildTable(p, type, fieldn) ==
  LET own == Own(p, fieldn)
      missing == {f \in Fb!FieldsOf(type) : f.required /\ \A i \in DOMAIN own : own[i].field # f}
      sized(n) == SelectSeq(Reverse(own), LAMBDA v : Fb!SizeOf(v.field.type) = n)
      add(b, v) == IF Fb!IsScalar(v.field)
                   THEN Build!AddElement(b, v.field.vt, v.val, v.field.default, Fb!SizeOf(v.field.type))
                   ELSE Build!AddOffset(b, v.field.vt, v.val)
      fits == \A i \in DOMAIN own : Fb!IsScalar(own[i].field) => own[i].val \in Limits(own[i].field.type)
  IN IF ~p.ok \/ missing # {} \/ ~fits THEN Fail(p)
     ELSE Built(p, Build!EndTable(FoldLeft(add, Build!StartTable(p.fbb),
                                           sized(8) \o sized(4) \o sized(2) \o sized(1)),
                                  Build!GetSize(p.fbb)), fieldn)

\* ParseTable(): in braces with names, or in brackets without, a value for each field.
CountedTable(p, type, in_vector) ==
  IF ~p.ok \/ (in_vector /\ p.val # Len(Fb!Tables[type])) THEN Fail(p)
  ELSE BuildTable(p, type, p.val)
ParseTable(p, type) ==
  LET in_vector == Is(p, "[")
      inner == IF in_vector THEN Advance(p) ELSE Expect(p, "{")
  IN CountedTable(ParseMembers(inner, type, IF in_vector THEN "]" ELSE "}", 0), type, in_vector)

\* ParseVector(): of strings or tables, pushed from the last one back.
BuildVector(p, count) ==
  LET offs == [i \in 1..count |-> Own(p, count)[i].val]
  IN IF ~p.ok THEN p
     ELSE Pushed([p EXCEPT !.field_stack = SubSeq(@, 1, Len(@) - count)],
                 Build!CreateVector(p.fbb, offs))
CountedVector(p) == BuildVector(p, p.val)
ParseVector(p, of) == CountedVector(ParseElements(Expect(p, "["), of, 0))

\* ParseAnyValue()
ParseAnyValue(p, type, of) ==
  IF ~p.ok THEN p
  ELSE CASE type = "string" -> ParseString(p)
         [] type = "table" -> ParseTable(p, of)
         [] type = "vector" -> ParseVector(p, of)
         [] type = "skip" -> SkipAnyJsonValue(p)
         [] OTHER -> ParseSingleValue(p, type)

\* The field a member is for: one of no table, or of no name in it, is passed over.
FieldNamed(type, name) ==
  LET named == IF type = "skip" THEN <<>> ELSE SelectSeq(Fb!Tables[type], LAMBDA f : f.name = name)
  IN IF named = <<>> THEN [type |-> "skip", of |-> "skip"] ELSE named[1]

\* One member of a table, its name read: "$schema" and names the schema does not have
\* are passed over, and so is a null; val is the number of fields parsed so far.
TakeMember(p, field, fieldn) ==
  IF field.type = "skip" THEN Return(p, fieldn) ELSE Return(InsertField(p, field, fieldn), fieldn + 1)
ParseMember(p, type, name, fieldn) ==
  LET field == FieldNamed(type, name)
  IN IF ~p.ok THEN p
     ELSE IF type # "skip" /\ name = "$schema" THEN Return(Expect(p, "word"), fieldn)
     ELSE IF field.type # "skip" /\ Is(p, "name") /\ Token(p).word = "null"
          THEN Return(Advance(p), fieldn)
     ELSE TakeMember(ParseAnyValue(p, field.type, field.of), field, fieldn)

\* ParseTableDelimiters(), after the opening one; val is the number of fields.  In
\* brackets a name is that of the next field, even if there is none.
ParseMembers(p, type, terminator, fieldn) ==
  LET in_vector == terminator = "]"
      name == IF in_vector THEN Fb!Tables[type][fieldn + 1].name ELSE Token(p).word
      value == IF in_vector THEN p
               ELSE Expect(IF Is(p, "word") THEN Advance(p) ELSE Expect(p, "name"), ":")
  IN IF ~p.ok THEN p
     ELSE IF Is(p, terminator) THEN Return(Advance(p), fieldn)
     ELSE IF in_vector /\ fieldn = Len(Fb!Tables[type]) THEN [Fail(p) EXCEPT !.undefined = TRUE]
     ELSE MoreMembers(ParseMember(value, type, name, fieldn), type, terminator)

\* ParseComma(), or the end.
MoreMembers(p, type, terminator) ==
  IF ~p.ok THEN p
  ELSE IF Is(p, terminator) THEN Return(Advance(p), p.val)
  ELSE ParseMembers(Expect(p, ","), type, terminator, p.val)

\* ParseVectorDelimiters(), after the opening one; val is the number of elements.
TakeElement(p, of) ==
  IF of = "skip" THEN p ELSE [p EXCEPT !.field_stack = Append(@, [field |-> [vt |-> 0], val |-> p.val])]
ParseElements(p, of, count) ==
  LET type == IF of \in {"skip", "string"} THEN of ELSE "table"
  IN IF ~p.ok THEN p
     ELSE IF Is(p, "]") THEN Return(Advance(p), count)
     ELSE MoreElements(TakeElement(ParseAnyValue(p, type, of), of), of, count + 1)

MoreElements(p, of, count) ==
  IF ~p.ok THEN p
  ELSE IF Is(p, "]") THEN Return(Advance(p), count)
  ELSE ParseElements(Expect(p, ","), of, count)

-----------------------------------------------------------------------------
\* DoParse() and StartParseFile(), before the first object.
StartParse(p, text) ==
  [p EXCEPT !.text = Append(text, Mark("eof")), !.at = 1, !.field_stack = <<>>,
            !.fbb = Build!Clear(@), !.ok = text # <<>> /\ text[1].is # "bad", !.val = 0]

\* A slip: another object may follow.
AnObject_again(p) == Is(p, "{")

\* Whether an object starts here, the first one of its text.
AnObject(p) == Is(p, "{") /\ Build!GetSize(p.fbb) = 0

\* DoParse(), what is left of the text: one object, and nothing else.
RECURSIVE DoParse(_, _)
FinishRoot(p) == IF p.ok THEN [p EXCEPT !.fbb = Build!Finish(@, p.val)] ELSE p
DoParse(p, root) ==
  IF ~p.ok \/ Is(p, "eof") THEN p
  ELSE IF AnObject(p) THEN DoParse(FinishRoot(ParseTable(p, root)), root)
  ELSE Fail(p)

\* FlatbuffersStreamingJsonParser::parse(), once the schemas are loaded: the Parser and
\* the object.
Verified(p, buffer, root) ==
  LET ok == p.ok /\ Fb!VerifyBuffer(buffer, root)
  IN [parser |-> p, ok |-> ok,
      object |-> IF ok THEN Fb!ObjectIn(buffer, root, Fb!I32(buffer, 0)) ELSE <<>>]
ParseResult(p, root) == Verified(p, Build!data(p.fbb), root)
parse(p, text, root) == ParseResult(DoParse(StartParse(p, text), root), root)

-----------------------------------------------------------------------------
\* A document: a token that is a value, or an object (members: names and documents), or
\* an array (items).
Obj(members) == [is |-> "object", inside |-> members]
Arr(items) == [is |-> "array", inside |-> items]

\* A document as a text, names in quotes, or without and a comma after the last member.
RECURSIVE TextOf(_, _)
TextOf(doc, strict) ==
  LET size == Len(doc.inside)
      comma(i) == IF i < size \/ ~strict THEN <<Mark(",")>> ELSE <<>>
      name(m) == <<Word(IF strict THEN "word" ELSE "name", m[1]), Mark(":")>>
  IN CASE doc.is = "object" ->
            <<Mark("{")>>
            \o FlattenSeq([i \in 1..size |-> name(doc.inside[i]) \o TextOf(doc.inside[i][2], strict) \o comma(i)])
            \o <<Mark("}")>>
       [] doc.is = "array" ->
            <<Mark("[")>> \o FlattenSeq([i \in 1..size |-> TextOf(doc.inside[i], strict) \o comma(i)])
            \o <<Mark("]")>>
       [] OTHER -> <<doc>>

IsNull(doc) == doc.is = "name" /\ doc.word = "null"

\* The values a document gives the fields of a table: pairs of a field and a document,
\* without the nulls, and without names the schema does not have.
Given(doc, type) ==
  LET fields == Fb!Tables[type]
      of(name) == SelectSeq(fields, LAMBDA f : f.name = name)
      named(m) == m[1] # "$schema" /\ of(m[1]) # <<>> /\ ~IsNull(m[2])
  IN IF doc.is = "object"
     THEN LET members == SelectSeq(doc.inside, named)
          IN [i \in DOMAIN members |-> <<of(members[i][1])[1], members[i][2]>>]
     ELSE LET items == SelectSeq(doc.inside, LAMBDA d : ~IsNull(d))
          IN [i \in DOMAIN items |-> <<fields[Min({i, Len(fields)})], items[i]>>]

\* Whether a document is one of a type: its numbers fit, its names are there once, none
\* required is missing, a table without names has a value for each field.
RECURSIVE Fits(_, _)
Fits(doc, f) ==
  LET given == Given(doc, f.of)
  IN CASE f.type = "string" -> doc.is = "word"
       [] f.type = "vector" ->
            doc.is = "array" /\ \A i \in DOMAIN doc.inside :
              Fits(doc.inside[i], [f EXCEPT !.type = IF f.of = "string" THEN "string" ELSE "table"])
       [] f.type = "table" ->
            /\ doc.is \in {"object", "array"}
            /\ doc.is = "array" => Len(given) = Len(Fb!Tables[f.of])
            /\ doc.is = "object" =>
                 \A i \in DOMAIN doc.inside : doc.inside[i][1] = "$schema" => doc.inside[i][2].is = "word"
            /\ \A i, j \in DOMAIN given : i # j => given[i][1] # given[j][1]
            /\ \A i \in DOMAIN given : Fits(given[i][2], given[i][1])
            /\ \A g \in Fb!FieldsOf(f.of) : g.required => \E i \in DOMAIN given : given[i][1] = g
       [] OTHER -> CASE doc.is = "int" -> doc.n \in Limits(f.type)
                     [] doc.is = "word" -> doc.word \in DOMAIN Numerals /\ Numerals[doc.word] \in Limits(f.type)
                     [] OTHER -> doc.is = "float" /\ f.type = "double"

\* The object a document is, of one that Fits().
RECURSIVE Meaning(_, _)
Meaning(doc, f) ==
  CASE f.type = "string" -> Spelling[doc.word]
    [] f.type = "vector" ->
         [i \in DOMAIN doc.inside |->
            Meaning(doc.inside[i], [f EXCEPT !.type = IF f.of = "string" THEN "string" ELSE "table"])]
    [] f.type = "table" ->
         LET given == Given(doc, f.of)
             value(g) == SelectSeq(given, LAMBDA v : v[1] = g)
         IN [name \in {g.name : g \in Fb!FieldsOf(f.of)} |->
               LET g == CHOOSE h \in Fb!FieldsOf(f.of) : h.name = name
               IN IF value(g) = <<>> THEN (IF Fb!IsScalar(g) THEN g.default ELSE <<>>)
                  ELSE IF Fb!IsScalar(g) THEN Meaning(value(g)[1][2], g)
                  ELSE <<Meaning(value(g)[1][2], g)>>]
    [] OTHER -> IF doc.is = "word" THEN Numerals[doc.word] ELSE doc.n

Root(type) == Fb!TableOf("root", 0, type)

\* Whatever texts the Parser was given before, and whether it accepted them: the next
\* document is accepted exactly if it is one of the type, and the object it becomes is
\* the one the document says, its fields in whatever order they were given.  (Not a
\* document with more values in brackets than the table has fields.)
Reads(read, doc, type) ==
  ~read.parser.undefined =>
    IF Fits(doc, Root(type)) /\ doc.is = "object"
    THEN read.ok /\ read.object = Meaning(doc, Root(type))
    ELSE ~read.ok
DocumentRead(before, doc, strict, type) ==
  LET after == FoldLeft(LAMBDA p, t : parse(p, t, type).parser, NewParser, before)
  IN Reads(parse(after, TextOf(doc, strict), type), doc, type)

\* No part of a document is accepted in its place, and nothing may follow it.
PartsRefused(doc, type) ==
  LET text == TextOf(doc, TRUE)
      refused(t) == ~parse(NewParser, t, type).ok
  IN /\ \A cut \in 0..(Len(text) - 1) : refused(SubSeq(text, 1, cut))
     /\ \A t \in {Mark("}"), Mark("]"), Mark(",")} : refused(Append(text, t))
     /\ refused(text \o text)
=============================================================================
