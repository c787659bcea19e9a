-------------------------------- MODULE PicoJson --------------------------------
(***************************************************************************)
(* Values written and read by src/picojson/picojson.h: serialize(), the    *)
(* input with its one character that may be put back, and the parser with  *)
(* the context that builds a value.  The visitor of a response is another  *)
(* context of the same parser.                                             *)
(*                                                                         *)
(* A text is a sequence of characters.  A value is a record; a number has  *)
(* its characters, and so has a string; an array has its items, an object  *)
(* a function from its keys.  Of the escapes of a string only those of the *)
(* quote and the backslash are here.                                       *)
(***************************************************************************)
EXTENDS Integers, SequencesExt

Value(is, text, inside) == [is |-> is, text |-> text, inside |-> inside]
Null == Value("null", <<>>, <<>>)
Bool(b) == Value(IF b THEN "true" ELSE "false", <<>>, <<>>)
Digits == {"0", "1", "2"}

-----------------------------------------------------------------------------
\* serialize_str()
serialize_str(s) ==
  <<"\"">> \o FlattenSeq([i \in DOMAIN s |-> IF s[i] \in {"\"", "\\"} THEN <<"\\", s[i]>> ELSE <<s[i]>>])
  \o <<"\"">>

\* _indent(), of a text that is not to be prettified when indent is -1.
Indented(indent) ==
  IF indent = -1 THEN <<>> ELSE <<"\n">> \o [i \in 1..(2 * indent) |-> " "]

\* _serialize(): indent is one more within an array or an object.
RECURSIVE _serialize(_, _)
_serialize(v, indent) ==
  LET inner == IF indent = -1 THEN -1 ELSE indent + 1
      keys == SetToSeq(DOMAIN v.inside)
      item(i) == IF v.is = "array" THEN _serialize(v.inside[i], inner)
                 ELSE serialize_str(keys[i]) \o <<":">> \o (IF indent = -1 THEN <<>> ELSE <<" ">>)
                      \o _serialize(v.inside[keys[i]], inner)
      items == FlattenSeq([i \in DOMAIN keys |->
                 (IF i = 1 THEN <<>> ELSE <<",">>) \o Indented(inner) \o item(i)])
      within(open, close) ==
        <<open>> \o items \o (IF keys = <<>> THEN <<>> ELSE Indented(indent)) \o <<close>>
  IN CASE v.is = "array" -> within("[", "]") [] v.is = "object" -> within("{", "}")
       [] v.is = "string" -> serialize_str(v.text) [] v.is = "number" -> v.text
       [] v.is = "null" -> <<"n", "u", "l", "l">> [] v.is = "true" -> <<"t", "r", "u", "e">>
       [] v.is = "false" -> <<"f", "a", "l", "s", "e">>

serialize(v, prettify) ==
  IF prettify THEN _serialize(v, 0) \o <<"\n">> ELSE _serialize(v, -1)

-----------------------------------------------------------------------------
\* An input: the text, the place of a character in it, and whether that was consumed;
\* ch is what getc() returned last ("EOF" at the end), ok and val what a function did.
Input(text) == [text |-> text, cur |-> 1, consumed |-> FALSE, ch |-> "", ok |-> TRUE, val |-> Null]

getc(in) ==
  LET at == IF in.consumed THEN in.cur + 1 ELSE in.cur
      end == at > Len(in.text)
  IN [in EXCEPT !.cur = at, !.consumed = ~end, !.ch = IF end THEN "EOF" ELSE in.text[at]]
ungetc(in) == [in EXCEPT !.consumed = FALSE]
cur(in) == IF in.consumed THEN in.cur + 1 ELSE in.cur

Refuse(in) == [in EXCEPT !.ok = FALSE]
Accept(in, val) == [in EXCEPT !.ok = TRUE, !.val = val]

RECURSIVE skip_ws(_), SkipFrom(_)
skip_ws(in) == SkipFrom(getc(in))
SkipFrom(next) == IF next.ch \in {" ", "\t", "\n", "\r"} THEN skip_ws(next) ELSE ungetc(next)

\* A slip: a character that is not the one expected is not put back.
Expected_takes(next, expected) == [next EXCEPT !.ok = next.ch = expected]

\* expect(), match(): a character that is not the one expected is put back.
Expected(next, expected) ==
  IF next.ch = expected THEN [next EXCEPT !.ok = TRUE] ELSE Refuse(ungetc(next))
expect(in, expected) == Expected(getc(skip_ws(in)), expected)

\* match(), of what follows the first letter of null, true and false.
match(in, pattern) ==
  FoldLeft(LAMBDA s, c : IF s.ok THEN Expected(getc(s), c) ELSE s, in, pattern)

\* _parse_string(), after its first quote.
RECURSIVE _parse_string(_, _), StringFrom(_, _), EscapeFrom(_, _)
_parse_string(in, out) == StringFrom(getc(in), out)
StringFrom(next, out) ==
  CASE next.ch = "\"" -> Accept(next, Value("string", out, <<>>))
    [] next.ch \in {"EOF", "\t", "\n", "\r"} -> Refuse(ungetc(next))
    [] next.ch = "\\" -> EscapeFrom(getc(next), out)
    [] OTHER -> _parse_string(next, Append(out, next.ch))
EscapeFrom(next, out) ==
  IF next.ch \in {"\"", "\\"} THEN _parse_string(next, Append(out, next.ch)) ELSE Refuse(next)

\* _parse_number(): all the characters a number could have.
RECURSIVE _parse_number(_, _), NumberFrom(_, _)
_parse_number(in, out) == NumberFrom(getc(in), out)
NumberFrom(next, out) ==
  IF next.ch \in Digits \cup {"+", "-", "e", "."} THEN _parse_number(next, Append(out, next.ch))
  ELSE Accept(ungetc(next), Value("number", out, <<>>))

\* What strtod() takes to its end: a sign, digits with at most one point among or around
\* them, and an exponent.
IsNumber(text) ==
  LET digits(from, to) == from <= to /\ \A i \in from..to : text[i] \in Digits
      decimal(from, to) ==
        /\ \E i \in from..to : text[i] \in Digits
        /\ Cardinality({i \in from..to : text[i] = "."}) <= 1
        /\ \A i \in from..to : text[i] \in Digits \cup {"."}
      size == Len(text)
      first == IF size > 0 /\ text[1] \in {"+", "-"} THEN 2 ELSE 1
  IN \/ decimal(first, size)
     \/ \E e \in first..size :
          /\ text[e] = "e" /\ decimal(first, e - 1)
          /\ digits(IF e < size /\ text[e + 1] \in {"+", "-"} THEN e + 2 ELSE e + 1, size)

RECURSIVE _parse(_), ArrayItem(_, _), Member(_, _)

\* _parse_array(), after "[": the items, with what is there of the array.
ArrayMore(more, array) ==
  IF more.ok THEN ArrayItem(_parse(more), array)
  ELSE [expect(more, "]") EXCEPT !.val = Value("array", <<>>, array)]
ArrayItem(item, array) ==
  IF item.ok THEN ArrayMore(expect(item, ","), Append(array, item.val)) ELSE item
ArrayFrom(empty) ==
  IF empty.ok THEN Accept(empty, Value("array", <<>>, <<>>)) ELSE ArrayItem(_parse(empty), <<>>)
_parse_array(in) == ArrayFrom(expect(in, "]"))

\* _parse_object(), after "{": a key, a colon, a value; the last value of a key counts.
MemberMore(more, object) ==
  IF more.ok THEN Member(expect(more, "\""), object)
  ELSE [expect(more, "}") EXCEPT !.val = Value("object", <<>>, object)]
MemberRead(value, key, object) ==
  IF value.ok THEN MemberMore(expect(value, ","),
                              [k \in DOMAIN object \cup {key} |-> IF k = key THEN value.val ELSE object[k]])
  ELSE value
MemberValue(colon, key, object) ==
  IF colon.ok THEN MemberRead(_parse(colon), key, object) ELSE colon
MemberKey(key, object) ==
  IF key.ok THEN MemberValue(expect(key, ":"), key.val.text, object) ELSE key
Member(quote, object) == IF quote.ok THEN MemberKey(_parse_string(quote, <<>>), object) ELSE quote
ObjectFrom(empty) ==
  IF empty.ok THEN Accept(empty, Value("object", <<>>, <<>>)) ELSE Member(expect(empty, "\""), <<>>)
_parse_object(in) == ObjectFrom(expect(in, "}"))

\* _parse() with default_parse_context
NumberRead(number) == IF IsNumber(number.val.text) THEN number ELSE Refuse(number)
ParseFrom(next) ==
  LET literal(pattern, val) == [match(next, pattern) EXCEPT !.val = val]
  IN CASE next.ch = "n" -> literal(<<"u", "l", "l">>, Null)
       [] next.ch = "t" -> literal(<<"r", "u", "e">>, Bool(TRUE))
       [] next.ch = "f" -> literal(<<"a", "l", "s", "e">>, Bool(FALSE))
       [] next.ch = "\"" -> _parse_string(next, <<>>)
       [] next.ch = "[" -> _parse_array(next)
       [] next.ch = "{" -> _parse_object(next)
       [] next.ch \in Digits \cup {"-"} -> NumberRead(_parse_number(ungetc(next), <<>>))
       [] OTHER -> Refuse(ungetc(next))
_parse(in) == ParseFrom(getc(skip_ws([in EXCEPT !.ok = TRUE])))

parse(text) == _parse(Input(text))

-----------------------------------------------------------------------------
\* What is written of a value, in one line or prettified, reads as that value whatever
\* follows it, and the parser stops at its end: not a character more is taken of the
\* input.  No part of it reads as a value, unless it is a number.
ReadsAs(read, v, size) == read.ok /\ read.val = v /\ cur(read) = size + 1
TextReadsBack(text, size, v, rest) ==
  /\ ReadsAs(parse(text \o rest), v, size)
  /\ \A cut \in 0..(size - 1) : v.is # "number" => ~parse(SubSeq(text, 1, cut)).ok
ValueReadsBack(v, prettify, rest) ==
  LET text == serialize(v, prettify)
  IN TextReadsBack(text, IF prettify THEN Len(text) - 1 ELSE Len(text), v, rest)
=============================================================================
