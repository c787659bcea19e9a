------------------------------ MODULE MCComponents ------------------------------
(***************************************************************************)
(* The components beside the connection and the endpoint, on small         *)
(* instances, in one run: a behaviour is one of the token endpoint, of the *)
(* visitor, of the builder or of the streambuf, or one call of a pure      *)
(* algorithm, and subject says which.  The variables of the others stay as *)
(* they are.                                                               *)
(***************************************************************************)
EXTENDS IdTokenProtectedEndpoint, JsonVisitor, HttpsResponseStreambuf, Algorithms, TLC

VARIABLES
  subject,          \* whose behaviour it is
  fbb, made, left   \* FlatBufferBuilder

builder == <<fbb, made, left>>

-----------------------------------------------------------------------------
\* A vector of tables that are written as an object: each of them an item, or the
\* whole document one.
VisitorCalls ==
  [root_path : {<<>>, <<"list", "*">>}, error_path : {<<"list", "code">>}, table : {"Root"}]
    \cup [root_path : {<<"*">>}, error_path : {<<"code">>}, table : {"Entry"}]
Val == [val |-> "none", fields |-> [x \in {} |-> ""]]
VisitorSchema ==
  [Root |-> [val |-> "none", fields |-> [list |-> "Entry"]],
   Entry |-> [Val EXCEPT !.val = "Val"], Val |-> Val]

\* A string of letters, one with quotes, braces and slashes in it, a number that is no
\* int; and keys of letters, and one with a quote.
WrittenTexts ==
  [x \in Keys \cup Scalars |->
     CASE x = "q" -> {<<"other", "bad">>}
       [] x = "b" -> {<<"other", "}", "}", "//", "bad">>}
       [] x = "9e9" -> {<<"other">>}
       [] OTHER -> {<<x>>}]

\* Two texts, of which one has a zero byte; types whose fields are small, large, tables
\* and strings.
Builder == INSTANCE FlatBufferBuilder WITH
  InitialSize <- 16, Texts <- {<<97>>, <<97, 0, 99, 100>>}, Types <- {"Type", "EnumVal", "Error"},
  Numbers <- {0, 7}, MaxObjects <- 3, MaxBuffers <- 2

\* Words: a name, a number in quotes, and nothing.
Words == ("a" :> <<97>>) @@ ("7" :> <<55>>) @@ ("" :> <<>>)
Idl == INSTANCE IdlParser WITH Spelling <- Words, Numerals <- ("7" :> 7) @@ ("" :> 0)

Pico == INSTANCE PicoJson

-----------------------------------------------------------------------------
Partial(K, V) == UNION {[D -> V] : D \in SUBSET K}

Requests ==
  [about : {"request"}, query : Partial({"a", "b"}, {"1"}),
   headers : Partial({"Host", "Content-Length"}, {"2"}), takes : Http!Overloads,
   q : Partial({"a", "c"}, {"3"}), h : Partial({"Host", "X", "Content-Length"}, {"4"}),
   body : {<<>>, <<"x", "y">>}]
Heads ==
  [about : {"head"}, code : {<<"2">>, <<"2", "0", "0">>}, reason : {<<"a">>, <<"a", "SP", "2">>},
   headers : SeqOf({<<"a">>, <<"a", "LF", "SP", "2">>, <<"2", "CR", "a">>}, 2),
   body : SeqOf({"CR", "LF", "a"}, 3)]
Uris ==
  [about : {"uri"}, scheme : {<<>>, <<"h">>}, user : {<<>>, <<"u">>},
   password : {<<>>, <<"p", ":", "q">>}, host : {<<>>, <<"w", ".", "o">>},
   port : {<<>>, <<"8", "0">>, <<"3", "2", "7", "6", "7">>, <<"3", "2", "7", "6", "8">>},
   path : {<<>>, <<"/">>, <<"/", "a", "@", ":">>},
   query : {<<>>, <<"a", "?", "/">>, <<":", "/", "/">>},
   fragment : {<<>>, <<"f", "#", "@">>, <<"?">>}]
Codes ==
  UNION {[about : {"base64"}, text : {text}, cut : 0..Len(text)] :
           text \in SeqOf({0, 1, 77, 255, 170}, 3)}
Claims ==
  [about : {"jwt"}, alg : Algs, key : {"rsa", "ec", "none"}, header : {<<1, 2, 3>>},
   payload : SeqOf({0, 200}, 2), fails : SUBSET {"md", "sign"}]

\* A root table that may begin anywhere, its vtable before or behind it.
Buffers ==
  {[about |-> "buffer", bytes |-> <<4, 0, 0, 0, back[1], back[2], back[2], back[2]>> \o tail] :
     back \in {<<252, 255>>, <<4, 0>>, <<251, 255>>, <<246, 255>>}, tail \in SeqOf({0, 4, 5}, 6)}

\* The bytes on both sides of every boundary the escapes and UTF-8 have; pairs of any
\* of them, and all the lead and continuation bytes of longer sequences.
EdgeBytes == {0, 8, 9, 10, 12, 13, 31, 32, 34, 47, 92, 97, 126, 127, 128, 191, 194, 223, 224, 255}
OctetStrings ==
  [about : {"octets"}, octets :
     SeqOf(EdgeBytes, 2)
       \cup [1..3 -> {97, 128, 159, 160, 191, 224, 225, 237, 239}]
       \cup ({240, 243, 244} \X {143, 144, 191} \X {128, 191} \X {128, 191})]

ErrorTexts == {<<>>, <<34, 92>>, <<195, 169, 10>>}
TokensGiven ==
  [about : {"reflected"}, type : {"Token"},
   given : {[i \in 1..6 |-> IF i = 5 THEN n ELSE g[i]] :
              g \in [{1, 2, 3, 4, 6} -> {<<>>, <<97>>}], n \in {0, 7}}]
ErrorsGiven ==
  [about : {"reflected"}, type : {"Error"},
   given : {[i \in 1..3 |-> IF i = 1 THEN n ELSE g[i]] :
              g \in [{2, 3} -> ErrorTexts], n \in {0, 7}}]
RefreshTokens ==
  [about : {"refresh token"}, refresh_token : {<<>>, <<97>>, <<34, 92>>, <<97, 98, 99, 200>>}]

-----------------------------------------------------------------------------
\* Members in any order, twice, null, out of range, of the wrong type, unknown; a field
\* that is required; tables in brackets; vectors of strings and of tables.
Leaf ==
  {Idl!Word("word", w) : w \in DOMAIN Words} \cup {Idl!Number("int", n) : n \in {7, 300}}
    \cup {Idl!Word("name", w) : w \in {"null", "true"}} \cup {Idl!Mark("float")}
Members(names, leaves) == names \X leaves
Null == Idl!Word("name", "null")
Seven == Idl!Number("int", 7)
TokenDocs ==
  {Idl!Obj(m) : m \in SeqOf(Members({"access_token", "expires_in", "x", "$schema"}, Leaf), 2)}
TypeDocs ==
  {Idl!Obj(m) : m \in SeqOf(Members({"base_type", "index"},
                                    {Seven, Idl!Number("int", 300), Null}), 2)}
    \cup {Idl!Arr(s) : s \in SeqOf({Seven, Null}, 4)}
A == Idl!Word("word", "a")
OfType == Idl!Obj(<<<<"index", Seven>>>>)
EnumValDocs ==
  {Idl!Obj(m) : m \in {<<<<"name", A>>, <<"union_type", OfType>>>>,
                       <<<<"union_type", OfType>>, <<"name", A>>>>,
                       <<<<"union_type", OfType>>>>}}
EnumDocs ==
  {Idl!Obj(<<<<"values", Idl!Arr(vals)>>, <<"documentation", Idl!Arr(lines)>>, <<"name", A>>,
             <<"underlying_type", OfType>>>>) :
     vals \in SeqOf(EnumValDocs, 2), lines \in SeqOf({A}, 2)}

\* A text that fails in the middle of an object, after values were parsed, and one that
\* is accepted; and a document after them.
Befores ==
  {<<>>, <<<<Idl!Mark("{"), Idl!Word("name", "name"), Idl!Mark(":"), A, Idl!Mark(","),
             Idl!Word("name", "expires_in"), Idl!Mark(":"), Idl!Mark("["), A, Idl!Mark("]")>>,
           Idl!TextOf(Idl!Obj(<<<<"access_token", A>>>>), TRUE)>>}
DocsOf == [Token |-> TokenDocs, Type |-> TypeDocs, EnumVal |-> EnumValDocs, Enum |-> EnumDocs]
Documented(type) ==
  [about : {"document"}, type : {type}, doc : DocsOf[type], before : Befores]

\* Values within values, one level deep, and two where the brackets of one kind meet
\* those of the other.
JsonScalars ==
  {Pico!Null, Pico!Bool(TRUE), Pico!Bool(FALSE), Pico!Value("number", <<"1">>, <<>>),
   Pico!Value("number", <<"-", "1", ".", "0", "e", "2">>, <<>>),
   Pico!Value("string", <<>>, <<>>), Pico!Value("string", <<"\"", "\\", "]">>, <<>>)}
ArraysOf(V, n) == {Pico!Value("array", <<>>, s) : s \in SeqOf(V, n)}
ObjectsOf(V) ==
  {Pico!Value("object", <<>>, m) :
     m \in {<<>>} \cup UNION {[K -> V] : K \in {{<<>>}, {<<"a">>, <<"\"", "}">>}}}}
Shallow == JsonScalars \cup ArraysOf(JsonScalars, 2) \cup ObjectsOf(JsonScalars)
Few == {Pico!Null, Pico!Value("number", <<"1">>, <<>>)}
Deep == ArraysOf(ObjectsOf(Few) \cup ArraysOf(Few, 1), 1) \cup ObjectsOf(ArraysOf(Few, 1))
Values ==
  [about : {"value"}, val : Shallow \cup Deep, pretty : BOOLEAN, rest : {<<>>, <<"]">>, <<",", "1">>}]

-----------------------------------------------------------------------------
AlgorithmInputs ==
  <<Requests, Heads, Uris, Codes, Claims, Buffers, OctetStrings, TokensGiven, ErrorsGiven,
    RefreshTokens>>

\* A call of one of the algorithms, or of one of the two parsers, which are recursive.
Call ==
  \/ CallAlgorithm
  \/ /\ task = None
     /\ task' \in Values \/ \E type \in DOMAIN DocsOf : task' \in Documented(type)

\* The components start as they do; the choices in the initial state of those a
\* behaviour is not about are fixed.
ComponentsInit ==
  /\ subject \in {"token", "visitor", "builder", "streambuf", "algorithms"}
  /\ Init /\ VisitorInit /\ Builder!Init /\ StreambufInit /\ AlgorithmsInit
  /\ subject # "token" => ready /\ client = {}
  /\ subject # "visitor" => call = CHOOSE c \in VisitorCalls : TRUE

ComponentsNext ==
  /\ UNCHANGED subject
  /\ \/ subject = "token" /\ Next /\ UNCHANGED <<visitor, builder, streambuf, task>>
     \/ subject = "visitor" /\ VisitorNext /\ UNCHANGED <<vars, builder, streambuf, task>>
     \/ subject = "builder" /\ Builder!Next /\ UNCHANGED <<vars, visitor, streambuf, task>>
     \/ subject = "streambuf" /\ StreambufNext /\ UNCHANGED <<vars, visitor, builder, task>>
     \/ subject = "algorithms" /\ Call /\ UNCHANGED <<vars, visitor, builder, streambuf>>

ComponentsSpec ==
  ComponentsInit /\ [][ComponentsNext]_<<vars, visitor, builder, streambuf, task, subject>>

-----------------------------------------------------------------------------
\* FlatBufferBuilder: what was written reads back, for as long as the buffer is.
ObjectsReadBack == Builder!ObjectsReadBack
\* FlatBufferBuilder: a shared string has the contents it was asked for with.
SharedStringsExact == Builder!SharedStringsExact
\* FlatBufferBuilder: the Verifier accepts what the builder finished.
FinishedVerifies == Builder!FinishedVerifies
\* FlatBufferBuilder: numbers are at multiples of their sizes.
Aligned == Builder!Aligned

\* IdlParser: a document becomes the object it says, whatever was parsed before.
DocumentRead ==
  task.about = "document" => Idl!DocumentRead(task.before, task.doc, task.before # <<>>, task.type)
\* IdlParser: a document is read to its end, or refused.
PartsRefused ==
  task.about = "document" /\ task.before = <<>> /\ task.type # "Token"
    => Idl!PartsRefused(task.doc, task.type)
\* PicoJson: a value that was written is read again, and no more than it.
ValueReadsBack == task.about = "value" => Pico!ValueReadsBack(task.val, task.pretty, task.rest)
=============================================================================
