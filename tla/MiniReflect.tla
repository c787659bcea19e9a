------------------------------- MODULE MiniReflect -------------------------------
(***************************************************************************)
(* FlatBufferToString() (src/flatbuffers/include/flatbuffers/minireflect.h)*)
(* and generate_refresh_token_json() of                                    *)
(* src/id_token_protected_endpoint.inl, which sends what it returns as     *)
(* the body of a request with Content-Type application/json.               *)
(*                                                                         *)
(* A text is a sequence of lexemes: punctuation, names without quotes,     *)
(* numbers, and strings in quotes (the bytes between them).  The spaces    *)
(* between lexemes are left out.                                           *)
(***************************************************************************)
EXTENDS JsonStrings

\* A builder of the local kind: none of its variables is used.
Build == INSTANCE FlatBufferBuilder WITH
  InitialSize <- 64, Texts <- {}, Types <- {}, Numbers <- {}, MaxObjects <- 0, MaxBuffers <- 0,
  fbb <- <<>>, made <- <<>>, left <- <<>>
Fb == INSTANCE FlatBuffer WITH MaxBufferSize <- 1073741823, MaxDepth <- 64, MaxTables <- 1000000

Lexeme(is, text) == <<[is |-> is, text |-> text]>>
Mark(text) == Lexeme(text, <<>>)

\* The type tables of OIDC: the names of the fields and what they are.
Reflected == {"Token", "Error"}

\* A slip: a vtable is taken to start with its first field.
FieldIndexToOffset_first(i) == 2 * i

\* FieldIndexToOffset(), of an index that starts with 1 here.
FieldIndexToOffset(i) == 2 + 2 * i

\* Table::GetAddressOf(): 0 for null
GetAddressOf(b, at, vt) == IF Fb!HasField(b, at, vt) THEN Fb!FieldAt(b, at, vt) ELSE 0

\* A slip: a string is written as it is.
ValueText_raw(b, type, val) ==
  IF type = "string" THEN Lexeme("string", Fb!Characters(b, Fb!Indirect(b, val)))
  ELSE Lexeme("number", Fb!I32(b, val))

\* IterateValue() and the ToStringVisitor, of the two types the tables have.
ValueText(b, type, val) ==
  IF type = "string" THEN LET s == Fb!Characters(b, Fb!Indirect(b, val))
                          IN Lexeme("string", Tail(EscapeString(s, TRUE).text))
  ELSE Lexeme("number", Fb!I32(b, val))

\* IterateObject() with the visitor: Field() for every field, which says nothing of
\* one that is not there; set_idx counts those that are.
ObjectText(b, type, obj) ==
  LET fields == Fb!Tables[type]
      visit(s, i) ==
        LET val == GetAddressOf(b, obj, FieldIndexToOffset(i))
        IN IF val = 0 THEN s
           ELSE [text |-> s.text \o (IF s.set_idx > 0 THEN Mark("comma") ELSE <<>>)
                          \o Lexeme("name", fields[i].name) \o Mark("colon")
                          \o ValueText(b, fields[i].type, val),
                 set_idx |-> s.set_idx + 1]
      all == FoldLeft(visit, [text |-> <<>>, set_idx |-> 0], [i \in DOMAIN fields |-> i])
  IN Mark("open") \o all.text \o Mark("close")

FlatBufferToString(b, type) == ObjectText(b, type, Fb!I32(b, 0))

\* "refresh_token"
GrantType == <<114, 101, 102, 114, 101, 115, 104, 95, 116, 111, 107, 101, 110>>

\* generate_refresh_token_json(): the two strings, then the table with the two fields
\* in this order, whatever their place in the schema.
TokenTable(b, grant_type, refresh_token) ==
  Build!EndTable(Build!AddOffset(Build!AddOffset(Build!StartTable(b), 8, grant_type), 10, refresh_token),
                 Build!GetSize(b))
Finished(table) == Build!data(Build!Finish(table.fbb, table.off))
generate_refresh_token_json(refresh_token) ==
  LET grant_type_val == Build!CreateString(Build!NewBuilder, GrantType)
      refresh_token_val == Build!CreateString(grant_type_val, refresh_token)
  IN FlatBufferToString(Finished(TokenTable(refresh_token_val, Build!GetSize(grant_type_val),
                                            Build!GetSize(refresh_token_val))), "Token")

\* A buffer with one table, of the fields that are given: bytes or a number, <<>> for
\* none (Token::Pack() and Error::Pack()).
Packed(type, given) ==
  LET fields == Fb!Tables[type]
      kept(b, offs) == [fbb |-> b, offs |-> Append(offs, Build!GetSize(b))]
      pack(s, i) ==
        IF fields[i].type # "string" THEN [s EXCEPT !.offs = Append(@, given[i])]
        ELSE IF given[i] = <<>> THEN [s EXCEPT !.offs = Append(@, 0)]
        ELSE kept(Build!CreateString(s.fbb, given[i]), s.offs)
      create(s) == Build!CreateTable(s.fbb, type, s.offs)
  IN Finished(create(FoldLeft(pack, [fbb |-> Build!NewBuilder, offs |-> <<>>],
                              [i \in DOMAIN fields |-> i])))

-----------------------------------------------------------------------------
\* The members of a text that is an object of names or strings and values: one lexeme
\* each, with colons and commas between them; <<>> for any other text.
IsObject(text, keys) ==
  LET size == Len(text)
  IN /\ size >= 2 /\ text[1].is = "open" /\ text[size].is = "close"
     /\ size > 2 =>
          /\ size % 4 = 1
          /\ \A i \in 2..(size - 1) :
               CASE i % 4 = 2 -> text[i].is \in keys
                 [] i % 4 = 3 -> text[i].is = "colon"
                 [] i % 4 = 0 -> text[i].is \in {"string", "number"}
                 [] i % 4 = 1 -> text[i].is = "comma"
MembersOf(text) ==
  [i \in 1..(Len(text) \div 4) |-> <<text[4 * i - 2].text, text[4 * i]>>]

\* A value of a member is what was given for it.
Says(lexeme, value, type) ==
  IF type = "string"
  THEN /\ lexeme.is = "string"
       /\ IsUTF8(value) => ReadString(Append(lexeme.text, Quote)) = [ok |-> TRUE, out |-> value]
  ELSE lexeme.is = "number" /\ lexeme.text = value

\* The text of a Token or an Error is one object whose members are the fields that were
\* given, each once, by its own name, in the order of the schema, and whose strings
\* read back as they were given.
SaysObject(text, type, given) ==
  LET fields == Fb!Tables[type]
      none(i) == IF fields[i].type = "string" THEN given[i] = <<>> ELSE given[i] = 0
      there == SelectSeq([i \in DOMAIN fields |-> i], LAMBDA i : ~none(i))
      members == MembersOf(text)
  IN /\ IsObject(text, {"name"})
     /\ Len(members) = Len(there)
     /\ \A i \in DOMAIN there :
          /\ members[i][1] = fields[there[i]].name
          /\ Says(members[i][2], given[there[i]], fields[there[i]].type)
TextSaysObject(type, given) == SaysObject(FlatBufferToString(Packed(type, given), type), type, given)

\* The request for an identity token says the grant type, and the refresh token the
\* endpoint has, whatever bytes that consists of (src/id_token_protected_endpoint.inl:175).
SaysRequest(text, refresh_token) ==
  LET members == MembersOf(text)
  IN /\ IsObject(text, {"name"}) /\ Len(members) = 2
     /\ members[1][1] = "grant_type" /\ Says(members[1][2], GrantType, "string")
     /\ members[2][1] = "refresh_token" /\ Says(members[2][2], refresh_token, "string")
RefreshRequestSays(refresh_token) ==
  SaysRequest(generate_refresh_token_json(refresh_token), refresh_token)

\* "Generate refresh_token -> id_token request JSON" (src/id_token_protected_endpoint.inl:177):
\* what is sent is an object of JSON, whose keys are strings.
RequestBodyIsJson(refresh_token) ==
  IsObject(generate_refresh_token_json(refresh_token), {"string"})
=============================================================================
