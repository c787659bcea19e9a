-------------------------------- MODULE HttpText --------------------------------
(***************************************************************************)
(* The text of a request and of the head of a response                     *)
(* (src/https_endpoint.inl): generate_request(), the overloads of          *)
(* make_request() that lead to it, and the loops that read a response up   *)
(* to its body.                                                            *)
(*                                                                         *)
(* A request is a sequence of pieces: names, values and the separators     *)
(* between them.  A response is a sequence of characters, of which "CR",   *)
(* "LF" and "SP" are whitespace.  The maps are unordered: here they are    *)
(* written in some fixed order.                                            *)
(***************************************************************************)
EXTENDS Naturals, SequencesExt

\* add_query_param(), add_header(): an entry is added or replaced.
with(map, k, v) == [x \in DOMAIN map \cup {k} |-> IF x = k THEN v ELSE map[x]]

\* The entries of a map, each written as what it begins with, name, separator, value.
Entries(map, names, first, sep) ==
  FlattenSeq([i \in 1..Len(names) |-> <<first, names[i], sep, map[names[i]]>>])

\* A slip: the parameters of the endpoint are written though the request has its own.
query_string_of_both(own, extra) ==
  LET names == SetToSeq(DOMAIN own)
      extras == SetToSeq(DOMAIN extra)
      pairs == Entries(own, names, "&", "=") \o Entries(extra, extras, "&", "=")
  IN IF pairs = <<>> THEN <<>> ELSE <<"?">> \o Tail(pairs)

\* The query string: the endpoint's parameters that the request does not override,
\* then the request's.
query_string(own, extra) ==
  LET names == SetToSeq(DOMAIN own \ DOMAIN extra)
      extras == SetToSeq(DOMAIN extra)
      pairs == Entries(own, names, "&", "=") \o Entries(extra, extras, "&", "=")
  IN IF pairs = <<>> THEN <<>> ELSE <<"?">> \o Tail(pairs)

\* generate_request(): Content-Length is always the size of the body.
generate_request(endpoint, method, path, query, headers, body) ==
  LET names == SetToSeq(DOMAIN endpoint.headers \ (DOMAIN headers \cup {"Content-Length"}))
      extras == SetToSeq(DOMAIN headers \ {"Content-Length"})
      fields == Entries(endpoint.headers, names, "CRLF", ": ") \o Entries(headers, extras, "CRLF", ": ")
                \o <<"CRLF", "Content-Length", ": ", ToString(Len(body))>>
  IN <<method, " ", path>> \o query_string(endpoint.query, query) \o <<" HTTP/1.0">>
     \o fields \o <<"CRLF", "CRLF">> \o body

Nothing == [x \in {} |-> ""]

\* What each overload of make_request() makes of its arguments, by the ones it
\* takes.  (The one for a query and headers without a body drops the query.)
make_request(endpoint, takes, method, path, query, headers, body) ==
  LET q == IF {"query", "headers", "body"} \subseteq takes THEN query ELSE Nothing
      h == IF "headers" \in takes THEN headers ELSE Nothing
      b == IF "body" \in takes THEN body ELSE <<>>
      m == IF "method" \in takes THEN method ELSE "GET"
  IN generate_request(endpoint, m, path, q, h, b)

Overloads == {{"method", "query", "headers", "body"}, {"method", "headers", "body"},
              {"method", "body"}, {"method", "query", "headers"}, {"method", "headers"},
              {"method"}, {}}

-----------------------------------------------------------------------------
\* What a server reads of a request: the pairs after "?" or "&", the pairs after an
\* end of line, and what follows the empty line.
RequestLineEnd(text) ==
  CHOOSE i \in 1..Len(text) :
    text[i] = " HTTP/1.0" /\ \A j \in 1..(i - 1) : text[j] # " HTTP/1.0"
Empty(text, i) == text[i - 1] = "CRLF" /\ text[i] = "CRLF"
EmptyLine(text) ==
  CHOOSE i \in 2..Len(text) : Empty(text, i) /\ \A j \in 2..(i - 1) : ~Empty(text, j)
Marked(text, marks, from, to) ==
  {i \in from..to : text[i] \in marks /\ i + 3 <= Len(text)}
PairsAt(text, at) == {<<text[i + 1], text[i + 3]>> : i \in at}
EachOnce(text, at) == Cardinality({text[i + 1] : i \in at}) = Cardinality(at)

ServerReads(text) ==
  LET line == RequestLineEnd(text)
      blank == EmptyLine(text)
      params == Marked(text, {"?", "&"}, 1, line)
      fields == Marked(text, {"CRLF"}, line, blank - 2)
  IN [method |-> text[1], path |-> text[3],
      query |-> PairsAt(text, params), headers |-> PairsAt(text, fields),
      once |-> /\ EachOnce(text, params) /\ EachOnce(text, fields)
               /\ \A i \in params : (text[i] = "?") = (i = 4),
      body |-> SubSeq(text, blank + 1, Len(text))]

PairsOf(map) == {<<k, map[k]>> : k \in DOMAIN map}
Override(own, extra) == [k \in DOMAIN own \cup DOMAIN extra |->
                           IF k \in DOMAIN extra THEN extra[k] ELSE own[k]]

\* The pieces that are not names or values.
Separators == {" ", "?", "&", "=", " HTTP/1.0", "CRLF", ": "}

\* The server reads what the caller gave: each parameter and header once, the
\* request's own in place of the endpoint's, and a Content-Length that is the size
\* of the body whatever either of them says.  (All but the query of the overload
\* that drops it.)
RequestReads(endpoint, takes, method, path, query, headers, body) ==
  LET read == ServerReads(make_request(endpoint, takes, method, path, query, headers, body))
      given(what, value, none) == IF what \in takes THEN value ELSE none
  IN /\ read.once
     /\ read.path = path /\ read.method = given("method", method, "GET")
     /\ read.body = given("body", body, <<>>)
     /\ "body" \in takes \/ "query" \notin takes =>
          read.query = PairsOf(Override(endpoint.query, given("query", query, Nothing)))
     /\ read.headers =
          PairsOf(with(Override(endpoint.headers, given("headers", headers, Nothing)),
                       "Content-Length", ToString(Len(read.body))))

-----------------------------------------------------------------------------
Whitespace == {"CR", "LF", "SP"}
Digits == {"0", "2"}

\* operator >>: whitespace is skipped, then the longest run of characters taken.
\* It fails when there is none, and then all that follow fail too.
extract(text, taken) ==
  LET n == CHOOSE i \in 0..Len(text) :
             /\ \A j \in 1..i : text[j] \in Whitespace
             /\ i < Len(text) => text[i + 1] \notin Whitespace
      m == CHOOSE i \in n..Len(text) :
             /\ \A j \in (n + 1)..i : text[j] \in taken
             /\ i < Len(text) => text[i + 1] \notin taken
  IN [word |-> SubSeq(text, n + 1, m), rest |-> SubSeq(text, m + 1, Len(text)), failed |-> n = m]
Extract(in, taken) == IF in.failed THEN in ELSE extract(in.rest, taken)

\* resp >> protocol >> code >> status: -1 if there is no protocol, 0 if no number.
status_line(response, characters) ==
  LET protocol == Extract([word |-> <<>>, rest |-> response, failed |-> FALSE], characters)
      code == Extract(protocol, Digits)
      status == Extract(code, characters)
  IN [code |-> IF protocol.failed THEN <<"-1">> ELSE IF code.failed THEN <<"0">> ELSE code.word,
      rest |-> status.rest, failed |-> status.failed]

delim == <<"CR", "LF", "CR", "LF">>

\* A slip: the position is kept when a character does not match.
delim_step_keeps(delim_pos, c) == IF c = delim[delim_pos + 1] THEN delim_pos + 1 ELSE delim_pos

\* The position in delim after one more character.  (One that does not match is
\* not looked at again as the first of delim: CR CR LF CR LF is missed.)
delim_step(delim_pos, c) == IF c = delim[delim_pos + 1] THEN delim_pos + 1 ELSE 0

\* One character more: the loop over the headers ends when delim was seen, and what
\* follows is the body.
read_char(s, c) ==
  LET pos == delim_step(s.delim_pos, c)
  IN IF s.body_was_found THEN [s EXCEPT !.body = Append(@, c)]
     ELSE [delim_pos |-> pos, body_was_found |-> pos = Len(delim), body |-> <<>>]

skip_headers(text) ==
  LET after[i \in 0..Len(text)] ==
        IF i = 0 THEN [delim_pos |-> 0, body_was_found |-> FALSE, body |-> <<>>]
        ELSE read_char(after[i - 1], text[i])
  IN after[Len(text)]

\* What make_request() gives the callback, if it calls it.
read_head(response, characters) ==
  LET line == status_line(response, characters)
      head == skip_headers(IF line.failed THEN <<>> ELSE line.rest)
  IN [code |-> line.code, body_was_found |-> head.body_was_found, body |-> head.body]

\* A line of the head: no end of line in it, nor the first half of one at its end.
IsLine(text) ==
  \A i \in 1..Len(text) : text[i] = "CR" => i < Len(text) /\ text[i + 1] # "LF"

\* The callback is given the code of the status line and all of the body, and
\* nothing else of the response: whatever the headers and the body look like, and
\* whatever follows the first word of the reason.
HeadReads(code, reason, headers, body, characters) ==
  LET end == <<"CR", "LF">>
      response == <<"H", "SP">> \o code \o <<"SP">> \o reason \o end
                  \o FlattenSeq([i \in 1..Len(headers) |-> headers[i] \o end]) \o end \o body
  IN read_head(response, characters) = [code |-> code, body_was_found |-> TRUE, body |-> body]

=============================================================================
