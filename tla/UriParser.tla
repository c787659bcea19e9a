------------------------------- MODULE UriParser -------------------------------
(***************************************************************************)
(* UriParser (src/uri_parser.cpp): one pass over                           *)
(*   scheme:[//[user[:password]@]host[:port]][/path][?query][#fragment]    *)
(* that cuts at the first place each delimiter is found.  A text is a      *)
(* sequence of characters; "://" is three of them.                         *)
(***************************************************************************)
EXTENDS Integers, SequencesExt

\* A slip: rfind(), the last place.
find_last(text, delim) ==
  LET at == {i \in 1..(Len(text) - Len(delim) + 1) : SubSeq(text, i, i + Len(delim) - 1) = delim}
  IN IF at = {} THEN 0 ELSE Max(at)

\* find(): the first place of delim in text, 0 if there is none.
find(text, delim) ==
  LET at == {i \in 1..(Len(text) - Len(delim) + 1) : SubSeq(text, i, i + Len(delim) - 1) = delim}
  IN IF at = {} THEN 0 ELSE Min(at)

before(text, delim) == SubSeq(text, 1, find(text, delim) - 1)
after(text, delim) == SubSeq(text, find(text, delim) + Len(delim), Len(text))
contains(text, delim) == find(text, delim) # 0

\* A short after an assignment from an int.
short(n) == ((n + 32768) % 65536) - 32768

\* The loop over port_str, which takes each character for a digit.
digit(c) == CHOOSE n \in 0..9 : ToString(n) = c
port_of(port_str) ==
  LET port[i \in 0..Len(port_str)] ==
        IF i = 0 THEN 0 ELSE short(port[i - 1] * 10 + digit(port_str[i]))
  IN port[Len(port_str)]

\* "user[:password]" or "host[:port]"
split(text) ==
  IF contains(text, <<":">>) THEN <<before(text, <<":">>), after(text, <<":">>)>> ELSE <<text, <<>>>>

\* "[user[:password]@]host[:port]"
authority(text) ==
  LET login == split(IF contains(text, <<"@">>) THEN before(text, <<"@">>) ELSE <<>>)
      place == IF contains(text, <<"@">>) THEN after(text, <<"@">>) ELSE text
  IN [user |-> login[1], password |-> login[2], host |-> split(place)[1],
      port |-> IF contains(place, <<":">>) THEN port_of(split(place)[2]) ELSE -1]

\* "/path[?query][#fragment]": the query is looked for first, wherever it is.
request(text) ==
  LET rest == IF contains(text, <<"?">>) THEN after(text, <<"?">>) ELSE text
      cut == IF contains(rest, <<"#">>) THEN before(rest, <<"#">>) ELSE rest
  IN [path |-> IF contains(text, <<"?">>) THEN before(text, <<"?">>) ELSE cut,
      query |-> IF contains(text, <<"?">>) THEN cut ELSE <<>>,
      fragment |-> IF contains(rest, <<"#">>) THEN after(rest, <<"#">>) ELSE <<>>]

\* The constructor.  Without a "/" all there is is the authority.
Uri(unparsed_uri) ==
  LET scheme == IF contains(unparsed_uri, <<":", "/", "/">>)
                THEN before(unparsed_uri, <<":", "/", "/">>) ELSE <<>>
      rest == IF contains(unparsed_uri, <<":", "/", "/">>)
              THEN after(unparsed_uri, <<":", "/", "/">>) ELSE unparsed_uri
      path_found == contains(rest, <<"/">>)
      place == authority(IF path_found THEN before(rest, <<"/">>) ELSE rest)
      request_uri == IF path_found THEN SubSeq(rest, find(rest, <<"/">>), Len(rest)) ELSE <<>>
      parts == IF path_found THEN request(request_uri)
               ELSE [path |-> <<>>, query |-> <<>>, fragment |-> <<>>]
  IN [scheme |-> scheme, user |-> place.user, password |-> place.password, host |-> place.host,
      port |-> place.port, path |-> parts.path, query |-> parts.query,
      fragment |-> parts.fragment, request_uri |-> request_uri]

-----------------------------------------------------------------------------
\* The parts of a URI, put together by the grammar.
Marked(mark, part) == IF part = <<>> THEN <<>> ELSE mark \o part
AuthorityOf(p) ==
  (IF p.user = <<>> THEN <<>> ELSE p.user \o Marked(<<":">>, p.password) \o <<"@">>)
    \o (p.host \o Marked(<<":">>, p.port))
RequestOf(p) == p.path \o (Marked(<<"?">>, p.query) \o Marked(<<"#">>, p.fragment))
Compose(p) ==
  (IF p.scheme = <<>> THEN <<>> ELSE p.scheme \o <<":", "/", "/">>)
    \o (AuthorityOf(p) \o RequestOf(p))

MaxPort == 32767
IsDigit(c) == \E n \in 0..9 : ToString(n) = c
ValueOf(digits) ==
  LET value[i \in 0..Len(digits)] ==
        IF i = 0 THEN 0 ELSE value[i - 1] * 10 + digit(digits[i])
  IN value[Len(digits)]

\* The characters the grammar gives each part.
Without(text, delims) == \A i \in 1..Len(text) : text[i] \notin delims
PartsOf(p) == {p.scheme, p.user, p.password, p.host, p.port, p.path, p.query, p.fragment}
WellFormed(p) ==
  /\ Without(p.scheme, {":"}) /\ Without(p.user, {":", "@", "/"})
  /\ Without(p.password, {"@", "/"}) /\ Without(p.host, {":", "@", "/"})
  /\ Without(p.port, {"@", "/"}) /\ \A i \in 1..Len(p.port) : IsDigit(p.port[i])
  /\ p.path # <<>> => p.path[1] = "/"
  /\ Without(p.path, {"?", "#"}) /\ Without(p.query, {"#"})

\* The parts of a URI are found again, whatever delimiters the later ones contain, and
\* the path, the query and the fragment are what is requested.
\* (A password needs a user, a query or a fragment a path, a port is less than 32768, a URI
\* with a "://" has a scheme before it, and one whose fragment has a "?" has a query.)
PartsFound(p) ==
  LET uri == Uri(Compose(p))
      supported == /\ p.user = <<>> => p.password = <<>>
                   /\ p.path = <<>> => p.query = <<>> /\ p.fragment = <<>>
                   /\ ValueOf(p.port) <= MaxPort
                   /\ p.scheme = <<>> => ~contains(Compose(p), <<":", "/", "/">>)
                   /\ contains(p.fragment, <<"?">>) => p.query # <<>>
  IN supported =>
       /\ uri.scheme = p.scheme /\ uri.user = p.user /\ uri.password = p.password
       /\ uri.host = p.host /\ uri.port = IF p.port = <<>> THEN -1 ELSE ValueOf(p.port)
       /\ uri.path = p.path /\ uri.query = p.query /\ uri.fragment = p.fragment
       /\ uri.request_uri = RequestOf(p)
=============================================================================
