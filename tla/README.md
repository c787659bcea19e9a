# Verification of https_endpoint

TLA+ models of the HTTPS client library in `src/` (an ESP32/mbedtls
`TLSConnection`, requests over it, the parsing of their responses), the TLC
configurations that check them, and TLAPS proofs. Paths below are relative to
the repository.

## The system

| component | source | state | operations |
|---|---|---|---|
| `TLSConnection` | `src/tls_connection.*` | host, port, certificate; flags initialized, cacert_set, verified, connected, has_valid_session; mbedtls contexts (ssl, conf, cacert, server_fd, saved_session, ctr_drbg, entropy) | initialize, init, clear, store/clear_session, set/clear_cacert, connect, reconnect, disconnect, verify, write, read |
| `HttpsEndpoint`, `HttpsEndpointAutoConnect` | `src/https_endpoint.*` | host, headers, query parameters, a reference to a connection | connect, ensure_connected, make_request (six overloads), add_header, add_query_param |
| `HttpsResponseStreambuf` | `src/https_response_streambuf.*` | a buffer, the get area, a reference to a connection | underflow, and what `std::streambuf` builds on it |
| `IdTokenProtectedEndpoint` | `src/id_token_protected_endpoint.*` | refresh token, an endpoint for the token service, the Authorization header | ensure_connected, refresh_id_token, set_id_token, set_refresh_token |
| `FlatbuffersStreamingJsonVisitor` | `src/flatbuffers_streaming_json_visitor.h` | path, depths, output text, emit/close flags, reflection table | picojson's parse events, process_item |
| `FlatbuffersStreamingJsonParser`, `FlatbuffersParser` | `src/flatbuffers_streaming_json_parser.*`, `src/flatbuffers_parser.h` | two schema flags, schema, `flatbuffers::Parser` | schema loading, parse |
| `UriParser` | `src/uri_parser.*` | the parts of a URI | constructor |
| `JWT`, `base64` | `src/jwt.*`, `src/base64.h` | a private key | mint, sign, encode, decode |
| OIDC schema | `src/oidc*` | | generated code |
| flatbuffers, picojson, libb64, delegate | their directories | | vendored |

An endpoint holds a reference to a connection and calls it; `make_request()`
writes the request, puts a streambuf over `conn.read()`, and hands the response
stream to a callback. The callback usually runs the JSON visitor, which hands
complete items to flatbuffers and calls back. The token endpoint makes a
request of its own, on another connection, from inside
`ensure_connected()`. There are no threads and no locks. What is concurrent is
the server: it sends, closes or is lost while a request runs. What re-enters is
the callback.

What is hard: a dozen operations that each change a different subset of flags
and contexts, any of which can fail half-way; a session that outlives its
connection and its host; a response cut into reads anywhere and ended at any
moment; a caller that retries what it was told has failed. What makes each part
correct:

* TLSConnection: the flags tell the truth about the contexts; a live connection
  and a valid session belong to the target; neither is lost by accident.
* HttpsEndpoint: a response is given to its own request; the socket is closed
  between requests; false means not done; every call returns.
* HttpsResponseStreambuf: every byte once, in order, and again when put back.
* IdTokenProtectedEndpoint: no request without the token of the last refresh.
* The visitor: what it emits is JSON of the schema's shape, and errors go to
  the error callback. UriParser, JWT, base64: the functions they claim to be.

`PROJECT.json` lists the hazards one by one, each at its line.

## The modules

| module | models |
|---|---|
| `TLSConnectionOps` | every member function of `TLSConnection` as an operator from state to state, under the name it has in the source |
| `TLSConnection` | one connection and a client that calls these in any order; the safety properties |
| `HttpsEndpoint` | `make_request()` and `connect()` over the operators of `TLSConnectionOps`, and the server's end of the socket |
| `HttpText` | the text of a request, the overloads that lead to it, and the loops that read a response's head |
| `ByteStream` | abstract specification: what a streambuf promises its reader |
| `HttpsResponseStreambuf` | constructor and `underflow()`, with the buffer and its pointers, and a reader |
| `IdTokenProtectedEndpoint` | the token endpoint, the token service and the API behind it |
| `JsonVisitor` | `FlatbuffersStreamingJsonVisitor`, one step per event of the JSON parser |
| `UriParser`, `Base64`, `Jwt` | the algorithms of those names |
| `FlatBuffer` | reading a buffer: accessors and `Verifier` |
| `FlatBufferBuilder` | writing one, with a builder that is used again |
| `JsonStrings` | strings in JSON: the escapes of flatbuffers and of picojson, UTF-8 |
| `MiniReflect` | `FlatBufferToString()` and the body of the request for a token |
| `IdlParser` | flatbuffers' `Parser` reading JSON into a buffer, one text after another |
| `PicoJson` | picojson's input, parser and serializer |
| `Algorithms` | one call of one of the algorithms, on any of the inputs considered; the properties of what it returns |
| `MCTLSConnection`, `MCHttpsEndpoint`, `MCComponents` | small sets for TLC; `MCComponents` holds everything that is not a connection or an endpoint |
| `MCLiveness` | an endpoint, or a token endpoint, under its fairness |
| `TLSConnectionOps_proofs`, `TLSConnection_proofs` | lemmas about the operators, theorems about a connection |
| `HttpsEndpoint_proofs`, `HttpsResponseStreambuf_proofs`, `IdTokenProtectedEndpoint_proofs`, `JsonVisitor_proofs`, `JsonStrings_proofs`, `Algorithms_proofs` | theorems about the modules they extend; `JsonStrings_proofs` begins with the induction over the numbers that the last two share |

A module has beside its definitions some marked "A slip": a form of a
definition with a plausible mistake, used by nothing. Each property is
seen to fail when the definition is exchanged for one of its slips
(`PROJECT.json`, mutants).

### TLSConnection

The state `tls` is a record with the fields of the class. The contexts are
reduced to what a later call can tell apart: `fd` is the address the socket is
open to, `ssl` whether the context is set up and its handshake over, `ssl_peer`
with whom, `saved` and `saved_peer` what `saved_session` holds. One action is
one call, from entry to return: nothing below `TLSConnection` runs anything
else. Every operator that reaches a library call takes the name of the one that
fails. `connect()` takes three, one per phase, since a failed resumption is
followed by a full attempt. `faults` is history: what the code did to a context
that it must not; a run watches the ones its properties name. `call` is the call
just made, and each socket has a number, so that LiveConnectionKept can say which calls
may end a connection and that every other leaves it on the very socket it had, whatever
fails: a connection that is dialled again has the same address and another number.

Things worth knowing that the model follows: `init()` zeroes contexts whatever
they held; `clear()` does nothing on an uninitialized connection; only a
*verified* connection is closed when the target changes; `connect()` passes the
member `port`, not its parameter (line 351); `reconnect()` never verifies (line
405); a name that does not resolve leaves the descriptor as it was.

### HttpsEndpoint

A call of `make_request()` is a frame with a program counter: connect, write,
status, headers, body, finish. Between two steps of it the server moves, and in
"body" the callback may push another frame. The server reads a request when all
of it has arrived, answers the first of a connection part by part (status,
headers, delimiter, a body in two parts), then closes; it may close or be lost
before. The
bytes a part consists of are one token that says whose response it belongs to.
Body bytes may look like a status line or a delimiter: those steps are
nondeterministic. `PeerOf` says when a call of TLSConnection leaves the server's
end as it was: LiveConnectionKept, checked and proved for `TLSConnection`, is
what makes that right.

### HttpsResponseStreambuf

Cells, pointers and memmove are modelled one to one. A byte is the number of
its place in the response, so order, loss and repetition are visible, and 0 is
any byte that is not of the response: the vector's zeros, or what lies in front
of the vector when the first fill was shorter than the put-back area.
The `StreamSpec` property is `ByteStream!Spec` under the refinement mapping

    pos <- arrived - (egptr - gptr),  got <- arrived.

### HttpText

A request is a sequence of pieces, a response a sequence of characters of which
three are whitespace. `make_request()` names the overloads by what the caller
gives; the endpoint's headers and parameters are merged with the request's
as the code does it (the endpoint's is left out when the request has one of that
name, and a request's are not kept for the next). The loop that
looks for the end of the headers restarts at a mismatch without looking at the
character again, and `>>` skips line ends; HeadReads says for which responses
that finds the code, the headers and the body all the same.

### IdTokenProtectedEndpoint

`make_request()` is a sequence of steps with a program counter: connect,
the request for a token (from `ensure_connected()`, from a callback or called
by hand), its answer, the request itself, its response. The token service knows
one refresh token, grants or refuses, puts an id token, an access token, both or
neither in its answer, and may replace the refresh token whenever it grants; the
answer can be lost, cut or unreadable. Tokens expire. What HttpsEndpoint says of
connections is summed up as three outcomes: not read, read and not answered
in full, answered. `in_step` is history: no rotation has been lost so far.

### JsonVisitor

The document is not given: a step is one event of picojson (`parse_array_start`,
`parse_object_item`, ...), and the environment chooses the next among those the
grammar allows, or an error, after which the calls return one by one with
`parse_object_item()` still doing what it does after its callee. `raw`, `plain`
and `seen` are history: what the document says, whether it keeps to the forms
the visitor supports, and which keys were read. ItemsFaithful names those forms,
and a reader who wants to widen them finds in the hazards what goes wrong outside
them. CutItemsRefused is for the whole document and for keyed items of these forms:
the last brace of any other item is written in any case, and an object within the
value of a keyed item is closed twice, so that what was cut there can look whole.

Texts are sequences of tokens, and what is written need not be what was read:
`set_number()` cuts a number to an int, and strings and keys are written without
escapes, so that a quote in one ends it and the rest of it is text of the item.
`WrittenAs` gives the texts that each key and scalar may be written as, itself or any
tokens, among them braces, the "//" that begins a comment and what the next lexer
refuses. A document is of the supported forms while every scalar and key in it was
written as itself.

The constants are the keys, the scalars and which of them are strings, what they are
written as, the calls (paths and the root table) and what the
reflection table says of each table, and are assumed to fit together: paths
are of keys and wildcards, tables refer to tables there are, and no key or scalar is
a punctuation mark.

### The algorithms

`UriParser`, `Base64`, `Jwt`, `JsonStrings`, `MiniReflect` and `PicoJson` are operators
with a reference definition beside each: the parts a URI was put together
from, the text that was encoded, the table of well-formed UTF-8, the object that was
written. `Algorithms` holds the calls: a behaviour takes an input of the sets `Inputs`, and
each invariant is about the inputs of one algorithm. What the callers pass is assumed
of `Inputs`: buffers and texts are sequences of bytes. Integers keep their width: a port is a short, an offset a signed
32-bit number. `encode()` writes into a string of twice the text's size and cuts it to
the length of the code: for a single byte the code is longer, and ends in zeros where
the padding was, though line 33 calls the size the worst case. CodeFaithful says that this
is what comes back, and CodeFaithful and TokenReads that it is decoded all the same. Where a reference needs an exception (text that is not UTF-8), its
comment says so.

### FlatBuffer, FlatBufferBuilder, IdlParser

Generated tables are data: `Tables` lists the fields, with vtable slots, types,
defaults and what they refer to. `Verify...` operators are the generated
`Verify()` over the `Verifier`; `FieldReads` are the ranges of bytes the accessors
read. `FlatBufferBuilder` has its buffer, vtables, shared strings and offsets of
the table under construction; its client makes strings, vectors and tables in any
order, finishes, clears and goes on in the memory the builder has by then, and
what it was given is kept beside it. ObjectsReadBack compares to the byte, but for
shared strings with a zero byte, which SharedStringsExact is about. `IdlParser` is a Parser that takes
one token after another; the field stack and the builder survive a failed text, as in the code, and
DocumentRead parses a document after such texts.

## The runs

| run | result | what it shows |
|---|---|---|
| `tls` | passes | FlagsCoherent, SessionUsable, ContextSetUpBeforeReset, ConnectedToTarget, SessionOfTarget, LiveConnectionKept over every sequence of calls and failures |
| `tls_connect_port` | ConnectUsesPort violated | `connect(h, p)` connects to another port |
| `tls_old_session` | PreviousSessionInvalid violated | the previous host's session is saved as the new host's |
| `endpoint` | passes | ResponseOfRequest, ClosedBetweenRequests, FailedMeansUnread, HostHeaderOfServer |
| `liveness` | passes | Returns (a request that is written whole is answered with a return), RefusedRecovers (a refused client gets through again) |
| `endpoint_resume` | ConnectedBeforeWrite violated | the second request of a healthy connection fails |
| `endpoint_write` | RequestWritten violated | a long request is written in part |
| `streambuf_want` | WantReadsNothing violated | a read that would block delivers a byte |
| `streambuf_putback` | PutBackIsLastTaken violated | put-back after the end returns another byte |
| `components` | passes | the properties of the other modules, below |
| `components_body` | RequestBodyIsJson violated | the body of the request for a token names its members without quotes |
| `components_shared` | SharedStringsExact violated | a shared string gets the place of another that is the same up to a zero byte |

The violated properties are what comments of the source say; each finding in
`PROJECT.json` quotes its line.

In the run `components` a behaviour is about one `subject`, chosen in the
initial state: the streambuf, the token endpoint, the visitor, the builder, or a single
call of one of the algorithms. It shows:

* streambuf: GetAreaInBuffer, WindowOnResponse and the refinement of ByteStream, StreamSpec;
* token endpoint: RefreshTokenCurrent (the refresh token kept is the one the service
  takes), TokenOfLastGrant (never an earlier token), UnauthenticatedAfterAttempt;
* visitor: ItemsFaithful (items are the document's, as JSON), CutItemsRefused,
  ErrorsHaveErrorKey, RefusalReported;
* builder: ObjectsReadBack, FinishedVerifies, Aligned;
* algorithms: RequestReads, HeadReads (HttpText); PartsRead (UriParser);
  CodeFaithful (Base64); TokenReads (Jwt); VerifiedInBounds (FlatBuffer);
  EscapeReadsBack, SerializedReadsBack (JsonStrings); TextSaysObject,
  RefreshRequestSays (MiniReflect); DocumentRead, PartsRefused (IdlParser);
  ValueReadsBack (PicoJson).

### Bounds

* `tls`: two hosts, ports 443 and another, one certificate that parses and one
  that does not, every library call failing or not, static and raw memory,
  clients with and without `verify()`. Two hosts and two ports are enough: the
  code compares a target only with the one it has. The state space is finite
  without any other bound and explored completely, with the hosts
  interchangeable. Sockets are numbered modulo three: a call opens two at most, so the
  one it leaves is not the one it found. No step looks at a socket's number
  or at the last call, and LiveConnectionKept compares them only across a step, which TLC
  checks for every step it takes; so `MCView` takes states that differ in nothing else
  for one.
* `endpoint`: three requests, so that one can succeed, the next fail to resume
  and clear everything, and the third succeed again. One port (the run `tls`
  varies it) and one certificate; the calls that may fail are one of each phase
  (`config`, `handshake`, `get_session`). The clients are one that only makes requests,
  one that also connects in between, one whose callbacks make requests. Deadlock is
  not checked: three requests made, everything may stop.
* `liveness`: of the endpoint, two requests by a client that only makes requests; of the
  token endpoint, two grants and one rotation. No symmetry.
* `components`, streambuf: a buffer of 3 and put-back of 2, so 5 cells and a response of 12
  bytes: at least four fills, first ones shorter and longer than the put-back
  area. The proof covers every other size.
* `components`, token endpoint: two grants told apart, the last standing for all
  later ones, and one rotation: a token that is replaced, expires and is used
  too long needs no more. `components_body` needs one grant and none.
* `components`, visitor: nine events, so that an item with an object in it is
  followed by another item or by an error; nesting of three, the depth of
  list, item and value; two documents, so that what one leaves behind
  meets the next. The root paths are the whole document, the elements
  of an array and those of an array in an object; the keys are a list, an error
  code, and one with a quote in it; the scalars are a string that is written as itself,
  one with quotes, braces and slashes in it, and a number that is no int. Twelve events
  were checked once, with fewer scalars, and pass. The
  proofs cover every other number of events, documents, keys, scalars and tables.
* `components`, builder: an initial size of 16 bytes, so that every buffer
  moves; two buffers, and three objects in all (three in one buffer: a table can share a
  vtable and a string with one before it; or one or two made in memory that was
  used). The limits of
  the Verifier (MaxDepth: 64 levels, MaxTables: a million, MaxBufferSize: 2^30 - 1
  bytes) are the code's.
* `components`, algorithms: some twenty thousand inputs at the places where they
  branch: bytes on both sides of every boundary of UTF-8 and of the escapes, ports 32767 and
  32768, up to three bytes cut at any place into base64, tables that begin
  anywhere with their vtable before or behind, members in any order,
  twice, null, unknown, out of range, or missing.
* Deadlock is checked in the runs of `TLSConnection`, and in the two of the streambuf
  alone. The others end at their bounds, where everything may stop.

### Fairness

Returns: WF of the client's steps: the thread in
`make_request()` is not descheduled forever. WF of ServerCloses: a server that
has read a request closes at some time, as an HTTP/1.0 server must; the code has
no timeout that would end the call otherwise. The server is not assumed to send
anything. Returns excludes requests that were not written whole (the server
may wait for the rest forever; see `endpoint_write`) and callbacks that make
requests.

RefusedRecovers: the client makes requests again and again (a
device that polls), its thread runs, and neither server fails it forever: asked
again and again, the token service grants an id token in an answer that is
read, and the API reads a request and its answer is read. The code itself never
retries, so recovery rests on all of these. RefusedRecovers is for
clients that call `refresh_id_token()` when they are refused: the code drops no
token by itself, and a client that does not is refused forever.

## What is proved

By TLAPS, for every value of the constants that satisfies their assumptions:

`TLSConnection_proofs`, on the lemmas of `TLSConnectionOps_proofs`: all seven
properties of the run `tls`. The argument:

* `Coherent` strengthens FlagsCoherent, SessionUsable and
  ContextSetUpBeforeReset to an inductive invariant: FlagsCoherent alone is not
  inductive, because `reconnect()` trusts has_valid_session to mean that the ssl
  context is set up. `Good(s)` is type correctness and `Coherent`; there is one
  lemma per operator that it preserves `Good`, and the step of the specification
  follows from them, one case per action.
* `OnTarget` is the invariant behind ConnectedToTarget and SessionOfTarget, on
  top of `Good`. The two theorems assume that `handshake_reused` is watched,
  since the properties speak of it; the lemmas about `OnTarget` do not.
* LiveConnectionKept follows from what each operator does to a live connection: for
  every call that does not ask for its end, each operator on the way returns the state
  it was given, or changes neither flag, target, address nor the socket's number.

`HttpsEndpoint_proofs`: all five invariants of the run `endpoint`, for any number
of calls, nested to any depth. The invariant is built in layers, because none of the
properties is inductive:

* `Typed`: the frames, the server's end and the history have their types.
* `Numbered`: the calls started are the first ones, each has at most one frame, and
  what was read was written. Without it a new call could carry the number of an
  old one, and FailedMeansUnread would not survive `MakeRequest`.
* `Led`: the server's end is the one the socket leads to, a live connection is to
  its target (OnTarget, from the connection's lemmas), and the target is the
  header's host unless the last `connect()` failed. HostHeaderOfServer speaks of requests
  already read; this is what it needs at the moment one is written.
* `Open`, for clients that do not call `connect()`: an open socket is known to
  the connection, none is open when no call runs, and one that is not verified is
  only met by `write()`, which fails and closes it. Between calls nothing but
  `make_request()` could close it.
* `Owned`, for clients whose callbacks make no requests: one call at a time, and all
  that is under way, buffered or read is that call's. ResponseOfRequest rests on
  `Open`: a call starts on a fresh server's end because the one before has
  disconnected.

`HttpsResponseStreambuf_proofs`: GetAreaInBuffer, WindowOnResponse and StreamSpec, the
last by refinement, assuming that no read wants to be called again and the
reader puts nothing back once it saw the end; without either, TLC refutes
it. `Reach` says what the two invariants lack to be inductive: only
the first fill can end within the put-back area, and the window begins at the
response's first byte or at least put_back_len bytes before the furthest the
reader has been. The latter is why a put-back within that distance succeeds.

`IdTokenProtectedEndpoint_proofs`: TypeOK, RefreshTokenCurrent, TokenOfLastGrant and
UnauthenticatedAfterAttempt, for any number of grants and rotations. `IInv` adds
what they rest on between steps: the header is the newest token delivered
(TokenOfLastGrant speaks of the last request only), a document with a token is of
some grant, and a request about to be written without one has asked for one.

`JsonVisitor_proofs`: all four invariants of the visitor, for documents of any length
and nesting, one after another, any keys, scalars, tables and paths, and any texts that
keys and scalars may be written as.

* A refusal is in is_parse_error until the next `parse_stream()` (`RefusalKept`):
  RefusalReported.
* `ErrorPathRead` has to speak of the current path as well as of is_error_path: a
  key below the error path sets the flag again, and only the path says that the
  error's own key came first. ErrorsHaveErrorKey is about error paths that do not end in
  a wildcard, for which any key would do.
* ItemsFaithful and CutItemsRefused speak of an item at the moment it is handed over, and
  rest on what is known while it is being read, `VisitorInv`. `EmitsThere`: output is on at
  a path and below it, and off elsewhere. `FramesNested`: the calls in progress are
  containers in containers, and object_depth counts the objects among them.
  `WholeShape`, for root_path {}: the text written is the document so far,
  short of the brace after an object was opened. `ItemShape`: one of the
  frames is the item's; the text is what opens an item, then the value so
  far, and as many braces are open in it as the flags will close. `CutShape`:
  while the calls return from an error, the text of a keyed item still has a
  brace to be closed, so closing those it knows of does not make it whole. None of
  these is inductive by itself.

`Algorithms_proofs`: VerifiedInBounds, CodeFaithful, TokenReads, RequestReads, HeadReads,
PartsRead, SerializedReadsBack and EscapeReadsBack for every input, the last two from
`JsonStrings_proofs`.

* VerifiedInBounds: when a table's start and its fields are verified and the tables it
  refers to are accepted, every range its accessors read is inside the buffer
  (AcceptedTableInBounds: any bytes, any fields). Then induction on the depth:
  what the Verifier accepts with d levels left, a reader that goes to any depth reads
  in bounds (AcceptedBufferInBounds). The size of the vtable must be even for it, as
  VerifyTableStart() checks: a field's entry could be cut in half.
* CodeFaithful: `EncoderAt(text, i)` and `DecoderAt(text, k)` say what state a coder
  is in after i bytes or k characters, without recursion: the step is the
  position modulo three or four, the bits left over are those of the last byte.
  Each step of a coder leads from one of these states to the next, so that a block
  leads from any position to any later one, and where a text is cut makes no difference. `CodeOf`
  is the whole code; that its bits are the text's is arithmetic on three bytes
  (SameBits). The string encode() makes cuts into the code only when
  the text is a single byte, and then into its padding (a case of its own), which a
  decoder passes over like any character that is not of the code. DecodesWhatWasEncoded is decode(encode(text)) = text.
* TokenReads: a code has no dot in it, so a token has the two that `mint()` puts
  there, and between them are the codes of what it was given. What
  mbedtls signs with is some function of the text; nothing is used of it but
  that it gives bytes.

* RequestReads: `Laid` says at which place of the text each piece is: a parameter takes
  four, at 4, 8, ..., and so does a header after the first line. No name or value is one of
  the separators, so a server finds "?", "&" and the ends of lines at these places and
  nowhere else, and two ends of lines in a row only before the body (FirstLine, HeaderLines).
  What it reads there are the entries of the maps: `Represents` says that each is listed
  once, which holds of the endpoint's without the request's, of the request's, and of both
  one after the other because they have no name in common (BothRepresented). The length of
  the body enters as a text of which nothing is used but that it is no separator.
* HeadReads: `>>` takes the words of the status line, of any characters that are not
  whitespace. Each header is a line (`IsLine`: no end of line within, and no bare
  CR at its end, which would make delim_step() miss the CR that follows), so at its end
  the loop has seen half of delim, whatever it contains, and the other half
  only at the empty line. After that the body is appended as it is.
* PartsRead: what `find()` returns is the first place where the delimiter is
  (`FoundFirst`), so a part without the delimiter before it is what is cut off, and the rest
  goes on. WellFormed is the grammar: which delimiters a part may not
  contain. Beyond it the theorem excludes what the code does not support, the
  five conditions of PartsFound; each is needed, and a port of 32768 or more wraps in a
  short.
* SerializedReadsBack and EscapeReadsBack speak of two readers, the Parser's `Next()` and
  picojson's `_parse_string()`, as machines that take a byte at a time. `Turns(who, r, u,
  q)` says that the text u leads a reader from r to q, `Conveys(who, u, w)` that
  it leads any reader that is not within an escape to one that has appended w
  and is ready again. Texts that convey can be put together (ConveysBoth); a
  letter, four digits, a pair of surrogates and a printable byte each convey what
  they were written for; a text that conveys s, closed by a quote, is read as s
  (ReadersRead). serialize_str() is then an induction over the string. EscapeString()
  passes over the bytes of a sequence it has written, so its induction, `Holds`,
  speaks of the place where it goes on, which ValidateUTF8() reaches as well; once a
  byte is no UTF-8, the refusing writer has refused, and what the other wrote
  stops picojson for good (`Stops`: JSON has no \x) and is read by the Parser, which
  then rejects the bytes.
* ValidatesUTF8: ValidateUTF8() accepts exactly what Unicode's table 3-7 of
  well-formed byte sequences does. The code decodes a number and tests its range, the
  table has ranges of bytes; that both are the same is arithmetic on the bits (TwoBytes,
  ThreeBytes, FourBytes). A sequence cut off by the end of
  the string meets the terminating zero, which is no tail byte.

The algorithms are recursive functions or iterations, and what they compute for
every input needs induction. The library's theorems for it take an operator and cannot
be used; `JsonStrings_proofs` derives what is needed from one that takes a set (every set
of pairs without an infinite descent has least elements): facts about sets and functions,
`UpTo`, `Agreement` and `Iteration`.

The theorems about `AlgorithmsSpec` assume InputsAssumption of the inputs: buffers, texts
and strings are bytes, heads are made of lines, parts of URIs are of the grammar, the names and values of a
request are finitely many and none of the separators. The
theorems they follow from need no specification and no bound.

## Only model-checked

* Liveness (Returns, RefusedRecovers) and every use of ENABLED, which the prover
  does not support.
* What RECURSIVE operators compute, of which it proves nothing: the parsers
  (DocumentRead, PartsRefused, ValueReadsBack).
* Texts read back as numbers (TextSaysObject, RefreshRequestSays): they use TLC's
  ToString, which has no definition to prove from. The length in a request, and what a
  URI's port is worth, need less: that the text is no separator, that its characters are
  digits.
* FlatBufferBuilder (ObjectsReadBack, FinishedVerifies, Aligned): they compare what the
  accessors find, through a vtable, with what was given to the builder many
  steps before; an inductive invariant has to describe every byte in use. That was
  not attempted.
* The violations.

## Not modelled

* Cryptography, certificates' contents, the network below a socket's success or
  failure, memory exhaustion, log output.
* `FlatbuffersStreamingJsonParser`'s constructor and `is_ready()`: the two
  schemas are compiled into the program.
* JWT's `esp32_gen_random_bytes()`: a buffer filled from a hardware register.
* What numbers and strings become that `set_number()` and the visitor's strings do not
  write as they were read: JsonVisitor writes any of a set of texts instead.
* Of flatbuffers: the schema language, flexbuffers, the code generators, structs,
  unions, enums and reflection beyond its tables: the program's schema has none
  of the former, and the program calls none of the latter. Of picojson: the accessors
  and comparisons of values. `delegate`: a callable wrapper without state of the
  program's.
* Tests and stubs, which were read for what they expect.

## Plan

Done: the connection, the endpoint over it, the streambuf with its refinement, the
token endpoint, the visitor, the text and buffer algorithms, and the
theorems above. What would add most from here:

1. An abstract secure channel (open to an address, verified or not, closed) that
   `TLSConnection` implements, and the token endpoint composed over two
   `HttpsEndpoint`s that share a connection or not.
2. The visitor composed with `IdlParser`: the items it emits, outside the forms of
   ItemsFaithful, against what the parser makes of them.
3. Proofs: FlatBufferBuilder's Aligned and FinishedVerifies.
4. Schemas with structs, unions and enums, should the program come to use them.
