------------------------------- MODULE Algorithms -------------------------------
(***************************************************************************)
(* The pure algorithms, one call of one of them at a time, on any of the   *)
(* inputs considered: the text of requests and responses, URIs, base64,    *)
(* tokens, buffers of FlatBuffers, strings in JSON.  A call is the record  *)
(* of its arguments; what it returns is a value of the operator.           *)
(***************************************************************************)
EXTENDS FlatBuffer, Base64, UriParser, Jwt, JsonStrings

CONSTANT Inputs   \* the sets of calls considered, one after another

Http == INSTANCE HttpText
Reflect == INSTANCE MiniReflect

VARIABLE task     \* the call

HeadChars == {"H", "a", "2", "0"}
HeadText == Seq(HeadChars \cup Http!Whitespace)
Lines == {text \in HeadText \ {<<>>} : Http!IsLine(text)}

\* The names and the values of a request.
RequestTexts(t) ==
  {"GET", "/p", "Content-Length", Http!ToString(0), Http!ToString(Len(t.body))}
  \cup UNION {DOMAIN map \cup {map[k] : k \in DOMAIN map} : map \in {t.query, t.headers, t.q, t.h}}

\* What the callers of the coders and the readers give them: bytes.  What a server
\* answers: a code, a reason with a word, and headers that are lines.  Names and values
\* of a request: finitely many, and none of what separates them.
ASSUME InputsAssumption ==
  \A i \in DOMAIN Inputs : \A t \in Inputs[i] :
    /\ t.about = "buffer" => t.bytes \in Seq(Octets)
    /\ t.about = "base64" => t.text \in Seq(Octets) /\ t.cut \in 0..Len(t.text)
    /\ t.about = "jwt" => /\ t.header \in Seq(Octets) /\ t.payload \in Seq(Octets)
                          /\ t.fails \subseteq {"md", "sign"}
    /\ t.about = "head" =>
         /\ t.code \in Seq(Http!Digits) \ {<<>>} /\ t.reason \in Lines
         /\ t.reason[1] \in HeadChars /\ t.headers \in Seq(Lines) /\ t.body \in HeadText
    /\ t.about = "request" =>
         /\ t.takes \in Http!Overloads /\ RequestTexts(t) \cap Http!Separators = {}
         /\ \A map \in {t.query, t.headers, t.q, t.h} : IsFiniteSet(DOMAIN map)
         /\ t.body \in Seq(STRING)
    /\ t.about = "uri" => WellFormed(t) /\ PartsOf(t) \subseteq Seq(STRING)
    /\ t.about = "octets" => t.octets \in Seq(Octets)

None == [about |-> "none"]

CallAlgorithm == task = None /\ \E i \in DOMAIN Inputs : task' \in Inputs[i]

AlgorithmsInit == task = None

AlgorithmsSpec == AlgorithmsInit /\ [][CallAlgorithm]_task

-----------------------------------------------------------------------------
\* HttpText: the server reads the request that was asked for.
RequestReads ==
  task.about = "request" =>
    Http!RequestReads([query |-> task.query, headers |-> task.headers], task.takes, "GET", "/p",
                      task.q, task.h, task.body)
\* HttpText: the code, the headers and the body of a response are read apart.
HeadReads ==
  task.about = "head" =>
    Http!HeadReads(task.code, task.reason, task.headers, task.body, HeadChars)
\* UriParser: the parts of a URI are read as they were written.
PartsRead == task.about = "uri" => PartsFound(task)
\* Base64: a text is decoded to what was encoded, whatever the pieces.
CodeFaithful == task.about = "base64" => CodesFaithfully(task.text, task.cut)
\* Jwt: a token is the header and the payload it was minted from, with a signature of both.
TokenReads ==
  task.about = "jwt" => TokenSays(task.alg, task.key, task.header, task.payload, task.fails)
\* FlatBuffer: the accessors stay inside a buffer the Verifier accepted.
VerifiedInBounds ==
  task.about = "buffer" => \A type \in DOMAIN Tables : AcceptedInBounds(task.bytes, type)
\* JsonStrings: flatbuffers reads the strings it writes.
EscapeReadsBack == task.about = "octets" => EscapedReadsBack(task.octets)
\* JsonStrings: flatbuffers reads the strings picojson writes.
SerializedReadsBack == task.about = "octets" => WrittenReadsBack(task.octets)
\* MiniReflect: the text of a table says what is in it.
TextSaysObject == task.about = "reflected" => Reflect!TextSaysObject(task.type, task.given)
\* MiniReflect: the request for a token says the refresh token.
RefreshRequestSays ==
  task.about = "refresh token" => Reflect!RefreshRequestSays(task.refresh_token)
\* MiniReflect: "Generate refresh_token -> id_token request JSON"
\* (src/id_token_protected_endpoint.inl:177).
RequestBodyIsJson ==
  task.about = "refresh token" => Reflect!RequestBodyIsJson(task.refresh_token)
=============================================================================
