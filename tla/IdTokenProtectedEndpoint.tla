------------------------ MODULE IdTokenProtectedEndpoint ------------------------
(***************************************************************************)
(* IdTokenProtectedEndpoint (src/id_token_protected_endpoint.h, .inl): a   *)
(* make_request() that fetches an identity token first when the endpoint   *)
(* has no Authorization header, from a token service, over an endpoint of  *)
(* its own.                                                                *)
(*                                                                         *)
(* The token service knows one refresh token, and may replace it whenever  *)
(* it grants one (rotation); the API reads the requests themselves and     *)
(* refuses the tokens that expired.  What happens on either connection is  *)
(* HttpsEndpoint's subject: here a request is not read by its server, or   *)
(* read and not answered in full, or answered.                             *)
(***************************************************************************)
EXTENDS Naturals

CONSTANTS
  MaxGrants,     \* bound: how many grants are told apart; the last one stands for
                 \* all later ones, and does not expire
  MaxRotations   \* bound: how often it replaces the refresh token

ASSUME BoundsAssumption == MaxGrants \in Nat \ {0} /\ MaxRotations \in Nat

Tokens == [kind : {"id", "access"}, of : 1..MaxGrants]
NoToken == [kind |-> "none", of |-> 0]

\* A document of the token service: the refresh token in it (0: none), the tokens
\* of the grant it is for, and where the key "code" of an error is.
Documents == [refresh : 0..(MaxRotations + 1), holds : SUBSET {"id", "access"},
              of : 0..MaxGrants, code : {"absent", "earlier", "last"}]
NoDocument == [refresh |-> 0, holds |-> {}, of |-> 0, code |-> "absent"]

VARIABLES
  refresh_token,  \* the number of the refresh token in use
  authorization,  \* the "Authorization" header (NoToken: there is none)
  ready,          \* did oidc_parser load its schemas?
  client,         \* what it does besides make_request(): "refreshes" from its callback
                  \* when the API refuses, calls refresh_id_token and set_refresh_token "by_hand"
  pc,             \* what the thread does next
  caller,         \* who called refresh_id_token()
  update,         \* its parameter update_refresh_token
  document,       \* the answer of the token service that is on its way
  service,        \* its refresh token, how many grants it made, which of them expired
  tried,          \* what the refresh of this make_request() brought (history)
  newest,         \* the token of the last grant that was delivered (history)
  in_step,        \* has the client been told of every rotation? (history)
  last            \* the last request the API read (history)

vars == <<refresh_token, authorization, ready, client, pc, caller, update, document,
          service, tried, newest, in_step, last>>

NoRequest == [auth |-> NoToken, newest |-> NoToken, tried |-> "no", code |-> 0]

\* The constructor: Host and User-Agent are the only headers.
Init ==
  /\ refresh_token = 1 /\ authorization = NoToken
  /\ ready \in BOOLEAN /\ client \in SUBSET {"refreshes", "by_hand"}
  /\ pc = "idle" /\ caller = "client" /\ update = TRUE /\ document = NoDocument
  /\ service = [refresh |-> 1, grants |-> 0, expired |-> {}]
  /\ tried = "no" /\ newest = NoToken /\ in_step = TRUE /\ last = NoRequest

has_id_token == authorization # NoToken

\* A slip: add_header() keeps a header that is there already.
set_id_token_keeps_first(t) == authorization' = IF has_id_token THEN authorization ELSE t

\* set_id_token(): the header is added or replaced.
set_id_token(t) == authorization' = t

-----------------------------------------------------------------------------
\* make_request() begins.
MakeRequest ==
  /\ pc = "idle"
  /\ pc' = "connect" /\ tried' = "no"
  /\ UNCHANGED <<refresh_token, authorization, ready, client, caller, update, document,
                 service, newest, in_step, last>>

\* A slip: the token is not asked for.
ensure_connected_only ==
  /\ pc = "connect"
  /\ pc' = "write"
  /\ UNCHANGED <<refresh_token, authorization, ready, client, caller, update, document,
                 service, tried, newest, in_step, last>>

\* ensure_connected(): a token is fetched if there is none, of whatever age, and
\* the connection is made (its result is not looked at).
ensure_connected ==
  /\ pc = "connect"
  /\ IF has_id_token THEN pc' = "write" /\ UNCHANGED <<caller, update>>
     ELSE pc' = "token" /\ caller' = "ensure_connected" /\ update' = TRUE
  /\ UNCHANGED <<refresh_token, authorization, ready, client, document, service, tried,
                 newest, in_step, last>>

\* refresh_id_token(), called by the client.
refresh_id_token ==
  /\ pc = "idle" /\ "by_hand" \in client
  /\ pc' = "token" /\ caller' = "client" /\ update' \in BOOLEAN
  /\ UNCHANGED <<refresh_token, authorization, ready, client, document, service, tried,
                 newest, in_step, last>>

\* set_refresh_token(): any refresh token the service ever gave out.
set_refresh_token ==
  /\ pc = "idle" /\ "by_hand" \in client
  /\ \E r \in 1..service.refresh : refresh_token' = r /\ in_step' = (r = service.refresh)
  /\ UNCHANGED <<authorization, ready, client, pc, caller, update, document, service, tried,
                 newest, last>>

\* refresh_id_token() returns, with a result that is not looked at.
RefreshReturns ==
  /\ pc' = IF caller = "ensure_connected" THEN "write" ELSE "idle"
  /\ document' = NoDocument

\* The POST to /v1/token is not read by the service.
TokenRequestFails ==
  /\ pc = "token"
  /\ RefreshReturns /\ tried' = "nothing"
  /\ UNCHANGED <<refresh_token, authorization, ready, client, caller, update, service,
                 newest, in_step, last>>

NextGrant == IF service.grants < MaxGrants THEN service.grants + 1 ELSE MaxGrants

\* The service reads it and grants what it likes; a new refresh token is the only
\* one it takes from then on.
ServiceGrants(holds, rotates) ==
  /\ pc = "token" /\ refresh_token = service.refresh
  /\ rotates => service.refresh <= MaxRotations
  /\ service' = [service EXCEPT !.grants = NextGrant, !.refresh = IF rotates THEN @ + 1 ELSE @]
  /\ document' = [refresh |-> IF rotates THEN service.refresh + 1 ELSE 0,
                  holds |-> holds, of |-> NextGrant, code |-> "absent"]
  /\ pc' = "answer"
  /\ UNCHANGED <<refresh_token, authorization, ready, client, caller, update, tried,
                 newest, in_step, last>>

\* The service reads it and refuses.
ServiceRefuses ==
  /\ pc = "token" /\ refresh_token # service.refresh
  /\ \E c \in {"earlier", "last"} : document' = [NoDocument EXCEPT !.code = c]
  /\ pc' = "answer"
  /\ UNCHANGED <<refresh_token, authorization, ready, client, caller, update, service,
                 tried, newest, in_step, last>>

\* The connection ends before all of the answer is there: the visitor hands over
\* the root object at its closing brace.
AnswerLost ==
  /\ pc = "answer"
  /\ RefreshReturns /\ tried' = "nothing"
  /\ in_step' = (in_step /\ document.refresh = 0)
  /\ UNCHANGED <<refresh_token, authorization, ready, client, caller, update, service,
                 newest, last>>

\* A slip: the refresh token is kept when the document has no token.
TokenCallback_token_first(t) ==
  IF t.holds = {} THEN UNCHANGED <<refresh_token, authorization>>
  ELSE /\ set_id_token([kind |-> IF "id" \in t.holds THEN "id" ELSE "access", of |-> t.of])
       /\ refresh_token' = IF update /\ t.refresh # 0 THEN t.refresh ELSE refresh_token

\* The callback for a Token: the refresh token first, then the identity token, or
\* the access token in its place.
TokenCallback(t) ==
  /\ refresh_token' = IF update /\ t.refresh # 0 THEN t.refresh ELSE refresh_token
  /\ IF t.holds = {} THEN UNCHANGED authorization
     ELSE set_id_token([kind |-> IF "id" \in t.holds THEN "id" ELSE "access", of |-> t.of])

\* All of the answer is there.  A parser that is not ready hands over nothing, a
\* document whose last key is "code" goes to the errback, any other is a Token.
AnswerRead ==
  /\ pc = "answer"
  /\ RefreshReturns
  /\ IF ready /\ document.code # "last"
     THEN /\ TokenCallback(document)
          /\ in_step' = (in_step /\ (update \/ document.refresh = 0))
          /\ IF document.holds = {} THEN tried' = "nothing" /\ UNCHANGED newest
             ELSE /\ tried' = "token"
                  /\ newest' = [kind |-> IF "id" \in document.holds THEN "id" ELSE "access",
                                of |-> document.of]
     ELSE /\ tried' = "nothing"
          /\ in_step' = (in_step /\ document.refresh = 0)
          /\ UNCHANGED <<refresh_token, authorization, newest>>
  /\ UNCHANGED <<ready, client, caller, update, service, last>>

-----------------------------------------------------------------------------
\* The request is not read by the API: make_request() returns false.
WriteFails ==
  /\ pc = "write"
  /\ pc' = "idle"
  /\ UNCHANGED <<refresh_token, authorization, ready, client, caller, update, document,
                 service, tried, newest, in_step, last>>

\* The API reads the request, with its headers.
WriteSucceeds ==
  /\ pc = "write"
  /\ last' = [auth |-> authorization, newest |-> newest, tried |-> tried,
              code |-> IF has_id_token /\ authorization.of \notin service.expired THEN 200 ELSE 401]
  /\ pc' = "response"
  /\ UNCHANGED <<refresh_token, authorization, ready, client, caller, update, document,
                 service, tried, newest, in_step>>

\* The response is lost: make_request() returns true all the same.
ResponseLost ==
  /\ pc = "response"
  /\ pc' = "idle"
  /\ UNCHANGED <<refresh_token, authorization, ready, client, caller, update, document,
                 service, tried, newest, in_step, last>>

\* The client's callback is given the code, and may refresh the token.
ResponseRead ==
  /\ pc = "response"
  /\ IF last.code = 401 /\ "refreshes" \in client
     THEN pc' = "token" /\ caller' = "callback" /\ update' = TRUE
     ELSE pc' = "idle" /\ UNCHANGED <<caller, update>>
  /\ UNCHANGED <<refresh_token, authorization, ready, client, document, service, tried,
                 newest, in_step, last>>

\* A token expires.
Expire ==
  /\ \E n \in (1..service.grants) \ (service.expired \cup {MaxGrants}) :
       service' = [service EXCEPT !.expired = @ \cup {n}]
  /\ UNCHANGED <<refresh_token, authorization, ready, client, pc, caller, update, document,
                 tried, newest, in_step, last>>

Grant == \E holds \in SUBSET {"id", "access"}, rotates \in BOOLEAN : ServiceGrants(holds, rotates)

Next ==
  \/ MakeRequest \/ ensure_connected \/ refresh_id_token \/ set_refresh_token
  \/ TokenRequestFails \/ Grant \/ ServiceRefuses \/ AnswerLost \/ AnswerRead
  \/ WriteFails \/ WriteSucceeds \/ ResponseLost \/ ResponseRead
  \/ Expire

Spec == Init /\ [][Next]_vars

\* The client makes requests again and again, its thread runs, and neither server
\* fails it forever: asked again and again, each gets the request and answers, and
\* the token service grants a token, in an answer that is read.
Fairness ==
  /\ SF_vars(MakeRequest) /\ WF_vars(ensure_connected)
  /\ WF_vars(AnswerLost \/ AnswerRead) /\ WF_vars(TokenRequestFails \/ Grant \/ ServiceRefuses)
  /\ WF_vars(WriteFails \/ WriteSucceeds) /\ WF_vars(ResponseLost \/ ResponseRead)
  /\ SF_vars(\E rotates \in BOOLEAN : ServiceGrants({"id"}, rotates))
  /\ SF_vars(document.holds # {} /\ AnswerRead) /\ SF_vars(WriteSucceeds) /\ SF_vars(ResponseRead)

-----------------------------------------------------------------------------
TypeOK ==
  /\ refresh_token \in 1..(MaxRotations + 1)
  /\ authorization \in Tokens \cup {NoToken} /\ newest \in Tokens \cup {NoToken}
  /\ ready \in BOOLEAN /\ update \in BOOLEAN /\ in_step \in BOOLEAN
  /\ client \in SUBSET {"refreshes", "by_hand"}
  /\ pc \in {"idle", "connect", "token", "answer", "write", "response"}
  /\ caller \in {"client", "ensure_connected", "callback"}
  /\ document \in Documents
  /\ service \in [refresh : 1..(MaxRotations + 1), grants : 0..MaxGrants,
                  expired : SUBSET (1..MaxGrants)]
  /\ tried \in {"no", "nothing", "token"}
  /\ last \in [auth : Tokens \cup {NoToken}, newest : Tokens \cup {NoToken},
               tried : {"no", "nothing", "token"}, code : {0, 200, 401}]

\* The refresh token in use is the one the service takes, unless a rotation never
\* reached the client: its answer was lost, not parsed, or read with
\* update_refresh_token false.  (A document with a refresh token and no identity
\* token does not part the two: the callback takes the refresh token first.)
RefreshTokenCurrent ==
  in_step => service.refresh = IF pc = "answer" /\ document.refresh # 0
                               THEN document.refresh ELSE refresh_token

\* The API is sent the token of the last grant that was delivered, never an earlier
\* one, whoever called refresh_id_token() and whatever failed since.
TokenOfLastGrant == last.auth = last.newest

\* A request without a token is only sent by a make_request() that asked for a token
\* itself, and was not given one; once there is a token, none is sent without.
UnauthenticatedAfterAttempt ==
  last.code # 0 /\ last.auth = NoToken => last.tried = "nothing" /\ last.newest = NoToken

\* A client that refreshes when it is refused does not stay refused: the API takes
\* one of its requests, unless a rotation is lost.
RefusedRecovers ==
  (last.code = 401 /\ ready /\ "refreshes" \in client)
    ~> (last.code = 200 \/ ~in_step)
=============================================================================
