-------------------- MODULE IdTokenProtectedEndpoint_proofs --------------------
(***************************************************************************)
(* Proofs about IdTokenProtectedEndpoint: its tokens are those the service *)
(* means it to have, for any number of grants and rotations.  IInv adds to *)
(* the properties what they rest on between two steps: the Authorization   *)
(* header is the newest token, a document with a token is of some grant,   *)
(* and a request that is about to be written without a token has asked for *)
(* one.                                                                    *)
(***************************************************************************)
EXTENDS IdTokenProtectedEndpoint, TLAPS

HeaderIsNewest == authorization = newest
TokensAreOfGrants == document.holds # {} => document.of # 0
WrittenAfterAttempt == pc = "write" => authorization # NoToken \/ tried = "nothing"

\* TypeOK in two parts: the flags, and all else.
FlagsType == ready \in BOOLEAN /\ update \in BOOLEAN /\ in_step \in BOOLEAN
OthersType ==
  /\ refresh_token \in 1..(MaxRotations + 1)
  /\ authorization \in Tokens \cup {NoToken} /\ newest \in Tokens \cup {NoToken}
  /\ client \in SUBSET {"refreshes", "by_hand"}
  /\ pc \in {"idle", "connect", "token", "answer", "write", "response"}
  /\ caller \in {"client", "ensure_connected", "callback"}
  /\ document \in Documents
  /\ service \in [refresh : 1..(MaxRotations + 1), grants : 0..MaxGrants,
                  expired : SUBSET (1..MaxGrants)]
  /\ tried \in {"no", "nothing", "token"}
  /\ last \in [auth : Tokens \cup {NoToken}, newest : Tokens \cup {NoToken},
               tried : {"no", "nothing", "token"}, code : {0, 200, 401}]
Typed == FlagsType /\ OthersType

IInv ==
  /\ Typed /\ RefreshTokenCurrent /\ TokenOfLastGrant /\ UnauthenticatedAfterAttempt
  /\ HeaderIsNewest /\ TokensAreOfGrants /\ WrittenAfterAttempt

-----------------------------------------------------------------------------
\* The token of a grant is a token, and never the lack of one.
LEMMA GrantedToken ==
  ASSUME NEW n \in 1..MaxGrants, NEW k \in {"id", "access"}
  PROVE  [kind |-> k, of |-> n] \in Tokens /\ [kind |-> k, of |-> n] # NoToken
BY DEF Tokens, NoToken

\* Documents that say nothing.
LEMMA NoDocumentType ==
  /\ NoDocument \in Documents /\ NoDocument.holds = {} /\ NoDocument.refresh = 0
  /\ \A c \in {"absent", "earlier", "last"} :
       /\ [NoDocument EXCEPT !.code = c] \in Documents
       /\ [NoDocument EXCEPT !.code = c].holds = {}
       /\ [NoDocument EXCEPT !.code = c].refresh = 0
BY BoundsAssumption DEF NoDocument, Documents

LEMMA InitIInv == Init => IInv
<1> SUFFICES ASSUME Init PROVE IInv
  OBVIOUS
<1>1. Typed
  BY BoundsAssumption, NoDocumentType DEF Init, Typed, FlagsType, OthersType, NoRequest, NoToken, Tokens
<1>2. RefreshTokenCurrent /\ TokenOfLastGrant /\ UnauthenticatedAfterAttempt
  BY DEF Init, RefreshTokenCurrent, TokenOfLastGrant, UnauthenticatedAfterAttempt, NoRequest
<1>3. HeaderIsNewest /\ TokensAreOfGrants /\ WrittenAfterAttempt
  BY NoDocumentType DEF Init, HeaderIsNewest, TokensAreOfGrants, WrittenAfterAttempt
<1> QED
  BY <1>1, <1>2, <1>3 DEF IInv

-----------------------------------------------------------------------------
\* The steps of the client: make_request() up to the request, set_refresh_token().
LEMMA ClientKeepsIInv ==
  ASSUME IInv,
         \/ MakeRequest \/ ensure_connected \/ refresh_id_token
         \/ set_refresh_token \/ WriteFails \/ ResponseLost \/ ResponseRead
  PROVE  IInv'
<1> USE BoundsAssumption DEF IInv
<1>1. Typed'
  <2>1. FlagsType'
    BY DEF Typed, FlagsType, MakeRequest, ensure_connected, refresh_id_token,
           set_refresh_token, WriteFails, ResponseLost, ResponseRead
  <2>2. OthersType'
    <3>1. refresh_token' \in 1..(MaxRotations + 1)
      BY DEF Typed, OthersType, MakeRequest, ensure_connected, refresh_id_token,
             set_refresh_token, WriteFails, ResponseLost, ResponseRead
    <3>2. /\ pc' \in {"idle", "connect", "token", "answer", "write", "response"}
          /\ caller' \in {"client", "ensure_connected", "callback"}
          /\ tried' \in {"no", "nothing", "token"}
      BY DEF Typed, OthersType, MakeRequest, ensure_connected, refresh_id_token,
             set_refresh_token, WriteFails, ResponseLost, ResponseRead
    <3>3. UNCHANGED <<authorization, newest, client, document, service, last>>
      BY DEF MakeRequest, ensure_connected, refresh_id_token, set_refresh_token, WriteFails,
             ResponseLost, ResponseRead
    <3> QED
      BY <3>1, <3>2, <3>3 DEF Typed, OthersType
  <2> QED
    BY <2>1, <2>2 DEF Typed
<1>2. RefreshTokenCurrent'
  BY DEF Typed, OthersType, RefreshTokenCurrent, MakeRequest, ensure_connected, refresh_id_token,
         set_refresh_token, WriteFails, ResponseLost, ResponseRead
<1>3. TokenOfLastGrant' /\ UnauthenticatedAfterAttempt' /\ HeaderIsNewest' /\ TokensAreOfGrants'
  BY DEF TokenOfLastGrant, UnauthenticatedAfterAttempt, HeaderIsNewest, TokensAreOfGrants,
         MakeRequest, ensure_connected, refresh_id_token, set_refresh_token, WriteFails,
         ResponseLost, ResponseRead
<1>4. WrittenAfterAttempt'
  BY DEF WrittenAfterAttempt, has_id_token, MakeRequest, ensure_connected, refresh_id_token,
         set_refresh_token, WriteFails, ResponseLost, ResponseRead
<1> QED
  BY <1>1, <1>2, <1>3, <1>4

\* The API reads a request.
LEMMA WriteKeepsIInv ==
  ASSUME IInv, WriteSucceeds
  PROVE  IInv'
<1> USE DEF IInv
<1>1. Typed'
  <2>1. FlagsType'
    BY DEF Typed, FlagsType, WriteSucceeds
  <2>2. OthersType'
    BY DEF Typed, OthersType, WriteSucceeds
  <2> QED
    BY <2>1, <2>2 DEF Typed
<1>2. RefreshTokenCurrent' /\ HeaderIsNewest' /\ TokensAreOfGrants' /\ WrittenAfterAttempt'
  BY DEF WriteSucceeds, RefreshTokenCurrent, HeaderIsNewest, TokensAreOfGrants, WrittenAfterAttempt
<1>3. TokenOfLastGrant' /\ UnauthenticatedAfterAttempt'
  BY DEF WriteSucceeds, TokenOfLastGrant, UnauthenticatedAfterAttempt, HeaderIsNewest,
         WrittenAfterAttempt
<1> QED
  BY <1>1, <1>2, <1>3

\* The service grants, refuses, or lets a token expire.
LEMMA ServiceKeepsIInv ==
  ASSUME IInv, Grant \/ ServiceRefuses \/ Expire
  PROVE  IInv'
<1> USE BoundsAssumption DEF IInv
<1>1. CASE Grant
  <2>1. PICK holds \in SUBSET {"id", "access"}, rotates \in BOOLEAN : ServiceGrants(holds, rotates)
    BY <1>1 DEF Grant
  <2>2. NextGrant \in 1..MaxGrants
    BY DEF NextGrant, Typed, OthersType
  <2>3. /\ document' \in Documents /\ document'.of # 0
        /\ document'.refresh # 0 => document'.refresh = service'.refresh
        /\ document'.refresh = 0 => service'.refresh = refresh_token
        /\ service'.refresh \in 1..(MaxRotations + 1)
    BY <2>1, <2>2 DEF Typed, OthersType, ServiceGrants, Documents
  <2>4. Typed'
    <3>1. FlagsType'
      BY <2>1, <2>2, <2>3 DEF Typed, FlagsType, ServiceGrants
    <3>2. OthersType'
      <4>1. service' = [refresh |-> service'.refresh, grants |-> NextGrant,
                        expired |-> service.expired]
        BY <2>1 DEF Typed, OthersType, ServiceGrants
      <4>2. service' \in [refresh : 1..(MaxRotations + 1), grants : 0..MaxGrants,
                          expired : SUBSET (1..MaxGrants)]
        BY <2>2, <2>3, <4>1 DEF Typed, OthersType
      <4> QED
        BY <2>1, <2>3, <4>2 DEF Typed, OthersType, ServiceGrants
    <3> QED
      BY <3>1, <3>2 DEF Typed
  <2>5. RefreshTokenCurrent'
    BY <2>1, <2>3 DEF RefreshTokenCurrent, ServiceGrants
  <2>6. TokenOfLastGrant' /\ UnauthenticatedAfterAttempt' /\ HeaderIsNewest'
        /\ TokensAreOfGrants' /\ WrittenAfterAttempt'
    BY <2>1, <2>3 DEF TokenOfLastGrant, UnauthenticatedAfterAttempt, HeaderIsNewest,
       TokensAreOfGrants, WrittenAfterAttempt, ServiceGrants
  <2> QED
    BY <2>4, <2>5, <2>6
<1>2. CASE ServiceRefuses
  <2>1. document' \in Documents /\ document'.holds = {} /\ document'.refresh = 0
    BY <1>2, NoDocumentType DEF ServiceRefuses
  <2>2. Typed' /\ RefreshTokenCurrent'
    <3>1. FlagsType'
      BY <1>2, <2>1 DEF Typed, FlagsType, ServiceRefuses
    <3>2. OthersType'
      BY <1>2, <2>1 DEF Typed, OthersType, ServiceRefuses
    <3>3. RefreshTokenCurrent'
      BY <1>2, <2>1 DEF Typed, OthersType, RefreshTokenCurrent, ServiceRefuses
    <3> QED
      BY <3>1, <3>2, <3>3 DEF Typed
  <2>3. TokenOfLastGrant' /\ UnauthenticatedAfterAttempt' /\ HeaderIsNewest'
        /\ TokensAreOfGrants' /\ WrittenAfterAttempt'
    BY <1>2, <2>1 DEF TokenOfLastGrant, UnauthenticatedAfterAttempt, HeaderIsNewest,
       TokensAreOfGrants, WrittenAfterAttempt, ServiceRefuses
  <2> QED
    BY <2>2, <2>3
<1>3. CASE Expire
  <2>1. service'.refresh = service.refresh
    BY <1>3 DEF Expire, Typed, OthersType
  <2>2. Typed' /\ RefreshTokenCurrent'
    <3>1. FlagsType'
      BY <1>3, <2>1 DEF Typed, FlagsType, Expire
    <3>2. OthersType'
      BY <1>3, <2>1 DEF Typed, OthersType, Expire
    <3>3. RefreshTokenCurrent'
      BY <1>3, <2>1 DEF Typed, OthersType, RefreshTokenCurrent, Expire
    <3> QED
      BY <3>1, <3>2, <3>3 DEF Typed
  <2>3. TokenOfLastGrant' /\ UnauthenticatedAfterAttempt' /\ HeaderIsNewest'
        /\ TokensAreOfGrants' /\ WrittenAfterAttempt'
    BY <1>3 DEF TokenOfLastGrant, UnauthenticatedAfterAttempt, HeaderIsNewest,
       TokensAreOfGrants, WrittenAfterAttempt, Expire
  <2> QED
    BY <2>2, <2>3
<1> QED
  BY <1>1, <1>2, <1>3

\* refresh_id_token() comes back without an answer.
LEMMA LossKeepsIInv ==
  ASSUME IInv, TokenRequestFails \/ AnswerLost
  PROVE  IInv'
<1> USE NoDocumentType DEF IInv, RefreshReturns
<1>1. Typed'
  <2>1. FlagsType'
    BY DEF Typed, FlagsType, TokenRequestFails, AnswerLost
  <2>2. OthersType'
    BY DEF Typed, OthersType, TokenRequestFails, AnswerLost
  <2> QED
    BY <2>1, <2>2 DEF Typed
<1>2. RefreshTokenCurrent'
  <2>1. CASE TokenRequestFails
    BY <2>1 DEF Typed, OthersType, RefreshTokenCurrent, TokenRequestFails
  <2>2. CASE AnswerLost
    <3>1. in_step' => in_step /\ document.refresh = 0
      BY <2>2 DEF AnswerLost
    <3>2. pc = "answer" /\ pc' # "answer" /\ UNCHANGED <<service, refresh_token>>
      BY <2>2 DEF AnswerLost
    <3> QED
      BY <3>1, <3>2 DEF RefreshTokenCurrent
  <2> QED
    BY <2>1, <2>2
<1>3. TokenOfLastGrant' /\ UnauthenticatedAfterAttempt' /\ HeaderIsNewest'
      /\ TokensAreOfGrants' /\ WrittenAfterAttempt'
  BY DEF TokenOfLastGrant, UnauthenticatedAfterAttempt, HeaderIsNewest, TokensAreOfGrants,
         WrittenAfterAttempt, TokenRequestFails, AnswerLost
<1> QED
  BY <1>1, <1>2, <1>3

\* The answer reaches the callback.
Taken == ready /\ document.code # "last"

\* What the client was told of rotations, after an answer.
LEMMA TakenOrNot ==
  ASSUME AnswerRead, in_step'
  PROVE  in_step /\ (document.refresh = 0 \/ (Taken /\ update))
<1>1. CASE Taken
  BY <1>1 DEF AnswerRead, Taken
<1>2. CASE ~Taken
  BY <1>2 DEF AnswerRead, Taken
<1> QED
  BY <1>1, <1>2

\* refresh_id_token() has its answer.
LEMMA AnswerKeepsIInv ==
  ASSUME IInv, AnswerRead
  PROVE  IInv'
<1> USE NoDocumentType DEF IInv, RefreshReturns, Taken
<1> DEFINE token == [kind |-> IF "id" \in document.holds THEN "id" ELSE "access",
                    of |-> document.of]
<1>1. TokenOfLastGrant' /\ UnauthenticatedAfterAttempt' /\ TokensAreOfGrants'
  BY DEF TokenOfLastGrant, UnauthenticatedAfterAttempt, TokensAreOfGrants, AnswerRead
<1>2. in_step' => in_step /\ (document.refresh = 0 \/ (Taken /\ update))
  BY TakenOrNot
<1>3. /\ pc = "answer" /\ pc' # "answer" /\ UNCHANGED service
      /\ refresh_token' = IF Taken /\ update /\ document.refresh # 0 THEN document.refresh
                          ELSE refresh_token
  <2>1. pc = "answer" /\ pc' # "answer" /\ UNCHANGED service
    BY DEF AnswerRead
  <2>2. CASE Taken
    BY <2>1, <2>2 DEF AnswerRead, TokenCallback
  <2>3. CASE ~Taken
    BY <2>1, <2>3 DEF AnswerRead
  <2> QED
    BY <2>2, <2>3
<1>4. RefreshTokenCurrent'
  BY <1>2, <1>3 DEF RefreshTokenCurrent
<1>5. CASE Taken /\ document.holds # {}
  <2>1. document.of \in 1..MaxGrants
    BY <1>5 DEF Typed, OthersType, Documents, TokensAreOfGrants
  <2>2. token \in Tokens /\ token # NoToken
    BY <2>1, GrantedToken
  <2>3. authorization' = token /\ newest' = token /\ tried' = "token"
    BY <1>5 DEF AnswerRead, TokenCallback, set_id_token
  <2>4. Typed'
    <3>1. FlagsType'
      BY <1>5, <2>2, <2>3 DEF Typed, FlagsType, AnswerRead, TokenCallback, Documents
    <3>2. OthersType'
      BY <1>5, <2>2, <2>3 DEF Typed, OthersType, AnswerRead, TokenCallback, Documents
    <3> QED
      BY <3>1, <3>2 DEF Typed
  <2> QED
    BY <1>1, <1>4, <2>2, <2>3, <2>4 DEF HeaderIsNewest, WrittenAfterAttempt
<1>6. CASE Taken /\ document.holds = {}
  <2>1. Typed'
    <3>1. FlagsType'
      BY <1>6 DEF Typed, FlagsType, AnswerRead, TokenCallback, Documents
    <3>2. OthersType'
      BY <1>6 DEF Typed, OthersType, AnswerRead, TokenCallback, Documents
    <3> QED
      BY <3>1, <3>2 DEF Typed
  <2>2. HeaderIsNewest' /\ WrittenAfterAttempt'
    BY <1>6 DEF HeaderIsNewest, WrittenAfterAttempt, AnswerRead, TokenCallback
  <2> QED
    BY <1>1, <1>4, <2>1, <2>2
<1>7. CASE ~Taken
  <2>1. Typed'
    <3>1. FlagsType'
      BY <1>7 DEF Typed, FlagsType, AnswerRead
    <3>2. OthersType'
      BY <1>7 DEF Typed, OthersType, AnswerRead
    <3> QED
      BY <3>1, <3>2 DEF Typed
  <2>2. HeaderIsNewest' /\ WrittenAfterAttempt'
    BY <1>7 DEF HeaderIsNewest, WrittenAfterAttempt, AnswerRead
  <2> QED
    BY <1>1, <1>4, <2>1, <2>2
<1> QED
  BY <1>5, <1>6, <1>7

LEMMA NextIInv == IInv /\ [Next]_vars => IInv'
<1> SUFFICES ASSUME IInv, [Next]_vars PROVE IInv'
  OBVIOUS
<1>1. CASE UNCHANGED vars
  BY <1>1 DEF vars, IInv, Typed, FlagsType, OthersType, RefreshTokenCurrent, TokenOfLastGrant,
     UnauthenticatedAfterAttempt, HeaderIsNewest, TokensAreOfGrants, WrittenAfterAttempt
<1> QED
  BY <1>1, ClientKeepsIInv, WriteKeepsIInv, ServiceKeepsIInv, LossKeepsIInv, AnswerKeepsIInv
  DEF Next

LEMMA Invariance == Spec => []IInv
BY InitIInv, NextIInv, PTL DEF Spec

-----------------------------------------------------------------------------
\* The endpoint's fields, the service and what is on its way between them keep their
\* types (the members of id_token_protected_endpoint.h).
THEOREM TypeCorrect == Spec => []TypeOK
<1>1. IInv => TypeOK
  BY DEF IInv, Typed, FlagsType, OthersType, TypeOK
<1> QED
  BY <1>1, Invariance, PTL

\* The refresh token in use is the one the service takes, unless an answer that
\* replaced it was lost: the callback takes it before it looks for an identity token
\* (id_token_protected_endpoint.inl:135-155).
THEOREM RefreshTokenAlwaysCurrent == Spec => []RefreshTokenCurrent
<1>1. IInv => RefreshTokenCurrent
  BY DEF IInv
<1> QED
  BY <1>1, Invariance, PTL

\* No request carries an earlier token than the last one delivered
\* (set_id_token(), id_token_protected_endpoint.inl:102).
THEOREM TokenAlwaysOfLastGrant == Spec => []TokenOfLastGrant
<1>1. IInv => TokenOfLastGrant
  BY DEF IInv
<1> QED
  BY <1>1, Invariance, PTL

\* A request goes out without a token only after its own ensure_connected() asked for
\* one in vain (id_token_protected_endpoint.inl:66-78).
THEOREM UnauthenticatedOnlyAfterAttempt == Spec => []UnauthenticatedAfterAttempt
<1>1. IInv => UnauthenticatedAfterAttempt
  BY DEF IInv
<1> QED
  BY <1>1, Invariance, PTL
=============================================================================
