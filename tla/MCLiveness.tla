------------------------------- MODULE MCLiveness -------------------------------
(***************************************************************************)
(* What must eventually happen, of the endpoint and of the token endpoint, *)
(* each under its own fairness: a behaviour is one of either, and subject  *)
(* says which.  The variables of the other stay as they are.               *)
(***************************************************************************)
EXTENDS IdTokenProtectedEndpoint

CONSTANTS h1, h2, good, NoHost, NoPem

VARIABLES
  subject,                          \* whose behaviour it is
  tls, header, connect_ok, frames,  \* HttpsEndpoint
  requester, result, peer, answered, received

endpoint == <<tls, header, connect_ok, frames, requester, result, peer, answered, received>>

\* Two hosts, a client that only makes requests, two of them; one library call of each
\* phase may fail.
Endpoint == INSTANCE HttpsEndpoint WITH
  Hosts <- {h1, h2}, Ports <- {443}, DefaultPort <- 443, Pems <- {good}, GoodPems <- {good},
  MayFail <- {"config", "handshake", "get_session"}, Watched <- {}, Sockets <- 1,
  MaxRequests <- 2, Sizes <- {"fits", "exceeds"}, Clients <- {{}}, client <- requester

-----------------------------------------------------------------------------
\* The choices in the initial state of either are fixed in behaviours about the other.
LivenessInit ==
  /\ subject \in {"endpoint", "token"}
  /\ Init /\ Endpoint!Init
  /\ subject # "token" => ready /\ client = {}
  /\ subject # "endpoint" => header = h1 /\ tls.initialized

LivenessNext ==
  /\ UNCHANGED subject
  /\ \/ subject = "endpoint" /\ Endpoint!Next /\ UNCHANGED vars
     \/ subject = "token" /\ Next /\ UNCHANGED endpoint

\* Nothing that is fair of the endpoint is possible before a request is made.
LivenessSpec ==
  /\ LivenessInit /\ [][LivenessNext]_<<vars, endpoint, subject>>
  /\ Endpoint!Fairness /\ (subject = "token" => Fairness)

-----------------------------------------------------------------------------
\* HttpsEndpoint: a call whose request is written whole returns.
Returns == Endpoint!Returns
=============================================================================
