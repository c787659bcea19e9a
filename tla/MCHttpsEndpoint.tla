---------------------------- MODULE MCHttpsEndpoint ----------------------------
(***************************************************************************)
(* HttpsEndpoint with two hosts, one port and one certificate, and up to   *)
(* three calls of make_request().                                          *)
(***************************************************************************)
EXTENDS HttpsEndpoint, TLC

CONSTANTS h1, h2, good

MCHosts == {h1, h2}
MCPorts == {443}
MCPems == {good}
MCClients == {{}, {"connect"}, {"reenter"}}
MCRequester == {{}}
\* The two hosts are interchangeable in every invariant.
Symmetry == Permutations({h1, h2})
MCMayFail == {"config", "handshake", "get_session"}
=============================================================================
