---------------------------- MODULE MCTLSConnection ----------------------------
(***************************************************************************)
(* TLSConnection on small sets: two hosts, the default port and another,   *)
(* a certificate that parses and one that does not.                        *)
(***************************************************************************)
EXTENDS TLSConnection, TLC

CONSTANTS h1, h2, good, bad

MCHosts == {h1, h2}
MCPorts == {443, 8443}
MCPems == {good, bad}
MCGoodPems == {good}
MCClients == {InterfaceCalls, Operations}
MCInterface == {InterfaceCalls}
MCWatched == {"context_unset", "handshake_reused"}

\* The two hosts are interchangeable in every invariant.
Symmetry == Permutations({h1, h2})

\* The socket's number and the call are compared only across a step, and no step
\* depends on either: states that differ in nothing else are one.
MCView == <<[tls EXCEPT !.socket = 0], client>>
=============================================================================
