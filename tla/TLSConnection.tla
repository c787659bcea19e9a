----------------------------- MODULE TLSConnection -----------------------------
(***************************************************************************)
(* One TLSConnection and the client that owns it.  The client calls its    *)
(* operations in any order, with any arguments, and any library call in    *)
(* MayFail may fail; one action is one call, from its entry to its return. *)
(* The bodies are in TLSConnectionOps; write() and read() change no        *)
(* field, and are in HttpsEndpoint, where their results matter.            *)
(***************************************************************************)
EXTENDS TLSConnectionOps

CONSTANT Clients   \* the clients considered, each the set of operations it uses

\* The operations of TLSConnectionInterface that change state, and
\* TLSConnection's own verify(), which a client of the interface cannot call.
InterfaceCalls ==
  {"initialize", "init", "clear", "store_session", "clear_session",
   "set_cacert", "clear_cacert", "connect", "reconnect", "disconnect"}
Operations == InterfaceCalls \cup {"verify"}

ASSUME ClientsAssumption == Clients \subseteq SUBSET Operations

\* A call of op, with the arguments that the operations which take them are given.
Call(op) == [op |-> op, host |-> NoHost, port |-> DefaultPort, pem |-> NoPem]

VARIABLES
  tls,     \* the connection
  client,  \* the operations its client uses
  call     \* its last call, "none" before the first

vars == <<tls, client, call>>

-----------------------------------------------------------------------------
Init ==
  /\ \E memory \in {"raw", "empty"} : tls = NewTLS(memory)
  /\ client \in Clients
  /\ call = Call("none")

\* The client makes the call c.
Calls(c) == c.op \in client /\ UNCHANGED client /\ call' = c

\* initialize(h, p, pem).
Initialize(h, p, pem) ==
  /\ Calls([Call("initialize") EXCEPT !.host = h, !.port = p, !.pem = pem])
  /\ \E f \in Outcomes(InitCalls) : tls' = initialize(tls, h, p, pem, f)

InitContexts ==
  /\ Calls(Call("init"))
  /\ \E f \in Outcomes({"seed"}) : tls' = init(tls, f)

Clear == Calls(Call("clear")) /\ tls' = clear(tls)

StoreSession ==
  /\ Calls(Call("store_session"))
  /\ \E f \in Outcomes({"get_session"}) : tls' = store_session(tls, f)

ClearSession == Calls(Call("clear_session")) /\ tls' = clear_session(tls)

SetCacert(pem) ==
  /\ Calls([Call("set_cacert") EXCEPT !.pem = pem])
  /\ \E force_disconnect \in BOOLEAN, f \in Outcomes(InitCalls) :
       tls' = set_cacert(tls, pem, force_disconnect, f).tls

ClearCacert == Calls(Call("clear_cacert")) /\ tls' = clear_cacert(tls)

Verify ==
  /\ Calls(Call("verify"))
  /\ \E f \in Outcomes({"verify"}) : tls' = verify(tls, f)

\* connect(h, p).
Connect(h, p) ==
  /\ Calls([Call("connect") EXCEPT !.host = h, !.port = p])
  /\ tls' \in {connect(tls, h, p, f0, f1, f2).tls :
                f0 \in Outcomes(InitCalls), f1 \in Outcomes(InitCalls \cup ResumeCalls),
                f2 \in Outcomes(FullCalls)}

Reconnect ==
  /\ Calls(Call("reconnect"))
  /\ tls' \in {reconnect(tls, f0, f1, f2).tls :
                f0 \in Outcomes(InitCalls), f1 \in Outcomes(InitCalls \cup ResumeCalls),
                f2 \in Outcomes(FullCalls)}

Disconnect == Calls(Call("disconnect")) /\ tls' = disconnect(tls)

Next ==
  \/ \E h \in Hosts, p \in Ports, pem \in Pems \cup {NoPem} : Initialize(h, p, pem)
  \/ InitContexts \/ Clear
  \/ StoreSession \/ ClearSession
  \/ \E pem \in Pems : SetCacert(pem)
  \/ ClearCacert \/ Verify
  \/ \E h \in Hosts, p \in Ports : Connect(h, p)
  \/ Reconnect \/ Disconnect

Spec == Init /\ [][Next]_vars

-----------------------------------------------------------------------------
TypeOK ==
  /\ tls \in TLS
  /\ client \in Clients
  /\ call \in [op: client \cup {"none"}, host: Hosts \cup {NoHost}, port: Ports,
               pem: Pems \cup {NoPem}]

\* The flags of tls_connection.h tell the truth about the contexts: verified
\* implies connected, connected implies an initialized connection whose socket
\* is open and whose context is set up, and an uninitialized connection holds
\* no set-up context and no valid session.  init(), clear(), _connect() and
\* disconnect() each write a different subset of flags and contexts.
FlagsCoherent ==
  /\ tls.verified => tls.connected
  /\ tls.connected => tls.initialized /\ tls.fd # NoAddr /\ tls.ssl # "unset"
  /\ tls.ssl # "unset" => tls.initialized

\* A session marked valid is one mbedtls can be given: it was copied out of a
\* finished handshake, has not been freed or zeroed since, and the context that
\* reconnect() resets and hands it to (src/tls_connection.cpp:398-402) is set up.
SessionUsable ==
  tls.has_valid_session => tls.saved = "live" /\ tls.ssl # "unset"

\* mbedtls_ssl_session_reset never sees a context that was not set up, on which
\* it writes through null pointers (reconnect(), src/tls_connection.cpp:398).
ContextSetUpBeforeReset == "context_unset" \notin tls.faults

\* A connection that reports connected() is to the target it was last given: the
\* socket is open to host and port, the handshake on it is over, and was made
\* with that host, unless mbedtls was once asked to shake hands on a context
\* whose handshake was over (connected() is what write() and read() trust).  A
\* client that calls verify() itself can mark an old target's connection verified.
ConnectedToTarget ==
  connected(tls) /\ "verify" \notin client =>
    /\ tls.fd = target(tls)
    /\ tls.ssl = "over"
    /\ "handshake_reused" \in tls.faults \/ tls.ssl_peer = target(tls)

\* The valid session is the target's, with the same exception: initialize() and
\* clear() drop it whenever host or port change, by whichever call they do.
SessionOfTarget ==
  tls.has_valid_session /\ "verify" \notin client =>
    \/ "handshake_reused" \in tls.faults
    \/ tls.saved_peer = target(tls)

\* Does the call c, of a client connected to target(s), ask for the connection's
\* end?  connect() names a host; its port is not used (see ConnectUsesPort).
EndsConnection(c, s) ==
  \/ c.op \in {"disconnect", "clear"}
  \/ c.pem # NoPem
  \/ c.op = "initialize" /\ <<c.host, c.port>> # target(s)
  \/ c.op = "connect" /\ c.host # s.host

\* A live connection ends, or is exchanged for another socket, only by a call
\* that asks for it: disconnect(), clear(), loading a certificate, or naming
\* another target.  Every other call, whichever part of it fails, leaves its
\* client connected, to the same target and on the very socket it had: connect()
\* and reconnect() in particular do not dial again
\* (src/tls_connection.cpp:351-354, 391-395).
LiveConnectionKept ==
  [][connected(tls) /\ ~EndsConnection(call', tls) =>
       /\ connected(tls')
       /\ target(tls') = target(tls)
       /\ tls'.fd = tls.fd /\ tls'.socket = tls.socket]_vars

-----------------------------------------------------------------------------
(***************************************************************************)
(* What comments of the source say of these operations, and the code does  *)
(* not do: each is refuted by a run of its own.                            *)
(***************************************************************************)

\* "Update member variables for desired connection host/port/cacert"
\* (src/tls_connection.cpp:59): a connection made by connect(h, p) is to port p.
\* connect() hands the member's port to _ensure_connected() instead (line 351).
ConnectUsesPort ==
  [][\A h \in Hosts, p \in Ports :
       Connect(h, p) /\ ~connected(tls) /\ connected(tls') => tls'.fd = <<h, p>>]_vars

\* "Mark the session (for the previous host) as invalid"
\* (src/tls_connection.cpp:56): a valid session is the target's.  The context
\* keeps the old handshake, connect() takes it for the new host's, and stores
\* the previous host's session again.
PreviousSessionInvalid == tls.has_valid_session => tls.saved_peer = target(tls)
=============================================================================
