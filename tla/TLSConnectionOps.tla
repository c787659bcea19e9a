--------------------------- MODULE TLSConnectionOps ---------------------------
(***************************************************************************)
(* The member functions of TLSConnection (src/tls_connection.cpp), each as *)
(* an operator from the connection's state to the state it leaves.  They   *)
(* are constant-level, so that TLSConnection (one connection and a client  *)
(* that calls it) and HttpsEndpoint (a request over a connection) share    *)
(* them.                                                                   *)
(*                                                                         *)
(* A call runs to completion in one thread: the code has no lock, no task  *)
(* and no callback below TLSConnection, so an operator is one step.  What  *)
(* the program cannot decide is which library call fails: every operator   *)
(* that reaches one takes that call's name as a parameter f ("none" when   *)
(* all succeed).  connect() takes one per phase, since a failure in an     *)
(* earlier phase does not stop the later ones.                             *)
(***************************************************************************)
EXTENDS Naturals

CONSTANTS
  Hosts,        \* the host names a client may ask for
  NoHost,       \* the empty host name
  Ports,        \* the port numbers a client may ask for
  DefaultPort,  \* 443, the port of a connection that was never initialized
  Pems,         \* the CA certificates a client may load
  NoPem,        \* the empty certificate
  GoodPems,     \* those mbedtls_x509_crt_parse accepts
  MayFail,      \* the library calls that may fail
  Watched,      \* the faults to keep a history of
  Sockets       \* how many sockets are told apart: they are numbered modulo this

\* The calls into mbedtls whose failure the code distinguishes.
LibraryCalls ==
  {"seed", "config", "setup", "hostname", "resolve", "tcp", "handshake",
   "verify", "reset", "set_session", "get_session"}

ASSUME HostsAssumption == NoHost \notin Hosts
ASSUME PortsAssumption == Ports \subseteq 0..65535
ASSUME DefaultPortAssumption == DefaultPort \in Ports \ {0}
ASSUME PemsAssumption == NoPem \notin Pems /\ GoodPems \subseteq Pems
ASSUME MayFailAssumption == MayFail \subseteq LibraryCalls
ASSUME SocketsAssumption == Sockets \in Nat \ {0}

\* The outcomes of a phase that makes the library calls in cs.
Outcomes(cs) == {"none"} \cup (cs \cap MayFail)

InitCalls == {"seed", "config", "setup"}
ResumeCalls == {"reset", "set_session", "resolve", "tcp", "handshake"}
FullCalls == {"hostname", "resolve", "tcp", "handshake", "verify", "get_session"}

\* The address of a socket's or a session's peer; NoAddr stands for "none":
\* mbedtls_net_connect never reaches the empty host.
NoAddr == <<NoHost, DefaultPort>>
Addrs == (Hosts \X Ports) \cup {NoAddr}

(***************************************************************************)
(* What the code does to a library object that it must not, or loses; kept *)
(* as history in the field faults, when Watched:                           *)
(*  context_unset     mbedtls_ssl_session_reset on a context that was not  *)
(*                    set up (it dereferences null buffers)                *)
(*  handshake_unset   mbedtls_ssl_handshake on a context not set up        *)
(*  handshake_reused  mbedtls_ssl_handshake on a context whose handshake   *)
(*                    is over: it returns at once, nothing was negotiated  *)
(*  socket_lost       an open socket's descriptor was overwritten          *)
(*  setup_twice       mbedtls_ssl_setup on a context that is set up: the   *)
(*                    first buffers are lost                               *)
(*  session_uninit    mbedtls_ssl_session_free on raw memory               *)
(*  session_lost      a live saved session was zeroed without being freed  *)
(*  init_recursed     _ensure_initialized re-entered itself                *)
(***************************************************************************)
Faults ==
  {"context_unset", "handshake_unset", "handshake_reused", "socket_lost",
   "setup_twice", "session_uninit", "session_lost", "init_recursed"}

ASSUME WatchedAssumption == Watched \subseteq Faults

SocketNumbers == 0..(Sockets - 1)

\* The fields of a TLSConnection.
TLS ==
  [host: Hosts \cup {NoHost}, port: Ports, cacert_pem: Pems \cup {NoPem},
   initialized: BOOLEAN, cacert_set: BOOLEAN, verified: BOOLEAN,
   connected: BOOLEAN, has_valid_session: BOOLEAN,
   fd: Addrs,                              \* server_fd: NoAddr is closed
   socket: SocketNumbers,                  \* the number of the last socket
   ssl: {"unset", "ready", "over"},        \* is the handshake over?
   ssl_peer: Addrs,                        \* whom it was made with
   saved: {"raw", "empty", "live"},        \* saved_session's memory
   saved_peer: Addrs,                      \* whose session it holds
   faults: SUBSET Watched]

\* A TLSConnection as `TLSConnection() = default` leaves it: the contexts are
\* members without an initializer, so saved_session holds zeros in static
\* storage ("empty") and anything at all elsewhere ("raw").
NewTLS(memory) ==
  [host |-> NoHost, port |-> DefaultPort, cacert_pem |-> NoPem,
   initialized |-> FALSE, cacert_set |-> FALSE, verified |-> FALSE,
   connected |-> FALSE, has_valid_session |-> FALSE,
   fd |-> NoAddr, socket |-> 0, ssl |-> "unset", ssl_peer |-> NoAddr,
   saved |-> memory, saved_peer |-> NoAddr, faults |-> {}]

\* s with fault noted when it happens.
Note(s, fault, happens) ==
  [s EXCEPT !.faults = IF happens THEN @ \cup ({fault} \cap Watched) ELSE @]

-----------------------------------------------------------------------------
connected(s) == s.connected /\ s.verified

ready(s) == s.initialized /\ s.cacert_set

target(s) == <<s.host, s.port>>

\* Slips a change to clear() or initialize() could make; only the runs that
\* check that a property notices them use these.
clear_keeps_connected(s) ==
  IF ~s.initialized THEN s
  ELSE [s EXCEPT !.fd = NoAddr, !.ssl = "unset", !.ssl_peer = NoAddr,
                 !.saved = "empty", !.saved_peer = NoAddr, !.initialized = FALSE,
                 !.verified = FALSE, !.has_valid_session = FALSE]
clear_keeps_session(s) ==
  IF ~s.initialized THEN s
  ELSE [s EXCEPT !.fd = NoAddr, !.ssl = "unset", !.ssl_peer = NoAddr,
                 !.saved = "empty", !.saved_peer = NoAddr, !.initialized = FALSE,
                 !.connected = FALSE, !.verified = FALSE]
retarget_short_port(s, h, p) ==
  [s EXCEPT !.host = h, !.port = p % 256, !.fd = NoAddr, !.connected = FALSE,
            !.verified = FALSE, !.has_valid_session = FALSE]
retarget_keeps_connection(s, h, p) ==
  [s EXCEPT !.host = h, !.port = p, !.has_valid_session = FALSE]
retarget_keeps_session(s, h, p) ==
  [s EXCEPT !.host = h, !.port = p, !.connected = FALSE, !.verified = FALSE]

\* init(): the contexts are zeroed whatever they held; only a failed seed
\* leaves the connection uninitialized.
init(s, f) ==
  IF s.initialized THEN s
  ELSE Note([s EXCEPT !.ssl = "unset", !.ssl_peer = NoAddr, !.fd = NoAddr,
                      !.initialized = (f # "seed")],
            "socket_lost", s.fd # NoAddr)

\* clear(): every context is freed, unless the connection is uninitialized.
clear(s) ==
  IF ~s.initialized THEN s
  ELSE Note([s EXCEPT !.fd = NoAddr, !.ssl = "unset", !.ssl_peer = NoAddr,
                      !.saved = "empty", !.saved_peer = NoAddr,
                      !.initialized = FALSE, !.connected = FALSE,
                      !.verified = FALSE, !.has_valid_session = FALSE],
            "session_uninit", s.saved = "raw")

disconnect(s) ==
  IF ~s.connected THEN s
  ELSE [s EXCEPT !.fd = NoAddr, !.connected = FALSE, !.verified = FALSE]

\* clear_session(): frees the saved session only when it is marked valid.
clear_session(s) ==
  IF ~s.has_valid_session THEN s
  ELSE [s EXCEPT !.saved = "empty", !.saved_peer = NoAddr,
                 !.has_valid_session = FALSE]

\* store_session(): zeroes the saved session, then copies the context's.
\* mbedtls_ssl_get_session has one to copy once a handshake is over.
store_session(s, f) ==
  IF ~connected(s) THEN s
  ELSE LET copied == f # "get_session" /\ s.ssl = "over"
       IN  Note([s EXCEPT !.saved = IF copied THEN "live" ELSE "empty",
                          !.saved_peer = IF copied THEN s.ssl_peer ELSE NoAddr,
                          !.has_valid_session = copied],
                "session_lost", s.saved = "live")

-----------------------------------------------------------------------------
\* mbedtls_ssl_setup: a context keeps the handshake state it is in.
ssl_setup(s) ==
  Note([s EXCEPT !.ssl = IF @ = "unset" THEN "ready" ELSE @],
       "setup_twice", s.ssl # "unset")

\* set_cacert() once the connection is initialized.  A certificate that does
\* not parse leaves cacert_set as it was.
load_cacert(s, pem, force_disconnect, f) ==
  CASE f = "config" -> clear(s)
    [] f # "config" /\ pem \notin GoodPems -> s
    [] f # "config" /\ pem \in GoodPems ->
         LET d == IF force_disconnect THEN disconnect(s) ELSE s
         IN  IF f = "setup" THEN [clear(d) EXCEPT !.cacert_set = FALSE]
             ELSE [ssl_setup(d) EXCEPT !.cacert_set = TRUE]

\* Does load_cacert report success?
cacert_loaded(pem, f) == f \notin {"config", "setup"} /\ pem \in GoodPems

\* _ensure_initialized().  With a certificate set it calls set_cacert(), which
\* calls it again: once it has initialized the connection that call returns at
\* once; when the seed failed it goes down another level, here until the
\* second seed succeeds (a seed that never does recurses without end and has
\* no outcome), and on the way up set_cacert() loads at both levels.
ensure_initialized(s, f) ==
  LET i == init(s, f)
      reload(t) == load_cacert(t, s.cacert_pem, TRUE, f)
  IN  IF s.initialized THEN s
      ELSE IF ~s.cacert_set THEN i
      ELSE IF f # "seed" THEN reload(i)
      ELSE Note(reload(reload(init(i, "none"))), "init_recursed", TRUE)

\* set_cacert().
set_cacert(s, pem, force_disconnect, f) ==
  LET e == ensure_initialized([s EXCEPT !.cacert_pem = pem], f)
  IN  IF e.initialized
      THEN [tls |-> load_cacert(e, pem, force_disconnect, f),
            ok |-> cacert_loaded(pem, f)]
      ELSE [tls |-> e, ok |-> FALSE]

clear_cacert(s) == [s EXCEPT !.cacert_set = FALSE, !.cacert_pem = NoPem]

\* initialize() before its certificate: only a verified connection is closed
\* when the target changes.
retarget(s, h, p) ==
  IF target(s) = <<h, p>> THEN s
  ELSE [clear_session(IF connected(s) THEN disconnect(s) ELSE s)
          EXCEPT !.host = h, !.port = p]

initialize(s, h, p, pem, f) ==
  LET r == retarget(s, h, p)
  IN  IF pem = NoPem THEN r ELSE set_cacert(r, pem, TRUE, f).tls

-----------------------------------------------------------------------------
\* The number of the socket opened after one with number n.
next_socket(n) == (n + 1) % Sockets

\* mbedtls_net_connect: a name that does not resolve leaves the descriptor
\* alone; otherwise a new socket's takes its place.  (One that could not be
\* connected is closed: nothing reads its number before dial() clears it.)
net_connect(s, f) ==
  IF s.host = NoHost \/ f = "resolve" THEN s
  ELSE Note([s EXCEPT !.fd = IF f = "tcp" THEN NoAddr ELSE target(s),
                      !.socket = next_socket(@)],
            "socket_lost", s.fd # NoAddr)

\* mbedtls_ssl_handshake, and the loop that retries it while it would block:
\* it is over at once when it was over before.
handshake(s) ==
  Note([s EXCEPT !.ssl = "over",
                 !.ssl_peer = IF s.ssl = "over" THEN @ ELSE target(s)],
       "handshake_reused", s.ssl = "over")

\* _connected = _connect(): the socket, then the handshake; on an error all
\* is cleared.
dial(s, f) ==
  LET reached == s.host # NoHost /\ f \notin {"resolve", "tcp"}
      shaken == \/ s.ssl = "over"
                \/ s.ssl = "ready" /\ f # "handshake"
      n == net_connect(s, f)
  IN  IF reached /\ shaken THEN [handshake(n) EXCEPT !.connected = TRUE]
      ELSE [clear(Note(n, "handshake_unset", reached /\ s.ssl = "unset"))
              EXCEPT !.connected = FALSE]

\* verify(): with MBEDTLS_SSL_VERIFY_REQUIRED a bad certificate already fails
\* the handshake; the flags read here say so again.
verify(s, f) ==
  IF s.connected /\ f # "verify" THEN [s EXCEPT !.verified = TRUE] ELSE s

\* connect() after _ensure_connected() returned false.
full_connect(s, f) ==
  LET c == clear_session(s)
      d == dial(c, f)
  IN  IF f = "hostname" THEN c
      ELSE IF d.connected THEN store_session(verify(d, f), f) ELSE d

\* reconnect() with a valid session: it is offered in a new handshake, and
\* verify() is not called.
resume(s, f) ==
  LET r == Note([s EXCEPT !.ssl = "ready", !.ssl_peer = NoAddr],
                "context_unset", s.ssl = "unset")
      d == CASE f = "reset" -> s
             [] f = "set_session" -> r
             [] f \notin {"reset", "set_session"} -> dial(r, f)
  IN  IF d.connected THEN d ELSE clear_session(d)

\* _ensure_connected().  reconnect() finds the session valid, so it resumes.
ensure_connected(s, h, p, f) ==
  LET i == retarget(s, h, p)
      c == IF target(s) = <<h, p>> THEN i
           ELSE IF i.cacert_set
                THEN set_cacert(clear(i), i.cacert_pem, TRUE, f).tls
                ELSE clear(i)
      e == ensure_initialized(c, f)
      r == resume(e, f)
  IN  IF connected(c) \/ ~c.has_valid_session THEN c
      ELSE IF ~e.initialized THEN e
      ELSE IF connected(r) THEN r ELSE clear(r)

\* A slip: a live connection is dialled again.
connect_redials(s, h, p, f0, f1, f2) ==
  LET e == ensure_initialized(s, f0)
      r == full_connect(ensure_connected(e, h, e.port, f1), f2)
  IN  IF ~ready(e) THEN [tls |-> e, ok |-> FALSE]
      ELSE [tls |-> r, ok |-> connected(r)]

\* connect(): its port is not used, _ensure_connected() gets the member's.
\* f0, f1 and f2 are the failures of its three phases.
connect(s, h, p, f0, f1, f2) ==
  LET e == ensure_initialized(s, f0)
      c == ensure_connected(e, h, e.port, f1)
      r == full_connect(c, f2)
  IN  IF ~ready(e) THEN [tls |-> e, ok |-> FALSE]
      ELSE IF connected(c) THEN [tls |-> c, ok |-> TRUE]
      ELSE [tls |-> r, ok |-> connected(r)]

reconnect(s, f0, f1, f2) ==
  IF connected(s) THEN [tls |-> s, ok |-> TRUE]
  ELSE IF s.has_valid_session
  THEN LET r == resume(s, f1) IN [tls |-> r, ok |-> connected(r)]
  ELSE IF s.host # NoHost /\ s.port > 0 /\ s.cacert_set
  THEN connect(s, s.host, s.port, f0, f1, f2)
  ELSE [tls |-> s, ok |-> FALSE]
=============================================================================
