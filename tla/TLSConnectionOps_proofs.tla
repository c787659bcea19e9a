----------------------- MODULE TLSConnectionOps_proofs -----------------------
(***************************************************************************)
(* What each operator of TLSConnectionOps preserves: the types of a        *)
(* TLSConnection's fields, the coherence of its flags, and that its        *)
(* connection is to its target.  There is one lemma per operator, so that  *)
(* a step of TLSConnection or of HttpsEndpoint is the lemma of the         *)
(* operator it calls.                                                      *)
(***************************************************************************)
EXTENDS TLSConnectionOps, TLAPS

\* The inductive invariant of one connection.
Coherent(s) ==
  /\ s.verified => s.connected
  /\ s.connected => s.initialized /\ s.fd # NoAddr /\ s.ssl # "unset"
  /\ s.ssl # "unset" => s.initialized
  /\ s.has_valid_session => s.saved = "live" /\ s.ssl # "unset"
  /\ "context_unset" \notin s.faults

Good(s) == s \in TLS /\ Coherent(s)

\* "None" is an address too.
LEMMA NoAddrIsAddr == NoAddr \in Addrs
  BY DEF Addrs

\* A target with a host is an address, and not the one that stands for "none".
LEMMA TargetIsAddr ==
  ASSUME NEW s \in TLS, s.host # NoHost
  PROVE  target(s) \in Addrs /\ target(s) # NoAddr
  BY DEF TLS, target, Addrs, NoAddr

\* No fault but the use of an unset context matters to Coherent.
LEMMA NoteGood ==
  ASSUME NEW s, Good(s), NEW fault, NEW happens \in BOOLEAN,
         fault = "context_unset" => ~happens
  PROVE  Good(Note(s, fault, happens))
  BY DEF Good, TLS, Coherent, Note

\* Keeping history preserves the types.
LEMMA NoteType ==
  ASSUME NEW s \in TLS, NEW fault, NEW happens \in BOOLEAN
  PROVE  Note(s, fault, happens) \in TLS
  BY DEF TLS, Note

\* init preserves Good.
LEMMA InitGood ==
  ASSUME NEW s, Good(s), NEW f
  PROVE  Good(init(s, f))
  <1> DEFINE r == [s EXCEPT !.ssl = "unset", !.ssl_peer = NoAddr, !.fd = NoAddr,
                            !.initialized = (f # "seed")]
  <1>1. init(s, f) \in TLS
    <2>1. r \in TLS
      BY NoAddrIsAddr DEF Good, TLS
    <2> QED BY <2>1, NoteType DEF init, Good
  <1>2. Coherent(init(s, f))
    BY DEF Good, TLS, Coherent, init, Note
  <1> QED BY <1>1, <1>2 DEF Good

\* clear() preserves the types, whatever state it is called in.
LEMMA ClearType ==
  ASSUME NEW s \in TLS
  PROVE  clear(s) \in TLS
  <1> DEFINE r == [s EXCEPT !.fd = NoAddr, !.ssl = "unset", !.ssl_peer = NoAddr,
                            !.saved = "empty", !.saved_peer = NoAddr,
                            !.initialized = FALSE, !.connected = FALSE,
                            !.verified = FALSE, !.has_valid_session = FALSE]
  <1>1. r \in TLS
    BY NoAddrIsAddr DEF TLS
  <1>2. Note(r, "session_uninit", s.saved = "raw") \in TLS
    <2> HIDE DEF r
    <2> QED BY <1>1, NoteType
  <1> QED BY <1>2 DEF clear

\* clear preserves Good.
LEMMA ClearGood ==
  ASSUME NEW s, Good(s)
  PROVE  Good(clear(s))
  <1>1. clear(s) \in TLS
    BY ClearType DEF Good
  <1>2. Coherent(clear(s))
    BY DEF Good, TLS, Coherent, clear, Note
  <1> QED BY <1>1, <1>2 DEF Good

\* disconnect preserves Good.
LEMMA DisconnectGood ==
  ASSUME NEW s, Good(s)
  PROVE  Good(disconnect(s))
  <1>1. disconnect(s) \in TLS
    BY NoAddrIsAddr DEF Good, TLS, disconnect
  <1>2. Coherent(disconnect(s))
    BY DEF Good, TLS, Coherent, disconnect
  <1> QED BY <1>1, <1>2 DEF Good

\* clear_session preserves Good.
LEMMA ClearSessionGood ==
  ASSUME NEW s, Good(s)
  PROVE  Good(clear_session(s))
  <1>1. clear_session(s) \in TLS
    BY NoAddrIsAddr DEF Good, TLS, clear_session
  <1>2. Coherent(clear_session(s))
    BY DEF Good, TLS, Coherent, clear_session
  <1> QED BY <1>1, <1>2 DEF Good

\* store_session preserves Good.
LEMMA StoreSessionGood ==
  ASSUME NEW s, Good(s), NEW f
  PROVE  Good(store_session(s, f))
  <1> DEFINE copied == f # "get_session" /\ s.ssl = "over"
             r == [s EXCEPT !.saved = IF copied THEN "live" ELSE "empty",
                            !.saved_peer = IF copied THEN s.ssl_peer ELSE NoAddr,
                            !.has_valid_session = copied]
  <1>1. r \in TLS
    BY NoAddrIsAddr DEF Good, TLS
  <1>2. Coherent(r)
    BY DEF Good, TLS, Coherent
  <1> QED BY <1>1, <1>2, NoteGood DEF store_session, Good

\* mbedtls_ssl_setup preserves Good.
LEMMA SslSetupGood ==
  ASSUME NEW s, Good(s), s.initialized
  PROVE  Good(ssl_setup(s))
  <1>1. ssl_setup(s) \in TLS
    BY DEF Good, TLS, ssl_setup, Note
  <1>2. Coherent(ssl_setup(s))
    BY DEF Good, TLS, Coherent, ssl_setup, Note
  <1> QED BY <1>1, <1>2 DEF Good

\* The certificate flag is free.
LEMMA CacertFlagGood ==
  ASSUME NEW s, Good(s), NEW b \in BOOLEAN
  PROVE  Good([s EXCEPT !.cacert_set = b])
  <1>1. [s EXCEPT !.cacert_set = b] \in TLS
    BY DEF Good, TLS
  <1>2. Coherent([s EXCEPT !.cacert_set = b])
    BY DEF Good, TLS, Coherent
  <1> QED BY <1>1, <1>2 DEF Good

\* disconnect() does not change whether the connection is initialized.
LEMMA DisconnectKeepsInitialized ==
  ASSUME NEW s, Good(s)
  PROVE  disconnect(s).initialized = s.initialized
  BY DEF Good, TLS, disconnect

\* load_cacert preserves Good.
LEMMA LoadCacertGood ==
  ASSUME NEW s, Good(s), s.initialized, NEW pem, NEW force \in BOOLEAN, NEW f
  PROVE  Good(load_cacert(s, pem, force, f))
  <1> DEFINE d == IF force THEN disconnect(s) ELSE s
  <1>1. Good(d) /\ d.initialized
    BY DisconnectGood, DisconnectKeepsInitialized
  <1>2. Good([clear(d) EXCEPT !.cacert_set = FALSE])
    BY <1>1, ClearGood, CacertFlagGood
  <1>3. Good([ssl_setup(d) EXCEPT !.cacert_set = TRUE])
    BY <1>1, SslSetupGood, CacertFlagGood
  <1>4. Good(clear(s))
    BY ClearGood
  <1> QED BY <1>1, <1>2, <1>3, <1>4 DEF load_cacert

\* A certificate that loads leaves the connection initialized.
LEMMA LoadCacertKeepsInitialized ==
  ASSUME NEW s, Good(s), s.initialized, NEW pem, NEW force \in BOOLEAN, NEW f,
         f \notin {"config", "setup"}
  PROVE  load_cacert(s, pem, force, f).initialized
  <1> DEFINE d == IF force THEN disconnect(s) ELSE s
  <1>1. d \in TLS /\ d.initialized
    BY DisconnectGood, DisconnectKeepsInitialized DEF Good
  <1>2. [ssl_setup(d) EXCEPT !.cacert_set = TRUE].initialized
    BY <1>1 DEF TLS, ssl_setup, Note
  <1> QED BY <1>2 DEF load_cacert

\* init() initializes unless the seed fails.
LEMMA InitInitializes ==
  ASSUME NEW s, Good(s), NEW f, f # "seed"
  PROVE  init(s, f).initialized
  BY DEF init, Note, Good, TLS

\* ensure_initialized preserves Good.
LEMMA EnsureInitializedGood ==
  ASSUME NEW s, Good(s), NEW f
  PROVE  Good(ensure_initialized(s, f))
  <1> DEFINE i == init(s, f)
             reload(t) == load_cacert(t, s.cacert_pem, TRUE, f)
             j == init(i, "none")
  <1>1. Good(i) /\ Good(j)
    BY InitGood
  <1>2. f # "seed" => i.initialized
    BY InitInitializes
  <1>3. j.initialized
    BY <1>1, InitInitializes
  <1>4. ASSUME f # "seed" PROVE Good(reload(i))
    <2>1. Good(i) /\ i.initialized
      BY <1>1, <1>2, <1>4
    <2> QED BY <2>1, LoadCacertGood
  <1>5. ASSUME f = "seed"
        PROVE  Good(Note(reload(reload(j)), "init_recursed", TRUE))
    <2>1. Good(reload(j)) /\ reload(j).initialized
      BY <1>1, <1>3, <1>5, LoadCacertGood, LoadCacertKeepsInitialized
    <2>2. Good(reload(reload(j)))
      BY <2>1, LoadCacertGood
    <2> QED BY <2>2, NoteGood
  <1> QED BY <1>1, <1>4, <1>5 DEF ensure_initialized

\* So is the certificate.
LEMMA CacertPemGood ==
  ASSUME NEW s, Good(s), NEW pem \in Pems \cup {NoPem}
  PROVE  Good([s EXCEPT !.cacert_pem = pem])
  <1>1. [s EXCEPT !.cacert_pem = pem] \in TLS
    BY DEF Good, TLS
  <1>2. Coherent([s EXCEPT !.cacert_pem = pem])
    BY DEF Good, TLS, Coherent
  <1> QED BY <1>1, <1>2 DEF Good

\* set_cacert preserves Good.
LEMMA SetCacertGood ==
  ASSUME NEW s, Good(s), NEW pem \in Pems \cup {NoPem}, NEW force \in BOOLEAN, NEW f
  PROVE  Good(set_cacert(s, pem, force, f).tls)
  <1> DEFINE e == ensure_initialized([s EXCEPT !.cacert_pem = pem], f)
  <1>1. Good(e)
    BY CacertPemGood, EnsureInitializedGood
  <1>2. e.initialized => Good(load_cacert(e, pem, force, f))
    BY <1>1, LoadCacertGood
  <1> QED BY <1>1, <1>2 DEF set_cacert

\* clear_cacert preserves Good.
LEMMA ClearCacertGood ==
  ASSUME NEW s, Good(s)
  PROVE  Good(clear_cacert(s))
  <1>1. clear_cacert(s) \in TLS
    BY DEF Good, TLS, clear_cacert
  <1>2. Coherent(clear_cacert(s))
    BY DEF Good, TLS, Coherent, clear_cacert
  <1> QED BY <1>1, <1>2 DEF Good

\* And so is the target: Good says nothing of it.
LEMMA TargetGood ==
  ASSUME NEW s, Good(s), NEW h \in Hosts \cup {NoHost}, NEW p \in Ports
  PROVE  Good([s EXCEPT !.host = h, !.port = p])
  <1>1. [s EXCEPT !.host = h, !.port = p] \in TLS
    BY DEF Good, TLS
  <1>2. Coherent([s EXCEPT !.host = h, !.port = p])
    BY DEF Good, TLS, Coherent
  <1> QED BY <1>1, <1>2 DEF Good

\* retarget preserves Good.
LEMMA RetargetGood ==
  ASSUME NEW s, Good(s), NEW h \in Hosts \cup {NoHost}, NEW p \in Ports
  PROVE  Good(retarget(s, h, p))
  <1> DEFINE d == IF connected(s) THEN disconnect(s) ELSE s
  <1>1. Good(clear_session(d))
    BY DisconnectGood, ClearSessionGood
  <1> QED BY <1>1, TargetGood DEF retarget

\* initialize preserves Good.
LEMMA InitializeGood ==
  ASSUME NEW s, Good(s), NEW h \in Hosts \cup {NoHost}, NEW p \in Ports,
         NEW pem \in Pems \cup {NoPem}, NEW f
  PROVE  Good(initialize(s, h, p, pem, f))
  BY RetargetGood, SetCacertGood DEF initialize

-----------------------------------------------------------------------------
\* verify preserves Good.
LEMMA VerifyGood ==
  ASSUME NEW s, Good(s), NEW f
  PROVE  Good(verify(s, f))
  <1>1. verify(s, f) \in TLS
    BY DEF Good, TLS, verify
  <1>2. Coherent(verify(s, f))
    BY DEF Good, TLS, Coherent, verify
  <1> QED BY <1>1, <1>2 DEF Good

\* The numbers of sockets are within their bound.
LEMMA NextSocketType ==
  ASSUME NEW n \in SocketNumbers
  PROVE  next_socket(n) \in SocketNumbers
  BY SocketsAssumption DEF next_socket, SocketNumbers

\* mbedtls_net_connect changes nothing but the socket, and leaves the target's
\* when it gets that far.
LEMMA NetConnectFrame ==
  ASSUME NEW s \in TLS, NEW f
  PROVE  LET n == net_connect(s, f)
         IN  /\ n \in TLS
             /\ n.host = s.host /\ n.port = s.port
             /\ n.initialized = s.initialized /\ n.connected = s.connected
             /\ n.verified = s.verified /\ n.ssl = s.ssl
             /\ n.ssl_peer = s.ssl_peer
             /\ n.has_valid_session = s.has_valid_session
             /\ n.saved = s.saved /\ n.saved_peer = s.saved_peer
             /\ "context_unset" \in n.faults => "context_unset" \in s.faults
             /\ s.host # NoHost /\ f \notin {"resolve", "tcp"} =>
                  n.fd = target(s) /\ n.fd # NoAddr
  <1>1. CASE s.host = NoHost \/ f = "resolve"
    BY <1>1 DEF TLS, net_connect
  <1>2. CASE s.host # NoHost /\ f # "resolve"
    <2> DEFINE fd == IF f = "tcp" THEN NoAddr ELSE target(s)
               k == next_socket(s.socket)
    <2>1. fd \in Addrs /\ (f # "tcp" => fd # NoAddr)
      BY <1>2, NoAddrIsAddr, TargetIsAddr
    <2>2. net_connect(s, f) = Note([s EXCEPT !.fd = fd, !.socket = k],
                                   "socket_lost", s.fd # NoAddr)
      BY <1>2 DEF net_connect
    <2>6. k \in SocketNumbers
      BY NextSocketType DEF TLS
    <2> HIDE DEF fd, k
    <2>3. f # "tcp" => fd = target(s)
      BY DEF fd
    <2>4. Note([s EXCEPT !.fd = fd, !.socket = k], "socket_lost", s.fd # NoAddr) \in TLS
      BY <2>1, <2>6 DEF TLS, Note
    <2>5. s.host # NoHost /\ f \notin {"resolve", "tcp"} => fd = target(s) /\ fd # NoAddr
      BY <2>1, <2>3
    <2> QED BY <2>2, <2>4, <2>5 DEF TLS, Note
  <1> QED BY <1>1, <1>2

\* dial preserves Good.
LEMMA DialGood ==
  ASSUME NEW s, Good(s), NEW f
  PROVE  Good(dial(s, f))
  <1> DEFINE reached == s.host # NoHost /\ f \notin {"resolve", "tcp"}
             shaken == \/ s.ssl = "over"
                       \/ s.ssl = "ready" /\ f # "handshake"
             n == net_connect(s, f)
             u == Note(n, "handshake_unset", reached /\ s.ssl = "unset")
  <1>1. n \in TLS
    BY NetConnectFrame DEF Good
  <1>2. ASSUME reached, shaken
        PROVE  Good([handshake(n) EXCEPT !.connected = TRUE])
    <2>1. /\ n.initialized /\ n.fd # NoAddr /\ n.host # NoHost
          /\ "context_unset" \notin n.faults
          /\ n.has_valid_session => n.saved = "live"
      BY <1>2, NetConnectFrame DEF Good, Coherent
    <2>2. target(n) \in Addrs
      BY <1>1, <2>1, TargetIsAddr
    <2>3. handshake(n) \in TLS
      BY <1>1, <2>2 DEF handshake, Note, TLS
    <2>4. Coherent([handshake(n) EXCEPT !.connected = TRUE])
      BY <1>1, <2>1 DEF handshake, Note, TLS, Coherent
    <2> QED BY <2>3, <2>4 DEF Good, TLS
  <1>3. Good([clear(u) EXCEPT !.connected = FALSE])
    <2>1. /\ u \in TLS
          /\ "context_unset" \notin u.faults
          /\ u.initialized = s.initialized /\ u.verified = s.verified
          /\ u.ssl = s.ssl /\ u.has_valid_session = s.has_valid_session
      BY <1>1, NetConnectFrame DEF Note, TLS, Good, Coherent
    <2> HIDE DEF u
    <2>2. CASE s.initialized
      <3>1. clear(u) \in TLS
        BY <2>1, ClearType
      <3>2. Coherent([clear(u) EXCEPT !.connected = FALSE])
        BY <2>1, <2>2 DEF TLS, clear, Note, Coherent
      <3> QED BY <3>1, <3>2 DEF Good, TLS
    <2>3. CASE ~s.initialized
      <3>1. ~s.verified /\ s.ssl = "unset" /\ ~s.has_valid_session
        BY <2>3 DEF Good, Coherent, TLS
      <3>2. [clear(u) EXCEPT !.connected = FALSE] = [u EXCEPT !.connected = FALSE]
        BY <2>1, <2>3 DEF clear
      <3>3. Coherent([u EXCEPT !.connected = FALSE])
        BY <2>1, <3>1 DEF TLS, Coherent
      <3> QED BY <2>1, <3>2, <3>3 DEF Good, TLS
    <2> QED BY <2>2, <2>3
  <1> QED BY <1>2, <1>3 DEF dial

\* full_connect preserves Good.
LEMMA FullConnectGood ==
  ASSUME NEW s, Good(s), NEW f
  PROVE  Good(full_connect(s, f))
  BY ClearSessionGood, DialGood, VerifyGood, StoreSessionGood DEF full_connect

\* resume() resets a context that is set up, because the session is valid.
LEMMA ResumeGood ==
  ASSUME NEW s, Good(s), s.has_valid_session, NEW f
  PROVE  Good(resume(s, f))
  <1> DEFINE r == Note([s EXCEPT !.ssl = "ready", !.ssl_peer = NoAddr],
                       "context_unset", s.ssl = "unset")
             d == CASE f = "reset" -> s
                    [] f = "set_session" -> r
                    [] f \notin {"reset", "set_session"} -> dial(r, f)
  <1>1. Good([s EXCEPT !.ssl = "ready", !.ssl_peer = NoAddr])
    BY NoAddrIsAddr DEF Good, TLS, Coherent
  <1>2. s.ssl # "unset"
    BY DEF Good, Coherent
  <1>3. Good(r)
    BY <1>1, <1>2, NoteGood
  <1>4. Good(d)
    BY <1>3, DialGood
  <1> QED BY <1>4, ClearSessionGood DEF resume

\* ensure_connected preserves Good.
LEMMA EnsureConnectedGood ==
  ASSUME NEW s, Good(s), NEW h \in Hosts \cup {NoHost}, NEW p \in Ports, NEW f
  PROVE  Good(ensure_connected(s, h, p, f))
  <1> DEFINE i == retarget(s, h, p)
             c == IF target(s) = <<h, p>> THEN i
                  ELSE IF i.cacert_set
                       THEN set_cacert(clear(i), i.cacert_pem, TRUE, f).tls
                       ELSE clear(i)
             e == ensure_initialized(c, f)
             r == resume(e, f)
  <1>1. Good(i) /\ Good(clear(i)) /\ i.cacert_pem \in Pems \cup {NoPem}
    BY RetargetGood, ClearGood DEF Good, TLS
  <1>2. Good(c)
    BY <1>1, SetCacertGood
  <1>3. Good(e)
    BY <1>2, EnsureInitializedGood
  <1>4. ASSUME c.has_valid_session PROVE e = c
    BY <1>2, <1>4 DEF Good, Coherent, ensure_initialized
  <1>5. ASSUME c.has_valid_session PROVE Good(r) /\ Good(clear(r))
    BY <1>2, <1>4, <1>5, ResumeGood, ClearGood
  <1> QED BY <1>2, <1>3, <1>5 DEF ensure_connected

\* connect preserves Good.
LEMMA ConnectGood ==
  ASSUME NEW s, Good(s), NEW h \in Hosts \cup {NoHost}, NEW p,
         NEW f0, NEW f1, NEW f2
  PROVE  Good(connect(s, h, p, f0, f1, f2).tls)
  <1> DEFINE e == ensure_initialized(s, f0)
             c == ensure_connected(e, h, e.port, f1)
             r == full_connect(c, f2)
  <1>1. Good(e) /\ e.port \in Ports
    BY EnsureInitializedGood DEF Good, TLS
  <1>2. Good(c) /\ Good(r)
    BY <1>1, EnsureConnectedGood, FullConnectGood
  <1> QED BY <1>1, <1>2 DEF connect

\* reconnect preserves Good.
LEMMA ReconnectGood ==
  ASSUME NEW s, Good(s), NEW f0, NEW f1, NEW f2
  PROVE  Good(reconnect(s, f0, f1, f2).tls)
  <1>1. s.host \in Hosts \cup {NoHost}
    BY DEF Good, TLS
  <1> QED BY <1>1, ResumeGood, ConnectGood DEF reconnect

-----------------------------------------------------------------------------
\* Is the history that a reused handshake leaves kept?
ReuseWatched == "handshake_reused" \in Watched

\* a, whom a handshake of s was made with, is the target, unless one was reused.
MadeWithTarget(s, a) ==
  ReuseWatched => "handshake_reused" \in s.faults \/ a = target(s)

\* The connection's socket and handshake are the target's.
Hit(s) ==
  /\ s.fd = target(s)
  /\ s.ssl = "over"
  /\ MadeWithTarget(s, s.ssl_peer)

OnTarget(s) ==
  /\ connected(s) => Hit(s)
  /\ s.has_valid_session => MadeWithTarget(s, s.saved_peer)

\* t is to the same target as s, and on it if s is.
Aims(s, t) ==
  /\ target(t) = target(s)
  /\ OnTarget(s) => OnTarget(t)

\* Keeping history, and forgetting none of it, leaves a connection on its target.
LEMMA NoteAims ==
  ASSUME NEW s \in TLS, NEW fault, NEW happens \in BOOLEAN
  PROVE  Aims(s, Note(s, fault, happens))
  BY DEF TLS, Note, Aims, OnTarget, Hit, MadeWithTarget, connected, target

\* init keeps the target, and the connection on it.
LEMMA InitAims ==
  ASSUME NEW s, Good(s), NEW f
  PROVE  Aims(s, init(s, f))
  BY DEF Good, Coherent, TLS, init, Note, Aims, OnTarget, Hit, MadeWithTarget, connected, target

\* clear keeps the target, and the connection on it.
LEMMA ClearAims ==
  ASSUME NEW s, Good(s)
  PROVE  Aims(s, clear(s))
  BY DEF Good, Coherent, TLS, clear, Note, Aims, OnTarget, Hit, MadeWithTarget, connected, target

\* disconnect keeps the target, and the connection on it.
LEMMA DisconnectAims ==
  ASSUME NEW s, Good(s)
  PROVE  Aims(s, disconnect(s))
  BY DEF Good, Coherent, TLS, disconnect, Aims, OnTarget, Hit, MadeWithTarget, connected, target

\* clear_session keeps the target, and the connection on it.
LEMMA ClearSessionAims ==
  ASSUME NEW s, Good(s)
  PROVE  Aims(s, clear_session(s))
  BY DEF Good, Coherent, TLS, clear_session, Aims, OnTarget, Hit, MadeWithTarget, connected, target

\* store_session keeps the target, and the connection on it.
LEMMA StoreSessionAims ==
  ASSUME NEW s, Good(s), NEW f
  PROVE  Aims(s, store_session(s, f))
  BY DEF Good, Coherent, TLS, store_session, Note, Aims, OnTarget, Hit, MadeWithTarget, connected, target

\* mbedtls_ssl_setup keeps the target, and the connection on it.
LEMMA SslSetupAims ==
  ASSUME NEW s, Good(s)
  PROVE  Aims(s, ssl_setup(s))
  BY DEF Good, Coherent, TLS, ssl_setup, Note, Aims, OnTarget, Hit, MadeWithTarget, connected, target

\* The certificate and its flag do not matter to the target.
LEMMA CacertFlagAims ==
  ASSUME NEW s \in TLS, NEW b
  PROVE  Aims(s, [s EXCEPT !.cacert_set = b]) /\ Aims(s, [s EXCEPT !.cacert_pem = b])
  BY DEF TLS, Aims, OnTarget, Hit, MadeWithTarget, connected, target

\* Calls that keep a connection on its target can follow one another.
LEMMA AimsTransitive ==
  ASSUME NEW s, NEW t, NEW u, Aims(s, t), Aims(t, u)
  PROVE  Aims(s, u)
  BY DEF Aims

\* clear_cacert keeps the target, and the connection on it.
LEMMA ClearCacertAims ==
  ASSUME NEW s, Good(s)
  PROVE  Aims(s, clear_cacert(s))
  BY DEF Good, TLS, clear_cacert, Aims, OnTarget, Hit, MadeWithTarget, connected, target

\* load_cacert keeps the target, and the connection on it.
LEMMA LoadCacertAims ==
  ASSUME NEW s, Good(s), s.initialized, NEW pem, NEW force \in BOOLEAN, NEW f
  PROVE  Aims(s, load_cacert(s, pem, force, f))
  <1> DEFINE d == IF force THEN disconnect(s) ELSE s
  <1>1. Good(d) /\ d.initialized /\ Aims(s, d)
    BY DisconnectGood, DisconnectKeepsInitialized, DisconnectAims DEF Aims
  <1> HIDE DEF d
  <1>2. Aims(s, [clear(d) EXCEPT !.cacert_set = FALSE])
    BY <1>1, ClearGood, ClearAims, CacertFlagAims, AimsTransitive DEF Good
  <1>3. Aims(s, [ssl_setup(d) EXCEPT !.cacert_set = TRUE])
    BY <1>1, SslSetupGood, SslSetupAims, CacertFlagAims, AimsTransitive DEF Good
  <1>4. Aims(s, clear(s)) /\ Aims(s, s)
    BY ClearAims DEF Aims
  <1> QED BY <1>2, <1>3, <1>4 DEF load_cacert, d

\* ensure_initialized keeps the target, and the connection on it.
LEMMA EnsureInitializedAims ==
  ASSUME NEW s, Good(s), NEW f
  PROVE  Aims(s, ensure_initialized(s, f))
  <1> DEFINE i == init(s, f)
             reload(t) == load_cacert(t, s.cacert_pem, TRUE, f)
             j == init(i, "none")
  <1>1. Good(i) /\ Good(j) /\ Aims(s, i) /\ Aims(s, j) /\ Aims(s, s)
    BY InitGood, InitAims DEF Aims
  <1>2. f # "seed" => i.initialized
    BY InitInitializes
  <1>3. j.initialized
    BY <1>1, InitInitializes
  <1>4. ASSUME f # "seed" PROVE Aims(s, reload(i))
    <2>1. Good(i) /\ i.initialized
      BY <1>1, <1>2, <1>4
    <2> QED BY <1>1, <2>1, LoadCacertAims, AimsTransitive
  <1>5. ASSUME f = "seed"
        PROVE  Aims(s, Note(reload(reload(j)), "init_recursed", TRUE))
    <2>1. Good(reload(j)) /\ reload(j).initialized /\ Aims(s, reload(j))
      BY <1>1, <1>3, <1>5, LoadCacertGood, LoadCacertKeepsInitialized,
         LoadCacertAims, AimsTransitive
    <2>2. Good(reload(reload(j))) /\ Aims(s, reload(reload(j)))
      BY <2>1, LoadCacertGood, LoadCacertAims, AimsTransitive
    <2> QED BY <2>2, NoteAims, AimsTransitive DEF Good
  <1> QED BY <1>1, <1>4, <1>5 DEF ensure_initialized

\* set_cacert keeps the target, and the connection on it.
LEMMA SetCacertAims ==
  ASSUME NEW s, Good(s), NEW pem \in Pems \cup {NoPem}, NEW force \in BOOLEAN, NEW f
  PROVE  Aims(s, set_cacert(s, pem, force, f).tls)
  <1> DEFINE q == [s EXCEPT !.cacert_pem = pem]
             e == ensure_initialized(q, f)
  <1>1. Good(e) /\ Aims(s, e)
    BY CacertPemGood, CacertFlagAims, EnsureInitializedGood, EnsureInitializedAims,
       AimsTransitive DEF Good
  <1>2. e.initialized => Aims(s, load_cacert(e, pem, force, f))
    BY <1>1, LoadCacertAims, AimsTransitive
  <1> QED BY <1>1, <1>2 DEF set_cacert

\* After disconnect() the connection does not count as connected.
LEMMA DisconnectEnds ==
  ASSUME NEW s \in TLS
  PROVE  ~connected(disconnect(s))
  BY DEF TLS, disconnect, connected

\* Naming a target leaves nothing that belongs to another one.
LEMMA RetargetAims ==
  ASSUME NEW s, Good(s), NEW h, NEW p
  PROVE  /\ target(retarget(s, h, p)) = <<h, p>>
         /\ OnTarget(s) => OnTarget(retarget(s, h, p))
  <1> DEFINE d == IF connected(s) THEN disconnect(s) ELSE s
             r == [clear_session(d) EXCEPT !.host = h, !.port = p]
  <1>1. d \in TLS /\ ~connected(d)
    BY DisconnectGood, DisconnectEnds DEF Good
  <1> HIDE DEF d
  <1>2. ~connected(r) /\ ~r.has_valid_session /\ target(r) = <<h, p>>
    BY <1>1 DEF TLS, clear_session, connected, target
  <1> QED BY <1>2 DEF retarget, OnTarget, d

\* What net_connect() does to OnTarget is for dial() to repair: it keeps the
\* target and the saved session, and forgets no fault.
LEMMA NetConnectKeeps ==
  ASSUME NEW s \in TLS, NEW f
  PROVE  LET n == net_connect(s, f)
         IN  /\ target(n) = target(s)
             /\ "handshake_reused" \in s.faults => "handshake_reused" \in n.faults
  BY NetConnectFrame DEF TLS, net_connect, Note, target

\* What dial() connects is connected to the target.
LEMMA DialHits ==
  ASSUME NEW s, Good(s), NEW f
  PROVE  LET d == dial(s, f)
         IN  /\ Aims(s, d)
             /\ d.connected => Hit(d)
  <1> DEFINE reached == s.host # NoHost /\ f \notin {"resolve", "tcp"}
             shaken == \/ s.ssl = "over"
                       \/ s.ssl = "ready" /\ f # "handshake"
             n == net_connect(s, f)
             u == Note(n, "handshake_unset", reached /\ s.ssl = "unset")
             up == [handshake(n) EXCEPT !.connected = TRUE]
             down == [clear(u) EXCEPT !.connected = FALSE]
  <1>1. /\ n \in TLS /\ target(n) = target(s) /\ n.initialized = s.initialized
        /\ n.has_valid_session = s.has_valid_session /\ n.saved_peer = s.saved_peer
        /\ "handshake_reused" \in s.faults => "handshake_reused" \in n.faults
    BY NetConnectFrame, NetConnectKeeps DEF Good
  <1>2. ASSUME reached, shaken
        PROVE  Aims(s, up) /\ Hit(up)
    <2>1. n.fd = target(n)
      BY <1>1, <1>2, NetConnectFrame DEF Good
    <2> HIDE DEF n
    <2>2. /\ target(up) = target(n) /\ up.fd = n.fd /\ up.ssl = "over"
          /\ up.has_valid_session = n.has_valid_session
          /\ up.saved_peer = n.saved_peer
          /\ "handshake_reused" \in n.faults => "handshake_reused" \in up.faults
          /\ MadeWithTarget(up, up.ssl_peer)
      BY <1>1 DEF TLS, handshake, Note, target, MadeWithTarget, ReuseWatched
    <2>3. Hit(up)
      BY <2>1, <2>2 DEF Hit
    <2> QED BY <1>1, <2>2, <2>3 DEF Aims, OnTarget, MadeWithTarget
  <1>3. Aims(s, down) /\ ~down.connected
    <2>1. /\ u \in TLS /\ target(u) = target(s) /\ u.initialized = s.initialized
          /\ u.has_valid_session = s.has_valid_session /\ u.saved_peer = s.saved_peer
          /\ "handshake_reused" \in s.faults => "handshake_reused" \in u.faults
      BY <1>1, NoteType DEF Note, TLS, target
    <2> HIDE DEF u
    <2>2. /\ target(down) = target(u) /\ ~down.connected
          /\ down.has_valid_session => u.has_valid_session
          /\ down.has_valid_session => down.saved_peer = u.saved_peer
          /\ "handshake_reused" \in u.faults => "handshake_reused" \in down.faults
      BY <2>1 DEF TLS, clear, Note, target
    <2> QED BY <2>1, <2>2 DEF Aims, OnTarget, MadeWithTarget, connected
  <1> QED BY <1>2, <1>3 DEF dial

\* verify() makes a connection live; it is on its target if it was dialled to it.
LEMMA VerifyAims ==
  ASSUME NEW s \in TLS, s.connected => Hit(s), NEW f
  PROVE  Aims(s, verify(s, f))
  BY DEF TLS, verify, Aims, OnTarget, Hit, MadeWithTarget, target, connected

\* full_connect keeps the target, and the connection on it.
LEMMA FullConnectAims ==
  ASSUME NEW s, Good(s), NEW f
  PROVE  Aims(s, full_connect(s, f))
  <1> DEFINE c == clear_session(s)
             d == dial(c, f)
  <1>1. Good(c) /\ Aims(s, c)
    BY ClearSessionGood, ClearSessionAims
  <1>2. Good(d) /\ Aims(s, d) /\ (d.connected => Hit(d))
    BY <1>1, DialGood, DialHits, AimsTransitive
  <1> HIDE DEF d
  <1>3. Good(verify(d, f)) /\ Aims(s, verify(d, f))
    BY <1>2, VerifyGood, VerifyAims, AimsTransitive DEF Good
  <1>4. Aims(s, store_session(verify(d, f), f))
    BY <1>3, StoreSessionAims, AimsTransitive
  <1> QED BY <1>1, <1>2, <1>4 DEF full_connect, d

\* resume keeps the target, and the connection on it.
LEMMA ResumeAims ==
  ASSUME NEW s, Good(s), s.has_valid_session, ~connected(s), NEW f
  PROVE  Aims(s, resume(s, f))
  <1> DEFINE r == Note([s EXCEPT !.ssl = "ready", !.ssl_peer = NoAddr],
                       "context_unset", s.ssl = "unset")
             d == CASE f = "reset" -> s
                    [] f = "set_session" -> r
                    [] f \notin {"reset", "set_session"} -> dial(r, f)
  <1>1. Good(r)
    <2>1. Good([s EXCEPT !.ssl = "ready", !.ssl_peer = NoAddr])
      BY NoAddrIsAddr DEF Good, TLS, Coherent
    <2>2. s.ssl # "unset"
      BY DEF Good, Coherent
    <2> QED BY <2>1, <2>2, NoteGood
  <1>2. Aims(s, r)
    BY DEF Good, TLS, Note, Aims, OnTarget, MadeWithTarget, connected, target
  <1>3. Good(d) /\ Aims(s, d)
    BY <1>1, <1>2, DialGood, DialHits, AimsTransitive DEF Aims
  <1> HIDE DEF d
  <1>4. Aims(s, clear_session(d))
    BY <1>3, ClearSessionAims, AimsTransitive
  <1> QED BY <1>3, <1>4 DEF resume, d

\* ensure_connected keeps the target, and the connection on it.
LEMMA EnsureConnectedAims ==
  ASSUME NEW s, Good(s), NEW h \in Hosts \cup {NoHost}, NEW p \in Ports, NEW f
  PROVE  LET t == ensure_connected(s, h, p, f)
         IN  /\ target(t) = <<h, p>>
             /\ OnTarget(s) => OnTarget(t)
  <1> DEFINE i == retarget(s, h, p)
             c == IF target(s) = <<h, p>> THEN i
                  ELSE IF i.cacert_set
                       THEN set_cacert(clear(i), i.cacert_pem, TRUE, f).tls
                       ELSE clear(i)
             e == ensure_initialized(c, f)
             r == resume(e, f)
  <1>1. /\ Good(i) /\ i.cacert_pem \in Pems \cup {NoPem}
        /\ target(i) = <<h, p>> /\ (OnTarget(s) => OnTarget(i))
    BY RetargetGood, RetargetAims DEF Good, TLS
  <1>2. Good(clear(i)) /\ Aims(i, clear(i)) /\ Aims(i, i)
    BY <1>1, ClearGood, ClearAims DEF Aims
  <1> HIDE DEF i
  <1>3. Good(c) /\ Aims(i, c)
    BY <1>1, <1>2, SetCacertGood, SetCacertAims, AimsTransitive
  <1>4. c.has_valid_session => e = c
    BY <1>3 DEF Good, Coherent, ensure_initialized
  <1> HIDE DEF c
  <1>5. ASSUME c.has_valid_session, ~connected(c)
        PROVE  Aims(i, e) /\ Aims(i, r) /\ Aims(i, clear(r))
    BY <1>3, <1>4, <1>5, ResumeGood, ResumeAims, ClearAims, AimsTransitive
  <1>6. Aims(i, ensure_connected(s, h, p, f))
    BY <1>3, <1>5 DEF ensure_connected, c, i
  <1> QED BY <1>1, <1>6 DEF Aims

\* connect keeps the target, and the connection on it.
LEMMA ConnectAims ==
  ASSUME NEW s, Good(s), NEW h \in Hosts \cup {NoHost}, NEW p,
         NEW f0, NEW f1, NEW f2
  PROVE  LET t == connect(s, h, p, f0, f1, f2).tls
         IN  /\ target(t) \in {target(s), <<h, s.port>>}
             /\ OnTarget(s) => OnTarget(t)
  <1> DEFINE e == ensure_initialized(s, f0)
             c == ensure_connected(e, h, e.port, f1)
             r == full_connect(c, f2)
  <1>1. Good(e) /\ e.port \in Ports /\ Aims(s, e)
    BY EnsureInitializedGood, EnsureInitializedAims DEF Good, TLS
  <1>2. e.port = s.port
    BY <1>1 DEF Aims, target
  <1> HIDE DEF e
  <1>3. /\ Good(c) /\ target(c) = <<h, s.port>>
        /\ OnTarget(s) => OnTarget(c)
    BY <1>1, <1>2, EnsureConnectedGood, EnsureConnectedAims DEF Aims
  <1> HIDE DEF c
  <1>4. Aims(c, r)
    BY <1>3, FullConnectAims
  <1> HIDE DEF r
  <1>5. connect(s, h, p, f0, f1, f2).tls \in {e, c, r}
    BY DEF connect, e, c, r
  <1> QED BY <1>1, <1>3, <1>4, <1>5 DEF Aims

\* reconnect keeps the target, and the connection on it.
LEMMA ReconnectAims ==
  ASSUME NEW s, Good(s), NEW f0, NEW f1, NEW f2
  PROVE  Aims(s, reconnect(s, f0, f1, f2).tls)
  <1>1. s.host \in Hosts \cup {NoHost} /\ target(s) = <<s.host, s.port>>
    BY DEF Good, TLS, target
  <1>2. Aims(s, connect(s, s.host, s.port, f0, f1, f2).tls)
    BY <1>1, ConnectAims DEF Aims
  <1>3. Aims(s, s)
    BY DEF Aims
  <1> QED BY <1>2, <1>3, ResumeAims DEF reconnect

-----------------------------------------------------------------------------
\* No socket yet is a number.
LEMMA FirstSocket == 0 \in SocketNumbers
  <1>1. Sockets \in Nat /\ Sockets >= 1
    BY SocketsAssumption
  <1> QED BY <1>1 DEF SocketNumbers

\* A new connection is Good.
LEMMA NewTLSGood ==
  ASSUME NEW memory \in {"raw", "empty"}
  PROVE  Good(NewTLS(memory))
  <1>1. NewTLS(memory) \in TLS
    BY FirstSocket, NoAddrIsAddr, DefaultPortAssumption DEF TLS, NewTLS
  <1>2. Coherent(NewTLS(memory))
    BY DEF Coherent, NewTLS
  <1> QED BY <1>1, <1>2 DEF Good

\* Calling connect() on a live connection to its target does nothing.
LEMMA ConnectKeepsLive ==
  ASSUME NEW s, Good(s), connected(s), NEW p, NEW f0, NEW f1, NEW f2
  PROVE  connect(s, s.host, p, f0, f1, f2).tls = s
  <1>1. ensure_initialized(s, f0) = s
    BY DEF Good, Coherent, connected, ensure_initialized
  <1>2. ensure_connected(s, s.host, s.port, f1) = s
    BY DEF ensure_connected, retarget, target
  <1> QED BY <1>1, <1>2 DEF connect

\* Storing a session does not touch the socket or the flags of the connection.
LEMMA StoreSessionKeeps ==
  ASSUME NEW s \in TLS, NEW f
  PROVE  LET t == store_session(s, f)
         IN  /\ t.fd = s.fd /\ t.socket = s.socket /\ target(t) = target(s)
             /\ t.connected = s.connected /\ t.verified = s.verified
  BY DEF TLS, store_session, Note, target
=============================================================================
