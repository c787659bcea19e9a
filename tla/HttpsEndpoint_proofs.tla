------------------------- MODULE HttpsEndpoint_proofs -------------------------
(***************************************************************************)
(* What TLC checks of HttpsEndpoint with three calls over two hosts,       *)
(* proved for any number of calls, any hosts and ports, and every choice   *)
(* of calls that may fail.  The invariant is built in layers, each using   *)
(* the ones before it: the types (Typed), the calls' numbers (Numbered),   *)
(* where the connection leads (Led), when it is open (Open) and whose      *)
(* bytes are under way (Owned).                                            *)
(***************************************************************************)
EXTENDS HttpsEndpoint, TLSConnectionOps_proofs, SequenceTheorems

Frames ==
  [id : Ids, size : Sizes,
   pc : {"connect", "write", "status", "headers", "body", "finish"},
   code : Ids \cup {0}, buf : Seq(Bytes)]

Peers ==
  [addr : Addrs, requests : Seq(Ids), sent : 0..Len(Parts), wire : Seq(Bytes),
   closed : BOOLEAN]

Requests == [id : Ids, host : Hosts, addr : Addrs, as_asked : BOOLEAN]

\* Replacing the first of a sequence keeps the others.
LEMMA ReplaceHead ==
  ASSUME NEW F, NEW fs \in Seq(F), fs # <<>>, NEW f \in F
  PROVE  LET r == <<f>> \o Tail(fs)
         IN  /\ r \in Seq(F) /\ r # <<>>
             /\ Len(r) = Len(fs) /\ DOMAIN r = DOMAIN fs
             /\ Head(r) = f /\ r[1] = f
             /\ \A k \in 2..Len(fs) : r[k] = fs[k]
  <1>1. /\ Tail(fs) \in Seq(F) /\ Len(Tail(fs)) = Len(fs) - 1
        /\ \A i \in 1..Len(Tail(fs)) : Tail(fs)[i] = fs[i + 1]
    BY HeadTailProperties
  <1>2. Len(fs) \in Nat \ {0} /\ DOMAIN fs = 1..Len(fs)
    BY EmptySeq, LenProperties
  <1>3. <<f>> \in Seq(F) /\ Len(<<f>>) = 1 /\ <<f>>[1] = f
    OBVIOUS
  <1> DEFINE r == <<f>> \o Tail(fs)
  <1>4. /\ r \in Seq(F) /\ Len(r) = Len(fs)
        /\ \A i \in 1..Len(fs) : r[i] = IF i <= 1 THEN <<f>>[i] ELSE Tail(fs)[i - 1]
    BY <1>1, <1>2, <1>3, ConcatProperties
  <1> HIDE DEF r
  <1>5. r # <<>> /\ DOMAIN r = 1..Len(fs)
    BY <1>2, <1>4, LenProperties, EmptySeq
  <1>6. r[1] = f
    BY <1>2, <1>3, <1>4
  <1>7. Head(r) = f
    BY <1>4, <1>5, <1>6
  <1>8. \A k \in 2..Len(fs) : r[k] = fs[k]
    BY <1>1, <1>2, <1>4
  <1> QED BY <1>2, <1>4, <1>5, <1>6, <1>7, <1>8 DEF r

\* One more in front moves the others back.
LEMMA PutInFront ==
  ASSUME NEW F, NEW fs \in Seq(F), NEW f \in F
  PROVE  LET r == <<f>> \o fs
         IN  /\ r \in Seq(F) /\ r # <<>> /\ Len(r) = Len(fs) + 1
             /\ DOMAIN r = 1..(Len(fs) + 1)
             /\ Head(r) = f /\ r[1] = f
             /\ \A k \in 1..Len(fs) : r[k + 1] = fs[k]
  <1>1. <<f>> \in Seq(F) /\ Len(<<f>>) = 1 /\ <<f>>[1] = f /\ Len(fs) \in Nat
    BY LenProperties
  <1> DEFINE r == <<f>> \o fs
  <1>2. /\ r \in Seq(F) /\ Len(r) = Len(fs) + 1
        /\ \A i \in 1..(Len(fs) + 1) : r[i] = IF i <= 1 THEN <<f>>[i] ELSE fs[i - 1]
    BY <1>1, ConcatProperties
  <1> HIDE DEF r
  <1>3. r # <<>> /\ DOMAIN r = 1..(Len(fs) + 1)
    BY <1>1, <1>2, LenProperties, EmptySeq
  <1>4. r[1] = f
    BY <1>1, <1>2
  <1>5. Head(r) = f
    BY <1>2, <1>3, <1>4
  <1>6. \A k \in 1..Len(fs) : r[k + 1] = fs[k]
    BY <1>1, <1>2
  <1> QED BY <1>2, <1>3, <1>4, <1>5, <1>6 DEF r

\* The first of a sequence, and the rest.
LEMMA TakeFirst ==
  ASSUME NEW F, NEW fs \in Seq(F), fs # <<>>
  PROVE  /\ Head(fs) \in F /\ Head(fs) = fs[1] /\ 1 \in DOMAIN fs
         /\ Tail(fs) \in Seq(F) /\ Len(Tail(fs)) = Len(fs) - 1
         /\ DOMAIN fs = 1..Len(fs) /\ Len(fs) \in Nat \ {0}
         /\ DOMAIN Tail(fs) = 1..(Len(fs) - 1)
         /\ \A k \in 1..(Len(fs) - 1) : Tail(fs)[k] = fs[k + 1]
  <1>1. /\ Head(fs) \in F
        /\ Tail(fs) \in Seq(F) /\ Len(Tail(fs)) = Len(fs) - 1
        /\ \A i \in 1..Len(Tail(fs)) : Tail(fs)[i] = fs[i + 1]
    BY HeadTailProperties
  <1>2. Len(fs) \in Nat \ {0} /\ DOMAIN fs = 1..Len(fs)
    BY EmptySeq, LenProperties
  <1>3. Head(fs) = fs[1]
    OBVIOUS
  <1>4. DOMAIN Tail(fs) = 1..(Len(fs) - 1)
    BY <1>1, LenProperties
  <1> QED BY <1>1, <1>2, <1>3, <1>4

-----------------------------------------------------------------------------
(***************************************************************************)
(* Types.                                                                  *)
(***************************************************************************)
Typed == TypeOK /\ Coherent(tls)

\* The connection is a good one, and frames and peer are what they should be.
LEMMA TypedParts ==
  ASSUME Typed
  PROVE  /\ Good(tls) /\ frames \in Seq(Frames) /\ peer \in Peers
         /\ received \subseteq Requests
         /\ frames # <<>> => Top \in Frames
  BY TakeFirst DEF Typed, TypeOK, Good, Frames, Peers, Requests, Top

\* The parts of Typed, put together again.
LEMMA PartsTyped ==
  ASSUME Good(tls), header \in Hosts, connect_ok \in BOOLEAN, client \in Clients,
         frames \in Seq(Frames), peer \in Peers,
         result \in [Ids -> {"none", "true", "false"}],
         answered \in [Ids -> Ids \cup {0}], received \subseteq Requests
  PROVE  Typed
  BY DEF Typed, TypeOK, Good, Frames, Peers, Requests

\* A call of the connection leaves a server's end.
LEMMA PeerOfType ==
  ASSUME peer \in Peers, NEW s, NEW t, Good(t)
  PROVE  PeerOf(s, t) \in Peers
  <1>1. 0 \in 0..Len(Parts) /\ <<>> \in Seq(Ids) /\ <<>> \in Seq(Bytes)
    BY EmptySeq DEF Parts
  <1>2. \A addr \in Addrs : NewPeer(addr) \in Peers
    BY <1>1 DEF NewPeer, Peers
  <1>3. t.fd \in Addrs /\ NoAddr \in Addrs
    BY NoAddrIsAddr DEF Good, TLS
  <1>4. NoPeer \in Peers
    BY <1>2, <1>3 DEF NoPeer, Peers
  <1> QED BY <1>2, <1>3, <1>4 DEF PeerOf

\* connect() says whether it succeeded.
LEMMA ConnectSays ==
  ASSUME NEW s, NEW h, NEW p, NEW f0, NEW f1, NEW f2
  PROVE  connect(s, h, p, f0, f1, f2).ok \in BOOLEAN
  BY DEF connect, connected

\* connect() from a good connection.
LEMMA ConnectFromType ==
  ASSUME peer \in Peers, NEW s, Good(s), NEW h \in Hosts, NEW p \in Ports,
         ConnectFrom(s, h, p)
  PROVE  Good(tls') /\ peer' \in Peers /\ connect_ok' \in BOOLEAN
  <1>1. PICK f0 \in Outcomes(InitCalls), f1 \in Outcomes(InitCalls \cup ResumeCalls),
             f2 \in Outcomes(FullCalls) :
          /\ tls' = connect(s, h, p, f0, f1, f2).tls
          /\ connect_ok' = connect(s, h, p, f0, f1, f2).ok
          /\ peer' = PeerOf(s, tls')
    BY DEF ConnectFrom
  <1>2. Good(tls')
    BY <1>1, ConnectGood
  <1> QED BY <1>1, <1>2, ConnectSays, PeerOfType

\* What the steps of reading have in common.
LEMMA ReadingStep ==
  ASSUME Typed, Read \/ ReadStatus \/ SkipHeaders \/ ReadBody
  PROVE  /\ UNCHANGED <<tls, header, connect_ok, client, result, received>>
         /\ frames # <<>> /\ Top.pc \in {"status", "headers", "body"}
         /\ \E g \in Frames :
              /\ frames' = SetTop(g) /\ g.id = Top.id
              /\ g.pc \in {"status", "headers", "body", "finish"}
         /\ peer' \in Peers
         /\ peer'.addr = peer.addr /\ peer'.requests = peer.requests
         /\ answered' \in [Ids -> Ids \cup {0}]
  <1>0. /\ frames \in Seq(Frames) /\ peer \in Peers
        /\ answered \in [Ids -> Ids \cup {0}]
        /\ frames # <<>> => Top \in Frames
    BY TypedParts DEF Typed, TypeOK
  <1>1. ASSUME frames # <<>>, Top.buf # <<>>
        PROVE  Head(Top.buf) \in Bytes /\ Tail(Top.buf) \in Seq(Bytes)
    BY <1>0, <1>1, TakeFirst DEF Frames
  <1>2. CASE Read
    <2>1. PICK n \in 1..Len(peer.wire) :
            /\ frames' = SetTop([Top EXCEPT !.buf = SubSeq(peer.wire, 1, n)])
            /\ peer' = [peer EXCEPT !.wire = SubSeq(@, n + 1, Len(@))]
      BY <1>2 DEF Read
    <2>2. peer.wire \in Seq(Bytes) /\ Len(peer.wire) \in Nat
      BY <1>0, LenProperties DEF Peers
    <2>3. SubSeq(peer.wire, 1, n) \in Seq(Bytes)
      <3>1. \A i \in 1..n : peer.wire[i] \in Bytes
        BY <2>2, ElementOfSeq
      <3> QED BY <2>2, <3>1, SubSeqProperties
    <2>4. SubSeq(peer.wire, n + 1, Len(peer.wire)) \in Seq(Bytes)
      <3>1. \A i \in (n + 1)..Len(peer.wire) : peer.wire[i] \in Bytes
        BY <2>2, ElementOfSeq
      <3> QED BY <2>2, <3>1, SubSeqProperties
    <2>5. /\ frames # <<>> /\ Top.pc \in {"status", "headers", "body"}
          /\ UNCHANGED <<tls, header, connect_ok, client, answered, result, received>>
      BY <1>2 DEF Read, Reading
    <2>6. peer' \in Peers /\ peer'.addr = peer.addr /\ peer'.requests = peer.requests
      BY <1>0, <2>1, <2>4 DEF Peers
    <2> DEFINE g == [Top EXCEPT !.buf = SubSeq(peer.wire, 1, n)]
    <2>7. g \in Frames /\ g.id = Top.id /\ g.pc = Top.pc
      BY <1>0, <2>3, <2>5 DEF Frames
    <2> QED BY <1>0, <2>1, <2>5, <2>6, <2>7
  <1>3. CASE ReadStatus
    <2>1. /\ frames # <<>> /\ Top.pc = "status"
          /\ UNCHANGED <<tls, header, connect_ok, client, peer, answered, result, received>>
      BY <1>3 DEF ReadStatus, Calling
    <2>2. CASE Top.buf # <<>> /\ frames' = SetTop([Top EXCEPT !.pc = "headers",
                                   !.code = Head(Top.buf).of, !.buf = Tail(@)])
      <3> DEFINE g == [Top EXCEPT !.pc = "headers", !.code = Head(Top.buf).of,
                                  !.buf = Tail(@)]
      <3>1. g \in Frames /\ g.id = Top.id /\ g.pc = "headers"
        BY <1>0, <1>1, <2>1, <2>2 DEF Frames, Bytes
      <3> QED BY <1>0, <2>1, <2>2, <3>1
    <2>3. CASE frames' = SetTop([Top EXCEPT !.pc = "finish"])
      <3> DEFINE g == [Top EXCEPT !.pc = "finish"]
      <3>1. g \in Frames /\ g.id = Top.id /\ g.pc = "finish"
        BY <1>0, <2>1 DEF Frames
      <3> QED BY <1>0, <2>1, <2>3, <3>1
    <2> QED BY <1>3, <2>2, <2>3 DEF ReadStatus
  <1>4. CASE SkipHeaders
    <2>1. /\ frames # <<>> /\ Top.pc = "headers"
          /\ UNCHANGED <<tls, header, connect_ok, client, peer, result, received>>
      BY <1>4 DEF SkipHeaders, Calling
    <2>2. answered' \in [Ids -> Ids \cup {0}]
      BY <1>0, <1>4, <2>1 DEF SkipHeaders, Frames
    <2>3. CASE Top.buf # <<>> /\ frames' = SetTop([Top EXCEPT !.pc = "body", !.buf = Tail(@)])
      <3> DEFINE g == [Top EXCEPT !.pc = "body", !.buf = Tail(@)]
      <3>1. g \in Frames /\ g.id = Top.id /\ g.pc = "body"
        BY <1>0, <1>1, <2>1, <2>3 DEF Frames
      <3> QED BY <1>0, <2>1, <2>2, <2>3, <3>1
    <2>4. CASE Top.buf # <<>> /\ frames' = SetTop([Top EXCEPT !.buf = Tail(@)])
      <3> DEFINE g == [Top EXCEPT !.buf = Tail(@)]
      <3>1. g \in Frames /\ g.id = Top.id /\ g.pc = "headers"
        BY <1>0, <1>1, <2>1, <2>4 DEF Frames
      <3> QED BY <1>0, <2>1, <2>2, <2>4, <3>1
    <2>5. CASE frames' = SetTop([Top EXCEPT !.pc = "finish"])
      <3> DEFINE g == [Top EXCEPT !.pc = "finish"]
      <3>1. g \in Frames /\ g.id = Top.id /\ g.pc = "finish"
        BY <1>0, <2>1 DEF Frames
      <3> QED BY <1>0, <2>1, <2>2, <2>5, <3>1
    <2> QED BY <1>4, <2>3, <2>4, <2>5 DEF SkipHeaders
  <1>5. CASE ReadBody
    <2>1. /\ frames # <<>> /\ Top.pc = "body"
          /\ UNCHANGED <<tls, header, connect_ok, client, peer, answered, result, received>>
      BY <1>5 DEF ReadBody, Calling
    <2>2. CASE Top.buf # <<>> /\ frames' = SetTop([Top EXCEPT !.buf = Tail(@)])
      <3> DEFINE g == [Top EXCEPT !.buf = Tail(@)]
      <3>1. g \in Frames /\ g.id = Top.id /\ g.pc = "body"
        BY <1>0, <1>1, <2>1, <2>2 DEF Frames
      <3> QED BY <1>0, <2>1, <2>2, <3>1
    <2>3. CASE frames' = SetTop([Top EXCEPT !.pc = "finish"])
      <3> DEFINE g == [Top EXCEPT !.pc = "finish"]
      <3>1. g \in Frames /\ g.id = Top.id /\ g.pc = "finish"
        BY <1>0, <2>1 DEF Frames
      <3> QED BY <1>0, <2>1, <2>3, <3>1
    <2> QED BY <1>5, <2>2, <2>3 DEF ReadBody
  <1> QED BY <1>2, <1>3, <1>4, <1>5

\* The types hold initially.
LEMMA InitTyped == Init => Typed
  <1> SUFFICES ASSUME Init PROVE Typed
    OBVIOUS
  <1>1. PICK h \in Hosts, p \in Ports, pem \in Pems, f \in Outcomes(InitCalls) :
          tls = initialize(NewTLS("empty"), h, p, pem, f) /\ header = h
    BY DEF Init
  <1>2. Good(tls)
    BY <1>1, NewTLSGood, InitializeGood
  <1>3. peer \in Peers
    <2>1. 0 \in 0..Len(Parts) /\ <<>> \in Seq(Ids) /\ <<>> \in Seq(Bytes)
      BY EmptySeq DEF Parts
    <2> QED BY <2>1, NoAddrIsAddr DEF Init, NoPeer, NewPeer, Peers
  <1> QED BY <1>1, <1>2, <1>3, EmptySeq, PartsTyped DEF Init

\* A call that returns leaves the other calls and an end of the server's.
LEMMA ReturnStep ==
  ASSUME Typed, frames # <<>>, NEW ok \in {"true", "false"}, Return(ok)
  PROVE  /\ Good(tls') /\ peer' \in Peers /\ frames' \in Seq(Frames)
         /\ frames' = Tail(frames)
         /\ result' \in [Ids -> {"none", "true", "false"}]
         /\ \A i \in Ids : result'[i] = IF i = Top.id THEN ok ELSE result[i]
  <1>1. /\ Good(tls) /\ frames \in Seq(Frames) /\ peer \in Peers /\ Top \in Frames
        /\ result \in [Ids -> {"none", "true", "false"}]
    BY TypedParts DEF Typed, TypeOK
  <1>2. Good(tls') /\ peer' \in Peers
    BY <1>1, DisconnectGood, PeerOfType DEF Return
  <1>3. frames' = Tail(frames) /\ frames' \in Seq(Frames)
    BY <1>1, TakeFirst DEF Return
  <1>4. Top.id \in Ids
    BY <1>1 DEF Frames
  <1> QED BY <1>1, <1>2, <1>3, <1>4 DEF Return

\* What write() does to the call that makes it, when it succeeds.
LEMMA WriteStep ==
  ASSUME Typed, WriteSucceeds
  PROVE  /\ frames # <<>> /\ Top.pc = "write"
         /\ \E g \in Frames : /\ frames' = SetTop(g) /\ g = [Top EXCEPT !.pc = "status"]
                              /\ g.id = Top.id /\ g.pc = "status"
         /\ peer' \in Peers /\ peer'.addr = peer.addr /\ received' \subseteq Requests
         /\ \A r \in received' \ received :
              /\ r.id = Top.id /\ r.host = header /\ r.addr = peer.addr
              /\ r.as_asked = connect_ok
  <1>1. /\ frames \in Seq(Frames) /\ peer \in Peers /\ received \subseteq Requests
        /\ frames # <<>> /\ Top \in Frames /\ Top.pc = "write"
        /\ header \in Hosts /\ connect_ok \in BOOLEAN
    BY TypedParts DEF Typed, TypeOK, WriteSucceeds, Calling
  <1> DEFINE g == [Top EXCEPT !.pc = "status"]
             r == [id |-> Top.id, host |-> header, addr |-> peer.addr, as_asked |-> connect_ok]
  <1>2. g \in Frames /\ g.id = Top.id /\ g.pc = "status" /\ frames' = SetTop(g)
    BY <1>1 DEF Frames, WriteSucceeds
  <1>3. r \in Requests
    BY <1>1 DEF Requests, Frames, Peers
  <1>4. CASE Top.size = "fits" /\ ~peer.closed
    <2>1. /\ peer' = [peer EXCEPT !.requests = Append(@, Top.id)]
          /\ received' = received \cup {r}
      BY <1>4 DEF WriteSucceeds
    <2>2. Append(peer.requests, Top.id) \in Seq(Ids)
      BY <1>1, AppendProperties DEF Peers, Frames
    <2>3. peer' \in Peers /\ peer'.addr = peer.addr
      BY <1>1, <2>1, <2>2 DEF Peers
    <2>4. /\ r.id = Top.id /\ r.host = header /\ r.addr = peer.addr
          /\ r.as_asked = connect_ok
      OBVIOUS
    <2> HIDE DEF r, g
    <2>5. received' \subseteq Requests /\ \A q \in received' \ received : q = r
      BY <1>1, <1>3, <2>1
    <2>6. g = [Top EXCEPT !.pc = "status"]
      BY DEF g
    <2> QED BY <1>1, <1>2, <2>3, <2>4, <2>5, <2>6
  <1>5. CASE ~(Top.size = "fits" /\ ~peer.closed)
    <2>1. peer' = peer /\ received' = received
      BY <1>5 DEF WriteSucceeds
    <2> QED BY <1>1, <1>2, <2>1
  <1> QED BY <1>4, <1>5

\* What a step of the server's changes.
LEMMA ServerStep ==
  ASSUME Typed, ServerSends \/ ServerCloses \/ Reset
  PROVE  /\ UNCHANGED <<tls, header, connect_ok, client, frames, result, answered, received>>
         /\ peer' \in Peers /\ peer'.addr = peer.addr /\ peer'.requests = peer.requests
  <1>1. peer \in Peers
    BY TypedParts
  <1>2. CASE ServerSends
    <2> DEFINE b == [part |-> Parts[peer.sent + 1], of |-> Head(peer.requests)]
    <2>1. /\ peer.requests \in Seq(Ids) /\ peer.requests # <<>>
          /\ peer.sent \in 0..5 /\ peer.sent < 5
          /\ peer' = [peer EXCEPT !.sent = @ + 1, !.wire = Append(@, b)]
      BY <1>1, <1>2 DEF ServerSends, ServerChanges, Peers, Parts
    <2>2. Head(peer.requests) \in Ids
      BY <2>1, TakeFirst
    <2>3. Parts[peer.sent + 1] \in {"status", "headers", "delim", "body"}
      BY <2>1 DEF Parts
    <2>4. b \in Bytes
      BY <2>2, <2>3 DEF Bytes
    <2> HIDE DEF b
    <2>5. Append(peer.wire, b) \in Seq(Bytes)
      BY <1>1, <2>4, AppendProperties DEF Peers
    <2>6. peer.sent + 1 \in 0..Len(Parts)
      BY <2>1 DEF Parts
    <2> DEFINE n == peer.sent + 1
               w == Append(peer.wire, b)
    <2>7. peer' \in Peers /\ peer'.addr = peer.addr /\ peer'.requests = peer.requests
      <3>1. peer' = [peer EXCEPT !.sent = n, !.wire = w]
        BY <2>1
      <3>2. n \in 0..Len(Parts) /\ w \in Seq(Bytes)
        BY <2>5, <2>6
      <3> HIDE DEF n, w
      <3> QED BY <1>1, <3>1, <3>2 DEF Peers
    <2> QED BY <1>2, <2>7 DEF ServerSends, ServerChanges
  <1>3. CASE ServerCloses
    BY <1>1, <1>3 DEF ServerCloses, ServerChanges, Peers
  <1>4. CASE Reset
    BY <1>1, <1>4, EmptySeq DEF Reset, ServerChanges, Peers
  <1> QED BY <1>2, <1>3, <1>4

\* What ensure_connected() does.
LEMMA EnsureStep ==
  ASSUME Typed, EnsureConnected
  PROVE  /\ frames # <<>> /\ Top.pc = "connect"
         /\ \E g \in Frames : /\ frames' = SetTop(g) /\ g = [Top EXCEPT !.pc = "write"]
                              /\ g.id = Top.id /\ g.pc = "write"
         /\ Good(tls') /\ Aims(tls, tls')
         /\ peer' = PeerOf(tls, tls') /\ peer' \in Peers
  <1>1. /\ Good(tls) /\ peer \in Peers /\ frames # <<>> /\ Top \in Frames
        /\ Top.pc = "connect" /\ peer' = PeerOf(tls, tls')
        /\ frames' = SetTop([Top EXCEPT !.pc = "write"])
    BY TypedParts DEF EnsureConnected, Calling
  <1>2. PICK f0, f1, f2 : tls' = reconnect(tls, f0, f1, f2).tls
    BY DEF EnsureConnected
  <1>3. Good(tls') /\ Aims(tls, tls')
    BY <1>1, <1>2, ReconnectGood, ReconnectAims
  <1>4. peer' \in Peers
    BY <1>1, <1>3, PeerOfType
  <1> DEFINE g == [Top EXCEPT !.pc = "write"]
  <1>5. g \in Frames /\ g.id = Top.id /\ g.pc = "write"
    BY <1>1 DEF Frames
  <1> QED BY <1>1, <1>3, <1>4, <1>5

\* What connect() does between requests, and whether it then made a connection:
\* the connection it starts from is the client's, or what set_cacert() left.
LEMMA ConnectStep ==
  ASSUME Typed, Connect \/ ConnectWithCacert
  PROVE  /\ UNCHANGED <<client, frames, result, answered, received>>
         /\ "connect" \in client /\ frames = <<>>
         /\ Good(tls') /\ peer' \in Peers /\ header' \in Hosts /\ connect_ok' \in BOOLEAN
  <1>1. /\ Good(tls) /\ peer \in Peers /\ header \in Hosts /\ connect_ok \in BOOLEAN
        /\ UNCHANGED <<client, frames, result, answered, received>>
        /\ "connect" \in client /\ frames = <<>>
    BY TypedParts DEF Typed, TypeOK, Connect, ConnectWithCacert
  <1>2. CASE Connect
    BY <1>1, <1>2, ConnectFromType DEF Connect
  <1>3. CASE ConnectWithCacert
    <2>1. PICK h \in Hosts, p \in Ports, pem \in Pems, f \in Outcomes(InitCalls) :
            LET r == set_cacert(tls, pem, TRUE, f)
            IN  \/ r.ok /\ header' = h /\ ConnectFrom(r.tls, h, p)
                \/ /\ ~r.ok /\ tls' = r.tls /\ peer' = PeerOf(tls, tls')
                   /\ UNCHANGED <<header, connect_ok>>
      BY <1>3 DEF ConnectWithCacert
    <2>2. Good(set_cacert(tls, pem, TRUE, f).tls)
      BY <1>1, SetCacertGood
    <2> QED BY <1>1, <2>1, <2>2, ConnectFromType, PeerOfType
  <1> QED BY <1>1, <1>2, <1>3

\* A call that starts is in front of the others, and has done nothing.
LEMMA MakeRequestStep ==
  ASSUME Typed, MakeRequest
  PROVE  /\ UNCHANGED <<tls, header, connect_ok, client, peer, result, answered, received>>
         /\ NextId \in Ids /\ frames' \in Seq(Frames)
         /\ frames # <<>> => Top.pc = "body" /\ "reenter" \in client
         /\ \E g \in Frames : /\ frames' = <<g>> \o frames /\ g.id = NextId
                              /\ g.pc = "connect" /\ g.buf = <<>> /\ g.code = 0
  <1>1. frames \in Seq(Frames) /\ NextId \in Ids
    BY TypedParts DEF MakeRequest
  <1>2. PICK size \in Sizes : frames' = <<NewFrame(NextId, size)>> \o frames
    BY DEF MakeRequest
  <1> DEFINE g == NewFrame(NextId, size)
  <1>3. g \in Frames /\ g.id = NextId /\ g.pc = "connect" /\ g.buf = <<>> /\ g.code = 0
    BY <1>1, EmptySeq DEF NewFrame, Frames
  <1> HIDE DEF g
  <1>4. frames' \in Seq(Frames)
    BY <1>1, <1>2, <1>3, PutInFront DEF g
  <1> QED BY <1>1, <1>2, <1>3, <1>4 DEF MakeRequest, Calling, g

\* A step that replaces the call on top keeps the stack a stack.
LEMMA SetTopType ==
  ASSUME Typed, frames # <<>>, NEW g \in Frames, frames' = SetTop(g)
  PROVE  frames' \in Seq(Frames)
  BY TypedParts, ReplaceHead DEF SetTop

\* Every step keeps the types.
LEMMA NextTyped == Typed /\ [Next]_vars => Typed'
  <1> SUFFICES ASSUME Typed, [Next]_vars PROVE Typed'
    OBVIOUS
  <1>0. /\ Good(tls) /\ header \in Hosts /\ connect_ok \in BOOLEAN /\ client \in Clients
        /\ frames \in Seq(Frames) /\ peer \in Peers
        /\ result \in [Ids -> {"none", "true", "false"}]
        /\ answered \in [Ids -> Ids \cup {0}] /\ received \subseteq Requests
    BY TypedParts DEF Typed, TypeOK
  <1> DEFINE Goal ==
        /\ Good(tls') /\ header' \in Hosts /\ connect_ok' \in BOOLEAN /\ client' \in Clients
        /\ frames' \in Seq(Frames) /\ peer' \in Peers
        /\ result' \in [Ids -> {"none", "true", "false"}]
        /\ answered' \in [Ids -> Ids \cup {0}] /\ received' \subseteq Requests
  <1>1. CASE Connect \/ ConnectWithCacert
    <2>1. Goal
      BY <1>0, <1>1, ConnectStep
    <2> QED BY <2>1 DEF Typed, TypeOK, Good, Frames, Peers, Requests
  <1>2. CASE MakeRequest
    <2>1. Goal
      BY <1>0, <1>2, MakeRequestStep
    <2> QED BY <2>1 DEF Typed, TypeOK, Good, Frames, Peers, Requests
  <1>3. CASE EnsureConnected
    <2>1. Goal
      BY <1>0, <1>3, EnsureStep, SetTopType DEF EnsureConnected
    <2> QED BY <2>1 DEF Typed, TypeOK, Good, Frames, Peers, Requests
  <1>4. CASE WriteFails
    <2>1. frames # <<>> /\ Return("false")
      BY <1>4 DEF WriteFails, Calling
    <2>2. Goal
      BY <1>0, <1>4, <2>1, ReturnStep DEF WriteFails
    <2> QED BY <2>2 DEF Typed, TypeOK, Good, Frames, Peers, Requests
  <1>5. CASE WriteSucceeds
    <2>1. Goal
      BY <1>0, <1>5, WriteStep, SetTopType DEF WriteSucceeds
    <2> QED BY <2>1 DEF Typed, TypeOK, Good, Frames, Peers, Requests
  <1>6. CASE Read \/ ReadStatus \/ SkipHeaders \/ ReadBody
    <2>1. Goal
      BY <1>0, <1>6, ReadingStep, SetTopType
    <2> QED BY <2>1 DEF Typed, TypeOK, Good, Frames, Peers, Requests
  <1>7. CASE Finish
    <2>1. frames # <<>> /\ Return("true")
      BY <1>7 DEF Finish, Calling
    <2>2. Goal
      BY <1>0, <1>7, <2>1, ReturnStep DEF Finish
    <2> QED BY <2>2 DEF Typed, TypeOK, Good, Frames, Peers, Requests
  <1>8. CASE ServerSends \/ ServerCloses \/ Reset
    <2>1. Goal
      BY <1>0, <1>8, ServerStep
    <2> QED BY <2>1 DEF Typed, TypeOK, Good, Frames, Peers, Requests
  <1>9. CASE UNCHANGED vars
    BY <1>9 DEF vars, Typed, TypeOK
  <1> QED BY <1>1, <1>2, <1>3, <1>4, <1>5, <1>6, <1>7, <1>8, <1>9 DEF Next

\* The types hold always.
LEMMA AlwaysTyped == Spec => []Typed
  BY InitTyped, NextTyped, PTL DEF Spec

\* Every variable keeps its type, whatever calls nest and whatever fails.
THEOREM TypeCorrect == Spec => []TypeOK
  <1>1. Typed => TypeOK
    BY DEF Typed
  <1> QED BY <1>1, AlwaysTyped, PTL

-----------------------------------------------------------------------------
(***************************************************************************)
(* The calls' numbers: each started call is in progress or has a result,   *)
(* and a request that was read is a call's that is past its write, or that *)
(* returned true.                                                          *)
(***************************************************************************)
Past == {"status", "headers", "body", "finish"}

\* The calls started are the first ones: NextId is the next.
NumbersUsed == \E n \in 0..MaxRequests : Started = 1..n

OneFrameEach ==
  /\ \A j, k \in DOMAIN frames : frames[j].id = frames[k].id => j = k
  /\ \A k \in DOMAIN frames : result[frames[k].id] = "none"

ReadMeansWritten ==
  \A r \in received :
    \/ result[r.id] = "true"
    \/ \E k \in DOMAIN frames : frames[k].id = r.id /\ frames[k].pc \in Past

Numbered == NumbersUsed /\ OneFrameEach /\ ReadMeansWritten

\* No call is started initially.
LEMMA InitNumbered == Init => Numbered
  <1> SUFFICES ASSUME Init PROVE Numbered
    OBVIOUS
  <1>1. /\ frames = <<>> /\ DOMAIN frames = {} /\ received = {}
        /\ \A i \in Ids : result[i] = "none"
    BY DEF Init
  <1>2. Started = 1..0 /\ 0 \in 0..MaxRequests
    BY <1>1, MaxRequestsAssumption DEF Started
  <1> QED BY <1>1, <1>2 DEF Numbered, NumbersUsed, OneFrameEach, ReadMeansWritten

\* NextId is the number after those used.
LEMMA NextIdIsNext ==
  ASSUME NEW n \in 0..MaxRequests, Started = 1..n
  PROVE  NextId = n + 1
  <1>1. CASE n = 0
    BY <1>1 DEF NextId
  <1>2. CASE n # 0
    <2> DEFINE Last(m) == m \in Started /\ \A i \in Started : i <= m
    <2>1. Last(n)
      BY <1>2
    <2>2. \A m : Last(m) => m = n
      BY <1>2, <2>1
    <2> DEFINE last == CHOOSE m \in Started : \A i \in Started : i <= m
    <2>3. last = n
      BY <2>1, <2>2
    <2>4. Started # {}
      BY <2>1
    <2>5. NextId = 1 + last
      BY <2>4 DEF NextId
    <2> HIDE DEF last
    <2> QED BY <2>3, <2>5
  <1> QED BY <1>1, <1>2

\* A step of the call on top: it goes on, and only it may have had its request read.
LEMMA TopNumbered ==
  ASSUME Typed, Numbered, frames # <<>>, NEW g \in Frames, frames' = SetTop(g),
         g.id = Top.id, Top.pc \in Past => g.pc \in Past, result' = result,
         \A r \in received' \ received : r.id = Top.id /\ g.pc \in Past
  PROVE  Numbered'
  <1>1. frames \in Seq(Frames) /\ Top = frames[1] /\ DOMAIN frames = 1..Len(frames)
        /\ 1 \in DOMAIN frames /\ Len(frames) \in Nat
    BY TypedParts, TakeFirst DEF Top
  <1>2. /\ DOMAIN frames' = DOMAIN frames /\ frames'[1] = g
        /\ \A k \in DOMAIN frames : k # 1 => frames'[k] = frames[k]
    BY <1>1, ReplaceHead DEF SetTop
  <1>3. \A k \in DOMAIN frames : frames'[k].id = frames[k].id
    BY <1>1, <1>2
  <1>4. \A k \in DOMAIN frames : frames[k].pc \in Past => frames'[k].pc \in Past
    BY <1>1, <1>2
  <1>5. Started' = Started
    BY <1>2, <1>3 DEF Started
  <1>6. NumbersUsed' /\ OneFrameEach'
    BY <1>2, <1>3, <1>5 DEF Numbered, NumbersUsed, OneFrameEach
  <1>7. ReadMeansWritten'
    <2> SUFFICES ASSUME NEW r \in received', result[r.id] # "true"
                 PROVE  \E k \in DOMAIN frames' : frames'[k].id = r.id /\ frames'[k].pc \in Past
      BY DEF ReadMeansWritten
    <2>1. CASE r \in received
      BY <1>2, <1>3, <1>4, <2>1 DEF Numbered, ReadMeansWritten
    <2>2. CASE r \notin received
      BY <1>1, <1>2, <2>2
    <2> QED BY <2>1, <2>2
  <1> QED BY <1>6, <1>7 DEF Numbered

\* A call that starts has a number of its own.
LEMMA StartNumbered ==
  ASSUME Typed, Numbered, MakeRequest
  PROVE  Numbered'
  <1>1. PICK g \in Frames : frames' = <<g>> \o frames /\ g.id = NextId
    BY MakeRequestStep
  <1>2. /\ frames \in Seq(Frames) /\ Len(frames) \in Nat
        /\ DOMAIN frames = 1..Len(frames)
        /\ NextId \in Ids /\ result' = result /\ received' = received
    BY TypedParts, LenProperties, MakeRequestStep
  <1>3. /\ DOMAIN frames' = 1..(Len(frames) + 1) /\ frames'[1] = g
        /\ \A k \in 1..Len(frames) : frames'[k + 1] = frames[k]
    BY <1>1, <1>2, PutInFront
  <1>4. PICK n \in 0..MaxRequests : Started = 1..n
    BY DEF Numbered, NumbersUsed
  <1>5. NextId = n + 1 /\ NextId \notin Started /\ n + 1 \in 0..MaxRequests
    BY <1>2, <1>4, NextIdIsNext, MaxRequestsAssumption DEF Ids
  <1>6. \A k \in DOMAIN frames' : k # 1 => k - 1 \in DOMAIN frames /\ frames'[k] = frames[k - 1]
    BY <1>2, <1>3
  <1>7. \A k \in DOMAIN frames : k + 1 \in DOMAIN frames' /\ frames'[k + 1] = frames[k]
    BY <1>2, <1>3
  <1>8. \A k \in DOMAIN frames : frames[k].id \in Started
    BY DEF Started
  <1>9. 1 \in DOMAIN frames'
    BY <1>2, <1>3
  <1>10. Started' = Started \cup {n + 1}
    <2> DEFINE InFrames == {frames[k].id : k \in DOMAIN frames}
    <2>1. {frames'[k].id : k \in DOMAIN frames'} \subseteq InFrames \cup {n + 1}
      BY <1>1, <1>3, <1>5, <1>6
    <2>2. InFrames \subseteq {frames'[k].id : k \in DOMAIN frames'}
      BY <1>7
    <2>3. n + 1 \in {frames'[k].id : k \in DOMAIN frames'}
      BY <1>1, <1>3, <1>5, <1>9
    <2>4. {frames'[k].id : k \in DOMAIN frames'} = InFrames \cup {n + 1}
      BY <2>1, <2>2, <2>3
    <2> QED BY <1>2, <2>4 DEF Started
  <1>11. NumbersUsed'
    <2>1. Started' = 1..(n + 1)
      BY <1>4, <1>10
    <2> QED BY <1>5, <2>1 DEF NumbersUsed
  <1>12. OneFrameEach'
    <2>1. result[NextId] = "none"
      BY <1>2, <1>5 DEF Started
    <2>2. \A k \in DOMAIN frames' : result'[frames'[k].id] = "none"
      BY <1>1, <1>2, <1>3, <1>6, <2>1 DEF Numbered, OneFrameEach
    <2>3. \A j, k \in DOMAIN frames' : frames'[j].id = frames'[k].id => j = k
      <3> SUFFICES ASSUME NEW j \in DOMAIN frames', NEW k \in DOMAIN frames',
                          frames'[j].id = frames'[k].id
                   PROVE  j = k
        OBVIOUS
      <3>1. CASE j = 1 /\ k # 1
        BY <1>1, <1>3, <1>5, <1>6, <1>8, <3>1
      <3>2. CASE j # 1 /\ k = 1
        BY <1>1, <1>3, <1>5, <1>6, <1>8, <3>2
      <3>3. CASE j # 1 /\ k # 1
        <4>1. j - 1 = k - 1
          BY <1>6, <3>3 DEF Numbered, OneFrameEach
        <4> QED BY <1>3, <4>1, <1>2
      <3> QED BY <3>1, <3>2, <3>3
    <2> QED BY <2>2, <2>3 DEF OneFrameEach
  <1>13. ReadMeansWritten'
    BY <1>2, <1>7 DEF Numbered, ReadMeansWritten
  <1> QED BY <1>11, <1>12, <1>13 DEF Numbered

\* A call that returns gets its result, "false" only when it has not written.
LEMMA ReturnNumbered ==
  ASSUME Typed, Numbered, frames # <<>>, NEW ok \in {"true", "false"}, Return(ok),
         ok = "true" \/ Top.pc = "write", received' = received
  PROVE  Numbered'
  <1>1. /\ frames \in Seq(Frames) /\ Top = frames[1] /\ DOMAIN frames = 1..Len(frames)
        /\ 1 \in DOMAIN frames /\ Len(frames) \in Nat \ {0} /\ Top \in Frames
    BY TypedParts, TakeFirst DEF Top
  <1>2. /\ frames' = Tail(frames)
        /\ \A i \in Ids : result'[i] = IF i = Top.id THEN ok ELSE result[i]
    BY ReturnStep
  <1>3. /\ DOMAIN frames' = 1..(Len(frames) - 1)
        /\ \A k \in 1..(Len(frames) - 1) : frames'[k] = frames[k + 1]
    BY <1>1, <1>2, TakeFirst
  <1>4. \A k \in DOMAIN frames' : k + 1 \in DOMAIN frames /\ frames'[k] = frames[k + 1]
    BY <1>1, <1>3
  <1>5. \A k \in DOMAIN frames : k # 1 => k - 1 \in DOMAIN frames' /\ frames'[k - 1] = frames[k]
    BY <1>1, <1>3
  <1>6. \A k \in DOMAIN frames : k # 1 => frames[k].id # Top.id
    BY <1>1 DEF Numbered, OneFrameEach
  <1>7. Top.id \in Ids /\ \A k \in DOMAIN frames : frames[k].id \in Ids
    <2>1. \A k \in 1..Len(frames) : frames[k] \in Frames
      BY <1>1, ElementOfSeq
    <2> QED BY <1>1, <2>1 DEF Frames
  <1>8. NumbersUsed'
    <2> DEFINE Ended == {i \in Ids : result[i] # "none"}
               Going == {frames[k].id : k \in DOMAIN frames}
    <2>1. {i \in Ids : result'[i] # "none"} = Ended \cup {Top.id}
      BY <1>2, <1>7
    <2>2. {frames'[k].id : k \in DOMAIN frames'} \subseteq Going
      BY <1>4
    <2>3. Going \subseteq {frames'[k].id : k \in DOMAIN frames'} \cup {Top.id}
      BY <1>1, <1>5
    <2>4. Top.id \in Going
      BY <1>1
    <2>5. Started' = Started
      BY <2>1, <2>2, <2>3, <2>4 DEF Started
    <2> QED BY <2>5 DEF Numbered, NumbersUsed
  <1>9. OneFrameEach'
    <2>1. \A k \in DOMAIN frames' : frames'[k].id # Top.id /\ frames'[k].id \in Ids
      BY <1>1, <1>3, <1>4, <1>6, <1>7
    <2>2. \A k \in DOMAIN frames' : result'[frames'[k].id] = "none"
      BY <1>2, <1>4, <2>1 DEF Numbered, OneFrameEach
    <2>3. \A j, k \in DOMAIN frames' : frames'[j].id = frames'[k].id => j = k
      <3> SUFFICES ASSUME NEW j \in DOMAIN frames', NEW k \in DOMAIN frames',
                          frames'[j].id = frames'[k].id
                   PROVE  j = k
        OBVIOUS
      <3>1. j + 1 = k + 1
        BY <1>4 DEF Numbered, OneFrameEach
      <3> QED BY <1>1, <1>3, <3>1
    <2> QED BY <2>2, <2>3 DEF OneFrameEach
  <1>10. ReadMeansWritten'
    <2> SUFFICES ASSUME NEW r \in received, result'[r.id] # "true"
                 PROVE  \E k \in DOMAIN frames' : frames'[k].id = r.id /\ frames'[k].pc \in Past
      BY DEF ReadMeansWritten
    <2>1. r.id \in Ids
      BY TypedParts DEF Requests
    <2>2. CASE r.id = Top.id
      <3>1. ok # "true" /\ Top.pc = "write" /\ result[r.id] = "none"
        BY <1>1, <1>2, <2>1, <2>2 DEF Numbered, OneFrameEach
      <3>2. PICK k \in DOMAIN frames : frames[k].id = Top.id /\ frames[k].pc \in Past
        BY <2>2, <3>1 DEF Numbered, ReadMeansWritten
      <3>3. frames[k] = Top
        BY <1>1, <1>6, <3>2
      <3> QED BY <3>1, <3>2, <3>3 DEF Past
    <2>3. CASE r.id # Top.id
      <3>1. PICK k \in DOMAIN frames : frames[k].id = r.id /\ frames[k].pc \in Past
        BY <1>2, <2>1, <2>3 DEF Numbered, ReadMeansWritten
      <3>2. k # 1
        BY <1>1, <2>3, <3>1
      <3> QED BY <1>5, <3>1, <3>2
    <2> QED BY <2>2, <2>3
  <1> QED BY <1>8, <1>9, <1>10 DEF Numbered

\* Every step keeps the numbers.
LEMMA NextNumbered == Typed /\ Numbered /\ [Next]_vars => Numbered'
  <1> SUFFICES ASSUME Typed, Numbered, [Next]_vars PROVE Numbered'
    OBVIOUS
  <1>0. ASSUME UNCHANGED <<frames, result, received>> PROVE Numbered'
    BY <1>0 DEF Numbered, NumbersUsed, OneFrameEach, ReadMeansWritten, Started
  <1>1. CASE Connect \/ ConnectWithCacert
    BY <1>0, <1>1, ConnectStep
  <1>2. CASE MakeRequest
    BY <1>2, StartNumbered
  <1>3. CASE EnsureConnected
    <2>1. result' = result /\ received' = received
      BY <1>3 DEF EnsureConnected
    <2>2. frames # <<>> /\ Top.pc \notin Past
      BY <1>3, EnsureStep DEF Past
    <2> QED BY <1>3, <2>1, <2>2, EnsureStep, TopNumbered
  <1>4. CASE WriteFails
    <2>1. frames # <<>> /\ Return("false") /\ Top.pc = "write" /\ received' = received
      BY <1>4 DEF WriteFails, Calling
    <2> QED BY <2>1, ReturnNumbered
  <1>5. CASE WriteSucceeds
    <2>1. result' = result
      BY <1>5 DEF WriteSucceeds
    <2>2. PICK g \in Frames : frames' = SetTop(g) /\ g.id = Top.id /\ g.pc \in Past
      BY <1>5, WriteStep DEF Past
    <2>3. frames # <<>> /\ \A r \in received' \ received : r.id = Top.id
      BY <1>5, WriteStep
    <2> QED BY <2>1, <2>2, <2>3, TopNumbered
  <1>6. CASE Read \/ ReadStatus \/ SkipHeaders \/ ReadBody
    <2>1. result' = result /\ received' = received /\ frames # <<>>
      BY <1>6, ReadingStep
    <2>2. PICK g \in Frames : frames' = SetTop(g) /\ g.id = Top.id /\ g.pc \in Past
      BY <1>6, ReadingStep DEF Past
    <2> QED BY <2>1, <2>2, TopNumbered
  <1>7. CASE Finish
    <2>1. frames # <<>> /\ Return("true") /\ received' = received
      BY <1>7 DEF Finish, Calling
    <2> QED BY <2>1, ReturnNumbered
  <1>8. CASE ServerSends \/ ServerCloses \/ Reset
    BY <1>0, <1>8, ServerStep
  <1>9. CASE UNCHANGED vars
    BY <1>0, <1>9 DEF vars
  <1> QED BY <1>1, <1>2, <1>3, <1>4, <1>5, <1>6, <1>7, <1>8, <1>9 DEF Next

\* make_request() returns false only for requests no server has read.
THEOREM FailedAlwaysUnread == Spec => []FailedMeansUnread
  <1>1. Typed /\ Numbered => FailedMeansUnread
    BY DEF Numbered, ReadMeansWritten, OneFrameEach, FailedMeansUnread
  <1> QED BY <1>1, AlwaysTyped, InitNumbered, NextNumbered, PTL DEF Spec

-----------------------------------------------------------------------------
(***************************************************************************)
(* When the connection is open: nothing but a dial opens it, and a failed  *)
(* one closes it again.                                                    *)
(***************************************************************************)
Closed(s) == s.fd = NoAddr /\ ~s.connected

\* Setting the certificate's fields keeps a closed connection closed.
LEMMA CacertFieldsClosed ==
  ASSUME NEW s \in TLS, Closed(s), NEW v
  PROVE  Closed([s EXCEPT !.cacert_set = v]) /\ Closed([s EXCEPT !.cacert_pem = v])
  BY DEF TLS, Closed

\* init() keeps a closed connection closed.
LEMMA InitClosed ==
  ASSUME NEW s \in TLS, Closed(s), NEW f
  PROVE  Closed(init(s, f))
  BY DEF TLS, Closed, init, Note

\* So does clear().
LEMMA ClearClosed ==
  ASSUME NEW s \in TLS, Closed(s)
  PROVE  Closed(clear(s))
  BY DEF TLS, Closed, clear, Note

\* And load_cacert().
LEMMA LoadCacertClosed ==
  ASSUME NEW s, Good(s), Closed(s), NEW pem, NEW f
  PROVE  Closed(load_cacert(s, pem, TRUE, f))
  <1>1. disconnect(s) = s
    BY DEF Closed, disconnect
  <1>2. Closed(clear(s)) /\ clear(s) \in TLS
    BY ClearClosed, ClearGood DEF Good
  <1>3. Closed(ssl_setup(s)) /\ ssl_setup(s) \in TLS
    BY DEF Good, TLS, Closed, ssl_setup, Note
  <1> QED BY <1>1, <1>2, <1>3, CacertFieldsClosed DEF load_cacert, Good

\* And _ensure_initialized().
LEMMA EnsureInitializedClosed ==
  ASSUME NEW s, Good(s), Closed(s), NEW f
  PROVE  Closed(ensure_initialized(s, f))
  <1> DEFINE i == init(s, f)
             reload(t) == load_cacert(t, s.cacert_pem, TRUE, f)
             j == init(i, "none")
  <1>1. Good(i) /\ Closed(i) /\ Good(j) /\ Closed(j) /\ j.initialized
    BY InitGood, InitClosed, InitInitializes DEF Good
  <1>2. Closed(reload(i))
    BY <1>1, LoadCacertClosed
  <1>3. ASSUME f = "seed" PROVE Closed(Note(reload(reload(j)), "init_recursed", TRUE))
    <2>1. Good(reload(j)) /\ reload(j).initialized /\ Closed(reload(j))
      BY <1>1, <1>3, LoadCacertGood, LoadCacertKeepsInitialized, LoadCacertClosed
    <2>2. Good(reload(reload(j))) /\ Closed(reload(reload(j)))
      BY <2>1, LoadCacertGood, LoadCacertClosed
    <2> DEFINE q == reload(reload(j))
    <2>3. q \in TLS /\ Closed(q)
      BY <2>2 DEF Good
    <2> HIDE DEF q
    <2>4. Closed(Note(q, "init_recursed", TRUE))
      BY <2>3 DEF TLS, Closed, Note
    <2> QED BY <2>4 DEF q
  <1> QED BY <1>1, <1>2, <1>3 DEF ensure_initialized

\* And set_cacert().
LEMMA SetCacertClosed ==
  ASSUME NEW s, Good(s), Closed(s), NEW pem \in Pems \cup {NoPem}, NEW f
  PROVE  Closed(set_cacert(s, pem, TRUE, f).tls)
  <1> DEFINE e == ensure_initialized([s EXCEPT !.cacert_pem = pem], f)
  <1>1. Good(e) /\ Closed(e)
    BY CacertPemGood, CacertFieldsClosed, EnsureInitializedGood, EnsureInitializedClosed DEF Good
  <1> QED BY <1>1, LoadCacertClosed DEF set_cacert

\* And initialize().
LEMMA InitializeClosed ==
  ASSUME NEW s, Good(s), Closed(s), NEW h \in Hosts, NEW p \in Ports, NEW pem \in Pems, NEW f
  PROVE  Closed(initialize(s, h, p, pem, f))
  <1>1. Good(retarget(s, h, p))
    BY RetargetGood
  <1>2. Closed(retarget(s, h, p))
    BY DEF Good, TLS, Closed, retarget, clear_session, connected
  <1> QED BY <1>1, <1>2, SetCacertClosed DEF initialize

-----------------------------------------------------------------------------
(***************************************************************************)
(* Where the connection leads: the server's end is the socket's, a live    *)
(* connection is to its target, and the target is the host of the header   *)
(* unless the last connect() failed.                                       *)
(***************************************************************************)
LedTo(t, pr, hd, ok) ==
  /\ OnTarget(t)
  /\ pr.addr = t.fd
  /\ ok => t.host = hd

Led == LedTo(tls, peer, header, connect_ok) /\ HostHeaderOfServer

\* The server's end that a call leaves is that of the socket it leaves: a kept
\* connection is to the same target, and so has the same socket.
LEMMA PeerOfLeads ==
  ASSUME NEW s, OnTarget(s), connected(s) => peer.addr = s.fd, NEW t, OnTarget(t)
  PROVE  PeerOf(s, t).addr = t.fd
  <1>1. NewPeer(t.fd).addr = t.fd /\ NoPeer.addr = NoAddr
    BY DEF NewPeer, NoPeer
  <1>2. connected(s) /\ connected(t) /\ target(s) = target(t) => s.fd = t.fd
    BY DEF OnTarget, Hit
  <1> QED BY <1>1, <1>2 DEF PeerOf

\* initialize() leaves a connection to the target it is given.
LEMMA InitializeLeads ==
  ASSUME NEW s, Good(s), OnTarget(s), NEW h \in Hosts, NEW p \in Ports, NEW pem \in Pems, NEW f
  PROVE  OnTarget(initialize(s, h, p, pem, f)) /\ initialize(s, h, p, pem, f).host = h
  <1> DEFINE r == retarget(s, h, p)
             c == set_cacert(r, pem, TRUE, f).tls
  <1>1. Good(r) /\ OnTarget(r) /\ target(r) = <<h, p>>
    BY RetargetGood, RetargetAims
  <1>2. OnTarget(c) /\ target(c) = <<h, p>>
    BY <1>1, SetCacertAims DEF Aims
  <1>3. initialize(s, h, p, pem, f) = c
    BY PemsAssumption DEF initialize
  <1> QED BY <1>2, <1>3 DEF target

\* connect() succeeds only with the host it was given as the target.
LEMMA ConnectReached ==
  ASSUME NEW s, Good(s), NEW h \in Hosts, NEW p, NEW f0, NEW f1, NEW f2
  PROVE  connect(s, h, p, f0, f1, f2).ok => connect(s, h, p, f0, f1, f2).tls.host = h
  <1> DEFINE e == ensure_initialized(s, f0)
             c == ensure_connected(e, h, e.port, f1)
             r == full_connect(c, f2)
  <1>1. Good(e) /\ e.port \in Ports
    BY EnsureInitializedGood DEF Good, TLS
  <1> HIDE DEF e
  <1>2. Good(c) /\ target(c) = <<h, e.port>>
    BY <1>1, EnsureConnectedGood, EnsureConnectedAims
  <1> HIDE DEF c
  <1>3. target(r) = <<h, e.port>>
    BY <1>2, FullConnectAims DEF Aims
  <1> HIDE DEF r
  <1>4. c.host = h /\ r.host = h
    BY <1>2, <1>3 DEF target
  <1>5. connect(s, h, p, f0, f1, f2).ok => connect(s, h, p, f0, f1, f2).tls \in {c, r}
    BY DEF connect, e, c, r
  <1> QED BY <1>4, <1>5

\* connect() sets the header, and succeeds only when it leads there.
LEMMA ConnectFromLeads ==
  ASSUME NEW s, Good(s), OnTarget(s), connected(s) => peer.addr = s.fd,
         NEW h \in Hosts, NEW p \in Ports, ConnectFrom(s, h, p), header' = h
  PROVE  LedTo(tls', peer', header', connect_ok')
  <1>1. PICK f0 \in Outcomes(InitCalls), f1 \in Outcomes(InitCalls \cup ResumeCalls),
             f2 \in Outcomes(FullCalls) :
          /\ tls' = connect(s, h, p, f0, f1, f2).tls
          /\ connect_ok' = connect(s, h, p, f0, f1, f2).ok
          /\ peer' = PeerOf(s, tls')
    BY DEF ConnectFrom
  <1>2. OnTarget(tls')
    <2>1. OnTarget(connect(s, h, p, f0, f1, f2).tls)
      BY ConnectAims
    <2> QED BY <1>1, <2>1
  <1>3. connect_ok' => tls'.host = h
    <2> DEFINE c == connect(s, h, p, f0, f1, f2)
    <2>1. c.ok => c.tls.host = h
      BY ConnectReached
    <2>2. c.ok \in BOOLEAN
      BY ConnectSays
    <2> HIDE DEF c
    <2>3. tls' = c.tls /\ connect_ok' = c.ok
      BY <1>1 DEF c
    <2> QED BY <2>1, <2>2, <2>3
  <1>4. peer'.addr = tls'.fd
    BY <1>1, <1>2, PeerOfLeads
  <1> QED BY <1>2, <1>3, <1>4 DEF LedTo

\* A certificate that loads has ended the connection.
LEMMA LoadedMeansDisconnected ==
  ASSUME NEW s, Good(s), NEW pem \in Pems, NEW f, set_cacert(s, pem, TRUE, f).ok
  PROVE  ~connected(set_cacert(s, pem, TRUE, f).tls)
  <1> DEFINE e == ensure_initialized([s EXCEPT !.cacert_pem = pem], f)
             d == disconnect(e)
  <1>1. Good(e)
    BY CacertPemGood, EnsureInitializedGood
  <1> HIDE DEF e
  <1>2. e.initialized /\ f \notin {"config", "setup"} /\ pem \in GoodPems
    BY DEF set_cacert, cacert_loaded, e
  <1>3. d \in TLS /\ ~d.connected
    BY <1>1, DisconnectGood DEF Good, TLS, disconnect
  <1> HIDE DEF d
  <1>4. ~[ssl_setup(d) EXCEPT !.cacert_set = TRUE].connected
    BY <1>3 DEF TLS, ssl_setup, Note
  <1>5. set_cacert(s, pem, TRUE, f).tls = [ssl_setup(d) EXCEPT !.cacert_set = TRUE]
    BY <1>2 DEF set_cacert, load_cacert, e, d
  <1> QED BY <1>4, <1>5 DEF connected

\* The constructor leads nowhere, and names its host.
LEMMA InitLed == Init => Led
  <1> SUFFICES ASSUME Init PROVE Led
    OBVIOUS
  <1>1. PICK h \in Hosts, p \in Ports, pem \in Pems, f \in Outcomes(InitCalls) :
          tls = initialize(NewTLS("empty"), h, p, pem, f) /\ header = h
    BY DEF Init
  <1>2. OnTarget(NewTLS("empty"))
    BY DEF NewTLS, OnTarget, connected
  <1>3. OnTarget(tls) /\ tls.host = header
    BY <1>1, <1>2, NewTLSGood, InitializeLeads
  <1>4. tls.fd = NoAddr
    BY <1>1, NewTLSGood, InitializeClosed DEF NewTLS, Closed
  <1> QED BY <1>3, <1>4 DEF Init, NoPeer, NewPeer, Led, LedTo, HostHeaderOfServer

\* A step that leaves the connection alone leads where it led.
LEMMA SameLed ==
  ASSUME Led, peer'.addr = peer.addr, UNCHANGED <<tls, header, connect_ok>>,
         \A r \in received' \ received :
           /\ r.host = header /\ r.addr = peer.addr /\ r.as_asked = connect_ok
           /\ connected(tls)
  PROVE  Led'
  <1>1. LedTo(tls', peer', header', connect_ok')
    BY DEF Led, LedTo
  <1>2. ASSUME NEW r \in received', r.as_asked
        PROVE  r.host = r.addr[1]
    <2>1. CASE r \in received
      BY <1>2, <2>1 DEF Led, HostHeaderOfServer
    <2>2. CASE r \notin received
      <3>1. /\ connected(tls) /\ r.host = header /\ r.addr = peer.addr
            /\ r.as_asked = connect_ok
        BY <2>2
      <3>2. r.host = tls.host /\ r.addr = target(tls)
        BY <1>2, <3>1 DEF Led, LedTo, OnTarget, Hit
      <3> QED BY <3>2 DEF target
    <2> QED BY <2>1, <2>2
  <1> QED BY <1>1, <1>2 DEF Led, HostHeaderOfServer

\* So does one that keeps the connection on its target.
LEMMA AimedLed ==
  ASSUME Led, Aims(tls, tls'), peer' = PeerOf(tls, tls'),
         UNCHANGED <<header, connect_ok, received>>
  PROVE  Led'
  <1>1. OnTarget(tls) /\ peer.addr = tls.fd
    BY DEF Led, LedTo
  <1>2. OnTarget(tls') /\ target(tls') = target(tls)
    BY <1>1 DEF Aims
  <1>3. peer'.addr = tls'.fd
    <2>1. PeerOf(tls, tls').addr = tls'.fd
      BY <1>1, <1>2, PeerOfLeads
    <2> QED BY <2>1
  <1>4. tls'.host = tls.host
    BY <1>2 DEF target
  <1> QED BY <1>2, <1>3, <1>4 DEF Led, LedTo, HostHeaderOfServer

\* Every step leads on.
LEMMA NextLed == Typed /\ Led /\ [Next]_vars => Led'
  <1> SUFFICES ASSUME Typed, Led, [Next]_vars PROVE Led'
    OBVIOUS
  <1>0. Good(tls) /\ OnTarget(tls) /\ peer.addr = tls.fd
    BY TypedParts DEF Led, LedTo
  <1>1. CASE Connect
    <2>1. received' = received
      BY <1>1 DEF Connect
    <2>2. LedTo(tls', peer', header', connect_ok')
      BY <1>0, <1>1, ConnectFromLeads DEF Connect
    <2> QED BY <2>1, <2>2 DEF Led, HostHeaderOfServer
  <1>2. CASE ConnectWithCacert
    <2>1. PICK h \in Hosts, p \in Ports, pem \in Pems, f \in Outcomes(InitCalls) :
            LET r == set_cacert(tls, pem, TRUE, f)
            IN  \/ r.ok /\ header' = h /\ ConnectFrom(r.tls, h, p)
                \/ /\ ~r.ok /\ tls' = r.tls /\ peer' = PeerOf(tls, tls')
                   /\ UNCHANGED <<header, connect_ok>>
      BY <1>2 DEF ConnectWithCacert
    <2> DEFINE r == set_cacert(tls, pem, TRUE, f)
    <2>2. Good(r.tls) /\ Aims(tls, r.tls)
      BY <1>0, SetCacertGood, SetCacertAims
    <2>3. r.ok => ~connected(r.tls)
      BY <1>0, LoadedMeansDisconnected
    <2>4. OnTarget(r.tls)
      BY <1>0, <2>2 DEF Aims
    <2>5. received' = received
      BY <1>2 DEF ConnectWithCacert
    <2> HIDE DEF r
    <2>6. CASE r.ok /\ header' = h /\ ConnectFrom(r.tls, h, p)
      <3>1. LedTo(tls', peer', header', connect_ok')
        BY <2>2, <2>3, <2>4, <2>6, ConnectFromLeads
      <3> QED BY <2>5, <3>1 DEF Led, HostHeaderOfServer
    <2>7. CASE tls' = r.tls /\ peer' = PeerOf(tls, tls') /\ UNCHANGED <<header, connect_ok>>
      BY <2>2, <2>5, <2>7, AimedLed
    <2> QED BY <2>1, <2>6, <2>7 DEF r
  <1>3. CASE MakeRequest
    BY <1>3, MakeRequestStep, SameLed
  <1>4. CASE EnsureConnected
    BY <1>4, EnsureStep, AimedLed DEF EnsureConnected
  <1>5. ASSUME NEW ok \in {"true", "false"}, Return(ok),
               UNCHANGED <<header, connect_ok, received>>
        PROVE  Led'
    <2>1. tls' = disconnect(tls) /\ peer' = PeerOf(tls, tls')
      BY <1>5 DEF Return
    <2>2. Aims(tls, tls')
      BY <1>0, <2>1, DisconnectAims
    <2> QED BY <1>5, <2>1, <2>2, AimedLed
  <1>6. CASE WriteFails
    BY <1>5, <1>6 DEF WriteFails
  <1>7. CASE WriteSucceeds
    <2>1. UNCHANGED <<tls, header, connect_ok>> /\ connected(tls)
      BY <1>7 DEF WriteSucceeds
    <2> QED BY <1>7, <2>1, WriteStep, SameLed
  <1>8. CASE Read \/ ReadStatus \/ SkipHeaders \/ ReadBody
    BY <1>8, ReadingStep, SameLed
  <1>9. CASE Finish
    BY <1>5, <1>9 DEF Finish
  <1>10. CASE ServerSends \/ ServerCloses \/ Reset
    BY <1>10, ServerStep, SameLed
  <1>11. CASE UNCHANGED vars
    BY <1>11, SameLed DEF vars
  <1> QED BY <1>1, <1>2, <1>3, <1>4, <1>6, <1>7, <1>8, <1>9, <1>10, <1>11 DEF Next

\* The connection leads where it should, always.
LEMMA AlwaysLed == Spec => []Led
  BY InitLed, AlwaysTyped, NextLed, PTL DEF Spec

\* Requests are read by the host their header names.
THEOREM HostHeaderAlwaysOfServer == Spec => []HostHeaderOfServer
  <1>1. Led => HostHeaderOfServer
    BY DEF Led
  <1> QED BY <1>1, AlwaysLed, PTL

\* Dialling from an initialized connection opens a socket or leaves none.
SocketKnown(s) == s.connected \/ s.fd = NoAddr

LEMMA DialKnows ==
  ASSUME NEW s, Good(s), s.initialized, NEW f
  PROVE  SocketKnown(dial(s, f))
  <1> DEFINE reached == s.host # NoHost /\ f \notin {"resolve", "tcp"}
             n == net_connect(s, f)
             u == Note(n, "handshake_unset", reached /\ s.ssl = "unset")
             up == [handshake(n) EXCEPT !.connected = TRUE]
             down == [clear(u) EXCEPT !.connected = FALSE]
  <1>1. n \in TLS /\ n.initialized
    BY NetConnectFrame DEF Good
  <1>2. u \in TLS /\ u.initialized
    BY <1>1, NoteType DEF Note, TLS
  <1>3. dial(s, f) \in {up, down}
    BY DEF dial
  <1> HIDE DEF n, u
  <1>4. up.connected
    BY <1>1 DEF handshake, Note, TLS
  <1>5. down.fd = NoAddr
    BY <1>2 DEF clear, Note, TLS
  <1> QED BY <1>3, <1>4, <1>5 DEF SocketKnown

\* clear_session() does not touch the socket.
LEMMA ClearSessionKeepsSocket ==
  ASSUME NEW s \in TLS
  PROVE  clear_session(s).fd = s.fd /\ clear_session(s).connected = s.connected
  BY DEF TLS, clear_session

\* Resuming opens a socket or leaves none: the context of a valid session is
\* initialized, so a failed dial clears it.
LEMMA ResumeKnows ==
  ASSUME NEW s, Good(s), Closed(s), s.has_valid_session, NEW f
  PROVE  SocketKnown(resume(s, f))
  <1> DEFINE q == [s EXCEPT !.ssl = "ready", !.ssl_peer = NoAddr]
             r == Note(q, "context_unset", s.ssl = "unset")
             d == CASE f = "reset" -> s
                    [] f = "set_session" -> r
                    [] f \notin {"reset", "set_session"} -> dial(r, f)
  <1>1. Good(r) /\ r.initialized /\ r.fd = NoAddr
    <2>1. Good(q)
      BY NoAddrIsAddr DEF Good, TLS, Coherent
    <2>2. s.ssl # "unset" /\ s.initialized
      BY DEF Good, Coherent
    <2>3. Good(r)
      BY <2>1, <2>2, NoteGood
    <2> QED BY <2>2, <2>3 DEF Good, TLS, Note, Closed
  <1> HIDE DEF r
  <1>2. Good(d) /\ SocketKnown(d)
    BY <1>1, DialGood, DialKnows DEF SocketKnown, Closed
  <1> HIDE DEF d
  <1>3. SocketKnown(clear_session(d))
    BY <1>2, ClearSessionKeepsSocket DEF Good, SocketKnown
  <1> QED BY <1>2, <1>3 DEF resume, d, r

\* Loading a certificate makes no session.
LEMMA LoadCacertNoSession ==
  ASSUME NEW s, Good(s), ~s.has_valid_session, NEW pem, NEW f
  PROVE  ~load_cacert(s, pem, TRUE, f).has_valid_session
  <1> DEFINE d == disconnect(s)
  <1>1. d \in TLS /\ ~d.has_valid_session
    BY DisconnectGood DEF Good, TLS, disconnect
  <1> HIDE DEF d
  <1>2. ~[clear(d) EXCEPT !.cacert_set = FALSE].has_valid_session
    BY <1>1 DEF TLS, clear, Note
  <1>3. ~[ssl_setup(d) EXCEPT !.cacert_set = TRUE].has_valid_session
    BY <1>1 DEF TLS, ssl_setup, Note
  <1>4. ~clear(s).has_valid_session
    BY DEF Good, TLS, clear, Note
  <1> QED BY <1>2, <1>3, <1>4 DEF load_cacert, d

\* Nor does _ensure_initialized().
LEMMA EnsureInitializedNoSession ==
  ASSUME NEW s, Good(s), ~s.has_valid_session, NEW f
  PROVE  ~ensure_initialized(s, f).has_valid_session
  <1> DEFINE i == init(s, f)
             reload(t) == load_cacert(t, s.cacert_pem, TRUE, f)
             j == init(i, "none")
  <1>1. Good(i) /\ Good(j) /\ j.initialized
    BY InitGood, InitInitializes
  <1>2. ~i.has_valid_session /\ ~j.has_valid_session
    BY <1>1 DEF Good, TLS, init, Note
  <1>3. ~reload(i).has_valid_session
    BY <1>1, <1>2, LoadCacertNoSession
  <1>4. ASSUME f = "seed"
        PROVE  ~Note(reload(reload(j)), "init_recursed", TRUE).has_valid_session
    <2>1. Good(reload(j)) /\ reload(j).initialized /\ ~reload(j).has_valid_session
      BY <1>1, <1>2, <1>4, LoadCacertGood, LoadCacertKeepsInitialized, LoadCacertNoSession
    <2> DEFINE q == reload(reload(j))
    <2>2. Good(q) /\ ~q.has_valid_session
      BY <2>1, LoadCacertGood, LoadCacertNoSession
    <2> HIDE DEF q
    <2>3. ~Note(q, "init_recursed", TRUE).has_valid_session
      BY <2>2 DEF Good, TLS, Note
    <2> QED BY <2>3 DEF q
  <1> QED BY <1>2, <1>3, <1>4 DEF ensure_initialized

\* A full connect opens a socket or leaves none.
LEMMA FullConnectKnows ==
  ASSUME NEW s, Good(s), Closed(s), s.initialized, ~s.has_valid_session, NEW f
  PROVE  SocketKnown(full_connect(s, f))
  <1> DEFINE d == dial(s, f)
             v == verify(d, f)
  <1>1. clear_session(s) = s
    BY DEF clear_session
  <1>2. Good(d) /\ SocketKnown(d)
    BY DialGood, DialKnows
  <1> HIDE DEF d
  <1>3. d.connected => v \in TLS /\ v.connected
    BY <1>2 DEF Good, TLS, verify
  <1> HIDE DEF v
  <1>4. d.connected => store_session(v, f).connected
    BY <1>3, StoreSessionKeeps
  <1> QED BY <1>1, <1>2, <1>4 DEF full_connect, SocketKnown, Closed, d, v

\* So does reconnect() from a closed connection.  (It does not go through
\* connect()'s resumption, which can leave its socket behind.)
LEMMA ReconnectKnows ==
  ASSUME NEW s, Good(s), Closed(s), NEW f0, NEW f1, NEW f2
  PROVE  SocketKnown(reconnect(s, f0, f1, f2).tls)
  <1>1. CASE s.has_valid_session
    BY <1>1, ResumeKnows DEF reconnect, Closed, connected
  <1>2. CASE ~s.has_valid_session
    <2> DEFINE e == ensure_initialized(s, f0)
               c == ensure_connected(e, s.host, e.port, f1)
    <2>1. Good(e) /\ Closed(e) /\ ~e.has_valid_session /\ target(e) = target(s)
      BY <1>2, EnsureInitializedGood, EnsureInitializedClosed, EnsureInitializedNoSession,
         EnsureInitializedAims DEF Aims
    <2> HIDE DEF e
    <2>2. target(e) = <<s.host, e.port>>
      BY <2>1 DEF target
    <2>3. c = e
      BY <2>1, <2>2 DEF ensure_connected, retarget
    <2>4. ready(e) => SocketKnown(full_connect(e, f2))
      BY <2>1, FullConnectKnows DEF ready
    <2>5. SocketKnown(connect(s, s.host, s.port, f0, f1, f2).tls)
      BY <2>1, <2>3, <2>4 DEF connect, SocketKnown, Closed, e
    <2> QED BY <1>2, <2>5 DEF reconnect, SocketKnown, Closed
  <1> QED BY <1>1, <1>2

-----------------------------------------------------------------------------
\* When only make_request() makes connections: no open socket is forgotten, none is
\* open between calls, and one that is not verified (a resumed one) is only met
\* by write(), which fails and closes it.
Tidy ==
  /\ SocketKnown(tls)
  /\ frames = <<>> => ~tls.connected
  /\ tls.connected /\ ~tls.verified => Calling("write")

Open == "connect" \notin client => Tidy

\* The constructor opens nothing.
LEMMA InitOpen == Init => Open
  <1> SUFFICES ASSUME Init PROVE Tidy
    BY DEF Open
  <1>1. Closed(tls)
    <2>1. Closed(NewTLS("empty"))
      BY DEF NewTLS, Closed
    <2> QED BY <2>1, NewTLSGood, InitializeClosed DEF Init
  <1> QED BY <1>1 DEF Tidy, SocketKnown, Closed

\* disconnect() closes whatever was open.
LEMMA DisconnectCloses ==
  ASSUME NEW s \in TLS, SocketKnown(s)
  PROVE  Closed(disconnect(s))
  BY DEF TLS, SocketKnown, Closed, disconnect

\* Every step keeps the connection tidy.
LEMMA NextOpen == Typed /\ Open /\ [Next]_vars => Open'
  <1> SUFFICES ASSUME Typed, [Next]_vars, client' = client, "connect" \notin client, Tidy
               PROVE  Tidy'
    <2>1. [Next]_vars => client' = client
      BY DEF Next, vars, Connect, ConnectWithCacert, MakeRequest, EnsureConnected, WriteFails,
             WriteSucceeds, Read, ReadStatus, SkipHeaders, ReadBody, Finish, ServerSends,
             ServerCloses, Reset, ServerChanges
    <2> QED BY <2>1 DEF Open
  <1>0. Good(tls) /\ frames \in Seq(Frames)
    BY TypedParts
  <1>1. CASE Connect \/ ConnectWithCacert
    BY <1>1, ConnectStep
  <1>2. CASE MakeRequest
    <2>1. PICK g \in Frames : frames' = <<g>> \o frames
      BY <1>2, MakeRequestStep
    <2>2. frames' # <<>>
      BY <1>0, <2>1, PutInFront
    <2>3. tls' = tls /\ (tls.connected => tls.verified)
      BY <1>2, MakeRequestStep DEF Tidy, Calling
    <2> QED BY <2>2, <2>3 DEF Tidy, SocketKnown
  <1>3. CASE EnsureConnected
    <2>0. Top.pc = "connect" /\ frames # <<>>
      BY <1>3, EnsureStep
    <2>1. PICK g \in Frames : frames' = SetTop(g) /\ g.pc = "write"
      BY <1>3, EnsureStep
    <2>2. frames' # <<>> /\ Head(frames') = g
      BY <1>0, <2>0, <2>1, ReplaceHead DEF SetTop
    <2>3. CASE connected(tls)
      <3>1. tls' = tls
        BY <1>3, <2>3 DEF EnsureConnected, reconnect
      <3> QED BY <2>2, <2>3, <3>1 DEF Tidy, SocketKnown, connected
    <2>4. CASE ~connected(tls)
      <3>1. Closed(tls)
        BY <2>0, <2>4 DEF Tidy, SocketKnown, Closed, Calling, connected
      <3>2. SocketKnown(tls')
        BY <1>0, <1>3, <3>1, ReconnectKnows DEF EnsureConnected
      <3> QED BY <2>1, <2>2, <3>2 DEF Tidy, Calling, Top
    <2> QED BY <2>3, <2>4
  <1>4. ASSUME NEW ok \in {"true", "false"}, Return(ok)
        PROVE  Tidy'
    <2>1. Closed(tls')
      BY <1>0, <1>4, DisconnectCloses DEF Return, Tidy, Good
    <2> QED BY <2>1 DEF Tidy, SocketKnown, Closed
  <1>5. CASE WriteFails
    BY <1>4, <1>5 DEF WriteFails
  <1>6. ASSUME frames # <<>>, tls' = tls, tls.connected => tls.verified,
               NEW g \in Frames, frames' = SetTop(g)
        PROVE  Tidy'
    <2>1. frames' # <<>>
      BY <1>0, <1>6, ReplaceHead DEF SetTop
    <2> QED BY <1>6, <2>1 DEF Tidy, SocketKnown
  <1>7. CASE WriteSucceeds
    <2>1. tls' = tls /\ connected(tls)
      BY <1>7 DEF WriteSucceeds
    <2> QED BY <1>6, <1>7, <2>1, WriteStep DEF connected
  <1>8. CASE Read \/ ReadStatus \/ SkipHeaders \/ ReadBody
    <2>1. tls' = tls /\ Top.pc # "write" /\ frames # <<>>
      BY <1>8, ReadingStep
    <2>2. tls.connected => tls.verified
      BY <2>1 DEF Tidy, Calling
    <2> QED BY <1>6, <1>8, <2>1, <2>2, ReadingStep
  <1>9. CASE Finish
    BY <1>4, <1>9 DEF Finish
  <1>10. CASE UNCHANGED <<tls, frames>>
    BY <1>10 DEF Tidy, SocketKnown, Calling, Top
  <1>11. CASE ServerSends \/ ServerCloses \/ Reset
    BY <1>10, <1>11, ServerStep
  <1> QED BY <1>1, <1>2, <1>3, <1>5, <1>7, <1>8, <1>9, <1>10, <1>11 DEF Next, vars

\* Between calls no socket is open.
THEOREM AlwaysClosedBetweenRequests == Spec => []ClosedBetweenRequests
  <1>1. Open => ClosedBetweenRequests
    BY DEF Open, Tidy, SocketKnown, ClosedBetweenRequests
  <1> QED BY <1>1, AlwaysTyped, InitOpen, NextOpen, PTL DEF Spec

-----------------------------------------------------------------------------
(***************************************************************************)
(* Whose bytes are under way.  Without re-entrance there is one call at a  *)
(* time, and all the server holds and has sent is that call's: every call  *)
(* starts on a fresh server's end, because the one before disconnected.    *)
(***************************************************************************)
BytesOf(i) == [part : {"status", "headers", "delim", "body"}, of : {i}]

Fresh(pr) == pr.requests = <<>> /\ pr.wire = <<>>

\* All that f, a call in progress, reads or will read is of its own response.
Owns(f, pr) ==
  /\ pr.requests \in Seq({f.id}) /\ pr.wire \in Seq(BytesOf(f.id))
  /\ f.buf \in Seq(BytesOf(f.id)) /\ f.code \in {0, f.id}
  /\ f.pc \in {"connect", "write"} => Fresh(pr)

AnsweredOwn == \A i \in Ids : answered[i] \in {0, i}

Single ==
  /\ AnsweredOwn
  /\ frames = <<>> => Fresh(peer)
  /\ frames # <<>> => Len(frames) = 1 /\ Owns(Top, peer)

Owned == "reenter" \notin client => Single

\* A server's end is made fresh, and stays fresh over calls that keep it.
LEMMA PeerOfFresh ==
  ASSUME NEW s, NEW t, Fresh(peer) \/ ~connected(t)
  PROVE  Fresh(PeerOf(s, t))
  BY DEF PeerOf, Fresh, NoPeer, NewPeer

\* The parts of a sequence of someone's bytes are theirs.
LEMMA OwnParts ==
  ASSUME NEW i, NEW w \in Seq(BytesOf(i))
  PROVE  /\ <<>> \in Seq(BytesOf(i))
         /\ w # <<>> => Head(w).of = i /\ Tail(w) \in Seq(BytesOf(i))
         /\ \A n \in 1..Len(w) : /\ SubSeq(w, 1, n) \in Seq(BytesOf(i))
                                 /\ SubSeq(w, n + 1, Len(w)) \in Seq(BytesOf(i))
  <1>1. w # <<>> => Head(w) \in BytesOf(i) /\ Tail(w) \in Seq(BytesOf(i))
    BY TakeFirst
  <1>2. ASSUME NEW n \in 1..Len(w)
        PROVE  /\ SubSeq(w, 1, n) \in Seq(BytesOf(i))
               /\ SubSeq(w, n + 1, Len(w)) \in Seq(BytesOf(i))
    <2>1. Len(w) \in Nat /\ \A k \in 1..Len(w) : w[k] \in BytesOf(i)
      BY LenProperties, ElementOfSeq
    <2>2. \A k \in 1..n : w[k] \in BytesOf(i)
      BY <2>1
    <2>3. \A k \in (n + 1)..Len(w) : w[k] \in BytesOf(i)
      BY <2>1
    <2> QED BY <2>1, <2>2, <2>3, SubSeqProperties
  <1> QED BY <1>1, <1>2, EmptySeq DEF BytesOf

\* Nothing is under way initially.
LEMMA InitOwned == Init => Owned
  BY DEF Init, Owned, Single, AnsweredOwn, Fresh, NoPeer, NewPeer

\* A step of the single call's leaves it single.
LEMMA TopSingle ==
  ASSUME Typed, Single, frames # <<>>, NEW g \in Frames, frames' = SetTop(g),
         AnsweredOwn', Owns(g, peer')
  PROVE  Single'
  <1>1. /\ frames \in Seq(Frames) /\ Len(frames) = 1
        /\ frames' # <<>> /\ Len(frames') = Len(frames) /\ Head(frames') = g
    BY TypedParts, ReplaceHead DEF SetTop, Single
  <1> QED BY <1>1 DEF Single, Top

\* Reading hands the call bytes of its own response only.
LEMMA ReadingOwned ==
  ASSUME Typed, Single, Read \/ ReadStatus \/ SkipHeaders \/ ReadBody
  PROVE  Single'
  <1>0. /\ frames # <<>> /\ Top \in Frames /\ Owns(Top, peer) /\ AnsweredOwn
        /\ Top.pc \in {"status", "headers", "body"}
        /\ answered \in [Ids -> Ids \cup {0}]
    BY TypedParts, ReadingStep DEF Single, Typed, TypeOK
  <1>1. PICK g \in Frames : frames' = SetTop(g)
    BY ReadingStep
  <1>2. Head(frames') = g
    BY <1>0, <1>1, TypedParts, ReplaceHead DEF SetTop
  <1>3. ASSUME NEW f, frames' = SetTop(f) PROVE f = g
    BY <1>1, <1>3 DEF SetTop
  <1>4. /\ Top.buf \in Seq(BytesOf(Top.id)) /\ peer.wire \in Seq(BytesOf(Top.id))
        /\ Top.buf # <<>> => Head(Top.buf).of = Top.id /\ Tail(Top.buf) \in Seq(BytesOf(Top.id))
    BY <1>0, OwnParts DEF Owns
  <1>5. CASE Read
    <2>1. PICK n \in 1..Len(peer.wire) :
            /\ frames' = SetTop([Top EXCEPT !.buf = SubSeq(peer.wire, 1, n)])
            /\ peer' = [peer EXCEPT !.wire = SubSeq(@, n + 1, Len(@))]
      BY <1>5 DEF Read
    <2> DEFINE a == SubSeq(peer.wire, 1, n)
               w == SubSeq(peer.wire, n + 1, Len(peer.wire))
    <2>2. a \in Seq(BytesOf(Top.id)) /\ w \in Seq(BytesOf(Top.id))
      BY <1>4, OwnParts
    <2>3. g = [Top EXCEPT !.buf = a] /\ peer' = [peer EXCEPT !.wire = w]
      BY <1>3, <2>1
    <2> HIDE DEF a, w
    <2>4. Owns(g, peer')
      BY <1>0, <2>2, <2>3, TypedParts DEF Owns, Frames, Peers
    <2>5. AnsweredOwn'
      BY <1>0, <1>5 DEF Read, AnsweredOwn
    <2> QED BY <1>0, <1>1, <2>4, <2>5, TopSingle
  <1>6. CASE ReadStatus
    <2>1. peer' = peer /\ AnsweredOwn'
      BY <1>0, <1>6 DEF ReadStatus, AnsweredOwn
    <2>2. \/ Top.buf # <<>> /\ g = [Top EXCEPT !.pc = "headers", !.code = Head(Top.buf).of,
                                               !.buf = Tail(@)]
          \/ g = [Top EXCEPT !.pc = "finish"]
      BY <1>3, <1>6 DEF ReadStatus
    <2>3. Owns(g, peer')
      BY <1>0, <1>4, <2>1, <2>2 DEF Owns, Frames
    <2> QED BY <1>0, <1>1, <2>1, <2>3, TopSingle
  <1>7. CASE SkipHeaders
    <2>1. peer' = peer
      BY <1>7 DEF SkipHeaders
    <2>2. \/ Top.buf # <<>> /\ g = [Top EXCEPT !.pc = "body", !.buf = Tail(@)]
          \/ Top.buf # <<>> /\ g = [Top EXCEPT !.buf = Tail(@)]
          \/ g = [Top EXCEPT !.pc = "finish"]
      BY <1>3, <1>7 DEF SkipHeaders
    <2>3. Owns(g, peer')
      BY <1>0, <1>4, <2>1, <2>2 DEF Owns, Frames
    <2>4. AnsweredOwn'
      <3>1. answered' = answered \/ answered' = [answered EXCEPT ![Top.id] = Top.code]
        BY <1>7 DEF SkipHeaders
      <3> QED BY <1>0, <3>1 DEF AnsweredOwn, Owns
    <2> QED BY <1>0, <1>1, <2>3, <2>4, TopSingle
  <1>8. CASE ReadBody
    <2>1. peer' = peer /\ AnsweredOwn'
      BY <1>0, <1>8 DEF ReadBody, AnsweredOwn
    <2>2. \/ Top.buf # <<>> /\ g = [Top EXCEPT !.buf = Tail(@)]
          \/ g = [Top EXCEPT !.pc = "finish"]
      BY <1>3, <1>8 DEF ReadBody
    <2>3. Owns(g, peer')
      BY <1>0, <1>4, <2>1, <2>2 DEF Owns, Frames
    <2> QED BY <1>0, <1>1, <2>1, <2>3, TopSingle
  <1> QED BY <1>5, <1>6, <1>7, <1>8

\* The server answers the call it read, and nothing else.
LEMMA ServerOwned ==
  ASSUME Typed, Single, ServerSends \/ ServerCloses \/ Reset
  PROVE  Single'
  <1>1. UNCHANGED <<frames, answered>> /\ peer'.requests = peer.requests /\ peer \in Peers
    BY ServerStep, TypedParts
  <1>2. AnsweredOwn' /\ Top' = Top
    BY <1>1 DEF Single, AnsweredOwn, Top
  <1>3. peer.requests = <<>> => peer'.wire \in {peer.wire, <<>>}
    BY <1>1 DEF ServerSends, ServerCloses, Reset, ServerChanges, Peers
  <1>4. ASSUME Fresh(peer) PROVE Fresh(peer')
    BY <1>1, <1>3, <1>4 DEF Fresh
  <1>5. ASSUME frames # <<>> PROVE peer'.wire \in Seq(BytesOf(Top.id))
    <2>1. peer.requests \in Seq({Top.id}) /\ peer.wire \in Seq(BytesOf(Top.id))
      BY <1>5 DEF Single, Owns
    <2>2. CASE ServerSends
      <3> DEFINE b == [part |-> Parts[peer.sent + 1], of |-> Head(peer.requests)]
      <3>1. /\ peer' = [peer EXCEPT !.sent = @ + 1, !.wire = Append(@, b)]
            /\ peer.requests # <<>> /\ peer.sent \in 0..5 /\ peer.sent < 5
        BY <1>1, <2>2 DEF ServerSends, ServerChanges, Peers, Parts
      <3>2. Head(peer.requests) \in {Top.id}
        BY <2>1, <3>1, TakeFirst
      <3>3. Parts[peer.sent + 1] \in {"status", "headers", "delim", "body"}
        BY <3>1 DEF Parts
      <3>4. b \in BytesOf(Top.id)
        BY <3>2, <3>3 DEF BytesOf
      <3> HIDE DEF b
      <3>5. Append(peer.wire, b) \in Seq(BytesOf(Top.id))
        BY <2>1, <3>4, AppendProperties
      <3> DEFINE w == Append(peer.wire, b)
                 n == peer.sent + 1
      <3>6. peer' = [peer EXCEPT !.sent = n, !.wire = w]
        BY <3>1
      <3> HIDE DEF w, n
      <3>7. peer'.wire = w
        BY <1>1, <3>6 DEF Peers
      <3> QED BY <3>5, <3>7 DEF w
    <2>3. CASE ServerCloses
      BY <1>1, <2>1, <2>3 DEF ServerCloses, ServerChanges, Peers
    <2>4. CASE Reset
      BY <1>1, <2>4, EmptySeq DEF Reset, ServerChanges, Peers
    <2> QED BY <2>2, <2>3, <2>4
  <1> QED BY <1>1, <1>2, <1>4, <1>5 DEF Single, Owns

\* Every step keeps what is under way the single call's.
LEMMA NextOwned == Typed /\ Owned /\ [Next]_vars => Owned'
  <1> SUFFICES ASSUME Typed, [Next]_vars, client' = client, "reenter" \notin client, Single
               PROVE  Single'
    <2>1. [Next]_vars => client' = client
      BY DEF Next, vars, Connect, ConnectWithCacert, MakeRequest, EnsureConnected, WriteFails,
             WriteSucceeds, Read, ReadStatus, SkipHeaders, ReadBody, Finish, ServerSends,
             ServerCloses, Reset, ServerChanges
    <2> QED BY <2>1 DEF Owned
  <1>0. /\ Good(tls) /\ frames \in Seq(Frames) /\ AnsweredOwn
        /\ frames # <<>> => Top \in Frames /\ Owns(Top, peer) /\ Len(frames) = 1
    BY TypedParts DEF Single
  <1>1. CASE Connect \/ ConnectWithCacert
    <2>1. UNCHANGED <<frames, answered>> /\ frames = <<>> /\ Fresh(peer)
      BY <1>1, ConnectStep DEF Single
    <2>2. \E s : peer' = PeerOf(s, tls')
      BY <1>1 DEF Connect, ConnectWithCacert, ConnectFrom
    <2>3. Fresh(peer')
      <3>1. PICK s : peer' = PeerOf(s, tls')
        BY <2>2
      <3>2. Fresh(PeerOf(s, tls'))
        BY <2>1, PeerOfFresh
      <3> QED BY <3>1, <3>2
    <2> QED BY <2>1, <2>3 DEF Single, AnsweredOwn
  <1>2. CASE MakeRequest
    <2>1. frames = <<>> /\ Fresh(peer) /\ UNCHANGED <<peer, answered>>
      BY <1>2, MakeRequestStep DEF Single
    <2>2. PICK g \in Frames : /\ frames' = <<g>> \o frames
                              /\ g.pc = "connect" /\ g.buf = <<>> /\ g.code = 0
      BY <1>2, MakeRequestStep
    <2>3. frames' # <<>> /\ Len(frames') = 1 /\ Head(frames') = g
      BY <1>0, <2>1, <2>2, PutInFront, EmptySeq
    <2>4. Owns(g, peer')
      BY <2>1, <2>2, EmptySeq DEF Owns, Fresh
    <2> QED BY <1>0, <2>1, <2>3, <2>4 DEF Single, AnsweredOwn, Top
  <1>3. CASE EnsureConnected
    <2>1. PICK g \in Frames : frames' = SetTop(g) /\ g = [Top EXCEPT !.pc = "write"]
      BY <1>3, EnsureStep
    <2>2. /\ frames # <<>> /\ Top.pc = "connect" /\ peer' = PeerOf(tls, tls')
          /\ answered' = answered
      BY <1>3, EnsureStep DEF EnsureConnected
    <2>3. Fresh(PeerOf(tls, tls'))
      BY <1>0, <2>2, PeerOfFresh DEF Owns
    <2>4. Fresh(peer')
      BY <2>2, <2>3
    <2>5. Owns(g, peer')
      BY <1>0, <2>1, <2>2, <2>4, EmptySeq DEF Owns, Fresh, Frames
    <2>6. AnsweredOwn'
      BY <1>0, <2>2 DEF AnsweredOwn
    <2> QED BY <2>1, <2>2, <2>5, <2>6, TopSingle
  <1>4. ASSUME frames # <<>>, NEW ok \in {"true", "false"}, Return(ok), answered' = answered
        PROVE  Single'
    <2>1. tls' = disconnect(tls) /\ peer' = PeerOf(tls, tls') /\ frames' = Tail(frames)
      BY <1>4 DEF Return
    <2>2. ~connected(tls')
      BY <1>0, <2>1, DisconnectEnds DEF Good
    <2>3. Fresh(PeerOf(tls, tls'))
      BY <2>2, PeerOfFresh
    <2>4. frames' = <<>>
      <3>1. Tail(frames) \in Seq(Frames) /\ Len(Tail(frames)) = 0
        BY <1>0, <1>4, TakeFirst
      <3> QED BY <2>1, <3>1, EmptySeq
    <2> QED BY <1>0, <1>4, <2>1, <2>3, <2>4 DEF Single, AnsweredOwn
  <1>5. CASE WriteFails
    BY <1>4, <1>5 DEF WriteFails, Calling
  <1>6. CASE WriteSucceeds
    <2>1. PICK g \in Frames : frames' = SetTop(g) /\ g = [Top EXCEPT !.pc = "status"]
      BY <1>6, WriteStep
    <2>2. /\ frames # <<>> /\ Top.pc = "write" /\ answered' = answered
          /\ Fresh(peer) /\ peer \in Peers
      BY <1>0, <1>6, WriteStep, TypedParts DEF WriteSucceeds, Owns
    <2>3. peer'.wire = <<>> /\ peer'.requests \in {<<>>, <<Top.id>>}
      BY <1>6, <2>2 DEF WriteSucceeds, Fresh, Peers
    <2>4. <<>> \in Seq({Top.id}) /\ <<Top.id>> \in Seq({Top.id})
          /\ <<>> \in Seq(BytesOf(Top.id))
      BY EmptySeq
    <2>5. Owns(g, peer')
      BY <1>0, <2>1, <2>2, <2>3, <2>4 DEF Owns, Frames
    <2>6. AnsweredOwn'
      BY <1>0, <2>2 DEF AnsweredOwn
    <2> QED BY <2>1, <2>2, <2>5, <2>6, TopSingle
  <1>7. CASE Read \/ ReadStatus \/ SkipHeaders \/ ReadBody
    BY <1>7, ReadingOwned
  <1>8. CASE Finish
    BY <1>4, <1>8 DEF Finish, Calling
  <1>9. CASE ServerSends \/ ServerCloses \/ Reset
    BY <1>9, ServerOwned
  <1>10. CASE UNCHANGED vars
    BY <1>10 DEF vars, Single, AnsweredOwn, Top
  <1> QED BY <1>1, <1>2, <1>3, <1>5, <1>6, <1>7, <1>8, <1>9, <1>10 DEF Next

\* A callback is given the status of its own request.
THEOREM AlwaysResponseOfRequest == Spec => []ResponseOfRequest
  <1>1. Owned => ResponseOfRequest
    BY DEF Owned, Single, AnsweredOwn, ResponseOfRequest
  <1> QED BY <1>1, AlwaysTyped, InitOwned, NextOwned, PTL DEF Spec
=============================================================================
