----------------------------- MODULE HttpsEndpoint -----------------------------
(***************************************************************************)
(* HttpsEndpointAutoConnect (src/https_endpoint.h, .inl): requests made    *)
(* over one TLSConnection, and the server at the other end of its socket.  *)
(*                                                                         *)
(* make_request() is not one step: the server sends, closes or resets      *)
(* while it runs, and its callback may make another request on the same    *)
(* endpoint.  A call in progress is a frame; frames is the stack of them.  *)
(* The server reads a request once all of it has arrived and answers the   *)
(* first one of a connection, part by part, then closes (HTTP/1.0); it may *)
(* close or be lost earlier.  It does not give up on a request that stays  *)
(* incomplete.                                                             *)
(***************************************************************************)
EXTENDS TLSConnectionOps, Sequences

CONSTANTS
  MaxRequests,  \* how many calls of make_request() are considered
  Sizes,        \* "fits": mbedtls_ssl_write takes all of the request;
                \* "exceeds": it is longer than a record, and the first part is taken
  Clients       \* clients: sets of "connect" and "reenter" (see client)

ASSUME MaxRequestsAssumption == MaxRequests \in Nat \ {0}
ASSUME SizesAssumption == Sizes \subseteq {"fits", "exceeds"}
ASSUME ClientsAssumption == Clients \subseteq SUBSET {"connect", "reenter"}

Ids == 1..MaxRequests

VARIABLES
  tls,        \* the connection, conn
  header,     \* the value of the "Host" header
  connect_ok, \* did the last connect() succeed? (history)
  client,     \* what it does besides make_request(): call connect() in between,
              \* call make_request() again from a response callback
  frames,     \* the calls of make_request() in progress, innermost first
  peer,       \* the server's end of the socket
  result,     \* what each call returned
  answered,   \* whose status code each call gave its callback (history; 0: none)
  received    \* the requests the server has read in full (history)

vars == <<tls, header, connect_ok, client, frames, peer, result, answered, received>>

\* A response is a status line, headers, the delimiter and two parts of a body (the
\* callback may stop between them); each says whose response it belongs to.
Parts == <<"status", "headers", "delim", "body", "body">>
Bytes == [part : {"status", "headers", "delim", "body"}, of : Ids]

\* requests: read in full and unanswered but the first; sent: parts sent of the
\* first's response; wire: those the client has not read.
NewPeer(addr) ==
  [addr |-> addr, requests |-> <<>>, sent |-> 0, wire |-> <<>>, closed |-> FALSE]
NoPeer == [NewPeer(NoAddr) EXCEPT !.closed = TRUE]

\* A call of make_request(): pc is what it does next, buf what its
\* HttpsResponseStreambuf holds.
NewFrame(id, size) ==
  [id |-> id, size |-> size, pc |-> "connect", code |-> 0, buf |-> <<>>]

Top == Head(frames)
Calling(pc) == frames # <<>> /\ Top.pc = pc
SetTop(f) == <<f>> \o Tail(frames)

\* The server's end of t's socket, when a call made t of s: a live connection is
\* kept (LiveConnectionKept of TLSConnection), any other socket is a new one.
PeerOf(s, t) ==
  IF connected(s) /\ connected(t) /\ target(s) = target(t) THEN peer
  ELSE IF t.fd = NoAddr THEN NoPeer ELSE NewPeer(t.fd)

\* The next call's number.
Started == {i \in Ids : result[i] # "none"} \cup {frames[k].id : k \in DOMAIN frames}
NextId == 1 + IF Started = {} THEN 0 ELSE CHOOSE m \in Started : \A i \in Started : i <= m

-----------------------------------------------------------------------------
\* The constructor initializes the connection and the Host header.  (A connection
\* in static storage; TLSConnection considers raw memory too.)
Init ==
  /\ client \in Clients
  /\ \E h \in Hosts, p \in Ports, pem \in Pems, f \in Outcomes(InitCalls) :
       /\ tls = initialize(NewTLS("empty"), h, p, pem, f)
       /\ header = h
  /\ connect_ok = TRUE
  /\ frames = <<>>
  /\ peer = NoPeer
  /\ result = [i \in Ids |-> "none"]
  /\ answered = [i \in Ids |-> 0]
  /\ received = {}

\* connect(h, p), from the connection s that set_cacert() left.
ConnectFrom(s, h, p) ==
  \E f0 \in Outcomes(InitCalls), f1 \in Outcomes(InitCalls \cup ResumeCalls),
     f2 \in Outcomes(FullCalls) :
    \E r \in {connect(s, h, p, f0, f1, f2)} :
      tls' = r.tls /\ connect_ok' = r.ok /\ peer' = PeerOf(s, tls')

\* Slips: the header is erased for the new value but not set; it is left as the
\* constructor set it.
Connect_erases_header ==
  /\ "connect" \in client /\ frames = <<>>
  /\ \E h \in Hosts, p \in Ports : header' = NoHost /\ ConnectFrom(tls, h, p)
  /\ UNCHANGED <<client, frames, result, answered, received>>
Connect_keeps_header ==
  /\ "connect" \in client /\ frames = <<>>
  /\ \E h \in Hosts, p \in Ports : ConnectFrom(tls, h, p)
  /\ UNCHANGED <<header, client, frames, result, answered, received>>

\* connect(): the header is set before the connection is made.
Connect ==
  /\ "connect" \in client /\ frames = <<>>
  /\ \E h \in Hosts, p \in Ports : header' = h /\ ConnectFrom(tls, h, p)
  /\ UNCHANGED <<client, frames, result, answered, received>>

\* connect() with a certificate: nothing more is done when it does not load.
ConnectWithCacert ==
  /\ "connect" \in client /\ frames = <<>>
  /\ \E h \in Hosts, p \in Ports, pem \in Pems, f \in Outcomes(InitCalls) :
       \E r \in {set_cacert(tls, pem, TRUE, f)} :
         \/ /\ r.ok
            /\ header' = h /\ ConnectFrom(r.tls, h, p)
         \/ /\ ~r.ok
            /\ tls' = r.tls /\ peer' = PeerOf(tls, tls')
            /\ UNCHANGED <<header, connect_ok>>
  /\ UNCHANGED <<client, frames, result, answered, received>>

\* make_request(), called by the client or by the callback of another call.
MakeRequest ==
  /\ NextId \in Ids
  /\ frames # <<>> => Calling("body") /\ "reenter" \in client
  /\ \E size \in Sizes : frames' = <<NewFrame(NextId, size)>> \o frames
  /\ UNCHANGED <<tls, header, connect_ok, client, peer, result, answered, received>>

\* ensure_connected(): reconnect(), whose result is not looked at.
EnsureConnected ==
  /\ Calling("connect")
  /\ \E f0 \in Outcomes(InitCalls), f1 \in Outcomes(InitCalls \cup ResumeCalls),
        f2 \in Outcomes(FullCalls) :
       tls' = reconnect(tls, f0, f1, f2).tls
  /\ peer' = PeerOf(tls, tls')
  /\ frames' = SetTop([Top EXCEPT !.pc = "write"])
  /\ UNCHANGED <<header, connect_ok, client, result, answered, received>>

\* A slip: the call returns without its disconnect().
Return_keeps_connection(ok) ==
  /\ result' = [result EXCEPT ![Top.id] = ok]
  /\ frames' = Tail(frames)
  /\ UNCHANGED <<tls, peer>>

\* The call returns ok, disconnected.
Return(ok) ==
  /\ tls' = disconnect(tls)
  /\ peer' = PeerOf(tls, tls')
  /\ result' = [result EXCEPT ![Top.id] = ok]
  /\ frames' = Tail(frames)

\* conn.write() fails: -1 when not connected, an error when the server is gone.
WriteFails ==
  /\ Calling("write")
  /\ ~connected(tls) \/ peer.closed
  /\ Return("false")
  /\ UNCHANGED <<header, connect_ok, client, answered, received>>

\* conn.write() returns a positive count, which is taken for all of it.  (While
\* it wants to be called again it is, with no step here.)
WriteSucceeds ==
  /\ Calling("write")
  /\ connected(tls)
  /\ frames' = SetTop([Top EXCEPT !.pc = "status"])
  /\ IF Top.size = "fits" /\ ~peer.closed
     THEN /\ peer' = [peer EXCEPT !.requests = Append(@, Top.id)]
          /\ received' = received \cup
               {[id |-> Top.id, host |-> header, addr |-> peer.addr, as_asked |-> connect_ok]}
     ELSE UNCHANGED <<peer, received>>
  /\ UNCHANGED <<tls, header, connect_ok, client, result, answered>>

-----------------------------------------------------------------------------
Reading == frames # <<>> /\ Top.pc \in {"status", "headers", "body"}

\* underflow(): one read takes some of what has arrived.
Read ==
  /\ Reading /\ Top.buf = <<>> /\ connected(tls)
  /\ \E n \in 1..Len(peer.wire) :
       /\ frames' = SetTop([Top EXCEPT !.buf = SubSeq(peer.wire, 1, n)])
       /\ peer' = [peer EXCEPT !.wire = SubSeq(@, n + 1, Len(@))]
  /\ UNCHANGED <<tls, header, connect_ok, client, result, answered, received>>

\* A slip: the server's close is taken for a read that would block.
AtEof_waits_when_closed == Reading /\ Top.buf = <<>> /\ ~connected(tls)

\* underflow() finds the end: not connected, or the server closed.
AtEof ==
  /\ Reading /\ Top.buf = <<>>
  /\ connected(tls) => peer.wire = <<>> /\ peer.closed

\* The status line, by >> protocol >> code >> status.  Bytes of a body are read
\* the same way, and may or may not parse; a failed stream reads no further.
ReadStatus ==
  /\ Calling("status")
  /\ \/ /\ Top.buf # <<>>
        /\ frames' = SetTop([Top EXCEPT !.pc = "headers", !.code = Head(Top.buf).of,
                                        !.buf = Tail(@)])
     \/ /\ Top.buf # <<>> => Head(Top.buf).part # "status"
        /\ Top.buf = <<>> => AtEof
        /\ frames' = SetTop([Top EXCEPT !.pc = "finish"])
  /\ UNCHANGED <<tls, header, connect_ok, client, peer, result, answered, received>>

\* The loop that skips to the delimiter; bytes of a body may hold one.
SkipHeaders ==
  /\ Calling("headers")
  /\ \/ /\ Top.buf # <<>>
        /\ Head(Top.buf).part \in {"delim", "body"}
        /\ frames' = SetTop([Top EXCEPT !.pc = "body", !.buf = Tail(@)])
        /\ answered' = [answered EXCEPT ![Top.id] = Top.code]
     \/ /\ Top.buf # <<>>
        /\ Head(Top.buf).part # "delim"
        /\ frames' = SetTop([Top EXCEPT !.buf = Tail(@)])
        /\ UNCHANGED answered
     \/ /\ AtEof
        /\ frames' = SetTop([Top EXCEPT !.pc = "finish"])
        /\ UNCHANGED answered
  /\ UNCHANGED <<tls, header, connect_ok, client, peer, result, received>>

\* The callback reads the body, to its end or not, and returns true or false.
ReadBody ==
  /\ Calling("body")
  /\ \/ /\ Top.buf # <<>>
        /\ frames' = SetTop([Top EXCEPT !.buf = Tail(@)])
     \/ frames' = SetTop([Top EXCEPT !.pc = "finish"])
  /\ UNCHANGED <<tls, header, connect_ok, client, peer, result, answered, received>>

\* A slip: what the callback or the parsing reported is returned.
Finish_returns_ok ==
  /\ Calling("finish")
  /\ \E ok \in {"true", "false"} : Return(ok)
  /\ UNCHANGED <<header, connect_ok, client, answered, received>>

\* return conn.disconnect(): always true.
Finish ==
  /\ Calling("finish")
  /\ Return("true")
  /\ UNCHANGED <<header, connect_ok, client, answered, received>>

-----------------------------------------------------------------------------
ServerChanges(p) ==
  /\ peer' = p
  /\ UNCHANGED <<tls, header, connect_ok, client, frames, result, answered, received>>

\* The server sends the next part of its response.
ServerSends ==
  /\ ~peer.closed /\ peer.requests # <<>> /\ peer.sent < Len(Parts)
  /\ ServerChanges(
       [peer EXCEPT !.sent = @ + 1,
                    !.wire = Append(@, [part |-> Parts[peer.sent + 1], of |-> Head(peer.requests)])])

\* It closes the connection of a request it has read, at the latest when it has
\* answered it.
ServerCloses ==
  /\ ~peer.closed /\ peer.requests # <<>>
  /\ ServerChanges([peer EXCEPT !.closed = TRUE])

\* The connection is lost: with it, what was on its way.
Reset ==
  /\ ~peer.closed
  /\ ServerChanges([peer EXCEPT !.closed = TRUE, !.wire = <<>>])

ClientSteps ==
  \/ EnsureConnected \/ WriteFails \/ WriteSucceeds
  \/ Read \/ ReadStatus \/ SkipHeaders \/ ReadBody \/ Finish

Next ==
  \/ Connect \/ ConnectWithCacert \/ MakeRequest
  \/ EnsureConnected \/ WriteFails \/ WriteSucceeds
  \/ Read \/ ReadStatus \/ SkipHeaders \/ ReadBody \/ Finish
  \/ ServerSends \/ ServerCloses \/ Reset

Spec == Init /\ [][Next]_vars

\* The thread that runs make_request() keeps running, and a server that has read
\* a request ends its connection.
Fairness == WF_vars(ClientSteps) /\ WF_vars(ServerCloses)

-----------------------------------------------------------------------------
TypeOK ==
  /\ tls \in TLS /\ header \in Hosts /\ connect_ok \in BOOLEAN /\ client \in Clients
  /\ frames \in Seq([id : Ids, size : Sizes,
                     pc : {"connect", "write", "status", "headers", "body", "finish"},
                     code : Ids \cup {0}, buf : Seq(Bytes)])
  /\ peer \in [addr : Addrs, requests : Seq(Ids), sent : 0..Len(Parts), wire : Seq(Bytes),
               closed : BOOLEAN]
  /\ result \in [Ids -> {"none", "true", "false"}]
  /\ answered \in [Ids -> Ids \cup {0}]
  /\ received \subseteq [id : Ids, host : Hosts, addr : Addrs, as_asked : BOOLEAN]

\* A callback is given the status of its own request: nothing an earlier response
\* left unread is taken for a later one's, whatever the callbacks read and however
\* calls end.  (A callback that calls make_request() again does mix them.)
ResponseOfRequest ==
  "reenter" \notin client => \A i \in Ids : answered[i] \in {0, i}

\* Between calls of make_request() no socket is open, whichever way they ended, as
\* long as only they make connections.  (A connect() of the client's that finds a
\* session it cannot resume leaves its socket behind.)
ClosedBetweenRequests ==
  "connect" \notin client /\ frames = <<>> => tls.fd = NoAddr /\ ~tls.connected

\* make_request() returns false only for a request no server has read, which the
\* caller may make again.
FailedMeansUnread ==
  \A r \in received : result[r.id] # "false"

\* Every request is read by the host its Host header names, and by the host of the
\* endpoint's last connect() or of its constructor, unless that connect() failed:
\* connect() sets the header first and may fail before the connection's target.
HostHeaderOfServer ==
  \A r \in received : r.as_asked => r.host = r.addr[1]

\* A call whose request is written whole returns.
Returns ==
  \A i \in Ids :
    (\E k \in DOMAIN frames : frames[k].id = i /\ frames[k].size = "fits" /\ "reenter" \notin client)
      ~> result[i] # "none"

-----------------------------------------------------------------------------
(***************************************************************************)
(* What comments of the source say of make_request(), and the code does    *)
(* not do.                                                                 *)
(***************************************************************************)

\* "Make sure we are connected, re-use an existing session if possible/required"
\* (src/https_endpoint.inl:193): with every library call succeeding, the request
\* is written to a live connection.
ConnectedBeforeWrite == Calling("write") => connected(tls)

\* "Write the request" (src/https_endpoint.inl:196): when make_request() goes on to
\* read the response over an open connection, the server has the request.
RequestWritten ==
  Calling("status") /\ ~peer.closed => \E r \in received : r.id = Top.id
=============================================================================
