------------------------- MODULE TLSConnection_proofs -------------------------
(***************************************************************************)
(* What TLC checks of TLSConnection on two hosts and two ports, proved for *)
(* any: the type invariant, FlagsCoherent, SessionUsable and               *)
(* ContextSetUpBeforeReset from one inductive invariant, and from it that  *)
(* a connection is to its target and is kept.                              *)
(***************************************************************************)
EXTENDS TLSConnection, TLSConnectionOps_proofs

IInv == Good(tls) /\ client \in Clients

\* The invariant holds initially.
LEMMA InitIInv == Init => IInv
  BY NewTLSGood DEF Init, IInv

\* Every step preserves the invariant: one case per action, each the lemma of its operator.
LEMMA NextIInv == IInv /\ [Next]_vars => IInv'
  <1> SUFFICES ASSUME IInv, [Next]_vars PROVE IInv'
    OBVIOUS
  <1> USE DEF IInv, Calls, Call
  <1>1. ASSUME NEW h \in Hosts, NEW p \in Ports, NEW pem \in Pems \cup {NoPem},
               Initialize(h, p, pem)
        PROVE  IInv'
    BY <1>1, InitializeGood DEF Initialize
  <1>2. CASE InitContexts
    BY <1>2, InitGood DEF InitContexts
  <1>3. CASE Clear
    BY <1>3, ClearGood DEF Clear
  <1>4. CASE StoreSession
    BY <1>4, StoreSessionGood DEF StoreSession
  <1>5. CASE ClearSession
    BY <1>5, ClearSessionGood DEF ClearSession
  <1>6. ASSUME NEW pem \in Pems, SetCacert(pem)
        PROVE  IInv'
    BY <1>6, SetCacertGood DEF SetCacert
  <1>7. CASE ClearCacert
    BY <1>7, ClearCacertGood DEF ClearCacert
  <1>8. CASE Verify
    BY <1>8, VerifyGood DEF Verify
  <1>9. ASSUME NEW h \in Hosts, NEW p \in Ports, Connect(h, p)
        PROVE  IInv'
    BY <1>9, ConnectGood DEF Connect
  <1>10. CASE Reconnect
    BY <1>10, ReconnectGood DEF Reconnect
  <1>11. CASE Disconnect
    BY <1>11, DisconnectGood DEF Disconnect
  <1>12. CASE UNCHANGED vars
    BY <1>12 DEF vars
  <1> QED BY <1>1, <1>2, <1>3, <1>4, <1>5, <1>6, <1>7, <1>8, <1>9, <1>10, <1>11,
             <1>12 DEF Next

\* The invariant holds always.
LEMMA Invariance == Spec => []IInv
  BY InitIInv, NextIInv, PTL DEF Spec

\* A call, and the arguments it is made with.
CallTyped ==
  call \in [op: client \cup {"none"}, host: Hosts \cup {NoHost}, port: Ports,
           pem: Pems \cup {NoPem}]

\* The values a call can have.
CallRecords ==
  [op: Operations \cup {"none"}, host: Hosts \cup {NoHost}, port: Ports,
   pem: Pems \cup {NoPem}]

\* A call with no argument is one.
LEMMA CallIsRecord ==
  ASSUME NEW op \in Operations \cup {"none"}
  PROVE  Call(op) \in CallRecords
  BY DefaultPortAssumption DEF Call, CallRecords

\* What the client is recorded to have called is one of its operations.
LEMMA NextCallTyped == CallTyped /\ [Next]_vars => CallTyped'
  <1> SUFFICES ASSUME CallTyped, [Next]_vars PROVE CallTyped'
    OBVIOUS
  <1>1. ASSUME NEW c \in CallRecords, Calls(c)
        PROVE  CallTyped'
    BY <1>1 DEF CallRecords, Calls, CallTyped
  <1>2. \A op \in Operations : Call(op) \in CallRecords
    BY CallIsRecord
  <1>3. \A op \in Operations, h \in Hosts, p \in Ports, pem \in Pems \cup {NoPem} :
          /\ [Call(op) EXCEPT !.host = h, !.port = p] \in CallRecords
          /\ [Call(op) EXCEPT !.host = h, !.port = p, !.pem = pem] \in CallRecords
    BY <1>2 DEF CallRecords
  <1>4. \A op \in Operations, pem \in Pems : [Call(op) EXCEPT !.pem = pem] \in CallRecords
    BY <1>2 DEF CallRecords
  <1>5. {"initialize", "set_cacert", "connect", "reconnect", "init", "clear", "store_session",
         "clear_session", "clear_cacert", "disconnect", "verify"} \subseteq Operations
    BY DEF Operations, InterfaceCalls
  <1>6. CASE UNCHANGED vars
    BY <1>6 DEF vars, CallTyped
  <1>7. CASE Next
    <2>1. ASSUME NEW h \in Hosts, NEW p \in Ports, NEW pem \in Pems \cup {NoPem},
                 Initialize(h, p, pem)
          PROVE  CallTyped'
      <3>1. [Call("initialize") EXCEPT !.host = h, !.port = p, !.pem = pem] \in CallRecords
        BY <1>3, <1>5
      <3> QED BY <1>1, <2>1, <3>1 DEF Initialize
    <2>2. ASSUME NEW pem \in Pems, SetCacert(pem)
          PROVE  CallTyped'
      <3>1. [Call("set_cacert") EXCEPT !.pem = pem] \in CallRecords
        BY <1>5, <1>4
      <3> QED BY <1>1, <2>2, <3>1 DEF SetCacert
    <2>3. ASSUME NEW h \in Hosts, NEW p \in Ports, Connect(h, p)
          PROVE  CallTyped'
      <3>1. [Call("connect") EXCEPT !.host = h, !.port = p] \in CallRecords
        BY <1>3, <1>5
      <3> QED BY <1>1, <2>3, <3>1 DEF Connect
    <2>4. CASE Reconnect
      BY <1>1, <1>2, <1>5, <2>4 DEF Reconnect
    <2>5. CASE InitContexts \/ Clear \/ Disconnect
      BY <1>1, <1>2, <1>5, <2>5 DEF InitContexts, Clear, Disconnect
    <2>6. CASE StoreSession \/ ClearSession
      BY <1>1, <1>2, <1>5, <2>6 DEF StoreSession, ClearSession
    <2>7. CASE ClearCacert \/ Verify
      BY <1>1, <1>2, <1>5, <2>7 DEF ClearCacert, Verify
    <2> QED BY <1>7, <2>1, <2>2, <2>3, <2>4, <2>5, <2>6, <2>7 DEF Next
  <1> QED BY <1>6, <1>7

\* Every connection is a TLSConnection: fields keep their types.
THEOREM TypeCorrect == Spec => []TypeOK
  <1>1. Init => CallTyped
    BY DefaultPortAssumption DEF Init, Call, CallTyped
  <1>2. IInv /\ CallTyped => TypeOK
    BY DEF IInv, Good, TypeOK, CallTyped
  <1> QED BY <1>1, <1>2, NextCallTyped, Invariance, PTL DEF Spec

\* The flags always tell the truth about the contexts.
THEOREM FlagsAlwaysCoherent == Spec => []FlagsCoherent
  <1>1. IInv => FlagsCoherent
    BY DEF IInv, Good, Coherent, FlagsCoherent
  <1> QED BY <1>1, Invariance, PTL

\* A session marked valid can always be given to mbedtls.
THEOREM SessionAlwaysUsable == Spec => []SessionUsable
  <1>1. IInv => SessionUsable
    BY DEF IInv, Good, Coherent, SessionUsable
  <1> QED BY <1>1, Invariance, PTL

\* No context is reset that was not set up.
THEOREM ContextAlwaysSetUp == Spec => []ContextSetUpBeforeReset
  <1>1. IInv => ContextSetUpBeforeReset
    BY DEF IInv, Good, Coherent, ContextSetUpBeforeReset
  <1> QED BY <1>1, Invariance, PTL

-----------------------------------------------------------------------------
\* The second invariant, which needs a client that leaves verify() to connect().
TInv == "verify" \notin client => OnTarget(tls)

\* Nothing is connected initially.
LEMMA InitTInv == Init => TInv
  BY DEF Init, NewTLS, TInv, OnTarget, connected

\* Every step preserves TInv.
LEMMA NextTInv == IInv /\ TInv /\ [Next]_vars => TInv'
  <1> SUFFICES ASSUME IInv, TInv, [Next]_vars, "verify" \notin client'
               PROVE  OnTarget(tls')
    BY DEF TInv
  <1> USE DEF Calls, Call, Aims
  <1>0. Good(tls)
    BY DEF IInv
  <1>1. ASSUME NEW h \in Hosts, NEW p \in Ports, NEW pem \in Pems \cup {NoPem},
               Initialize(h, p, pem)
        PROVE  OnTarget(tls')
    <2>1. OnTarget(tls)
      BY <1>1 DEF Initialize, TInv
    <2>2. Good(retarget(tls, h, p)) /\ OnTarget(retarget(tls, h, p))
      BY <1>0, <2>1, RetargetGood, RetargetAims
    <2> QED BY <1>1, <2>2, SetCacertAims DEF Initialize, initialize
  <1>2. CASE InitContexts
    BY <1>0, <1>2, InitAims DEF InitContexts, TInv
  <1>3. CASE Clear
    BY <1>0, <1>3, ClearAims DEF Clear, TInv
  <1>4. CASE StoreSession
    BY <1>0, <1>4, StoreSessionAims DEF StoreSession, TInv
  <1>5. CASE ClearSession
    BY <1>0, <1>5, ClearSessionAims DEF ClearSession, TInv
  <1>6. ASSUME NEW pem \in Pems, SetCacert(pem)
        PROVE  OnTarget(tls')
    BY <1>0, <1>6, SetCacertAims DEF SetCacert, TInv
  <1>7. CASE ClearCacert
    BY <1>0, <1>7, ClearCacertAims DEF ClearCacert, TInv
  <1>8. CASE Verify
    BY <1>8 DEF Verify
  <1>9. ASSUME NEW h \in Hosts, NEW p \in Ports, Connect(h, p)
        PROVE  OnTarget(tls')
    BY <1>0, <1>9, ConnectAims DEF Connect, TInv
  <1>10. CASE Reconnect
    BY <1>0, <1>10, ReconnectAims DEF Reconnect, TInv
  <1>11. CASE Disconnect
    BY <1>0, <1>11, DisconnectAims DEF Disconnect, TInv
  <1>12. CASE UNCHANGED vars
    BY <1>12 DEF vars, TInv
  <1> QED BY <1>1, <1>2, <1>3, <1>4, <1>5, <1>6, <1>7, <1>8, <1>9, <1>10, <1>11,
             <1>12 DEF Next

\* TInv holds always.
LEMMA TInvariance == Spec => []TInv
  BY InitTInv, NextTInv, Invariance, PTL DEF Spec

\* What connected() reports is a connection to the current target.
THEOREM AlwaysConnectedToTarget ==
  ASSUME ReuseWatched
  PROVE  Spec => []ConnectedToTarget
  <1>1. TInv => ConnectedToTarget
    BY DEF TInv, OnTarget, Hit, MadeWithTarget, ConnectedToTarget
  <1> QED BY <1>1, TInvariance, PTL

\* The valid session is the current target's.
THEOREM SessionAlwaysOfTarget ==
  ASSUME ReuseWatched
  PROVE  Spec => []SessionOfTarget
  <1>1. TInv => SessionOfTarget
    BY DEF TInv, OnTarget, MadeWithTarget, SessionOfTarget
  <1> QED BY <1>1, TInvariance, PTL

-----------------------------------------------------------------------------
\* Every call but those that ask for its end leaves a live connection alone.
THEOREM LiveConnectionAlwaysKept == Spec => LiveConnectionKept
  <1> DEFINE Kept == /\ connected(tls')
                     /\ target(tls') = target(tls)
                     /\ tls'.fd = tls.fd /\ tls'.socket = tls.socket
  <1>1. ASSUME IInv, Next, connected(tls), ~EndsConnection(call', tls)
        PROVE  Kept
    <2>0. Good(tls) /\ tls.initialized
      BY <1>1 DEF IInv, Good, Coherent, connected
    <2>1. tls' = tls => Kept
      BY <1>1
    <2> USE DEF Calls, Call, EndsConnection
    <2>2. ASSUME NEW h \in Hosts, NEW p \in Ports, NEW pem \in Pems \cup {NoPem},
                 Initialize(h, p, pem)
          PROVE  Kept
      <3>1. PICK f \in Outcomes(InitCalls) : tls' = initialize(tls, h, p, pem, f)
        BY <2>2 DEF Initialize
      <3>2. pem = NoPem /\ target(tls) = <<h, p>>
        BY <1>1, <2>2 DEF Initialize
      <3> QED BY <2>1, <3>1, <3>2 DEF initialize, retarget
    <2>3. CASE InitContexts
      BY <2>0, <2>1, <2>3 DEF InitContexts, init
    <2>4. CASE StoreSession
      BY <1>1, <2>0, <2>4, StoreSessionKeeps DEF StoreSession, Good, connected
    <2>5. CASE ClearSession
      BY <1>1, <2>0, <2>5 DEF ClearSession, clear_session, Good, TLS, connected, target
    <2>6. CASE ClearCacert
      BY <1>1, <2>0, <2>6 DEF ClearCacert, clear_cacert, Good, TLS, connected, target
    <2>7. CASE Verify
      BY <1>1, <2>0, <2>7 DEF Verify, verify, Good, TLS, connected, target
    <2>8. ASSUME NEW h \in Hosts, NEW p \in Ports, Connect(h, p)
          PROVE  Kept
      <3>1. h = tls.host
        BY <1>1, <2>8 DEF Connect
      <3> QED BY <1>1, <2>0, <2>1, <2>8, <3>1, ConnectKeepsLive DEF Connect
    <2>9. CASE Reconnect
      BY <1>1, <2>1, <2>9 DEF Reconnect, reconnect
    <2>10. CASE Clear \/ Disconnect
      BY <1>1, <2>10 DEF Clear, Disconnect
    <2>11. ASSUME NEW pem \in Pems, SetCacert(pem)
           PROVE  Kept
      BY <1>1, <2>11, PemsAssumption DEF SetCacert
    <2> QED BY <1>1, <2>2, <2>3, <2>4, <2>5, <2>6, <2>7, <2>8, <2>9, <2>10, <2>11 DEF Next
  <1>2. IInv /\ [Next]_vars => [connected(tls) /\ ~EndsConnection(call', tls) => Kept]_vars
    BY <1>1
  <1> QED BY <1>2, Invariance, PTL DEF Spec, LiveConnectionKept
=============================================================================
