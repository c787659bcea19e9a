SPECIFICATION Spec
CONSTANTS
  h1 = h1
  h2 = h2
  good = good
  bad = bad
  NoHost = NoHost
  NoPem = NoPem
  Hosts <- MCHosts
  Ports <- MCPorts
  DefaultPort = 443
  Pems <- MCPems
  GoodPems <- MCGoodPems
  MayFail <- LibraryCalls
  Clients <- MCClients
  Watched <- MCWatched
  Sockets = 3
SYMMETRY Symmetry
VIEW MCView
INVARIANTS
  TypeOK
  FlagsCoherent
  SessionUsable
  ContextSetUpBeforeReset
  ConnectedToTarget
  SessionOfTarget
PROPERTY
  LiveConnectionKept
