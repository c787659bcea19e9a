SPECIFICATION Spec
CONSTANTS
  h1 = h1
  h2 = h2
  good = good
  bad = bad
  NoHost = NoHost
  NoPem = NoPem
  Hosts <- MCHosts
  Ports <- MCPorts
  DefaultPort = 443
  Pems <- MCPems
  GoodPems <- MCGoodPems
  MayFail = {}
  Clients <- MCInterface
  Watched = {}
  Sockets = 1
PROPERTY
  ConnectUsesPort
