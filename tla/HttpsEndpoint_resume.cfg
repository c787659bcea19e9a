SPECIFICATION Spec
CONSTANTS
  h1 = h1
  h2 = h2
  good = good
  NoHost = NoHost
  NoPem = NoPem
  Hosts <- MCHosts
  Ports <- MCPorts
  DefaultPort = 443
  Pems <- MCPems
  GoodPems <- MCPems
  MayFail = {}
  Watched = {}
  Sockets = 1
  MaxRequests = 2
  Sizes = {"fits"}
  Clients <- MCRequester
CHECK_DEADLOCK FALSE
INVARIANT
  ConnectedBeforeWrite
