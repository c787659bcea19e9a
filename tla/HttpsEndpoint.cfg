SPECIFICATION Spec
CONSTANTS
  h1 = h1
  h2 = h2
  good = good
  NoHost = NoHost
  NoPem = NoPem
  Hosts <- MCHosts
  Ports <- MCPorts
  DefaultPort = 443
  Pems <- MCPems
  GoodPems <- MCPems
  MayFail <- MCMayFail
  Watched = {}
  Sockets = 1
  MaxRequests = 3
  Sizes = {"fits", "exceeds"}
  Clients <- MCClients
SYMMETRY Symmetry
CHECK_DEADLOCK FALSE
INVARIANTS
  TypeOK
  ResponseOfRequest
  ClosedBetweenRequests
  FailedMeansUnread
  HostHeaderOfServer
