SPECIFICATION Spec
CONSTANTS
  Peers = {p1, p2}
  Conns = {c1, c2}
  DialTo = {p1}
  MaxPeers = 1
  NoPeer = NoPeer
  NoConn = NoConn
SYMMETRY HandleSymmetry
INVARIANTS TypeOK Capacity OneSessionPerPeer SessionIsListed LiveIsAuthenticated StoppedIsSilent
PROPERTY OnlyOperatorRestores
