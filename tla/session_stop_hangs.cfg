CONSTANTS
  Peers = {p1}
  Conns = {c1, c2}
  DialTo = {p1}
  MaxPeers = 1
  NoPeer = NoPeer
  NoConn = NoConn
SPECIFICATION FairSpec
PROPERTY StopReturns
