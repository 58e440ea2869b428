SPECIFICATION Spec
CONSTANTS
  c1 = c1
  c2 = c2
  c3 = c3
  Clients <- MCClients
  NoConn = NoConn
INVARIANTS TypeOK WgAccurate StopQuiescent AtMostOneStraggler
PROPERTIES NoAddFromZero StopReturnsOrStraggler NoLeak
