\* Two connections, and too few descriptors for them, their files and what their
\* LOGINs leave open.
CONSTANTS
  c1 = c1
  c2 = c2
  Conn = {c1, c2}
  NoConn = NoConn
  MaxFd = 4
  Backlog = 1
  MaxFound = 2
  Fault = {"start", "abort", "thread"}
SPECIFICATION FairSpec
INVARIANTS TypeOK OwnDescriptors NoLeak AddressRight
PROPERTIES AcceptedInTheEnd Released
