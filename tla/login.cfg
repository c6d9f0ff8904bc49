\* Two connections of one address, two users, and a process that may end.
CONSTANTS
  s1 = s1
  s2 = s2
  ann = ann
  bob = bob
  home = home
  work = work
  NoName = NoName
  Torn = Torn
  Session = {s1, s2}
  User = {ann, bob}
  Address = {home}
  BanTime = 2
  Shift = 0
  MaxTime = 2
  MaxTries = 5
  Fault = {"kill"}
SPECIFICATION Spec
SYMMETRY Sessions
INVARIANT TypeOK
INVARIANT BanHolds
INVARIANT BanEnds
INVARIANT ThreeStrikes
CHECK_DEADLOCK FALSE
