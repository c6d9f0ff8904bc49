\* One connection in summer: a ban of one minute moves by an hour whenever it is read.
CONSTANTS
  s1 = s1
  s2 = s2
  ann = ann
  bob = bob
  home = home
  work = work
  NoName = NoName
  Torn = Torn
  Session = {s1}
  User = {ann}
  Address = {home}
  BanTime = 1
  Shift = 60
  MaxTime = 3
  MaxTries = 6
  Fault = {}
SPECIFICATION Spec
INVARIANT BanEnds
CHECK_DEADLOCK FALSE
