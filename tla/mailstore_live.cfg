\* Every command is answered.
CONSTANTS
  s1 = s1
  s2 = s2
  ann = ann
  bob = bob
  hello = hello
  word = word
  piece = piece
  Empty = Empty
  Dot = Dot
  Nul = Nul
  NoUser = NoUser
  InvalidName = InvalidName
  LongSubject = LongSubject
  Session = {s1, s2}
  User = {ann}
  Subject = {hello}
  Word = {word, piece}
  Body <- OneLine
  Index <- Typed
  Chunk = {4, 99}
  Beginning <- PieceOfAny
  MaxSends = 1
  Fault = {"open", "disk"}
SPECIFICATION FairSpec
PROPERTIES Answered AtomicAndAnswered
CHECK_DEADLOCK FALSE
