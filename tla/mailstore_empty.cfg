\* One connection sends messages that end with a dot at once.
CONSTANTS
  s1 = s1
  s2 = s2
  ann = ann
  bob = bob
  hello = hello
  word = word
  piece = piece
  Empty = Empty
  Dot = Dot
  Nul = Nul
  NoUser = NoUser
  InvalidName = InvalidName
  LongSubject = LongSubject
  Session = {s1}
  User = {ann}
  Subject = {hello}
  Word = {word}
  Body <- NoLine
  Index <- Typed
  Chunk = {99}
  Beginning <- WholeLines
  MaxSends = 2
  Fault = {}
SPECIFICATION Spec
INVARIANT StoredMailReadable
CHECK_DEADLOCK FALSE
