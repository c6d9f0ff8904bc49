\* Two connections and one mailbox: threads overlap at every step, and the process may be killed.
CONSTANTS
  s1 = s1
  s2 = s2
  ann = ann
  bob = bob
  hello = hello
  word = word
  piece = piece
  Empty = Empty
  Dot = Dot
  Nul = Nul
  NoUser = NoUser
  InvalidName = InvalidName
  LongSubject = LongSubject
  Session = {s1, s2}
  User = {ann}
  Subject = {hello}
  Word = {word}
  Body <- OneLine
  Index <- Typed
  Chunk = {3, 99}
  Beginning <- DotOfWord
  MaxSends = 2
  Fault = {"kill"}
SPECIFICATION Spec
INVARIANTS SentMailIsLast OnlyCutDotThrows
SYMMETRY Sessions
CHECK_DEADLOCK FALSE
