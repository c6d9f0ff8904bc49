\* One connection: every fault, reads and writes of any size.
CONSTANTS
  s1 = s1
  s2 = s2
  ann = ann
  bob = bob
  hello = hello
  word = word
  piece = piece
  Empty = Empty
  Dot = Dot
  Nul = Nul
  NoUser = NoUser
  InvalidName = InvalidName
  LongSubject = LongSubject
  Session = {s1}
  User = {ann}
  Subject = {hello}
  Word = {word, Empty}
  Body <- TwoSizes
  Index <- TypedBeyond
  Chunk = {1, 99}
  Beginning <- DotOfWord
  MaxSends = 3
  Fault = {"open", "disk", "pipe", "kill"}
SPECIFICATION Spec
INVARIANTS TypeOK AckedMailKept TrueAnswers Inductive
PROPERTY Atomic
CHECK_DEADLOCK FALSE
