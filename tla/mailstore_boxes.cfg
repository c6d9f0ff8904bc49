\* Two connections and two mailboxes: threads overlap, one mailbox does not disturb the other.
CONSTANTS
  s1 = s1
  s2 = s2
  ann = ann
  bob = bob
  hello = hello
  word = word
  piece = piece
  Empty = Empty
  Dot = Dot
  Nul = Nul
  NoUser = NoUser
  InvalidName = InvalidName
  LongSubject = LongSubject
  Session = {s1, s2}
  User = {ann, bob}
  Subject = {hello}
  Word = {word}
  Body <- OneLine
  Index <- First
  Chunk = {99}
  Beginning <- WholeLines
  MaxSends = 1
  Fault = {"open", "disk", "kill"}
SPECIFICATION Spec
INVARIANTS AckedMailKept TrueAnswers
PROPERTY Atomic
SYMMETRY Sessions
CHECK_DEADLOCK FALSE
