\* One client, mails of up to two reads, and another connection that uses the mailbox.
CONSTANTS
  red = red
  blue = blue
  x = x
  Me = me
  Good = good
  Password = {good, bad}
  Letter <- Letters
  Word <- Words
  Numeral <- Numerals
  Index = {0, 1}
  Lower = {me, x, red, blue, good, bad}
  Junk = Junk
  Buffer = 9
  MaxSends = 1
  MaxOthers = 1
  MaxLate = 1
  Fault = {"short", "stop"}
SPECIFICATION FairSpec
INVARIANTS TypeOK Truthful InStep StoredAsTyped LoggedInAgrees NumbersHold NoCrash
PROPERTY Returns
CHECK_DEADLOCK FALSE
