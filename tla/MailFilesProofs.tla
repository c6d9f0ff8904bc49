--------------------------- MODULE MailFilesProofs ---------------------------
(***************************************************************************)
(* What a mailbox file looks like when it is not what the acknowledged     *)
(* mails would make it: cut off by a crash or a failed write, or written   *)
(* by a SEND after such a cut.  OnlyCutDotThrows and SentMailIsLast, from  *)
(* an invariant about files and copies alone; the acknowledged mails do    *)
(* not occur in it.                                                        *)
(***************************************************************************)
EXTENDS MailStoreProofs

\* The lines are those of mails that can be read back, or the first of them;
\* or the first of them, with a part of one more.
Whole(lines) == \E ms \in Seq(PlainMail) : Holds(lines, ms)
Begun(lines) == \E rest \in Seq(Line) : Whole(lines \o rest)
Broken(lines) ==
  \E before \in Seq(Line), line \in Line : \E part \in Beginning[line] :
    /\ lines = before \o <<part>>
    /\ Begun(before \o <<line>>)
Cut(lines)   == Begun(lines) \/ Broken(lines)

\* The lines end with the mail.
EndsWith(lines, m) == \E before \in Seq(Line) : lines = before \o MailLines(m)

\* What the thread s, which has met no rewriting command, holds of the file f.
Copy(s, f) ==
  /\ pc[s] = "write" /\ ("disk" \notin Fault \/ mails[s] # <<>> \/ buf[s] # <<>>)
       => AtEnd(s, f)
  /\ req[s].box \notin overlapped =>
       /\ pc[s] = "read" => off[s] <= Len(f) /\ buf[s] = SubSeq(f, 1, off[s])
       /\ pc[s] = "parse" => Cut(buf[s])
       /\ pc[s] \in {"parse", "open", "write"} => mails[s] \in Seq(PlainMail)
       /\ pc[s] = "write" /\ (mails[s] # <<>> \/ buf[s] # <<>>)
            => Whole(SubSeq(f, 1, off[s]) \o buf[s])
  /\ req[s].op = "SEND" /\ "disk" \notin Fault =>
       /\ pc[s] = "open" => mails[s] # <<>>
       /\ pc[s] \in {"open", "write"} /\ mails[s] # <<>>
            => mails[s][Len(mails[s])] = req[s].mail
       /\ pc[s] = "write" /\ mails[s] = <<>>
            => EndsWith(SubSeq(f, 1, off[s]) \o buf[s], req[s].mail)
       /\ pc[s] = "reply" /\ reply[s].ok => EndsWith(f, req[s].mail)

Files ==
  /\ \A u \in User \ overlapped : Cut(file[u])
  /\ \A s \in Session : req[s].box \in User /\ s \notin mixed => Copy(s, file[req[s].box])
-----------------------------------------------------------------------------
(* Sequences of lines.                                                     *)

LEMMA CutNothing == Whole(<<>>) /\ Cut(<<>>)
<1>1. <<>> \in Seq(PlainMail) /\ <<>> \in Seq(Line) /\ <<>> \o <<>> = <<>>
  OBVIOUS
<1>2. Whole(<<>>)
  BY <1>1, HoldsNothing DEF Whole
<1>3. Whole(<<>> \o <<>>)
  BY <1>2
<1> QED BY <1>1, <1>2, <1>3 DEF Cut, Begun

LEMMA OneLine ==
  ASSUME NEW line \in Line
  PROVE  <<line>> \in Seq(Line) /\ Len(<<line>>) = 1
OBVIOUS

\* What is cut off before a part of the lines that follow.
LEMMA CutPart ==
  ASSUME NEW before \in Seq(Line), NEW lines \in Seq(Line), lines # <<>>,
         Whole(before \o lines), NEW part \in Beginning[Head(lines)]
  PROVE  Cut(before \o <<part>>)
<1>1. PICK line \in Line : line = Head(lines)
  OBVIOUS
<1>2. PICK one \in Seq(Line) : one = <<line>>
  BY OneLine
<1>3. PICK rest \in Seq(Line) : one \o rest = lines
  <2>1. PICK t \in Seq(Line) : t = Tail(lines)
    BY HeadTailProperties
  <2>2. /\ Len(lines) \in Nat \ {0} /\ Len(t) = Len(lines) - 1 /\ lines[1] = line
        /\ \A i \in 1..Len(t) : t[i] = lines[i + 1]
    BY <1>1, <2>1, HeadTailProperties, EmptySeq
  <2>3. PICK x \in Seq(Line) : x = one \o t
    <3>1. one \o t \in Seq(Line)
      OBVIOUS
    <3> QED BY <3>1
  <2>4. Len(one) = 1 /\ one[1] = line
    BY <1>2
  <2>5. /\ Len(x) = Len(one) + Len(t)
        /\ \A i \in 1..Len(x) : x[i] = IF i <= Len(one) THEN one[i] ELSE t[i - Len(one)]
    BY <2>3, ConcatProperties
  <2>6. \A i \in 1..Len(x) : x[i] = lines[i]
    BY <2>2, <2>4, <2>5
  <2>7. Len(x) = Len(lines)
    BY <2>2, <2>4, <2>5
  <2>8. x = lines
    BY <2>6, <2>7, SeqEqual
  <2> QED BY <2>3, <2>8
<1>4. (before \o one) \o rest = before \o lines
  BY <1>3, JoinAssociative, ZenonT(60)
<1>5. Begun(before \o one)
  BY <1>3, <1>4 DEF Begun
<1> QED BY <1>1, <1>2, <1>5 DEF Cut, Broken

LEMMA WholeGrows ==
  ASSUME NEW f \in Seq(Line), Whole(f), NEW m \in PlainMail
  PROVE  Whole(f \o MailLines(m))
<1>1. PICK ms \in Seq(PlainMail) : Holds(f, ms)
  BY DEF Whole
<1>2. Append(ms, m) \in Seq(PlainMail) /\ ms \in Seq(Mail) /\ m \in Mail
  BY PlainIsMail
<1>3. Holds(f \o MailLines(m), Append(ms, m))
  BY <1>1, <1>2, HoldsAppend
<1> QED BY <1>2, <1>3 DEF Whole

\* A mail that is there completely is read as it would be from the whole file.
LEMMA FirstMailOfPrefix ==
  ASSUME NEW b \in Seq(Line), NEW rest \in Seq(Line), ContentEnd(b) <= Len(b)
  PROVE  /\ FirstMail(b \o rest) = FirstMail(b)
         /\ OtherMails(b \o rest) = OtherMails(b) \o rest
<1> DEFINE all == b \o rest
           e == ContentEnd(b)
<1>1. /\ all \in Seq(Line) /\ Len(all) = Len(b) + Len(rest)
      /\ Len(b) \in Nat /\ Len(rest) \in Nat
      /\ \A i \in 1..Len(b) : all[i] = b[i]
  OBVIOUS
<1>2. e \in 4..Len(b) /\ b[e] = Dot /\ \A j \in 4..Len(b) : b[j] = Dot => e <= j
  BY ContentEndIsFirstDot
<1>3. ContentEnd(all) = e
  <2> DEFINE x == ContentEnd(all)
  <2>1. /\ x \in 1..Len(all) + 1 /\ (x <= Len(all) => x >= 4 /\ all[x] = Dot)
        /\ \A j \in 4..Len(all) : all[j] = Dot => x <= j
    BY <1>1, ContentEndIsFirstDot
  <2> HIDE DEF x, all, e
  <2>2. x <= e
    BY <1>1, <1>2, <2>1
  <2>3. x \in 4..Len(b) /\ b[x] = Dot
    BY <1>1, <1>2, <2>1, <2>2
  <2> QED BY <1>2, <2>2, <2>3 DEF x
<1> HIDE DEF all, e
<1>4. \A i \in 1..3 : HeaderLine(all, i) = HeaderLine(b, i)
  BY <1>1, <1>2 DEF HeaderLine
<1>5. SubSeq(all, 4, e - 1) = SubSeq(b, 4, e - 1)
  <2> DEFINE l == SubSeq(all, 4, e - 1)
             r == SubSeq(b, 4, e - 1)
  <2>1. e \in Nat /\ e - 1 <= Len(b) /\ e >= 4
    BY <1>1, <1>2
  <2>2. \A i \in 4..e-1 : all[i] \in Line /\ b[i] \in Line /\ all[i] = b[i]
    BY <1>1, <2>1, SMTT(30)
  <2>3. /\ l \in Seq(Line) /\ Len(l) = e - 4 /\ \A i \in 1..e-4 : l[i] = all[i + 3]
        /\ r \in Seq(Line) /\ Len(r) = e - 4 /\ \A i \in 1..e-4 : r[i] = b[i + 3]
    BY <1>1, <2>1, <2>2
  <2>4. \A i \in 1..e-4 : i + 3 \in 4..e-1
    BY <2>1
  <2> HIDE DEF l, r
  <2> QED BY <2>2, <2>3, <2>4, SeqEqual DEF l, r
<1>6. FirstMail(all) = FirstMail(b)
  <2>1. e <= Len(all) /\ e <= Len(b)
    BY <1>1, <1>2
  <2>2. /\ FirstMail(all) = [sender |-> HeaderLine(all, 1), receiver |-> HeaderLine(all, 2),
                            subject |-> HeaderLine(all, 3), content |-> SubSeq(all, 4, e - 1)]
        /\ FirstMail(b) = [sender |-> HeaderLine(b, 1), receiver |-> HeaderLine(b, 2),
                          subject |-> HeaderLine(b, 3), content |-> SubSeq(b, 4, e - 1)]
    BY <1>3, <2>1 DEF FirstMail, e
  <2>3. /\ HeaderLine(all, 1) = HeaderLine(b, 1) /\ HeaderLine(all, 2) = HeaderLine(b, 2)
        /\ HeaderLine(all, 3) = HeaderLine(b, 3)
    BY <1>4
  <2> QED BY <1>5, <2>2, <2>3
<1>7. SubSeq(all, e + 1, Len(all)) = SubSeq(b, e + 1, Len(b)) \o rest
  <2> DEFINE l == SubSeq(all, e + 1, Len(all))
             c == SubSeq(b, e + 1, Len(b))
             r == c \o rest
  <2>1. \A i \in e+1..Len(all) : all[i] \in Line
    BY <1>1, <1>2
  <2>2. l \in Seq(Line) /\ Len(l) = Len(all) - e /\ \A i \in 1..Len(all) - e : l[i] = all[e + i]
    BY <1>1, <1>2, <2>1, SMTT(30)
  <2>3. \A i \in e+1..Len(b) : b[i] \in Line
    BY <1>2
  <2>4. c \in Seq(Line) /\ Len(c) = Len(b) - e /\ \A i \in 1..Len(b) - e : c[i] = b[e + i]
    BY <1>1, <1>2, <2>3
  <2> HIDE DEF l, c
  <2>5. r \in Seq(Line) /\ Len(r) = Len(c) + Len(rest)
        /\ \A i \in 1..Len(r) : r[i] = IF i <= Len(c) THEN c[i] ELSE rest[i - Len(c)]
    BY <2>4, ConcatProperties
  <2>6. \A i \in Len(b)+1..Len(all) : all[i] = rest[i - Len(b)]
    BY <1>1 DEF all
  <2> HIDE DEF r
  <2>7. \A i \in 1..Len(all) - e : l[i] = r[i]
    <3> TAKE i \in 1..Len(all) - e
    <3>1. CASE i <= Len(b) - e
      <4>1. i \in 1..Len(b) - e /\ e + i \in 1..Len(b) /\ i \in 1..Len(r)
        BY <1>1, <1>2, <2>4, <2>5, <3>1, SMTT(30)
      <4>2. l[i] = b[e + i]
        BY <1>1, <2>2, <4>1
      <4>3. r[i] = b[e + i]
        BY <2>4, <2>5, <3>1, <4>1
      <4> QED BY <4>2, <4>3
    <3>2. CASE i > Len(b) - e
      <4>1. l[i] = rest[(e + i) - Len(b)]
        <5>1. e + i \in Len(b)+1..Len(all)
          BY <1>1, <1>2, <3>2
        <5>2. l[i] = all[e + i]
          BY <2>2
        <5>3. all[e + i] = rest[(e + i) - Len(b)]
          BY <2>6, <5>1
        <5> QED BY <5>2, <5>3
      <4>2. r[i] = rest[i - (Len(b) - e)]
        BY <1>1, <1>2, <2>4, <2>5, <3>2
      <4>3. (e + i) - Len(b) = i - (Len(b) - e)
        BY <1>1, <1>2
      <4> QED BY <4>1, <4>2, <4>3
    <3> QED BY <1>1, <1>2, <3>1, <3>2
  <2>8. Len(l) = Len(r)
    BY <1>1, <1>2, <2>2, <2>4, <2>5
  <2> QED BY <2>2, <2>5, <2>7, <2>8, SeqEqual DEF l, r, c
<1> QED BY <1>3, <1>6, <1>7 DEF OtherMails, all, e

\* The end of the first mail is where it was when more lines follow.
LEMMA ContentEndOfFront ==
  ASSUME NEW b \in Seq(Line), NEW before \in Seq(Line), Len(b) = Len(before) + 1,
         \A i \in 1..Len(before) : b[i] = before[i], ContentEnd(b) < Len(b)
  PROVE  ContentEnd(before) = ContentEnd(b) /\ ContentEnd(b) <= Len(before)
<1> DEFINE e == ContentEnd(b)
           x == ContentEnd(before)
<1>1. /\ e \in 4..Len(before) /\ b[e] = Dot /\ Len(before) \in Nat
      /\ \A j \in 4..Len(b) : b[j] = Dot => e <= j
  BY ContentEndIsFirstDot
<1>2. /\ x \in 1..Len(before) + 1 /\ (x <= Len(before) => x >= 4 /\ before[x] = Dot)
      /\ \A j \in 4..Len(before) : before[j] = Dot => x <= j
  BY ContentEndIsFirstDot
<1> HIDE DEF e, x
<1>3. x <= e
  BY <1>1, <1>2
<1>4. x \in 4..Len(b) /\ b[x] = Dot
  BY <1>1, <1>2, <1>3
<1> QED BY <1>1, <1>2, <1>3, <1>4 DEF e, x

\* What the loop makes of any lines has no dot in its content.
LEMMA FirstMailPlain ==
  ASSUME NEW b \in Seq(Line), ~ EraseThrows(b)
  PROVE  FirstMail(b) \in PlainMail
<1> DEFINE e == ContentEnd(b)
           n == IF e <= Len(b) THEN e - 1 ELSE Len(b)
           c == SubSeq(b, 4, n)
<1>1. /\ e \in Nat /\ Len(b) \in Nat /\ n \in Nat /\ n <= Len(b) /\ n < e
      /\ e <= Len(b) => e >= 4
      /\ \A j \in 4..Len(b) : b[j] = Dot => e <= j
  BY ContentEndIsFirstDot
<1>2. FirstMail(b) \in Mail /\ FirstMail(b).content # <<>>
  BY FirstMailType DEF EraseThrows
<1>3. FirstMail(b).content = IF e <= Len(b) THEN c ELSE Append(c, Empty)
  BY DEF FirstMail
<1> HIDE DEF e, n
<1>4. \A i \in 4..n : b[i] \in Line /\ b[i] # Dot
  BY <1>1
<1>5. c \in Seq(Line) /\ \A i \in 1..Len(c) : c[i] # Dot
  <2>1. c \in Seq(Line) /\ Len(c) = IF 4 <= n THEN n - 3 ELSE 0
    BY <1>1, <1>4
  <2>2. \A i \in 1..Len(c) : \E j \in 4..n : c[i] = b[j]
    <3> TAKE i \in 1..Len(c)
    <3>1. c[i] = b[i + 3] /\ i + 3 \in 4..n
      BY <1>1, <2>1
    <3> QED BY <3>1
  <2> QED BY <1>4, <2>1, <2>2
<1> HIDE DEF c
<1>6. \A i \in 1..Len(Append(c, Empty)) : Append(c, Empty)[i] # Dot
  <2>1. Empty \in Line /\ Empty # Dot
    BY LineTypes, MarkAssumption
  <2>2. /\ Len(Append(c, Empty)) = Len(c) + 1 /\ Len(c) \in Nat
        /\ Append(c, Empty)[Len(c) + 1] = Empty
        /\ \A i \in 1..Len(c) : Append(c, Empty)[i] = c[i]
    BY <1>5, <2>1
  <2>3. \A i \in 1..Len(Append(c, Empty)) : i = Len(c) + 1 \/ i \in 1..Len(c)
    BY <2>2
  <2> QED BY <1>5, <2>1, <2>2, <2>3
<1> QED BY <1>2, <1>3, <1>5, <1>6 DEF PlainMail

\* Only a dot right after the headers makes the erase throw.
LEMMA ThrowsAtFour ==
  ASSUME NEW b \in Seq(Line), EraseThrows(b)
  PROVE  ContentEnd(b) = 4 /\ 4 <= Len(b) /\ b[4] = Dot
<1> DEFINE e == ContentEnd(b)
<1>1. e \in Nat /\ Len(b) \in Nat /\ (e <= Len(b) => e >= 4 /\ b[e] = Dot)
  BY ContentEndIsFirstDot
<1>2. FirstMail(b).content = <<>>
  BY DEF EraseThrows
<1>3. e <= Len(b)
  <2> SUFFICES ASSUME e = Len(b) + 1 PROVE FALSE
    BY ContentEndIsFirstDot
  <2>1. FirstMail(b).content = Append(SubSeq(b, 4, Len(b)), Empty)
    BY <1>1 DEF FirstMail
  <2>2. \A i \in 4..Len(b) : b[i] \in Line
    OBVIOUS
  <2>3. SubSeq(b, 4, Len(b)) \in Seq(Line) /\ Empty \in Line
    BY <1>1, <2>2, LineTypes
  <2> QED BY <1>2, <2>1, <2>3, AppendProperties
<1>4. FirstMail(b).content = SubSeq(b, 4, e - 1)
  BY <1>3 DEF FirstMail
<1> HIDE DEF e
<1>5. e = 4
  <2> SUFFICES ASSUME e > 4 PROVE FALSE
    BY <1>1, <1>3
  <2>1. \A i \in 4..e-1 : b[i] \in Line
    BY <1>1, <1>3
  <2>2. SubSeq(b, 4, e - 1) \in Seq(Line) /\ Len(SubSeq(b, 4, e - 1)) = e - 4
    BY <1>1, <1>3, <2>1
  <2> QED BY <1>1, <1>2, <1>4, <2>2
<1> QED BY <1>1, <1>3, <1>5 DEF e

\* The first lines of mails: a mail that is there completely was one of them.
LEMMA FrontParse ==
  ASSUME NEW b \in Seq(Line), NEW rest \in Seq(Line), Whole(b \o rest),
         ContentEnd(b) <= Len(b)
  PROVE  ~ EraseThrows(b) /\ Whole(OtherMails(b) \o rest)
<1>1. PICK ms \in Seq(PlainMail) : Holds(b \o rest, ms)
  BY DEF Whole
<1>2. b \o rest \in Seq(Line) /\ b \o rest # <<>>
  <2>1. b # <<>>
    <3>1. Len(b) \in Nat /\ ContentEnd(b) \in 1..Len(b) + 1
      BY ContentEndIsFirstDot
    <3>2. Len(b) # 0
      BY <3>1
    <3> QED BY <3>2, EmptySeq
  <2> QED BY <2>1
<1>3. ms # <<>>
  BY <1>1, <1>2, HoldsNothing
<1>4. /\ ~ EraseThrows(b \o rest) /\ FirstMail(b \o rest) = Head(ms)
      /\ Holds(OtherMails(b \o rest), Tail(ms))
  BY <1>1, <1>2, <1>3, HoldsParse
<1>5. FirstMail(b \o rest) = FirstMail(b) /\ OtherMails(b \o rest) = OtherMails(b) \o rest
  BY FirstMailOfPrefix
<1>6. Tail(ms) \in Seq(PlainMail)
  BY <1>3
<1> QED BY <1>4, <1>5, <1>6 DEF EraseThrows, Whole

\* Reading a file that was cut off yields mails that can be written and read
\* again, and throws only at a part of a line that is a dot, at its end.
LEMMA CutParse ==
  ASSUME NEW b \in Seq(Line), Cut(b), b # <<>>
  PROVE  /\ EraseThrows(b) => Len(b) = 4 /\ \E line \in Line : Dot \in Beginning[line]
         /\ Cut(OtherMails(b))
<1> DEFINE e == ContentEnd(b)
<1>1. e \in Nat /\ Len(b) \in Nat /\ e <= Len(b) + 1
  BY ContentEndIsFirstDot
<1>2. ASSUME e >= Len(b) PROVE Cut(OtherMails(b))
  <2>1. OtherMails(b) = <<>>
    BY <1>1, <1>2 DEF OtherMails
  <2> QED BY <2>1, CutNothing
<1>3. CASE Begun(b)
  <2>1. PICK rest \in Seq(Line) : Whole(b \o rest)
    BY <1>3 DEF Begun
  <2>2. CASE e <= Len(b)
    <3>1. ~ EraseThrows(b) /\ Whole(OtherMails(b) \o rest)
      BY <2>1, <2>2, FrontParse
    <3> QED BY <3>1 DEF Cut, Begun
  <2>3. CASE ~ (e <= Len(b))
    <3>1. ~ EraseThrows(b)
      BY <2>3, ThrowsAtFour
    <3> QED BY <1>1, <1>2, <2>3, <3>1
  <2> QED BY <2>2, <2>3
<1>4. CASE Broken(b)
  <2>1. PICK before \in Seq(Line), line \in Line :
          \E part \in Beginning[line] : b = before \o <<part>> /\ Begun(before \o <<line>>)
    BY <1>4 DEF Broken
  <2>2. PICK part \in Beginning[line] : b = before \o <<part>> /\ Begun(before \o <<line>>)
    BY <2>1
  <2>3. part \in Line
    BY <2>2, StoreAssumption
  <2>4. PICK p \in Seq(Line), l \in Seq(Line) : p = <<part>> /\ l = <<line>>
    BY <2>3, OneLine
  <2>5. /\ b = before \o p /\ Len(b) = Len(before) + 1 /\ b[Len(b)] = part
        /\ \A i \in 1..Len(before) : b[i] = before[i]
    BY <2>2, <2>3, <2>4
  <2>6. PICK rest \in Seq(Line) : Whole((before \o l) \o rest)
    BY <2>2, <2>4 DEF Begun
  <2>7. CASE e >= Len(b)
    <3>1. EraseThrows(b) => Len(b) = 4 /\ Dot \in Beginning[line]
      <4> HAVE EraseThrows(b)
      <4>1. e = 4 /\ 4 <= Len(b) /\ b[4] = Dot
        BY ThrowsAtFour
      <4> QED BY <1>1, <2>5, <2>7, <4>1
    <3> QED BY <1>2, <2>7, <3>1
  <2>8. CASE e < Len(b)
    <3>1. ContentEnd(before) = e /\ e <= Len(before)
      BY <2>5, <2>8, ContentEndOfFront
    <3>2. PICK more \in Seq(Line) : more = l \o rest
      <4>1. l \o rest \in Seq(Line)
        OBVIOUS
      <4> QED BY <4>1
    <3>3. (before \o l) \o rest = before \o more
      BY <3>2, JoinAssociative, SMTT(30)
    <3>4. ~ EraseThrows(before) /\ Whole(OtherMails(before) \o more)
      BY <2>6, <3>1, <3>3, FrontParse
    <3>5. FirstMail(b) = FirstMail(before) /\ OtherMails(b) = OtherMails(before) \o p
      BY <2>5, <3>1, FirstMailOfPrefix
    <3>6. OtherMails(before) \in Seq(Line)
      BY FirstMailType
    <3>7. (OtherMails(before) \o l) \o rest = OtherMails(before) \o more
      BY <3>2, <3>6, JoinAssociative, ZenonT(60)
    <3>8. Begun(OtherMails(before) \o l)
      BY <3>4, <3>7 DEF Begun
    <3>9. Broken(OtherMails(b))
      BY <2>2, <2>4, <3>5, <3>6, <3>8 DEF Broken
    <3> QED BY <3>4, <3>5, <3>9 DEF Cut, EraseThrows
  <2> QED BY <1>1, <2>5, <2>7, <2>8
<1> QED BY <1>3, <1>4 DEF Cut

\* EndsWith is the IsSuffix of the property.
LEMMA EndsWithIsSuffix ==
  ASSUME NEW f, NEW m \in Mail, EndsWith(f, m)
  PROVE  IsSuffix(MailLines(m), f)
<1>1. PICK before \in Seq(Line) : f = before \o MailLines(m)
  BY DEF EndsWith
<1>2. PICK x \in Seq(Line) : x = MailLines(m)
  BY MailLinesType
<1> DEFINE n == Len(x)
           k == Len(f)
<1>3. /\ f \in Seq(Line) /\ n \in Nat /\ k \in Nat /\ n <= k
      /\ \A i \in 1..n : f[k - i + 1] = x[n - i + 1]
  BY <1>1, <1>2
<1> HIDE DEF n, k
<1>4. Reverse(x) = [i \in 1..n |-> x[(n - i) + 1]] /\ Reverse(f) = [i \in 1..k |-> f[(k - i) + 1]]
  BY DEF Reverse, n, k
<1>5. Reverse(x) \in Seq(Line) /\ Reverse(f) \in Seq(Line)
      /\ Len(Reverse(x)) = n /\ Len(Reverse(f)) = k
  <2>1. \A i \in 1..n : x[(n - i) + 1] \in Line
    BY <1>3 DEF n
  <2>2. \A i \in 1..k : f[(k - i) + 1] \in Line
    BY <1>3 DEF k
  <2> QED BY <1>3, <1>4, <2>1, <2>2
<1>6. \A i \in 1..n : Reverse(x)[i] = Reverse(f)[i]
  BY <1>3, <1>4
<1>7. SubSeq(Reverse(x), 1, n) = SubSeq(Reverse(f), 1, n)
  BY <1>3, <1>5, <1>6
<1> QED BY <1>2, <1>3, <1>5, <1>7 DEF IsSuffix, IsPrefix
-----------------------------------------------------------------------------
(* Files is an invariant.                                                  *)

\* What a step of the thread s leaves to be shown: that every other thread,
\* unless it is disturbed, finds its file as it was.
LEMMA FilesFrame ==
  ASSUME Files, NEW s \in Session, overlapped \subseteq overlapped',
         \A t \in Session \ {s} :
           /\ t \notin mixed' => t \notin mixed
           /\ pc'[t] = pc[t] /\ req'[t] = req[t] /\ mails'[t] = mails[t]
           /\ buf'[t] = buf[t] /\ off'[t] = off[t] /\ reply'[t] = reply[t]
           /\ t \notin mixed' /\ req[t].box \in User => file'[req[t].box] = file[req[t].box],
         \A u \in User \ overlapped' : Cut(file'[u]),
         req'[s].box \in User /\ s \notin mixed' => Copy(s, file[req[s].box])'
  PROVE  Files'
<1>1. ASSUME NEW t \in Session, req'[t].box \in User, t \notin mixed'
      PROVE  Copy(t, file[req[t].box])'
  <2>1. CASE t = s
    BY <1>1, <2>1
  <2>2. CASE t # s
    <3>1. Copy(t, file[req[t].box])
      BY <1>1, <2>2 DEF Files
    <3>2. req'[t] = req[t] /\ file'[req'[t].box] = file[req[t].box]
      BY <1>1, <2>2
    <3> QED BY <2>2, <3>1, <3>2 DEF Copy, AtEnd
  <2> QED BY <2>1, <2>2
<1> QED BY <1>1 DEF Files

\* A step of a thread that writes no file.
LEMMA FilesLocal ==
  ASSUME TypeOK, Files, NEW s \in Session,
         UNCHANGED <<file, req, mixed, overlapped>>,
         \A t \in Session \ {s} : /\ pc'[t] = pc[t] /\ mails'[t] = mails[t]
                                  /\ buf'[t] = buf[t] /\ off'[t] = off[t]
                                  /\ reply'[t] = reply[t],
         req[s].box \in User /\ s \notin mixed /\ Copy(s, file[req[s].box])
           => Copy(s, file[req[s].box])'
  PROVE  Files'
<1>1. \A u \in User \ overlapped' : Cut(file'[u])
  BY DEF Files
<1>2. req'[s].box \in User /\ s \notin mixed' => Copy(s, file[req[s].box])'
  BY DEF Files
<1> QED BY <1>1, <1>2, FilesFrame

\* A step of a thread that writes the file of its own mailbox: no undisturbed
\* thread but s itself is at work on it.
LEMMA FilesWrite ==
  ASSUME TypeOK, Inductive, Files, NEW s \in Session, pc[s] \in {"open", "write"},
         NEW g, file' = [file EXCEPT ![req[s].box] = g],
         UNCHANGED <<req, mixed, overlapped>>,
         \A t \in Session \ {s} : /\ pc'[t] = pc[t] /\ mails'[t] = mails[t]
                                  /\ buf'[t] = buf[t] /\ off'[t] = off[t]
                                  /\ reply'[t] = reply[t],
         req[s].box \notin overlapped /\ s \notin mixed /\ Copy(s, file[req[s].box]) => Cut(g),
         s \notin mixed /\ Copy(s, file[req[s].box]) => Copy(s, g)'
  PROVE  Files'
<1>1. req[s].box \in User /\ req[s].op \in Rewriting
  BY DEF Inductive, Tidy
<1>2. \A t \in Session \ {s} :
         t \notin mixed' /\ req[t].box \in User => file'[req[t].box] = file[req[t].box]
  BY <1>1 DEF TypeOK, Inductive, Alone, Rewrites
<1>3. file'[req[s].box] = g /\ \A u \in User \ {req[s].box} : file'[u] = file[u]
  BY <1>1 DEF TypeOK
<1>4. s \notin mixed => Copy(s, file[req[s].box])
  BY <1>1 DEF Files
<1>5. \A u \in User \ overlapped' : Cut(file'[u])
  <2> TAKE u \in User \ overlapped'
  <2>1. CASE u = req[s].box
    <3>1. s \notin mixed
      BY <1>1, <2>1 DEF Inductive, Alone
    <3> QED BY <1>3, <1>4, <2>1, <3>1
  <2>2. CASE u # req[s].box
    BY <1>3, <2>2 DEF Files
  <2> QED BY <2>1, <2>2
<1>6. s \notin mixed' => Copy(s, file[req[s].box])'
  <2>1. s \notin mixed => Copy(s, g)'
    BY <1>4
  <2>2. file'[req'[s].box] = g
    BY <1>3
  <2> QED BY <2>1, <2>2 DEF Copy
<1> QED BY <1>2, <1>5, <1>6, FilesFrame

LEMMA InitFiles == Init => Files
BY CutNothing, StoreAssumption DEF Init, Files, NoRequest

LEMMA BeginFiles ==
  ASSUME TypeOK, Inductive, Files, NEW s \in Session, NEW q,
         NEW step \in {"stat", "reply"}, Begin(s, q, step)
  PROVE  Files'
<1>1. /\ pc[s] = "idle" /\ pc'[s] = step /\ UNCHANGED <<file, mails, buf, off, reply>>
      /\ mixed \subseteq mixed' /\ overlapped \subseteq overlapped'
      /\ \A t \in Session \ {s} : pc'[t] = pc[t] /\ req'[t] = req[t]
  BY DEF Begin, TypeOK
<1>2. reply[s] = Refused
  BY <1>1 DEF Inductive, Tidy
<1>3. Copy(s, file[req[s].box])'
  BY <1>1, <1>2 DEF Copy, Refused
<1> QED BY <1>1, <1>3, FilesFrame DEF Files

LEMMA ArriveFiles ==
  ASSUME TypeOK, Inductive, Files, NEW s \in Session, Arrive(s)
  PROVE  Files'
<1>1. ASSUME Reject(s) PROVE Files'
  <2>1. /\ pc[s] = "idle" /\ pc'[s] = "reply"
        /\ UNCHANGED <<file, req, mixed, overlapped, mails, buf, off, reply>>
        /\ \A t \in Session \ {s} : pc'[t] = pc[t]
    BY <1>1 DEF Reject, history, TypeOK
  <2>2. req[s].op # "SEND"
    BY <2>1 DEF Inductive, Tidy, NoRequest
  <2>3. Copy(s, file[req[s].box])'
    BY <2>1, <2>2 DEF Copy
  <2> QED BY <2>1, <2>3, FilesLocal
<1>2. ASSUME UNCHANGED <<file, req, mixed, overlapped, pc, mails, buf, off, reply>>
      PROVE  Files'
  BY <1>2, FilesLocal DEF Copy, AtEnd
<1> QED
  BY <1>1, <1>2, BeginFiles
     DEF Arrive, Login, Quit, Send, SendRejected, List, Read, Delete, Access, AccessRejected, history

LEMMA StopFiles ==
  ASSUME Files, Stop
  PROVE  Files'
<1>1. UNCHANGED <<file, overlapped>> /\ \A t \in Session : req'[t].box \notin User
  BY StoreAssumption DEF Stop, NoRequest
<1> QED BY <1>1 DEF Files
-----------------------------------------------------------------------------
(* The steps of a thread that has a command.                               *)

\* NoFile, OpenForRead, OpenFails, Look, WriteFails and Close, which move on
\* or drop what the thread holds.
LEMMA MoveFiles ==
  ASSUME TypeOK, Inductive, Files, NEW s \in Session,
         NoFile(s) \/ OpenForRead(s) \/ OpenFails(s) \/ Look(s) \/ WriteFails(s) \/ Close(s)
  PROVE  Files'
<1>1. /\ UNCHANGED <<file, req, mixed, overlapped>>
      /\ \A t \in Session \ {s} : /\ pc'[t] = pc[t] /\ mails'[t] = mails[t]
                                  /\ buf'[t] = buf[t] /\ off'[t] = off[t]
                                  /\ reply'[t] = reply[t]
  BY DEF NoFile, OpenForRead, OpenFails, Look, WriteFails, Close, history, TypeOK
<1>2. Tidy(s)
  BY DEF Inductive
<1>3. <<>> \in Seq(PlainMail)
  OBVIOUS
<1> DEFINE f == file[req[s].box]
<1>4. ASSUME req[s].box \in User, Copy(s, f) PROVE Copy(s, f)'
  <2>1. f' = f /\ f \in Seq(Line)
    BY <1>1, <1>4 DEF TypeOK
  <2>2. CASE NoFile(s)
    <3>1. pc'[s] = "parse" /\ mails'[s] = <<>> /\ buf'[s] = <<>>
      BY <1>2, <2>2 DEF NoFile, TypeOK, Tidy
    <3> QED BY <1>1, <1>3, <3>1, CutNothing DEF Copy
  <2>3. CASE OpenForRead(s)
    <3>1. pc'[s] = "read" /\ off'[s] = 0 /\ buf'[s] = <<>>
      BY <1>2, <2>3 DEF OpenForRead, TypeOK, Tidy
    <3>2. SubSeq(f, 1, 0) = <<>> /\ 0 <= Len(f)
      BY <2>1
    <3> QED BY <1>1, <2>1, <3>1, <3>2 DEF Copy
  <2>4. CASE OpenFails(s)
    <3>1. pc'[s] = "reply" /\ ~ reply'[s].ok
      BY <1>2, <2>4 DEF OpenFails, TypeOK, Tidy, Refused
    <3> QED BY <1>1, <3>1 DEF Copy
  <2>5. CASE Look(s)
    <3>1. /\ pc'[s] = "reply" /\ reply'[s] = Answer(req[s], mails[s])
          /\ req[s].op \in Rewriting => ~ Answer(req[s], mails[s]).ok
      BY <2>5 DEF Look, TypeOK
    <3>2. req[s].op # "SEND"
      BY <3>1 DEF Rewriting, Answer, Done
    <3> QED BY <1>1, <3>1, <3>2 DEF Copy
  <2>6. CASE WriteFails(s)
    <3>1. /\ "disk" \in Fault /\ pc[s] = "write" /\ pc'[s] = "write" /\ off'[s] = off[s]
          /\ mails'[s] = <<>> /\ buf'[s] = <<>>
      BY <2>6 DEF WriteFails, TypeOK
    <3> QED BY <1>1, <1>3, <1>4, <2>1, <3>1 DEF Copy
  <2>7. CASE Close(s)
    <3>1. pc[s] = "write" /\ pc'[s] = "reply" /\ mails[s] = <<>> /\ buf[s] = <<>>
      BY <2>7 DEF Close, TypeOK
    <3>2. SubSeq(f, 1, Len(f)) \o <<>> = f
      BY <2>1
    <3>3. req[s].op = "SEND" /\ "disk" \notin Fault => EndsWith(f, req[s].mail)
      <4> HAVE req[s].op = "SEND" /\ "disk" \notin Fault
      <4>1. off[s] = Len(f)
        BY <1>4, <3>1 DEF Copy, AtEnd
      <4>2. EndsWith(SubSeq(f, 1, off[s]) \o buf[s], req[s].mail)
        BY <1>4, <3>1 DEF Copy
      <4> QED BY <3>1, <3>2, <4>1, <4>2
    <3> QED BY <1>1, <2>1, <3>1, <3>3 DEF Copy
  <2> QED BY <2>2, <2>3, <2>4, <2>5, <2>6, <2>7
<1>5. req[s].box \in User /\ s \notin mixed /\ Copy(s, file[req[s].box])
        => Copy(s, file[req[s].box])'
  BY <1>4
<1> QED BY <1>1, <1>5, FilesLocal

\* What has been read so far is a prefix of the file.
LEMMA FetchFiles ==
  ASSUME TypeOK, Files, NEW s \in Session, Fetch(s)
  PROVE  Files'
<1>1. /\ pc[s] = "read" /\ file[req[s].box] \in Seq(Line) /\ off[s] \in Nat
      /\ off[s] < Len(file[req[s].box])
      /\ UNCHANGED <<file, req, mixed, overlapped, pc, mails, reply>>
  BY DEF Fetch, TypeOK, history
<1>2. PICK f \in Seq(Line) : f = file[req[s].box]
  BY <1>1
<1>3. PICK n \in Chunk : LET to == Min({off[s] + n, Len(f)})
         IN /\ buf' = [buf EXCEPT ![s] = @ \o SubSeq(f, off[s] + 1, to)]
            /\ off' = [off EXCEPT ![s] = to]
  BY <1>2 DEF Fetch
<1>4. PICK to : to = Min({off[s] + n, Len(f)})
  OBVIOUS
<1>5. to \in off[s]..Len(f)
  <2>1. n \in Nat /\ Len(f) \in Nat /\ off[s] \in Nat /\ off[s] < Len(f)
    BY <1>1, <1>2, StoreAssumption
  <2>2. PICK x \in Nat : x = off[s] + n
    BY <2>1
  <2>3. to = IF x <= Len(f) THEN x ELSE Len(f)
    BY <1>4, <2>1, <2>2, MinMaxOfTwo
  <2> QED BY <2>1, <2>2, <2>3
<1>6. /\ buf'[s] = buf[s] \o SubSeq(f, off[s] + 1, to) /\ off'[s] = to
      /\ \A t \in Session \ {s} : buf'[t] = buf[t] /\ off'[t] = off[t]
  BY <1>3, <1>4 DEF TypeOK
<1>7. SubSeq(f, 1, off[s]) \o SubSeq(f, off[s] + 1, to) = SubSeq(f, 1, to)
  <2>1. 1 \in 1..Len(f)+1 /\ off[s] \in 1-1..Len(f) /\ to \in off[s]..Len(f)
    BY <1>1, <1>2, <1>5
  <2> QED BY <2>1, ConcatAdjacentSubSeq
<1>8. to <= Len(f)
  BY <1>1, <1>2, <1>5
<1>9. Copy(s, file[req[s].box]) => Copy(s, file[req[s].box])'
  BY <1>1, <1>2, <1>6, <1>7, <1>8 DEF Copy
<1> QED BY <1>1, <1>6, <1>9, FilesLocal

\* At the end of the file the copy is the file.
LEMMA FetchEndFiles ==
  ASSUME TypeOK, Inductive, Files, NEW s \in Session, FetchEnd(s)
  PROVE  Files'
<1>1. /\ pc[s] = "read" /\ pc'[s] = "parse" /\ off[s] >= Len(file[req[s].box])
      /\ UNCHANGED <<file, req, mixed, overlapped, mails, buf, reply>>
      /\ \A t \in Session \ {s} : pc'[t] = pc[t] /\ off'[t] = off[t]
      /\ req[s].box \in User /\ file[req[s].box] \in Seq(Line) /\ off[s] \in Nat
  BY DEF FetchEnd, TypeOK, history
<1>2. mails[s] = <<>> /\ <<>> \in Seq(PlainMail)
  BY <1>1 DEF Inductive, Tidy
<1>3. PICK f \in Seq(Line) : f = file[req[s].box]
  BY <1>1
<1>4. SubSeq(f, 1, Len(f)) = f
  OBVIOUS
<1>5. Copy(s, file[req[s].box]) /\ req[s].box \notin overlapped => Cut(buf[s])
  <2>1. HAVE Copy(s, file[req[s].box]) /\ req[s].box \notin overlapped
  <2>2. off[s] = Len(f) /\ buf[s] = SubSeq(f, 1, off[s])
    BY <1>1, <1>3, <2>1 DEF Copy
  <2>3. Cut(f)
    BY <1>1, <1>3, <2>1 DEF Files
  <2> QED BY <1>4, <2>2, <2>3
<1>6. Copy(s, file[req[s].box]) => Copy(s, file[req[s].box])'
  BY <1>1, <1>2, <1>5 DEF Copy
<1> QED BY <1>1, <1>6, FilesLocal

LEMMA ParseMailFiles ==
  ASSUME TypeOK, Files, NEW s \in Session, ParseMail(s)
  PROVE  Files'
<1>1. /\ pc[s] = "parse" /\ buf[s] # <<>> /\ buf[s] \in Seq(Line) /\ ~ EraseThrows(buf[s])
      /\ mails'[s] = Append(mails[s], FirstMail(buf[s]))
      /\ buf'[s] = OtherMails(buf[s])
      /\ UNCHANGED <<file, req, mixed, overlapped, pc, off, reply>>
      /\ \A t \in Session \ {s} : mails'[t] = mails[t] /\ buf'[t] = buf[t]
  BY DEF ParseMail, TypeOK, history
<1>2. ASSUME Copy(s, file[req[s].box]), req[s].box \notin overlapped
      PROVE  Cut(buf'[s]) /\ mails'[s] \in Seq(PlainMail)
  <2>1. Cut(buf[s]) /\ mails[s] \in Seq(PlainMail)
    BY <1>1, <1>2 DEF Copy
  <2>2. FirstMail(buf[s]) \in PlainMail /\ Cut(OtherMails(buf[s]))
    BY <1>1, <2>1, CutParse, FirstMailPlain
  <2> QED BY <1>1, <2>1, <2>2
<1>3. Copy(s, file[req[s].box]) => Copy(s, file[req[s].box])'
  BY <1>1, <1>2 DEF Copy
<1> QED BY <1>1, <1>3, FilesLocal

LEMMA ChangeFiles ==
  ASSUME TypeOK, Inductive, Files, NEW s \in Session, Change(s)
  PROVE  Files'
<1>1. /\ pc[s] = "parse" /\ pc'[s] = "open" /\ mails'[s] = Updated(req[s], mails[s])
      /\ UNCHANGED <<file, req, mixed, overlapped, buf, off, reply>>
      /\ \A t \in Session \ {s} : pc'[t] = pc[t] /\ mails'[t] = mails[t]
      /\ mails[s] \in Seq(Mail) /\ req[s] \in Request
  BY DEF Change, TypeOK, history
<1>2. req[s].op = "SEND" => req[s].mail \in PlainMail
  BY DEF Inductive, Tidy
<1>3. mails[s] \in Seq(PlainMail) => mails'[s] \in Seq(PlainMail)
  BY <1>1, <1>2, UpdatedPlain
<1>4. req[s].op = "SEND" => mails'[s] # <<>> /\ mails'[s][Len(mails'[s])] = req[s].mail
  <2> HAVE req[s].op = "SEND"
  <2>1. mails'[s] = Append(mails[s], req[s].mail) /\ req[s].mail \in Mail
    BY <1>1 DEF Updated, Request
  <2> QED BY <1>1, <2>1, AppendProperties
<1>5. Copy(s, file[req[s].box]) => Copy(s, file[req[s].box])'
  BY <1>1, <1>3, <1>4 DEF Copy
<1> QED BY <1>1, <1>5, FilesLocal

\* The truncated file is the beginning of anything.
LEMMA OpenForWriteFiles ==
  ASSUME TypeOK, Inductive, Files, NEW s \in Session, OpenForWrite(s)
  PROVE  Files'
<1>1. PICK g : g = <<>>
  OBVIOUS
<1>2. /\ pc[s] = "open" /\ pc'[s] = "write" /\ file' = [file EXCEPT ![req[s].box] = g]
      /\ UNCHANGED <<req, mixed, overlapped, mails, buf, off, reply>>
      /\ \A t \in Session \ {s} : pc'[t] = pc[t]
  BY <1>1 DEF OpenForWrite, TypeOK, history
<1>3. buf[s] = <<>> /\ off[s] = 0
  BY <1>2 DEF Inductive, Tidy
<1>4. Len(g) = 0 /\ Cut(g) /\ Whole(SubSeq(g, 1, 0) \o <<>>)
  <2>1. SubSeq(g, 1, 0) \o <<>> = <<>>
    BY <1>1
  <2> QED BY <1>1, <2>1, CutNothing
<1>5. Copy(s, file[req[s].box]) => Copy(s, g)'
  BY <1>2, <1>3, <1>4 DEF Copy, AtEnd
<1> QED BY <1>2, <1>4, <1>5, FilesWrite

\* The stream gets the lines of the next mail.
LEMMA PutMailFiles ==
  ASSUME TypeOK, Files, NEW s \in Session, PutMail(s)
  PROVE  Files'
<1>1. /\ pc[s] = "write" /\ mails[s] # <<>> /\ mails[s] \in Seq(Mail) /\ buf[s] \in Seq(Line)
      /\ buf'[s] = buf[s] \o MailLines(Head(mails[s])) /\ mails'[s] = Tail(mails[s])
      /\ UNCHANGED <<file, req, mixed, overlapped, pc, off, reply>>
      /\ \A t \in Session \ {s} : mails'[t] = mails[t] /\ buf'[t] = buf[t]
      /\ file[req[s].box] \in Seq(Line)
  BY DEF PutMail, TypeOK, history
<1>2. PICK m \in Mail : m = Head(mails[s])
  BY <1>1
<1>3. PICK f \in Seq(Line) : f = file[req[s].box]
  BY <1>1
<1>4. MailLines(m) \in Seq(Line)
  BY MailLinesType
<1>5. ASSUME Copy(s, f)
      PROVE  /\ AtEnd(s, f) /\ AtEnd(s, f)'
             /\ SubSeq(f, 1, off[s]) \o buf[s] \in Seq(Line)
             /\ SubSeq(f, 1, off[s]) \o buf'[s]
                  = (SubSeq(f, 1, off[s]) \o buf[s]) \o MailLines(m)
  <2>1. AtEnd(s, f)
    BY <1>1, <1>5 DEF Copy
  <2>2. buf[s] # <<>> => buf'[s] # <<>> /\ Head(buf'[s]) = Head(buf[s])
    <3>1. PICK l \in Seq(Line) : l = MailLines(m)
      BY <1>4
    <3>2. PICK b \in Seq(Line) : b = buf[s]
      BY <1>1
    <3>3. b # <<>> => b \o l # <<>> /\ Head(b \o l) = Head(b)
      OBVIOUS
    <3> QED BY <1>1, <1>2, <3>1, <3>2, <3>3
  <2>3. AtEnd(s, f)'
    BY <1>1, <2>1, <2>2 DEF AtEnd
  <2>4. PICK before \in Seq(Line) : before = SubSeq(f, 1, off[s])
    <3>1. off[s] \in Nat /\ off[s] <= Len(f)
      BY <2>1 DEF AtEnd, TypeOK
    <3> QED BY <3>1, PrefixType
  <2>5. (before \o buf[s]) \o MailLines(m) = before \o (buf[s] \o MailLines(m))
    BY <1>1, <1>4, JoinAssociative
  <2>6. before \o buf[s] \in Seq(Line)
    BY <1>1
  <2> QED BY <1>1, <1>2, <2>1, <2>3, <2>4, <2>5, <2>6
<1>6. ASSUME Copy(s, f), req[s].box \notin overlapped
      PROVE  mails'[s] \in Seq(PlainMail) /\ Whole(SubSeq(f, 1, off[s]) \o buf'[s])
  <2>1. mails[s] \in Seq(PlainMail) /\ Whole(SubSeq(f, 1, off[s]) \o buf[s])
    BY <1>1, <1>6 DEF Copy
  <2>2. m \in PlainMail /\ Tail(mails[s]) \in Seq(PlainMail)
    BY <1>1, <1>2, <2>1
  <2>3. Whole((SubSeq(f, 1, off[s]) \o buf[s]) \o MailLines(m))
    BY <1>5, <1>6, <2>1, <2>2, WholeGrows
  <2> QED BY <1>1, <1>5, <1>6, <2>2, <2>3
<1>7. ASSUME Copy(s, f), mails[s][Len(mails[s])] = req[s].mail
      PROVE  IF mails'[s] # <<>> THEN mails'[s][Len(mails'[s])] = req[s].mail
             ELSE EndsWith(SubSeq(f, 1, off[s]) \o buf'[s], req[s].mail)
  <2>1. /\ Len(mails[s]) \in Nat \ {0} /\ Len(mails'[s]) = Len(mails[s]) - 1
        /\ mails'[s] \in Seq(Mail)
        /\ \A i \in 1..Len(mails'[s]) : mails'[s][i] = mails[s][i + 1]
        /\ m = mails[s][1]
    BY <1>1, <1>2, HeadTailProperties
  <2>2. CASE mails'[s] # <<>>
    <3>1. Len(mails'[s]) \in 1..Len(mails'[s]) /\ Len(mails'[s]) + 1 = Len(mails[s])
      <4>1. Len(mails'[s]) \in Nat \ {0}
        BY <2>1, <2>2, EmptySeq
      <4>2. \A n \in Nat \ {0} : n \in 1..n
        OBVIOUS
      <4>3. \A n, k \in Nat \ {0} : n = k - 1 => n + 1 = k
        OBVIOUS
      <4> QED BY <2>1, <4>1, <4>2, <4>3
    <3> QED BY <1>7, <2>1, <2>2, <3>1
  <2>3. CASE mails'[s] = <<>>
    <3>1. Len(mails[s]) = 1
      BY <2>1, <2>3
    <3>2. m = req[s].mail
      BY <1>7, <2>1, <3>1
    <3> QED BY <1>5, <1>7, <2>3, <3>2 DEF EndsWith
  <2> QED BY <2>2, <2>3
<1>8. Copy(s, file[req[s].box]) => Copy(s, file[req[s].box])'
  BY <1>1, <1>3, <1>5, <1>6, <1>7 DEF Copy
<1> QED BY <1>1, <1>8, FilesLocal

\* The lines that go to the file are the ones that leave the stream.
LEMMA FlushFiles ==
  ASSUME TypeOK, Inductive, Files, NEW s \in Session, Flush(s)
  PROVE  Files'
<1>1. /\ pc[s] = "write" /\ off[s] \in Nat /\ buf[s] # <<>>
      /\ buf[s] \in Seq(Line) /\ file[req[s].box] \in Seq(Line)
      /\ UNCHANGED <<req, mixed, overlapped, pc, mails, reply>>
  BY DEF Flush, TypeOK, history
<1>2. PICK f \in Seq(Line) : f = file[req[s].box]
  BY <1>1
<1>3. PICK new \in Seq(Line), left \in Seq(Line) :
         /\ new \o left = buf[s] /\ Len(new) >= 1
         /\ file' = [file EXCEPT ![req[s].box] = Overwrite(@, off[s], new)]
         /\ off' = [off EXCEPT ![s] = @ + Len(new)]
         /\ buf' = [buf EXCEPT ![s] = left]
  BY FlushSplits
<1>4. PICK g \in Seq(Line) : g = Overwrite(f, off[s], new)
  BY <1>1, OverwriteType
<1>5. /\ file' = [file EXCEPT ![req[s].box] = g]
      /\ off'[s] = off[s] + Len(new) /\ buf'[s] = left
      /\ \A t \in Session \ {s} : off'[t] = off[t] /\ buf'[t] = buf[t]
  BY <1>2, <1>3, <1>4 DEF TypeOK
<1>6. ASSUME Copy(s, f)
      PROVE  /\ off'[s] = Len(g) /\ SubSeq(g, 1, off'[s]) = g
             /\ g \o left = SubSeq(f, 1, off[s]) \o buf[s]
  <2>1. off[s] <= Len(f) /\ Len(f) <= off[s] + Len(new)
    BY <1>1, <1>3, <1>6 DEF Copy, AtEnd
  <2>2. g = SubSeq(f, 1, off[s]) \o new /\ Len(g) = off[s] + Len(new)
    BY <1>1, <1>4, <2>1, OverwriteFrom, ZenonT(60)
  <2>3. SubSeq(g, 1, Len(g)) = g
    OBVIOUS
  <2>4. PICK before \in Seq(Line) : before = SubSeq(f, 1, off[s])
    BY <1>1, <2>1, PrefixType
  <2>5. (before \o new) \o left = before \o (new \o left)
    BY <1>3, <2>4, JoinAssociative, ZenonT(30)
  <2> QED BY <1>3, <1>5, <2>2, <2>3, <2>4, <2>5
<1>7. Copy(s, f) /\ req[s].box \notin overlapped => Cut(g)
  <2> HAVE Copy(s, f) /\ req[s].box \notin overlapped
  <2>1. Whole(SubSeq(f, 1, off[s]) \o buf[s])
    BY <1>1 DEF Copy
  <2>2. Whole(g \o left)
    BY <1>6, <2>1
  <2> QED BY <1>3, <2>2 DEF Cut, Begun
<1>8. Copy(s, f) => Copy(s, g)'
  <2> HAVE Copy(s, f)
  <2>1. AtEnd(s, g)'
    BY <1>6 DEF AtEnd
  <2> QED BY <1>1, <1>5, <1>6, <2>1 DEF Copy
<1> QED BY <1>1, <1>2, <1>5, <1>7, <1>8, FilesWrite

\* A part of a line goes to the file; the thread still holds the line.
LEMMA FlushPartFiles ==
  ASSUME TypeOK, Inductive, Files, NEW s \in Session, FlushPart(s)
  PROVE  Files'
<1>1. /\ pc[s] = "write" /\ off[s] \in Nat /\ buf[s] # <<>>
      /\ buf[s] \in Seq(Line) /\ file[req[s].box] \in Seq(Line)
      /\ UNCHANGED <<req, mixed, overlapped, pc, mails, buf, off, reply>>
  BY DEF FlushPart, TypeOK, thread, history
<1>2. PICK f \in Seq(Line) : f = file[req[s].box]
  BY <1>1
<1>3. Beginning[Head(buf[s])] \subseteq Line
  BY <1>1, StoreAssumption
<1>4. PICK part \in Line : /\ part \in Beginning[Head(buf[s])]
                           /\ file' = [file EXCEPT ![req[s].box] = Overwrite(@, off[s], <<part>>)]
  BY <1>3 DEF FlushPart
<1>5. PICK new \in Seq(Line) : new = <<part>> /\ Len(new) = 1
  <2>1. <<part>> \in Seq(Line) /\ Len(<<part>>) = 1
    OBVIOUS
  <2> QED BY <2>1
<1>6. PICK g \in Seq(Line) : g = Overwrite(f, off[s], new)
  BY <1>1, OverwriteType
<1>7. file' = [file EXCEPT ![req[s].box] = g]
  BY <1>1, <1>2, <1>4, <1>5, <1>6 DEF TypeOK
<1>8. ASSUME Copy(s, f)
      PROVE  /\ off[s] <= Len(f) /\ g = SubSeq(f, 1, off[s]) \o new
             /\ SubSeq(g, 1, off[s]) = SubSeq(f, 1, off[s]) /\ AtEnd(s, g)'
  <2>1. off[s] <= Len(f) /\ Len(f) <= off[s] + Len(new)
    BY <1>1, <1>5, <1>8 DEF Copy, AtEnd
  <2>2. /\ g = SubSeq(f, 1, off[s]) \o new /\ Len(g) = off[s] + 1
        /\ SubSeq(g, 1, off[s]) = SubSeq(f, 1, off[s])
    BY <1>1, <1>5, <1>6, <2>1, OverwriteFrom, ZenonT(60)
  <2>3. PICK before \in Seq(Line) : before = SubSeq(f, 1, off[s]) /\ Len(before) = off[s]
    BY <1>1, <2>1, PrefixType, ZenonT(60)
  <2>4. g[Len(g)] = part
    <3>1. PICK i \in Nat : i = off[s] + 1
      BY <1>1
    <3>2. i \in 1..Len(before) + Len(new) /\ ~ (i <= Len(before)) /\ i - Len(before) = 1
      BY <1>1, <1>5, <2>3, <3>1
    <3>3. (before \o new)[i] = IF i <= Len(before) THEN before[i] ELSE new[i - Len(before)]
      BY <3>2, ConcatProperties
    <3>4. new[1] = part
      BY <1>5
    <3>5. g = before \o new /\ Len(g) = i
      BY <2>2, <2>3, <3>1
    <3> QED BY <3>2, <3>3, <3>4, <3>5
  <2> QED BY <1>1, <1>4, <2>1, <2>2, <2>4 DEF AtEnd
<1>9. Copy(s, f) /\ req[s].box \notin overlapped => Cut(g)
  <2> HAVE Copy(s, f) /\ req[s].box \notin overlapped
  <2>1. Whole(SubSeq(f, 1, off[s]) \o buf[s])
    BY <1>1 DEF Copy
  <2>2. PICK before \in Seq(Line) : before = SubSeq(f, 1, off[s])
    BY <1>1, <1>8, PrefixType
  <2>3. Cut(before \o <<part>>)
    BY <1>1, <1>4, <2>1, <2>2, CutPart
  <2> QED BY <1>5, <1>8, <2>2, <2>3
<1>10. Copy(s, f) => Copy(s, g)'
  BY <1>1, <1>8 DEF Copy
<1> QED BY <1>1, <1>2, <1>7, <1>9, <1>10, FilesWrite

\* After the answer the thread holds nothing.
LEMMA ReplyFiles ==
  ASSUME TypeOK, Files, NEW s \in Session, Reply(s)
  PROVE  Files'
<1>1. /\ pc'[s] = "idle" /\ req'[s] = NoRequest /\ mixed' = mixed \ {s}
      /\ UNCHANGED <<file, mails, buf, off, overlapped>>
      /\ \A t \in Session \ {s} : pc'[t] = pc[t] /\ req'[t] = req[t] /\ reply'[t] = reply[t]
  BY DEF Reply, TypeOK
<1>2. req'[s].box \notin User
  BY <1>1, StoreAssumption DEF NoRequest
<1> QED BY <1>1, <1>2, FilesFrame DEF Files
-----------------------------------------------------------------------------
LEMMA NextFiles ==
  TypeOK /\ Inductive /\ Files /\ [Next]_vars => Files'
<1> SUFFICES ASSUME TypeOK, Inductive, Files, [Next]_vars PROVE Files'
  OBVIOUS
<1>1. ASSUME NEW s \in Session, Step(s) PROVE Files'
  BY <1>1, MoveFiles, FetchFiles, FetchEndFiles, ParseMailFiles, ChangeFiles,
     OpenForWriteFiles, PutMailFiles, FlushFiles, ReplyFiles, StopFiles
     DEF Step, ParseThrows, ReplyFails
<1>2. CASE Killed
  BY <1>2, StopFiles DEF Killed
<1>3. CASE Restart \/ UNCHANGED vars
  <2>1. UNCHANGED <<file, pc, req, mails, buf, off, reply, mixed, overlapped>>
    BY <1>3 DEF Restart, vars, thread, history
  <2>2. ASSUME NEW s \in Session, Copy(s, file[req[s].box])
        PROVE  Copy(s, file[req[s].box])'
    BY <2>1, <2>2 DEF Copy, AtEnd
  <2> QED BY <2>1, <2>2 DEF Files
<1> QED BY <1>1, <1>2, <1>3, ArriveFiles, FlushPartFiles DEF Next

LEMMA FilesInvariant ==
  ASSUME <<>> \notin Body
  PROVE  Spec => []Files
<1>1. Spec => []Inductive
  BY InductiveInvariant
<1> QED BY InitFiles, NextFiles, TypeInvariant, <1>1, PTL DEF Spec

\* What a thread parses of a mailbox that nothing disturbed throws nowhere.
LEMMA UndisturbedParse ==
  ASSUME TypeOK, Inductive, NEW s \in Session, Clean(s), pc[s] = "parse", buf[s] # <<>>
  PROVE  ~ EraseThrows(buf[s])
<1>1. PICK a \in Seq(PlainMail) : a = acked[req[s].box]
  BY CleanFile DEF InDoubt
<1>2. PICK k \in 0..Len(a) : Holds(buf[s], SubSeq(a, k + 1, Len(a)))
  BY <1>1 DEF Inductive, Progress
<1>3. buf[s] \in Seq(Line)
  BY DEF TypeOK
<1>4. PICK ms \in Seq(PlainMail) : ms = SubSeq(a, k + 1, Len(a))
  <2>1. \A i \in k+1..Len(a) : a[i] \in PlainMail
    OBVIOUS
  <2>2. SubSeq(a, k + 1, Len(a)) \in Seq(PlainMail)
    BY <2>1
  <2> QED BY <2>2
<1>5. ms # <<>>
  BY <1>2, <1>3, <1>4, HoldsNothing
<1> QED BY <1>2, <1>3, <1>4, <1>5, HoldsParse

(***************************************************************************)
(* What a crash or a full disk left of a mailbox can be read again, unless *)
(* changes of it overlapped, with the one exception of a dot that is all   *)
(* that was written of the first line of the last mail's content: there    *)
(* the erase that strips the last newline throws (Mails::Deserialize).     *)
(***************************************************************************)
THEOREM OnlyACutDotThrows ==
  ASSUME <<>> \notin Body
  PROVE  Spec => []OnlyCutDotThrows
<1>1. TypeOK /\ Inductive /\ Files => OnlyCutDotThrows
  <2> SUFFICES ASSUME TypeOK, Inductive, Files, NEW s \in Session,
                      pc[s] = "parse", buf[s] # <<>>, EraseThrows(buf[s]),
                      s \notin mixed, req[s].box \notin overlapped
               PROVE  /\ req[s].box \in torn
                      /\ Len(buf[s]) = 4 /\ \E line \in Line : Dot \in Beginning[line]
    BY DEF OnlyCutDotThrows
  <2>1. req[s].box \in User /\ buf[s] \in Seq(Line)
    BY DEF TypeOK
  <2>2. Cut(buf[s])
    BY <2>1 DEF Files, Copy
  <2>3. req[s].box \in torn
    <3> SUFFICES ASSUME req[s].box \notin torn PROVE FALSE
      OBVIOUS
    <3> QED BY <2>1, UndisturbedParse DEF Clean, Undisturbed
  <2> QED BY <2>1, <2>2, <2>3, CutParse
<1>2. Spec => []Inductive
  BY InductiveInvariant
<1> QED BY TypeInvariant, FilesInvariant, <1>1, <1>2, PTL

(***************************************************************************)
(* A SEND that no other change met and that is answered with OK has put    *)
(* its mail at the end of the file, whatever crashes and overlapping       *)
(* commands had left there before; as long as writes do not fail, which    *)
(* Mails::Serialize would not notice (Command::Send).                      *)
(***************************************************************************)
THEOREM SentMailIsInFile ==
  ASSUME <<>> \notin Body, "disk" \notin Fault
  PROVE  Spec => []SentMailIsLast
<1>1. TypeOK /\ Inductive /\ Files => SentMailIsLast
  <2> SUFFICES ASSUME TypeOK, Inductive, Files, NEW s \in Session,
                      pc[s] = "reply", req[s].op = "SEND", reply[s].ok, s \notin mixed
               PROVE  IsSuffix(MailLines(req[s].mail), file[req[s].box])
    BY DEF SentMailIsLast
  <2>1. req[s].box \in User /\ req[s].mail \in Mail
    BY DEF Inductive, Tidy, TypeOK, Request
  <2>2. EndsWith(file[req[s].box], req[s].mail)
    BY <2>1 DEF Files, Copy
  <2> QED BY <2>1, <2>2, EndsWithIsSuffix
<1>2. Spec => []Inductive
  BY InductiveInvariant
<1> QED BY TypeInvariant, FilesInvariant, <1>1, <1>2, PTL
=============================================================================
