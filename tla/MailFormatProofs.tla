-------------------------- MODULE MailFormatProofs --------------------------
(***************************************************************************)
(* Lemmas about the operators of MailFormat: their types, and that parsing *)
(* and appending keep the relation Holds between a file and its mails.     *)
(***************************************************************************)
EXTENDS MailFormat, SequenceTheorems, WellFoundedInduction, TLAPS

\* A non-empty set of natural numbers has a least element, which Min returns.
LEMMA MinOfNats ==
  ASSUME NEW S, S \subseteq Nat, S # {}
  PROVE  /\ Min(S) \in S
         /\ \A y \in S : Min(S) <= y
<1> DEFINE R == {ss \in Nat \X Nat : ss[1] < ss[2]}
<1>1. IsWellFoundedOn(R, Nat)
  BY NatLessThanWellFounded, Zenon DEF OpToRel
<1>2. \E x \in S : \A y \in S : ~ (<<y, x>> \in R)
  <2> HIDE DEF R
  <2> QED BY <1>1, WFMin
<1>3. PICK x \in S : \A y \in S : ~ (<<y, x>> \in R)
  BY <1>2
<1>4. \A y \in S : x <= y
  <2> SUFFICES ASSUME NEW y \in S PROVE ~ (y < x)
    OBVIOUS
  <2>1. ~ (<<y, x>> \in {ss \in Nat \X Nat : ss[1] < ss[2]})
    BY <1>3
  <2> QED BY <2>1
<1>5. QED
  BY <1>4 DEF Min

\* The end of the first content is a position after the headers, or the
\* position after the last line, and no line of the content is a dot.
LEMMA ContentEndIsFirstDot ==
  ASSUME NEW lines \in Seq(Line)
  PROVE  LET end == ContentEnd(lines)
         IN /\ end \in 1..Len(lines) + 1
            /\ end <= Len(lines) => end >= 4 /\ lines[end] = Dot
            /\ \A j \in 4..Len(lines) : lines[j] = Dot => end <= j
<1> DEFINE S == {j \in 4..Len(lines) : lines[j] = Dot} \cup {Len(lines) + 1}
<1>1. S \subseteq Nat /\ S # {} /\ \A j \in S : j <= Len(lines) + 1 /\ j >= 1
  OBVIOUS
<1>2. Min(S) \in S /\ \A y \in S : Min(S) <= y
  <2> HIDE DEF S
  <2> QED BY <1>1, MinOfNats
<1>3. ContentEnd(lines) = Min(S)
  BY DEF ContentEnd
<1> QED
  BY <1>2, <1>3

LEMMA MailLinesType ==
  ASSUME NEW m \in Mail
  PROVE  MailLines(m) \in Seq(Line)
BY DEF MailLines, Mail, Line

LEMMA FirstMailType ==
  ASSUME NEW lines \in Seq(Line)
  PROVE  /\ FirstMail(lines) \in Mail
         /\ OtherMails(lines) \in Seq(Line)
<1> DEFINE end == ContentEnd(lines)
<1>1. end \in Nat /\ end <= Len(lines) + 1 /\ (end <= Len(lines) => end >= 4)
  BY ContentEndIsFirstDot
<1>2. Empty \in Line
  BY DEF Line
<1>3. \A i \in 1..3 : HeaderLine(lines, i) \in Line
  BY <1>2 DEF HeaderLine
<1>4. OtherMails(lines) \in Seq(Line)
  BY <1>1 DEF OtherMails
<1>5. Append(SubSeq(lines, 4, Len(lines)), Empty) \in Seq(Line)
  BY <1>2
<1>6. end <= Len(lines) => SubSeq(lines, 4, end - 1) \in Seq(Line)
  BY <1>1
<1> HIDE DEF end
<1>7. FirstMail(lines) \in Mail
  BY <1>3, <1>5, <1>6 DEF FirstMail, Mail, end
<1> QED
  BY <1>4, <1>7

\* The lines of a mail by position.
LEMMA MailLinesShape ==
  ASSUME NEW m \in Mail
  PROVE  /\ MailLines(m) \in Seq(Line)
         /\ Len(m.content) \in Nat
         /\ Len(MailLines(m)) = Len(m.content) + 4
         /\ MailLines(m)[1] = m.sender
         /\ MailLines(m)[2] = m.receiver
         /\ MailLines(m)[3] = m.subject
         /\ \A i \in 1..Len(m.content) : MailLines(m)[3 + i] = m.content[i]
         /\ MailLines(m)[Len(m.content) + 4] = Dot
<1> DEFINE head == <<m.sender, m.receiver, m.subject>>
           body == m.content
           both == head \o body
<1>1. body \in Seq(Line) /\ Dot \in Line
  BY DEF Mail, Line
<1>2. /\ head \in Seq(Line) /\ Len(head) = 3
      /\ head[1] = m.sender /\ head[2] = m.receiver /\ head[3] = m.subject
  BY DEF Mail
<1>0. MailLines(m) = both \o <<Dot>>
  BY DEF MailLines
<1> HIDE DEF head, body
<1>3. /\ both \in Seq(Line) /\ Len(both) = 3 + Len(body)
      /\ \A i \in 1..3 + Len(body) :
           both[i] = IF i <= 3 THEN head[i] ELSE body[i - 3]
  <2>1. /\ both \in Seq(Line) /\ Len(both) = Len(head) + Len(body)
        /\ \A i \in 1..Len(head) + Len(body) :
             both[i] = IF i <= Len(head) THEN head[i] ELSE body[i - Len(head)]
    BY <1>1, <1>2, ConcatProperties, Zenon
  <2> QED BY <1>2, <2>1
<1>4. Len(body) \in Nat
  BY <1>1
<1> HIDE DEF both
<1>5. /\ MailLines(m) \in Seq(Line)
      /\ Len(MailLines(m)) = Len(both) + 1
      /\ \A i \in 1..Len(both) : MailLines(m)[i] = both[i]
      /\ MailLines(m)[Len(both) + 1] = Dot
  BY <1>0, <1>1, <1>3
<1>6. \A i \in 1..Len(body) : MailLines(m)[3 + i] = body[i]
  <2> TAKE i \in 1..Len(body)
  <2>1. 3 + i \in 1..Len(both) /\ 3 + i - 3 = i /\ ~ (3 + i <= 3)
    BY <1>3, <1>4
  <2>2. MailLines(m)[3 + i] = both[3 + i]
    BY <1>5, <2>1
  <2>3. both[3 + i] = body[3 + i - 3]
    BY <1>3, <2>1
  <2> QED BY <2>1, <2>2, <2>3
<1>7. \A i \in 1..3 : MailLines(m)[i] = head[i]
  BY <1>3, <1>4, <1>5
<1> QED
  BY <1>2, <1>3, <1>4, <1>5, <1>6, <1>7 DEF body

\* An empty file holds no mails, and only an empty file does.
LEMMA HoldsNothing ==
  /\ Holds(<<>>, <<>>)
  /\ \A lines \in Seq(Line) : Holds(lines, <<>>) => lines = <<>>
<1>1. Holds(<<>>, <<>>)
  <2> DEFINE end == [i \in 0..0 |-> 0]
  <2>1. /\ end \in [0..Len(<<>>) -> {0} \cup {j \in 1..Len(<<>>) : <<>>[j] = Dot}]
        /\ end[0] = 0
        /\ end[Len(<<>>)] = Len(<<>>)
        /\ 1..Len(<<>>) = {}
    OBVIOUS
  <2> HIDE DEF end
  <2> QED BY <2>1 DEF Holds
<1>2. ASSUME NEW lines \in Seq(Line), Holds(lines, <<>>)
      PROVE  lines = <<>>
  <2>1. Len(lines) = 0
    BY <1>2 DEF Holds
  <2> QED BY <2>1
<1> QED BY <1>1, <1>2

\* What follows the first of two sequences is the second.
LEMMA SubSeqAfter ==
  ASSUME NEW S, NEW s \in Seq(S), NEW t \in Seq(S), t # <<>>
  PROVE  SubSeq(s \o t, Len(s) + 1, Len(s \o t)) = t
<1>1. Len(s \o t) = Len(s) + Len(t) /\ Len(s) \in Nat /\ Len(t) \in Nat \ {0}
  OBVIOUS
<1>2. SubSeq(s \o t, Len(s) + 1, Len(s) + Len(t))
        = SubSeq(t, Len(s) + 1 - Len(s), Len(s) + Len(t) - Len(s))
  <2>1. /\ Len(s) + 1 \in Len(s) + 1 .. Len(s) + Len(t)
        /\ Len(s) + Len(t) \in Len(s) + 1 .. Len(s) + Len(t)
    BY <1>1
  <2> QED BY <2>1, SubSeqOfConcat2
<1>3. SubSeq(t, 1, Len(t)) = t
  BY SubSeqFull
<1> QED
  BY <1>1, <1>2, <1>3

\* Writing a mail after the others.
LEMMA HoldsAppend ==
  ASSUME NEW lines \in Seq(Line), NEW ms \in Seq(Mail), NEW m \in Mail,
         Holds(lines, ms)
  PROVE  Holds(lines \o MailLines(m), Append(ms, m))
<1> DEFINE new == MailLines(m)
           all == lines \o new
           n == Len(ms)
<1>1. PICK end \in [0..n -> {0} \cup {j \in 1..Len(lines) : lines[j] = Dot}] :
        /\ end[0] = 0
        /\ end[n] = Len(lines)
        /\ \A i \in 1..n :
             /\ \A j \in 0..i-1 : end[j] < end[i]
             /\ SubSeq(lines, end[i-1] + 1, end[i]) = MailLines(ms[i])
  BY DEF Holds
<1>2. new \in Seq(Line) /\ Len(new) \in Nat /\ Len(new) > 0 /\ new[Len(new)] = Dot
  <2>1. /\ new \in Seq(Line) /\ Len(m.content) \in Nat
        /\ Len(new) = Len(m.content) + 4 /\ new[Len(m.content) + 4] = Dot
    BY MailLinesShape
  <2> QED BY <2>1
<1> HIDE DEF new
<1>3. /\ all \in Seq(Line) /\ Len(all) = Len(lines) + Len(new)
      /\ \A j \in 1..Len(lines) : all[j] = lines[j]
      /\ \A j \in 1..Len(new) : all[Len(lines) + j] = new[j]
  BY <1>2
<1>4. n \in Nat /\ Len(lines) \in Nat /\ Len(Append(ms, m)) = n + 1
  OBVIOUS
<1>5. \A i \in 0..n : end[i] \in 0..Len(lines)
  <2> HIDE DEF n
  <2> QED BY <1>1, <1>4
<1> DEFINE end2 == [i \in 0..n+1 |-> IF i <= n THEN end[i] ELSE Len(all)]
<1>6. end2 \in [0..n+1 -> {0} \cup {j \in 1..Len(all) : all[j] = Dot}]
  <2>1. Len(all) \in 1..Len(all) /\ all[Len(all)] = Dot
    BY <1>2, <1>3, <1>4
  <2> HIDE DEF all, n
  <2>2. ASSUME NEW i \in 0..n
        PROVE  end[i] \in {0} \cup {j \in 1..Len(all) : all[j] = Dot}
    <3>1. end[i] \in {0} \cup {j \in 1..Len(lines) : lines[j] = Dot}
      BY <1>1
    <3> QED BY <3>1, <1>2, <1>3, <1>4
  <2> QED BY <2>1, <2>2, <1>4
<1>7. \A i \in 1..n+1 :
        /\ \A j \in 0..i-1 : end2[j] < end2[i]
        /\ SubSeq(all, end2[i-1] + 1, end2[i]) = MailLines(Append(ms, m)[i])
  <2> TAKE i \in 1..n+1
  <2>1. CASE i <= n
    <3>1. end2[i-1] = end[i-1] /\ end2[i] = end[i] /\ i \in 1..n
      BY <2>1, <1>4
    <3>2. Append(ms, m)[i] = ms[i]
      BY <2>1, <1>4
    <3>3. SubSeq(all, end[i-1] + 1, end[i]) = SubSeq(lines, end[i-1] + 1, end[i])
      <4>1. end[i-1] + 1 \in 1..Len(lines) /\ end[i] \in 1..Len(lines)
        <5>1. end[i-1] \in 0..Len(lines) /\ end[i] \in 0..Len(lines)
          BY <1>5, <3>1, <1>4
        <5>2. end[i-1] < end[i]
          BY <1>1, <3>1, <1>4
        <5> QED BY <5>1, <5>2
      <4> QED BY <4>1, <1>2, SubSeqOfConcat1
    <3>4. /\ SubSeq(lines, end[i-1] + 1, end[i]) = MailLines(ms[i])
          /\ \A j \in 0..i-1 : end[j] < end[i] /\ end2[j] = end[j]
      BY <1>1, <3>1, <1>4
    <3> HIDE DEF all, end2, n
    <3> QED BY <3>1, <3>2, <3>3, <3>4
  <2>2. CASE i = n + 1
    <3>1. end2[i-1] = Len(lines) /\ end2[i] = Len(all)
      BY <2>2, <1>1, <1>4
    <3>2. Append(ms, m)[i] = m
      BY <2>2, <1>4
    <3>3. SubSeq(all, Len(lines) + 1, Len(all)) = new
      BY <1>2, <1>3, <1>4, SubSeqAfter
    <3>4. \A j \in 0..i-1 : end2[j] < Len(all)
      <4> TAKE j \in 0..i-1
      <4>1. j \in 0..n /\ end2[j] = end[j] /\ end[j] \in 0..Len(lines)
        BY <2>2, <1>4, <1>5
      <4>2. Len(lines) \in Nat /\ Len(lines) < Len(all) /\ Len(all) \in Nat
        BY <1>2, <1>3, <1>4
      <4> HIDE DEF all, end2
      <4> QED BY <4>1, <4>2
    <3>5. MailLines(Append(ms, m)[i]) = new
      BY <3>2 DEF new
    <3> HIDE DEF all, end2, n
    <3> QED BY <3>1, <3>3, <3>4, <3>5
  <2>3. i <= n \/ i = n + 1
    BY <1>4
  <2> HIDE DEF all, end2, n
  <2> QED BY <2>1, <2>2, <2>3, Zenon
<1>8. end2[0] = 0 /\ end2[n+1] = Len(all)
  BY <1>1, <1>4
<1> HIDE DEF end2, all
<1>9. Holds(all, Append(ms, m))
  BY <1>4, <1>6, <1>7, <1>8 DEF Holds
<1> QED BY <1>9 DEF all, new

\* A part of what is left of a sequence is a part of the sequence.
LEMMA SubSeqShift ==
  ASSUME NEW S, NEW s \in Seq(S), NEW e \in 0..Len(s),
         NEW a \in e..Len(s), NEW b \in e..Len(s), a <= b
  PROVE  SubSeq(SubSeq(s, e + 1, Len(s)), a - e + 1, b - e) = SubSeq(s, a + 1, b)
<1> DEFINE t == SubSeq(s, e + 1, Len(s))
           l == SubSeq(t, a - e + 1, b - e)
           r == SubSeq(s, a + 1, b)
<1>1. \A i \in e+1..Len(s) : s[i] \in S
  OBVIOUS
<1>2. /\ t \in Seq(S) /\ Len(t) = Len(s) - e
      /\ \A i \in 1..Len(s) - e : t[i] = s[e + i]
  BY <1>1
<1>3. \A i \in a+1..b : s[i] \in S
  OBVIOUS
<1>4. r \in Seq(S) /\ Len(r) = b - a /\ \A i \in 1..b-a : r[i] = s[a + i]
  BY <1>3
<1> HIDE DEF t, r
<1>5. \A i \in a-e+1..b-e : t[i] \in S
  BY <1>2
<1>6. l \in Seq(S) /\ Len(l) = b - a /\ \A i \in 1..b-a : l[i] = t[a - e + i]
  BY <1>5
<1>7. \A i \in 1..b-a : t[a - e + i] = s[a + i]
  <2> TAKE i \in 1..b-a
  <2>1. a - e + i \in 1..Len(s) - e /\ e + (a - e + i) = a + i
    OBVIOUS
  <2> QED BY <2>1, <1>2
<1> HIDE DEF l
<1>8. l = r
  BY <1>4, <1>6, <1>7, SeqEqual
<1> QED BY <1>8 DEF l, r, t

(***************************************************************************)
(* Reading the first mail: one turn of the loop in Deserialize takes the   *)
(* first of the mails off and leaves a text that holds the others.         *)
(***************************************************************************)
LEMMA HoldsParse ==
  ASSUME NEW lines \in Seq(Line), NEW ms \in Seq(PlainMail), ms # <<>>,
         Holds(lines, ms)
  PROVE  /\ lines # <<>>
         /\ ~ EraseThrows(lines)
         /\ FirstMail(lines) = Head(ms)
         /\ Holds(OtherMails(lines), Tail(ms))
<1> DEFINE n == Len(ms)
<1>1. PICK end \in [0..n -> {0} \cup {j \in 1..Len(lines) : lines[j] = Dot}] :
        /\ end[0] = 0
        /\ end[n] = Len(lines)
        /\ \A i \in 1..n :
             /\ \A j \in 0..i-1 : end[j] < end[i]
             /\ SubSeq(lines, end[i-1] + 1, end[i]) = MailLines(ms[i])
  BY DEF Holds
<1>2. n \in Nat \ {0} /\ Len(lines) \in Nat
  OBVIOUS
<1>3. PICK m \in PlainMail : m = ms[1] /\ m = Head(ms)
  BY <1>2
<1>4. m \in Mail /\ m.content \in Seq(Line) /\ Len(m.content) \in Nat \ {0}
      /\ \A i \in 1..Len(m.content) : m.content[i] # Dot
  <2>1. m \in Mail /\ m.content # <<>> /\ \A i \in 1..Len(m.content) : m.content[i] # Dot
    BY DEF PlainMail
  <2>2. m.content \in Seq(Line)
    BY <2>1 DEF Mail
  <2> QED BY <2>1, <2>2
<1> DEFINE k == Len(m.content)
           e == k + 4
<1> HIDE DEF n
<1>5. \A i \in 0..n : end[i] \in 0..Len(lines) /\ (end[i] # 0 => lines[end[i]] = Dot)
  BY <1>1, <1>2
<1>6. end[1] \in 1..Len(lines) /\ SubSeq(lines, 1, end[1]) = MailLines(m)
  <2>0. 1 \in 1..n /\ 0 \in 0..1-1 /\ 1 \in 0..n /\ 1 - 1 = 0
    BY <1>2
  <2>1. /\ end[0] < end[1]
        /\ SubSeq(lines, end[1-1] + 1, end[1]) = MailLines(ms[1])
    BY <2>0, <1>1
  <2>2. end[1] \in 0..Len(lines) /\ end[1] # 0
    BY <2>0, <2>1, <1>1, <1>5
  <2>3. SubSeq(lines, 0 + 1, end[1]) = MailLines(m)
    BY <2>0, <2>1, <1>1, <1>3
  <2> QED BY <2>2, <2>3, <1>2
<1>7. /\ Len(MailLines(m)) = e
      /\ MailLines(m)[1] = m.sender
      /\ MailLines(m)[2] = m.receiver
      /\ MailLines(m)[3] = m.subject
      /\ \A i \in 1..k : MailLines(m)[3 + i] = m.content[i]
      /\ MailLines(m)[e] = Dot
  BY <1>4, MailLinesShape
<1>8. end[1] = e /\ \A i \in 1..e : lines[i] = MailLines(m)[i]
  <2>1. Len(SubSeq(lines, 1, end[1])) = end[1]
    BY <1>6
  <2>2. \A i \in 1..end[1] : SubSeq(lines, 1, end[1])[i] = lines[i]
    BY <1>6
  <2> QED BY <2>1, <2>2, <1>6, <1>7
<1>9. k \in Nat \ {0} /\ e \in 5..Len(lines)
  BY <1>4, <1>6, <1>8
<1> HIDE DEF k, e
<1>10. /\ lines[1] = m.sender /\ lines[2] = m.receiver /\ lines[3] = m.subject
       /\ \A i \in 1..k : lines[3 + i] = m.content[i]
       /\ lines[e] = Dot
  BY <1>7, <1>8, <1>9 DEF e
<1>11. ContentEnd(lines) = e
  <2> DEFINE c == ContentEnd(lines)
  <2>1. /\ c \in 1..Len(lines) + 1
        /\ c <= Len(lines) => c >= 4 /\ lines[c] = Dot
        /\ \A j \in 4..Len(lines) : lines[j] = Dot => c <= j
    BY ContentEndIsFirstDot
  <2> HIDE DEF c
  <2>2. c <= e
    BY <2>1, <1>9, <1>10
  <2>3. ASSUME c < e PROVE FALSE
    <3>1. c - 3 \in 1..k /\ 3 + (c - 3) = c
      BY <2>1, <2>3, <1>9 DEF e
    <3>2. lines[c] = m.content[c - 3]
      BY <3>1, <1>10
    <3>3. lines[c] = Dot
      BY <2>1, <2>3, <1>9
    <3>4. m.content[c - 3] # Dot
      BY <3>1, <1>4 DEF k
    <3> QED BY <3>2, <3>3, <3>4
  <2> QED BY <2>1, <2>2, <2>3, <1>9 DEF c
<1>12. SubSeq(lines, 4, e - 1) = m.content
  <2>1. \A i \in 4..e-1 : lines[i] \in Line
    BY <1>9
  <2>2. /\ SubSeq(lines, 4, e - 1) \in Seq(Line)
        /\ Len(SubSeq(lines, 4, e - 1)) = k
        /\ \A i \in 1..k : SubSeq(lines, 4, e - 1)[i] = lines[4 + i - 1]
    BY <2>1, <1>9 DEF e
  <2>3. \A i \in 1..k : SubSeq(lines, 4, e - 1)[i] = m.content[i]
    <3> TAKE i \in 1..k
    <3>1. 4 + i - 1 = 3 + i
      BY <1>9
    <3> QED BY <3>1, <2>2, <1>10
  <2> QED BY <2>2, <2>3, <1>4, SeqEqual DEF k
<1>13. FirstMail(lines) = m
  <2>1. FirstMail(lines) = [sender |-> m.sender, receiver |-> m.receiver,
                            subject |-> m.subject, content |-> m.content]
    <3>1. /\ HeaderLine(lines, 1) = m.sender
          /\ HeaderLine(lines, 2) = m.receiver
          /\ HeaderLine(lines, 3) = m.subject
      BY <1>9, <1>10 DEF HeaderLine
    <3>2. ContentEnd(lines) <= Len(lines)
          /\ SubSeq(lines, 4, ContentEnd(lines) - 1) = m.content
      BY <1>9, <1>11, <1>12
    <3> QED BY <3>1, <3>2 DEF FirstMail
  <2> QED BY <2>1, <1>4 DEF Mail
<1>14. ~ EraseThrows(lines)
  BY <1>4, <1>13 DEF EraseThrows
<1> DEFINE rest == OtherMails(lines)
<1>15. /\ rest = SubSeq(lines, e + 1, Len(lines))
       /\ rest \in Seq(Line)
       /\ Len(rest) = Len(lines) - e
       /\ \A j \in 1..Len(rest) : rest[j] = lines[e + j]
  <2>1. rest = SubSeq(lines, e + 1, Len(lines))
    BY <1>11 DEF OtherMails
  <2> HIDE DEF rest
  <2>2. \A i \in e+1..Len(lines) : lines[i] \in Line
    BY <1>9
  <2> QED BY <2>1, <2>2, <1>2, <1>9
<1> HIDE DEF rest
<1>16. Tail(ms) \in Seq(PlainMail) /\ Len(Tail(ms)) = n - 1
       /\ \A i \in 1..n-1 : Tail(ms)[i] = ms[i+1]
  BY DEF n
<1> DEFINE end2 == [i \in 0..n-1 |-> end[i+1] - e]
<1>17. \A i \in 0..n-1 : /\ i + 1 \in 0..n
                         /\ end[i+1] >= e
                         /\ end[i+1] \in 1..Len(lines)
                         /\ lines[end[i+1]] = Dot
  <2> TAKE i \in 0..n-1
  <2>1. i + 1 \in 1..n /\ 1 \in 1..n
    BY <1>2
  <2>2. i + 1 = 1 \/ 1 \in 0..(i+1)-1
    BY <2>1, <1>2
  <2>3. i + 1 = 1 \/ end[1] < end[i+1]
    BY <2>1, <2>2, <1>1
  <2>4. end[i+1] \in 0..Len(lines) /\ (end[i+1] # 0 => lines[end[i+1]] = Dot)
    BY <2>1, <1>5
  <2> QED BY <2>1, <2>3, <2>4, <1>8, <1>9
<1>18. end2 \in [0..n-1 -> {0} \cup {j \in 1..Len(rest) : rest[j] = Dot}]
  <2> SUFFICES ASSUME NEW i \in 0..n-1
               PROVE  end[i+1] - e \in {0} \cup {j \in 1..Len(rest) : rest[j] = Dot}
    OBVIOUS
  <2>1. end[i+1] \in 1..Len(lines) /\ end[i+1] >= e /\ lines[end[i+1]] = Dot
    BY <1>17
  <2>2. end[i+1] # e => end[i+1] - e \in 1..Len(rest) /\ e + (end[i+1] - e) = end[i+1]
    BY <2>1, <1>9, <1>15
  <2>3. CASE end[i+1] = e
    BY <2>3, <1>9
  <2>4. CASE end[i+1] # e
    <3>1. PICK j \in 1..Len(rest) : j = end[i+1] - e
      BY <2>2, <2>4
    <3>2. rest[j] = lines[e + j] /\ e + j = end[i+1]
      BY <1>15, <2>2, <2>4, <3>1
    <3> QED BY <2>1, <3>1, <3>2
  <2> QED BY <2>3, <2>4
<1>19. end2[0] = 0 /\ end2[n-1] = Len(rest)
  BY <1>1, <1>2, <1>8, <1>9, <1>15
<1>20. ASSUME NEW i \in 1..n-1
       PROVE  /\ \A j \in 0..i-1 : end2[j] < end2[i]
              /\ SubSeq(rest, end2[i-1] + 1, end2[i]) = MailLines(Tail(ms)[i])
  <2>1. i + 1 \in 1..n /\ i \in 0..n-1 /\ i - 1 \in 0..n-1 /\ (i - 1) + 1 = i /\ (i+1) - 1 = i
    BY <1>2
  <2>2. /\ \A j \in 0..i : end[j] < end[i+1]
        /\ SubSeq(lines, end[i] + 1, end[i+1]) = MailLines(ms[i+1])
    BY <2>1, <1>1
  <2>3. end2[i] = end[i+1] - e /\ end2[i-1] = end[i] - e
    BY <2>1
  <2>4. /\ end[i] \in 1..Len(lines) /\ end[i] >= e
        /\ end[i+1] \in 1..Len(lines) /\ end[i+1] >= e
    BY <2>1, <1>17
  <2>5. \A j \in 0..i-1 : end2[j] < end2[i]
    <3> TAKE j \in 0..i-1
    <3>1. j + 1 \in 0..i /\ j \in 0..n-1
      BY <1>2
    <3>2. end[j+1] < end[i+1] /\ end2[j] = end[j+1] - e /\ end[j+1] \in 1..Len(lines)
      BY <3>1, <2>2, <1>17
    <3> HIDE DEF end2
    <3> QED BY <3>2, <2>3, <2>4, <1>9
  <2>6. SubSeq(rest, end[i] - e + 1, end[i+1] - e) = SubSeq(lines, end[i] + 1, end[i+1])
    <3>1. end[i] <= end[i+1]
      BY <2>2, <2>4, <1>2
    <3>2. rest = SubSeq(lines, e + 1, Len(lines))
      BY <1>15
    <3>3. e \in 0..Len(lines) /\ end[i] \in e..Len(lines) /\ end[i+1] \in e..Len(lines)
      BY <2>4, <1>9
    <3> HIDE DEF rest
    <3> QED BY <3>1, <3>2, <3>3, SubSeqShift, Zenon
  <2>7. Tail(ms)[i] = ms[i+1]
    BY <1>16
  <2> HIDE DEF end2
  <2> QED BY <2>2, <2>3, <2>5, <2>6, <2>7
<1> HIDE DEF end2
<1>21. Holds(rest, Tail(ms))
  BY <1>16, <1>18, <1>19, <1>20 DEF Holds
<1>22. lines # <<>>
  BY <1>9
<1> QED
  BY <1>3, <1>13, <1>14, <1>21, <1>22 DEF rest
=============================================================================
