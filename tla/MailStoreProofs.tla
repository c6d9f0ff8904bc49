--------------------------- MODULE MailStoreProofs ---------------------------
(***************************************************************************)
(* Theorems about MailStore, for any number of sessions, users, bodies and *)
(* SENDs.  First its type invariant.  Then the steps between the arrival   *)
(* of a command and its answer preserve the inductive invariant Inductive: *)
(* the thread's copy of the mailbox is, step by step, the acknowledged     *)
(* mails, and so is the file it writes.  Last the arrival, the answer and  *)
(* the end of the process, and what follows: what clients were told stays  *)
(* true, AckedMailKept and TrueAnswers.                                    *)
(*                                                                         *)
(* One assumption limits those two to what the code can keep: no body is   *)
(* empty (Command::Send would store the closing dot as content).           *)
(***************************************************************************)
EXTENDS MailStore, MailFormatProofs

LEMMA LineTypes ==
  /\ User \subseteq Line /\ Subject \subseteq Line /\ Word \subseteq Line
  /\ Empty \in Line /\ Dot \in Line /\ Nul \in Line
BY DEF Line

LEMMA BlankMailType == BlankMail \in Mail /\ NoRequest \in Request
BY LineTypes DEF BlankMail, Mail, NoRequest, Request

\* Min and Max of two numbers.
LEMMA MinMaxOfTwo ==
  ASSUME NEW a \in Nat, NEW b \in Nat
  PROVE  /\ Min({a, b}) = IF a <= b THEN a ELSE b
         /\ Max({a, b}) = IF a <= b THEN b ELSE a
<1>1. \A x : x \in {a, b} /\ (\A y \in {a, b} : x <= y) <=> x = (IF a <= b THEN a ELSE b)
  OBVIOUS
<1>2. \A x : x \in {a, b} /\ (\A y \in {a, b} : x >= y) <=> x = (IF a <= b THEN b ELSE a)
  OBVIOUS
<1>3. Min({a, b}) = IF a <= b THEN a ELSE b
  BY <1>1 DEF Min
<1>4. Max({a, b}) = IF a <= b THEN b ELSE a
  BY <1>2 DEF Max
<1> QED BY <1>3, <1>4

LEMMA ReadTextType ==
  ASSUME NEW m \in Mail
  PROVE  ReadText(m) \in Seq(Line)
BY DEF ReadText, Mail

LEMMA RemoveAtType ==
  ASSUME NEW S, NEW seq \in Seq(S), NEW i \in 1..Len(seq)
  PROVE  RemoveAt(seq, i) \in Seq(S)
<1>1. SubSeq(seq, 1, i - 1) \in Seq(S) /\ SubSeq(seq, i + 1, Len(seq)) \in Seq(S)
  OBVIOUS
<1> QED BY <1>1 DEF RemoveAt

LEMMA UpdatedType ==
  ASSUME NEW q \in Request, NEW ms \in Seq(Mail)
  PROVE  Updated(q, ms) \in Seq(Mail)
<1>1. Append(ms, q.mail) \in Seq(Mail)
  BY DEF Request
<1>2. ValidIndex(q.index, ms) => RemoveAt(ms, q.index + 1) \in Seq(Mail)
  <2> HAVE ValidIndex(q.index, ms)
  <2>1. q.index + 1 \in 1..Len(ms)
    BY DEF ValidIndex, Request
  <2> QED BY <2>1, RemoveAtType
<1> QED BY <1>1, <1>2 DEF Updated

LEMMA AnswerType ==
  ASSUME NEW q \in Request, NEW ms \in Seq(Mail)
  PROVE  Answer(q, ms) \in [ok : BOOLEAN, lines : Seq(Line)]
<1>1. Refused \in [ok : BOOLEAN, lines : Seq(Line)]
      /\ Done \in [ok : BOOLEAN, lines : Seq(Line)]
  BY DEF Refused, Done
<1>2. [ok |-> ms # <<>>, lines |-> SubjectsOf(ms)] \in [ok : BOOLEAN, lines : Seq(Line)]
  <2>1. ASSUME NEW i \in 1..Len(ms) PROVE ms[i].subject \in Line
    <3>1. ms[i] \in Mail
      OBVIOUS
    <3> QED BY <3>1 DEF Mail
  <2>2. SubjectsOf(ms) \in Seq(Line)
    BY <2>1 DEF SubjectsOf
  <2> QED BY <2>2
<1>3. ValidIndex(q.index, ms)
        => [ok |-> TRUE, lines |-> ReadText(ms[q.index + 1])]
             \in [ok : BOOLEAN, lines : Seq(Line)]
  <2> HAVE ValidIndex(q.index, ms)
  <2>1. q.index + 1 \in 1..Len(ms)
    BY DEF ValidIndex, Request
  <2>2. ReadText(ms[q.index + 1]) \in Seq(Line)
    BY <2>1, ReadTextType
  <2> QED BY <2>2
<1>4. q.op \in {"none", "SEND", "READ", "LIST", "DEL"}
  BY DEF Request
<1> QED BY <1>1, <1>2, <1>3, <1>4 DEF Answer

LEMMA OverwriteType ==
  ASSUME NEW lines \in Seq(Line), NEW pos \in Nat, NEW new \in Seq(Line)
  PROVE  Overwrite(lines, pos, new) \in Seq(Line)
<1>1. Max({Len(lines), pos + Len(new)}) \in Nat
  <2>1. Len(lines) \in Nat /\ pos + Len(new) \in Nat
    OBVIOUS
  <2> QED BY <2>1, MinMaxOfTwo
<1>2. ASSUME NEW j \in 1..Max({Len(lines), pos + Len(new)})
      PROVE  (IF pos < j /\ j <= pos + Len(new) THEN new[j - pos]
              ELSE IF j <= Len(lines) THEN lines[j] ELSE Nul) \in Line
  <2>1. j \in Nat /\ j >= 1
    BY <1>1
  <2> QED BY <2>1, LineTypes
<1> DEFINE n == Max({Len(lines), pos + Len(new)})
           L(j) == IF pos < j /\ j <= pos + Len(new) THEN new[j - pos]
                   ELSE IF j <= Len(lines) THEN lines[j] ELSE Nul
<1>4. Overwrite(lines, pos, new) = [j \in 1..n |-> L(j)]
  BY DEF Overwrite
<1>5. \A j \in 1..n : L(j) \in Line
  BY <1>2
<1> HIDE DEF n, L
<1>6. [j \in 1..n |-> L(j)] \in Seq(Line)
  <2>1. n \in Nat
    BY <1>1 DEF n
  <2>2. [j \in 1..n |-> L(j)] \in [1..n -> Line]
    BY <1>5
  <2>3. [1..n -> Line] \subseteq Seq(Line)
    BY <2>1
  <2> QED BY <2>2, <2>3
<1> QED BY <1>4, <1>6

LEMMA StoredContentType ==
  ASSUME NEW body \in Body
  PROVE  StoredContent(body) \in Seq(Line)
<1>1. body \in Seq(Line)
  BY StoreAssumption, LineTypes
<1> QED BY <1>1, LineTypes DEF StoredContent
-----------------------------------------------------------------------------
LEMMA RequestType ==
  /\ \A u \in User, subject \in Subject, r \in User, body \in Body :
       [op |-> "SEND", box |-> r, index |-> 0,
        mail |-> [sender |-> u, receiver |-> r, subject |-> subject,
                  content |-> StoredContent(body)]] \in Request
  /\ \A op \in {"LIST", "READ", "DEL"}, u \in User, i \in Int :
       [op |-> op, box |-> u, mail |-> BlankMail, index |-> i] \in Request
<1>1. ASSUME NEW u \in User, NEW subject \in Subject, NEW r \in User, NEW body \in Body
      PROVE  [sender |-> u, receiver |-> r, subject |-> subject,
              content |-> StoredContent(body)] \in Mail
  BY LineTypes, StoredContentType DEF Mail
<1> QED
  BY <1>1, BlankMailType DEF Request

\* The program starts in a state of the right type.
LEMMA InitTypeOK == Init => TypeOK
BY BlankMailType DEF Init, TypeOK, Refused

LEMMA BeginTypeOK ==
  ASSUME TypeOK, NEW s \in Session, NEW q \in Request, q.box \in User,
         NEW step \in {"stat", "reply"}, Begin(s, q, step), sent' \in [User -> Nat]
  PROVE  TypeOK'
BY DEF TypeOK, Begin

\* What arrives at an idle session keeps the types.
LEMMA ArriveTypeOK ==
  ASSUME TypeOK, NEW s \in Session, Arrive(s)
  PROVE  TypeOK'
<1>1. ASSUME NEW u \in User, Login(s, u) PROVE TypeOK'
  BY <1>1 DEF Login, TypeOK, history
<1>2. ASSUME Quit(s) PROVE TypeOK'
  BY <1>2 DEF Quit, TypeOK, history
<1>3. ASSUME NEW r \in User, NEW subject \in Subject, NEW body \in Body,
             Send(s, r, subject, body)
      PROVE  TypeOK'
  <2> DEFINE q == [op |-> "SEND", box |-> r, index |-> 0,
                   mail |-> [sender |-> user[s], receiver |-> r, subject |-> subject,
                             content |-> StoredContent(body)]]
  <2>1. user[s] \in User
    BY <1>3 DEF Send, TypeOK
  <2>2. q \in Request /\ q.box \in User
    BY <2>1, RequestType
  <2>3. Begin(s, q, "stat") /\ sent' \in [User -> Nat]
    BY <1>3 DEF Send, TypeOK
  <2> HIDE DEF q
  <2> QED BY <2>2, <2>3, BeginTypeOK
<1>4. ASSUME Reject(s) PROVE TypeOK'
  BY <1>4 DEF Reject, TypeOK, history
<1>5. ASSUME NEW op \in {"LIST", "READ", "DEL"}, NEW i \in Int, Access(s, op, i)
      PROVE  TypeOK'
  <2> DEFINE q == [op |-> op, box |-> user[s], mail |-> BlankMail, index |-> i]
             step == IF user[s] \in exists THEN "stat" ELSE "reply"
  <2>1. user[s] \in User
    BY <1>5 DEF Access, TypeOK
  <2>2. q \in Request /\ q.box \in User /\ step \in {"stat", "reply"}
    BY <2>1, RequestType
  <2>3. Begin(s, q, step) /\ sent' \in [User -> Nat]
    BY <1>5 DEF Access, TypeOK
  <2> HIDE DEF q, step
  <2> QED BY <2>2, <2>3, BeginTypeOK
<1>6. Index \subseteq Int
  BY StoreAssumption
<1> QED
  BY <1>1, <1>2, <1>3, <1>4, <1>5, <1>6
     DEF Arrive, SendRejected, List, Read, Delete, AccessRejected

\* The end of the process keeps the types.
LEMMA StopTypeOK ==
  ASSUME TypeOK, Stop
  PROVE  TypeOK'
<1>1. /\ mails' \in [Session -> Seq(Mail)]
      /\ buf' \in [Session -> Seq(Line)]
      /\ reply' \in [Session -> [ok : BOOLEAN, lines : Seq(Line)]]
      /\ off' \in [Session -> Nat]
  BY DEF Stop, Refused
<1>2. /\ req' \in [Session -> Request]
      /\ user' \in [Session -> User \cup {NoUser}]
      /\ pc' \in [Session -> {"idle", "stat", "read", "parse", "open", "write", "reply"}]
      /\ \A s \in Session : pc'[s] \notin {"idle", "reply"} => req'[s].box \in User
  BY BlankMailType DEF Stop
<1>3. /\ up' \in BOOLEAN /\ mixed' \subseteq Session /\ torn' \subseteq User
      /\ file' = file /\ exists' = exists /\ sent' = sent /\ acked' = acked
      /\ overlapped' = overlapped
  BY DEF Stop, TypeOK
<1> QED BY <1>1, <1>2, <1>3 DEF TypeOK

\* Every step of a thread keeps the types.
LEMMA StepTypeOK ==
  ASSUME TypeOK, NEW s \in Session, Step(s)
  PROVE  TypeOK'
<1>1. ASSUME NoFile(s) PROVE TypeOK'
  BY <1>1 DEF NoFile, TypeOK, history
<1>2. ASSUME OpenForRead(s) PROVE TypeOK'
  BY <1>2 DEF OpenForRead, TypeOK, history
<1>3. ASSUME OpenFails(s) PROVE TypeOK'
  BY <1>3 DEF OpenFails, TypeOK, history
<1>4. ASSUME Fetch(s) PROVE TypeOK'
  <2> DEFINE f == file[req[s].box]
  <2>1. f \in Seq(Line) /\ off[s] \in Nat /\ off[s] < Len(f) /\ buf[s] \in Seq(Line)
    BY <1>4 DEF Fetch, TypeOK
  <2>2. PICK n \in Chunk : LET to == Min({off[s] + n, Len(f)})
           IN /\ buf' = [buf EXCEPT ![s] = @ \o SubSeq(f, off[s] + 1, to)]
              /\ off' = [off EXCEPT ![s] = to]
    BY <1>4 DEF Fetch
  <2> DEFINE to == Min({off[s] + n, Len(f)})
  <2>3. to \in 0..Len(f)
    <3>1. n \in Nat /\ off[s] + n \in Nat /\ Len(f) \in Nat
      BY <2>1, StoreAssumption
    <3> HIDE DEF f
    <3> QED BY <3>1, MinMaxOfTwo
  <2>4. buf' = [buf EXCEPT ![s] = buf[s] \o SubSeq(f, off[s] + 1, to)]
        /\ off' = [off EXCEPT ![s] = to]
    BY <2>2
  <2> HIDE DEF to, f
  <2>5. buf[s] \o SubSeq(f, off[s] + 1, to) \in Seq(Line)
    BY <2>1, <2>3
  <2>6. buf' \in [Session -> Seq(Line)] /\ off' \in [Session -> Nat]
    BY <2>3, <2>4, <2>5 DEF TypeOK
  <2> QED BY <1>4, <2>6 DEF Fetch, TypeOK, history
<1>5. ASSUME FetchEnd(s) PROVE TypeOK'
  BY <1>5 DEF FetchEnd, TypeOK, history
<1>6. ASSUME ParseMail(s) PROVE TypeOK'
  <2>1. FirstMail(buf[s]) \in Mail /\ OtherMails(buf[s]) \in Seq(Line)
    BY FirstMailType DEF TypeOK
  <2>2. Append(mails[s], FirstMail(buf[s])) \in Seq(Mail)
    BY <2>1 DEF TypeOK
  <2> QED BY <1>6, <2>1, <2>2 DEF ParseMail, TypeOK, history
<1>7. ASSUME Change(s) PROVE TypeOK'
  <2>1. Updated(req[s], mails[s]) \in Seq(Mail)
    BY UpdatedType DEF TypeOK
  <2> QED BY <1>7, <2>1 DEF Change, TypeOK, history
<1>8. ASSUME Look(s) PROVE TypeOK'
  <2>1. Answer(req[s], mails[s]) \in [ok : BOOLEAN, lines : Seq(Line)]
    BY AnswerType DEF TypeOK
  <2> QED BY <1>8, <2>1 DEF Look, TypeOK, history
<1>9. ASSUME OpenForWrite(s) PROVE TypeOK'
  <2>1. req[s].box \in User
    BY <1>9 DEF OpenForWrite, TypeOK
  <2>2. file' \in [User -> Seq(Line)] /\ exists' \subseteq User
    BY <1>9, <2>1 DEF OpenForWrite, TypeOK
  <2> QED BY <1>9, <2>1, <2>2 DEF OpenForWrite, TypeOK, history
<1>10. ASSUME PutMail(s) PROVE TypeOK'
  <2>1. Head(mails[s]) \in Mail /\ Tail(mails[s]) \in Seq(Mail)
    BY <1>10 DEF PutMail, TypeOK
  <2>2. buf[s] \o MailLines(Head(mails[s])) \in Seq(Line)
    BY <2>1, MailLinesType DEF TypeOK
  <2> QED BY <1>10, <2>1, <2>2 DEF PutMail, TypeOK, history
<1>11. ASSUME Flush(s) PROVE TypeOK'
  <2> DEFINE f == file[req[s].box]
             b == buf[s]
  <2>1. f \in Seq(Line) /\ off[s] \in Nat /\ b \in Seq(Line) /\ req[s].box \in User
    BY <1>11 DEF Flush, TypeOK
  <2>2. PICK n \in Chunk : LET k == Min({n, Len(b)})
           IN /\ file' = [file EXCEPT ![req[s].box] =
                            Overwrite(@, off[s], SubSeq(b, 1, k))]
              /\ off' = [off EXCEPT ![s] = @ + k]
              /\ buf' = [buf EXCEPT ![s] = SubSeq(@, k + 1, Len(@))]
    BY <1>11 DEF Flush
  <2> DEFINE k == Min({n, Len(b)})
  <2>3. k \in 0..Len(b)
    <3>1. n \in Nat /\ Len(b) \in Nat
      BY <2>1, StoreAssumption
    <3> HIDE DEF b
    <3> QED BY <3>1, MinMaxOfTwo
  <2>4. /\ file' = [file EXCEPT ![req[s].box] = Overwrite(f, off[s], SubSeq(b, 1, k))]
        /\ off' = [off EXCEPT ![s] = off[s] + k]
        /\ buf' = [buf EXCEPT ![s] = SubSeq(b, k + 1, Len(b))]
    BY <2>2
  <2> HIDE DEF k, f, b
  <2>5. SubSeq(b, 1, k) \in Seq(Line) /\ SubSeq(b, k + 1, Len(b)) \in Seq(Line)
    BY <2>1, <2>3
  <2>6. Overwrite(f, off[s], SubSeq(b, 1, k)) \in Seq(Line)
    BY <2>1, <2>5, OverwriteType
  <2>7. /\ file' \in [User -> Seq(Line)]
        /\ off' \in [Session -> Nat]
        /\ buf' \in [Session -> Seq(Line)]
    BY <2>1, <2>3, <2>4, <2>5, <2>6, SMTT(30) DEF TypeOK
  <2> QED BY <1>11, <2>7 DEF Flush, TypeOK, history
<1>12. ASSUME WriteFails(s) PROVE TypeOK'
  <2>1. req[s].box \in User
    BY <1>12 DEF WriteFails, TypeOK
  <2> QED BY <1>12, <2>1 DEF WriteFails, TypeOK
<1>13. ASSUME Close(s) PROVE TypeOK'
  BY <1>13 DEF Close, TypeOK, history, Done
<1>14. ASSUME Reply(s) PROVE TypeOK'
  <2>1. \A u \in User : Updated(req[s], acked[u]) \in Seq(Mail)
    BY UpdatedType DEF TypeOK
  <2> QED BY <1>14, <2>1, BlankMailType DEF Reply, TypeOK, Refused
<1>15. ASSUME Stop PROVE TypeOK'
  BY <1>15, StopTypeOK
<1> QED
  BY <1>1, <1>2, <1>3, <1>4, <1>5, <1>6, <1>7, <1>8, <1>9, <1>10, <1>11, <1>12,
     <1>13, <1>14, <1>15 DEF Step, ParseThrows, ReplyFails

LEMMA FlushPartTypeOK ==
  ASSUME TypeOK, NEW s \in Session, FlushPart(s)
  PROVE  TypeOK'
<1>1. /\ file[req[s].box] \in Seq(Line) /\ off[s] \in Nat /\ req[s].box \in User
      /\ buf[s] \in Seq(Line) /\ buf[s] # <<>>
  BY DEF FlushPart, TypeOK
<1>2. Beginning[Head(buf[s])] \subseteq Line
  BY <1>1, StoreAssumption
<1>3. PICK part \in Line :
        file' = [file EXCEPT ![req[s].box] = Overwrite(@, off[s], <<part>>)]
  BY <1>2 DEF FlushPart
<1>4. Overwrite(file[req[s].box], off[s], <<part>>) \in Seq(Line)
  <2>1. <<part>> \in Seq(Line)
    OBVIOUS
  <2> QED BY <1>1, <2>1, OverwriteType
<1>5. file' \in [User -> Seq(Line)]
  BY <1>1, <1>3, <1>4 DEF TypeOK
<1> QED BY <1>5 DEF FlushPart, TypeOK, thread, history

\* The types of all variables, in every state the server can reach.
THEOREM TypeInvariant == Spec => []TypeOK
<1>1. TypeOK /\ [Next]_vars => TypeOK'
  <2> SUFFICES ASSUME TypeOK, [Next]_vars PROVE TypeOK'
    OBVIOUS
  <2>1. ASSUME NEW s \in Session, Arrive(s) \/ Step(s) PROVE TypeOK'
    BY <2>1, ArriveTypeOK, StepTypeOK
  <2>2. CASE Killed
    BY <2>2, StopTypeOK DEF Killed
  <2>3. CASE Restart
    BY <2>3 DEF Restart, TypeOK, thread, history
  <2>4. CASE UNCHANGED vars
    BY <2>4 DEF vars, TypeOK, thread, history
  <2> QED BY <2>1, <2>2, <2>3, <2>4, FlushPartTypeOK DEF Next
<1> QED BY InitTypeOK, <1>1, PTL DEF Spec
-----------------------------------------------------------------------------
\* A step of one thread that leaves every file alone and does not change
\* whether the thread is in doubt about a mailbox: only what the thread itself
\* holds has to be looked at.
LEMMA LocalStep ==
  ASSUME TypeOK, Inductive, NEW s \in Session,
         UNCHANGED <<file, exists, req, acked, mixed, overlapped>>, torn \subseteq torn',
         \A t \in Session \ {s} : /\ pc'[t] = pc[t] /\ mails'[t] = mails[t]
                                  /\ buf'[t] = buf[t] /\ off'[t] = off[t]
                                  /\ reply'[t] = reply[t],
         Tidy(s)',
         req[s].op \in Rewriting => (InDoubt(s)' <=> InDoubt(s)),
         Clean(s) /\ Clean(s)' => Progress(s, file[req[s].box], acked[req[s].box])'
  PROVE  Inductive'
<1>1. \A t \in Session : Tidy(t)'
  <2> TAKE t \in Session
  <2>1. CASE t = s
    BY <2>1
  <2>2. CASE t # s
    <3>1. Tidy(t)
      BY DEF Inductive
    <3> QED BY <2>2, <3>1 DEF Tidy
  <2> QED BY <2>1, <2>2
<1>2. Alone'
  BY DEF Inductive, Alone, Rewrites
<1>3. \A t \in Session : req[t].op \in Rewriting => (InDoubt(t)' <=> InDoubt(t))
  BY DEF InDoubt
<1>4. \A u \in User : Quiet(u)' <=> Quiet(u)
  BY <1>3 DEF Quiet, Rewrites
<1>5. \A u \in User : Undisturbed(u)' => Settled(u)'
  BY <1>4 DEF Inductive, Undisturbed, Settled
<1>6. \A t \in Session : InDoubt(t)' /\ req'[t].op \in Rewriting => req'[t].box \in exists'
  BY <1>3 DEF Inductive
<1>7. ASSUME NEW t \in Session, Clean(t)'
      PROVE  Progress(t, file[req[t].box], acked[req[t].box])'
  <2>1. Clean(t)
    BY <1>7 DEF Clean, Undisturbed
  <2>2. CASE t = s
    BY <1>7, <2>1, <2>2
  <2>3. CASE t # s
    <3>1. Progress(t, file[req[t].box], acked[req[t].box])
      BY <2>1 DEF Inductive
    <3> QED BY <2>3, <3>1, SMTT(30) DEF Progress, AtEnd
  <2> QED BY <2>2, <2>3
<1> QED
  BY <1>1, <1>2, <1>5, <1>6, <1>7 DEF Inductive

\* A clean command of a mailbox nobody is in doubt about finds a file that
\* holds the acknowledged mails.
LEMMA CleanFile ==
  ASSUME TypeOK, Inductive, NEW s \in Session, Clean(s), ~ InDoubt(s)
  PROVE  /\ req[s].box \in User
         /\ acked[req[s].box] \in Seq(PlainMail)
         /\ Holds(file[req[s].box], acked[req[s].box])
         /\ req[s].box \notin exists => acked[req[s].box] = <<>>
<1>1. req[s].box \in User /\ Undisturbed(req[s].box) /\ s \notin mixed
  BY DEF Clean
<1>2. \A t \in Session : Rewrites(t, req[s].box) => t = s
  BY <1>1 DEF Inductive, Alone
<1>3. Quiet(req[s].box)
  BY <1>2 DEF Quiet
<1>4. Settled(req[s].box)
  BY <1>1 DEF Inductive
<1> QED BY <1>1, <1>3, <1>4 DEF Settled

LEMMA PlainIsMail == PlainMail \subseteq Mail /\ Seq(PlainMail) \subseteq Seq(Mail)
BY DEF PlainMail

LEMMA JoinAssociative ==
  \A x, y, z \in Seq(Line) : (x \o y) \o z = x \o (y \o z)
BY ConcatAssociative

\* A prefix and the element after it make the next longer prefix.
LEMMA PrefixType ==
  ASSUME NEW S, NEW s \in Seq(S), NEW n \in Nat, n <= Len(s)
  PROVE  /\ SubSeq(s, 1, n) \in Seq(S) /\ Len(SubSeq(s, 1, n)) = n
         /\ \A i \in 1..n : SubSeq(s, 1, n)[i] = s[i]
OBVIOUS

LEMMA SubSeqGrows ==
  ASSUME NEW S, NEW seq \in Seq(S), NEW k \in 0..Len(seq), k < Len(seq)
  PROVE  Append(SubSeq(seq, 1, k), seq[k+1]) = SubSeq(seq, 1, k + 1)
<1>1. SubSeq(seq, 1, k) \in Seq(S) /\ Len(SubSeq(seq, 1, k)) = k
      /\ \A i \in 1..k : SubSeq(seq, 1, k)[i] = seq[i]
  OBVIOUS
<1>2. SubSeq(seq, 1, k + 1) \in Seq(S) /\ Len(SubSeq(seq, 1, k + 1)) = k + 1
      /\ \A i \in 1..k+1 : SubSeq(seq, 1, k + 1)[i] = seq[i]
  OBVIOUS
<1> DEFINE l == Append(SubSeq(seq, 1, k), seq[k+1])
           r == SubSeq(seq, 1, k + 1)
<1>3. l \in Seq(S) /\ Len(l) = k + 1 /\ \A i \in 1..k+1 : l[i] = seq[i]
  BY <1>1
<1> HIDE DEF l
<1> QED BY <1>2, <1>3, SeqEqual DEF l

\* A suffix that does not start after the end is not empty.
LEMMA SuffixNotEmpty ==
  ASSUME NEW S, NEW seq \in Seq(S), NEW k \in 0..Len(seq), k < Len(seq)
  PROVE  /\ SubSeq(seq, k + 1, Len(seq)) \in Seq(S)
         /\ SubSeq(seq, k + 1, Len(seq)) # <<>>
<1> DEFINE rest == SubSeq(seq, k + 1, Len(seq))
<1>1. \A i \in k+1..Len(seq) : seq[i] \in S
  OBVIOUS
<1>2. rest \in Seq(S) /\ Len(rest) = Len(seq) - (k + 1) + 1
  BY <1>1
<1> HIDE DEF rest
<1>3. Len(rest) # 0
  BY <1>2
<1>4. rest \in Seq(S) /\ rest # <<>>
  BY <1>2, <1>3
<1> QED BY <1>4 DEF rest

\* What a command does to a mailbox of plain mails.
LEMMA UpdatedPlain ==
  ASSUME NEW q \in Request, NEW ms \in Seq(PlainMail),
         q.op = "SEND" => q.mail \in PlainMail
  PROVE  Updated(q, ms) \in Seq(PlainMail)
<1>1. q.op = "SEND" => Append(ms, q.mail) \in Seq(PlainMail)
  OBVIOUS
<1>2. ValidIndex(q.index, ms) => RemoveAt(ms, q.index + 1) \in Seq(PlainMail)
  <2> HAVE ValidIndex(q.index, ms)
  <2>1. q.index + 1 \in 1..Len(ms)
    BY DEF ValidIndex, Request
  <2> QED BY <2>1, RemoveAtType
<1> QED BY <1>1, <1>2 DEF Updated
-----------------------------------------------------------------------------
(* Mails::Deserialize.                                                     *)

LEMMA NoFileKeeps ==
  ASSUME TypeOK, Inductive, NEW s \in Session, NoFile(s)
  PROVE  Inductive'
<1>1. pc[s] = "stat" /\ pc' = [pc EXCEPT ![s] = "parse"] /\ pc'[s] = "parse"
  BY DEF NoFile, TypeOK
<1>2. UNCHANGED <<file, exists, req, acked, mixed, overlapped, torn, mails, buf, off, reply>>
  BY DEF NoFile, history
<1>3. Tidy(s)
  BY DEF Inductive
<1>4. Tidy(s)'
  BY <1>1, <1>2, <1>3 DEF Tidy
<1>5. ~ InDoubt(s) /\ ~ InDoubt(s)'
  BY <1>1 DEF InDoubt
<1>6. ASSUME Clean(s)
      PROVE  Progress(s, file[req[s].box], acked[req[s].box])'
  <2>1. acked[req[s].box] = <<>>
    BY <1>5, <1>6, CleanFile DEF NoFile
  <2>2. mails[s] = <<>> /\ buf[s] = <<>>
    BY <1>1, <1>3 DEF Tidy
  <2>3. SubSeq(acked[req[s].box], 1, 0) = <<>>
        /\ SubSeq(acked[req[s].box], 0 + 1, Len(acked[req[s].box])) = <<>>
        /\ 0 \in 0..Len(acked[req[s].box])
    BY <2>1
  <2> QED BY <1>1, <1>2, <2>2, <2>3, HoldsNothing DEF Progress
<1> QED
  BY <1>1, <1>2, <1>4, <1>5, <1>6, LocalStep DEF TypeOK

LEMMA OpenForReadKeeps ==
  ASSUME TypeOK, Inductive, NEW s \in Session, OpenForRead(s)
  PROVE  Inductive'
<1>1. pc[s] = "stat" /\ pc' = [pc EXCEPT ![s] = "read"] /\ pc'[s] = "read"
  BY DEF OpenForRead, TypeOK
<1>2. UNCHANGED <<file, exists, req, acked, mixed, overlapped, torn, mails, buf, off, reply>>
  BY DEF OpenForRead, history
<1>3. Tidy(s)
  BY DEF Inductive
<1>4. Tidy(s)'
  BY <1>1, <1>2, <1>3 DEF Tidy
<1>5. ~ InDoubt(s) /\ ~ InDoubt(s)'
  BY <1>1 DEF InDoubt
<1>6. ASSUME Clean(s)
      PROVE  Progress(s, file[req[s].box], acked[req[s].box])'
  <2>1. file[req[s].box] \in Seq(Line)
    BY <1>6 DEF Clean, TypeOK
  <2>2. off[s] = 0 /\ buf[s] = <<>>
    BY <1>1, <1>3 DEF Tidy
  <2>3. SubSeq(file[req[s].box], 1, 0) = <<>> /\ 0 <= Len(file[req[s].box])
    BY <2>1
  <2> QED BY <1>1, <1>2, <2>2, <2>3 DEF Progress
<1> QED
  BY <1>1, <1>2, <1>4, <1>5, <1>6, LocalStep DEF TypeOK

\* The file cannot be opened, and the mailbox is as it was.
LEMMA OpenFailsKeeps ==
  ASSUME TypeOK, Inductive, NEW s \in Session, OpenFails(s)
  PROVE  Inductive'
<1>1. pc[s] \in {"stat", "open"} /\ pc' = [pc EXCEPT ![s] = "reply"] /\ pc'[s] = "reply"
      /\ mails' = [mails EXCEPT ![s] = <<>>] /\ mails'[s] = <<>>
  BY DEF OpenFails, TypeOK
<1>2. UNCHANGED <<file, exists, req, acked, mixed, overlapped, torn, buf, off, reply>>
  BY DEF OpenFails, history
<1>3. Tidy(s)
  BY DEF Inductive
<1>4. Tidy(s)' /\ ~ reply[s].ok
  BY <1>1, <1>2, <1>3 DEF Tidy, Refused
<1>5. ~ InDoubt(s) /\ ~ InDoubt(s)'
  BY <1>1, <1>2, <1>4 DEF InDoubt
<1>6. ASSUME Clean(s)
      PROVE  Progress(s, file[req[s].box], acked[req[s].box])'
  BY <1>1, <1>2, <1>4 DEF Progress
<1> QED
  BY <1>1, <1>2, <1>4, <1>5, <1>6, LocalStep DEF TypeOK

\* What has been read so far is a prefix of the file.
LEMMA FetchKeeps ==
  ASSUME TypeOK, Inductive, NEW s \in Session, Fetch(s)
  PROVE  Inductive'
<1> DEFINE f == file[req[s].box]
<1>1. pc[s] = "read" /\ f \in Seq(Line) /\ off[s] \in Nat /\ off[s] < Len(f)
      /\ buf[s] \in Seq(Line)
  BY DEF Fetch, TypeOK
<1>2. PICK n \in Chunk : LET to == Min({off[s] + n, Len(f)})
         IN /\ buf' = [buf EXCEPT ![s] = @ \o SubSeq(f, off[s] + 1, to)]
            /\ off' = [off EXCEPT ![s] = to]
  BY DEF Fetch
<1> DEFINE to == Min({off[s] + n, Len(f)})
<1>3. to \in off[s]..Len(f)
  <2>1. n \in Nat /\ off[s] + n \in Nat /\ Len(f) \in Nat
    BY <1>1, StoreAssumption
  <2> HIDE DEF f
  <2> QED BY <1>1, <2>1, MinMaxOfTwo
<1>4. /\ buf' = [buf EXCEPT ![s] = buf[s] \o SubSeq(f, off[s] + 1, to)]
      /\ off' = [off EXCEPT ![s] = to]
      /\ UNCHANGED <<file, exists, req, acked, mixed, overlapped, torn, mails, pc, reply>>
  BY <1>2 DEF Fetch, history
<1>5. buf'[s] = buf[s] \o SubSeq(f, off[s] + 1, to) /\ off'[s] = to
  BY <1>4 DEF TypeOK
<1> HIDE DEF to
<1>6. Tidy(s)
  BY DEF Inductive
<1>7. Tidy(s)'
  BY <1>1, <1>4, <1>6 DEF Tidy
<1>8. InDoubt(s)' <=> InDoubt(s)
  BY <1>4 DEF InDoubt
<1>9. ASSUME Clean(s)
      PROVE  Progress(s, file[req[s].box], acked[req[s].box])'
  <2>1. off[s] <= Len(f) /\ buf[s] = SubSeq(f, 1, off[s])
    BY <1>1, <1>9 DEF Inductive, Progress
  <2>2. SubSeq(f, 1, off[s]) \o SubSeq(f, off[s] + 1, to) = SubSeq(f, 1, to)
    <3>1. 1 \in 1..Len(f)+1 /\ off[s] \in 1-1..Len(f) /\ to \in off[s]..Len(f)
      BY <1>1, <1>3
    <3> HIDE DEF f
    <3> QED BY <1>1, <3>1, ConcatAdjacentSubSeq
  <2>3. to <= Len(f)
    BY <1>1, <1>3
  <2> QED BY <1>1, <1>4, <1>5, <2>1, <2>2, <2>3 DEF Progress
<1> QED
  BY <1>4, <1>7, <1>8, <1>9, LocalStep DEF TypeOK

\* At the end of the file everything has been read.
LEMMA FetchEndKeeps ==
  ASSUME TypeOK, Inductive, NEW s \in Session, FetchEnd(s)
  PROVE  Inductive'
<1>1. pc[s] = "read" /\ pc' = [pc EXCEPT ![s] = "parse"] /\ pc'[s] = "parse"
      /\ off' = [off EXCEPT ![s] = 0] /\ off'[s] = 0
  BY DEF FetchEnd, TypeOK
<1>2. UNCHANGED <<file, exists, req, acked, mixed, overlapped, torn, mails, buf, reply>>
  BY DEF FetchEnd, history
<1>3. Tidy(s)
  BY DEF Inductive
<1>4. Tidy(s)' /\ mails[s] = <<>>
  BY <1>1, <1>2, <1>3 DEF Tidy
<1>5. ~ InDoubt(s) /\ ~ InDoubt(s)'
  BY <1>1 DEF InDoubt
<1>6. ASSUME Clean(s)
      PROVE  Progress(s, file[req[s].box], acked[req[s].box])'
  <2> DEFINE f == file[req[s].box]
             a == acked[req[s].box]
  <2>1. f \in Seq(Line) /\ a \in Seq(PlainMail) /\ Holds(f, a) /\ off[s] \in Nat
    BY <1>5, <1>6, CleanFile DEF TypeOK
  <2>2. off[s] <= Len(f) /\ buf[s] = SubSeq(f, 1, off[s]) /\ off[s] >= Len(f)
    BY <1>1, <1>6 DEF Inductive, Progress, FetchEnd
  <2> HIDE DEF f, a
  <2>3. buf[s] = f
    BY <2>1, <2>2
  <2>4. mails[s] = SubSeq(a, 1, 0) /\ a = SubSeq(a, 0 + 1, Len(a)) /\ 0 \in 0..Len(a)
    BY <1>4, <2>1
  <2>5. \E k \in 0..Len(a) : mails[s] = SubSeq(a, 1, k)
                             /\ Holds(buf[s], SubSeq(a, k + 1, Len(a)))
    BY <2>1, <2>3, <2>4
  <2> QED BY <1>1, <1>2, <2>5 DEF Progress, f, a
<1> QED
  BY <1>1, <1>2, <1>4, <1>5, <1>6, LocalStep DEF TypeOK

\* The copy grows by the next of the acknowledged mails.
LEMMA ParseMailKeeps ==
  ASSUME TypeOK, Inductive, NEW s \in Session, ParseMail(s)
  PROVE  Inductive'
<1>1. /\ pc[s] = "parse" /\ buf[s] # <<>> /\ buf[s] \in Seq(Line)
      /\ mails' = [mails EXCEPT ![s] = Append(mails[s], FirstMail(buf[s]))]
      /\ mails'[s] = Append(mails[s], FirstMail(buf[s]))
      /\ buf' = [buf EXCEPT ![s] = OtherMails(buf[s])]
      /\ buf'[s] = OtherMails(buf[s])
  BY DEF ParseMail, TypeOK
<1>2. UNCHANGED <<file, exists, req, acked, mixed, overlapped, torn, pc, off, reply>>
  BY DEF ParseMail, history
<1>3. Tidy(s)
  BY DEF Inductive
<1>4. Tidy(s)'
  BY <1>1, <1>2, <1>3 DEF Tidy
<1>5. ~ InDoubt(s) /\ ~ InDoubt(s)'
  BY <1>1, <1>2 DEF InDoubt
<1>6. ASSUME Clean(s)
      PROVE  Progress(s, file[req[s].box], acked[req[s].box])'
  <2> DEFINE a == acked[req[s].box]
  <2>1. a \in Seq(PlainMail)
    BY <1>5, <1>6, CleanFile
  <2>2. PICK k \in 0..Len(a) : /\ mails[s] = SubSeq(a, 1, k)
                               /\ Holds(buf[s], SubSeq(a, k + 1, Len(a)))
    BY <1>1, <1>6 DEF Inductive, Progress
  <2> HIDE DEF a
  <2>3. k < Len(a)
    <3>1. SUFFICES ASSUME k = Len(a) PROVE FALSE
      BY <2>1
    <3>2. SubSeq(a, k + 1, Len(a)) = <<>>
      BY <2>1, <3>1
    <3> QED BY <1>1, <2>2, <3>2, HoldsNothing
  <2> DEFINE rest == SubSeq(a, k + 1, Len(a))
  <2>4. rest \in Seq(PlainMail) /\ rest # <<>> /\ Head(rest) = a[k+1]
        /\ Tail(rest) = SubSeq(a, (k + 1) + 1, Len(a))
    <3>1. k + 1 \in 1..Len(a) /\ Len(a) \in k+1..Len(a)
      BY <2>1, <2>3
    <3>2. Head(rest) = a[k+1] /\ Tail(rest) = SubSeq(a, (k + 1) + 1, Len(a))
      BY <2>1, <3>1, HeadTailOfSubSeq
    <3>3. rest \in Seq(PlainMail) /\ rest # <<>>
      BY <2>1, <2>3, SuffixNotEmpty
    <3> QED BY <3>2, <3>3
  <2> HIDE DEF rest
  <2>5. FirstMail(buf[s]) = a[k+1] /\ Holds(OtherMails(buf[s]), SubSeq(a, (k + 1) + 1, Len(a)))
    BY <1>1, <2>2, <2>4, HoldsParse DEF rest
  <2>6. Append(SubSeq(a, 1, k), a[k+1]) = SubSeq(a, 1, k + 1)
    BY <2>1, <2>3, SubSeqGrows
  <2>7. k + 1 \in 0..Len(a)
    BY <2>1, <2>3
  <2>8. \E j \in 0..Len(a) : /\ mails'[s] = SubSeq(a, 1, j)
                             /\ Holds(buf'[s], SubSeq(a, j + 1, Len(a)))
    BY <1>1, <2>2, <2>5, <2>6, <2>7
  <2> QED BY <1>1, <1>2, <2>8 DEF Progress, a
<1> QED
  BY <1>1, <1>2, <1>4, <1>5, <1>6, LocalStep DEF TypeOK
-----------------------------------------------------------------------------
(* The command, and Mails::Serialize.                                      *)

\* Once the whole file has been parsed the copy is the acknowledged mails.
LEMMA CopyComplete ==
  ASSUME TypeOK, Inductive, NEW s \in Session, Clean(s), pc[s] = "parse", buf[s] = <<>>
  PROVE  /\ acked[req[s].box] \in Seq(PlainMail)
         /\ mails[s] = acked[req[s].box]
<1> DEFINE a == acked[req[s].box]
<1>1. a \in Seq(PlainMail)
  BY CleanFile DEF InDoubt
<1>2. PICK k \in 0..Len(a) : /\ mails[s] = SubSeq(a, 1, k)
                             /\ Holds(<<>>, SubSeq(a, k + 1, Len(a)))
  BY DEF Inductive, Progress
<1> HIDE DEF a
<1>3. k = Len(a)
  <2> SUFFICES ASSUME k < Len(a) PROVE FALSE
    BY <1>1
  <2>1. SubSeq(a, k + 1, Len(a)) \in Seq(PlainMail) /\ SubSeq(a, k + 1, Len(a)) # <<>>
    BY <1>1, SuffixNotEmpty
  <2>2. <<>> \in Seq(Line)
    OBVIOUS
  <2> QED BY <1>2, <2>1, <2>2, HoldsParse
<1>4. SubSeq(a, 1, Len(a)) = a
  BY <1>1
<1> QED BY <1>1, <1>2, <1>3, <1>4 DEF a

LEMMA ChangeKeeps ==
  ASSUME TypeOK, Inductive, NEW s \in Session, Change(s)
  PROVE  Inductive'
<1>1. pc[s] = "parse" /\ pc' = [pc EXCEPT ![s] = "open"] /\ pc'[s] = "open"
      /\ buf[s] = <<>> /\ req[s].op \in Rewriting
      /\ mails' = [mails EXCEPT ![s] = Updated(req[s], mails[s])]
      /\ mails'[s] = Updated(req[s], mails[s])
  BY DEF Change, TypeOK
<1>2. UNCHANGED <<file, exists, req, acked, mixed, overlapped, torn, buf, off, reply>>
  BY DEF Change, history
<1>3. Tidy(s)
  BY DEF Inductive
<1>4. Tidy(s)'
  BY <1>1, <1>2, <1>3 DEF Tidy
<1>5. ~ InDoubt(s) /\ ~ InDoubt(s)'
  BY <1>1 DEF InDoubt
<1>6. ASSUME Clean(s)
      PROVE  Progress(s, file[req[s].box], acked[req[s].box])'
  <2>1. mails[s] = acked[req[s].box]
    BY <1>1, <1>6, CopyComplete
  <2> QED BY <1>1, <1>2, <2>1 DEF Progress
<1> QED
  BY <1>1, <1>2, <1>4, <1>5, <1>6, LocalStep DEF TypeOK

\* The answer of a READ or a LIST comes from the acknowledged mails.
LEMMA LookKeeps ==
  ASSUME TypeOK, Inductive, NEW s \in Session, Look(s)
  PROVE  Inductive'
<1>1. pc[s] = "parse" /\ pc' = [pc EXCEPT ![s] = "reply"] /\ pc'[s] = "reply"
      /\ buf[s] = <<>>
      /\ mails' = [mails EXCEPT ![s] = <<>>] /\ mails'[s] = <<>>
      /\ reply' = [reply EXCEPT ![s] = Answer(req[s], mails[s])]
      /\ reply'[s] = Answer(req[s], mails[s])
  BY DEF Look, TypeOK
<1>2. UNCHANGED <<file, exists, req, acked, mixed, overlapped, torn, buf, off>>
  BY DEF Look, history
<1>3. Tidy(s)
  BY DEF Inductive
<1>4. Tidy(s)'
  BY <1>1, <1>2, <1>3 DEF Tidy
<1>5. req[s].op \in Rewriting => ~ reply'[s].ok
  BY <1>1 DEF Look
<1>6. req[s].op \in Rewriting => ~ InDoubt(s) /\ ~ InDoubt(s)'
  BY <1>1, <1>5 DEF InDoubt
<1>7. ASSUME Clean(s)
      PROVE  Progress(s, file[req[s].box], acked[req[s].box])'
  <2>1. mails[s] = acked[req[s].box]
    BY <1>1, <1>7, CopyComplete
  <2>2. reply'[s].ok /\ ~ (req[s].op \in Rewriting) => reply'[s] = Answer(req[s], acked[req[s].box])
    BY <1>1, <2>1
  <2> QED BY <1>1, <1>2, <1>5, <2>2 DEF Progress
<1> QED
  BY <1>1, <1>2, <1>4, <1>6, <1>7, LocalStep DEF TypeOK

\* One more mail is on its way to the file.
LEMMA PutMailKeeps ==
  ASSUME TypeOK, Inductive, NEW s \in Session, PutMail(s)
  PROVE  Inductive'
<1>1. /\ pc[s] = "write" /\ mails[s] # <<>> /\ buf[s] \in Seq(Line) /\ mails[s] \in Seq(Mail)
      /\ mails' = [mails EXCEPT ![s] = Tail(mails[s])] /\ mails'[s] = Tail(mails[s])
      /\ buf' = [buf EXCEPT ![s] = buf[s] \o MailLines(Head(mails[s]))]
      /\ buf'[s] = buf[s] \o MailLines(Head(mails[s]))
  BY DEF PutMail, TypeOK
<1>2. UNCHANGED <<file, exists, req, acked, mixed, overlapped, torn, pc, off, reply>>
  BY DEF PutMail, history
<1>3. Tidy(s)
  BY DEF Inductive
<1>4. Tidy(s)'
  BY <1>1, <1>2, <1>3 DEF Tidy
<1>5. InDoubt(s)' <=> InDoubt(s)
  BY <1>1, <1>2 DEF InDoubt
<1>6. ASSUME Clean(s)
      PROVE  Progress(s, file[req[s].box], acked[req[s].box])'
  <2> DEFINE f == file[req[s].box]
             p == SubSeq(f, 1, off[s])
             all == Updated(req[s], acked[req[s].box])
  <2>1. f \in Seq(Line) /\ all \in Seq(Mail) /\ off[s] \in Nat
    BY <1>6, UpdatedType DEF Clean, TypeOK
  <2>2. PICK k \in 0..Len(all) : /\ mails[s] = SubSeq(all, k + 1, Len(all))
                                 /\ Holds(p \o buf[s], SubSeq(all, 1, k))
    BY <1>1, <1>6 DEF Inductive, Progress
  <2>3. AtEnd(s, f) /\ p \in Seq(Line)
    <3>1. AtEnd(s, f)
      BY <1>1, <1>6 DEF Inductive, Progress
    <3>2. off[s] <= Len(f)
      BY <2>1, <3>1 DEF AtEnd
    <3> QED BY <2>1, <3>1, <3>2, PrefixType
  <2>13. AtEnd(s, f)'
    <3>1. Head(mails[s]) \in Mail
      BY <1>1
    <3>2. buf[s] # <<>> => buf'[s] # <<>> /\ Head(buf'[s]) = Head(buf[s])
      BY <1>1, <3>1, MailLinesType
    <3> QED BY <1>2, <2>3, <3>2 DEF AtEnd
  <2> HIDE DEF f, p, all
  <2>4. k < Len(all)
    <3>1. SUFFICES ASSUME k = Len(all) PROVE FALSE
      BY <2>1
    <3>2. SubSeq(all, k + 1, Len(all)) = <<>>
      BY <2>1, <3>1
    <3> QED BY <1>1, <2>2, <3>2
  <2>5. k + 1 \in 1..Len(all) /\ Len(all) \in k+1..Len(all)
    BY <2>1, <2>4
  <2>6. Head(mails[s]) = all[k+1] /\ Tail(mails[s]) = SubSeq(all, (k + 1) + 1, Len(all))
    BY <2>1, <2>2, <2>5, HeadTailOfSubSeq
  <2>7. Append(SubSeq(all, 1, k), all[k+1]) = SubSeq(all, 1, k + 1)
    BY <2>1, <2>4, SubSeqGrows
  <2>8. /\ all[k+1] \in Mail /\ SubSeq(all, 1, k) \in Seq(Mail)
        /\ p \o buf[s] \in Seq(Line) /\ MailLines(all[k+1]) \in Seq(Line)
    BY <1>1, <2>1, <2>3, <2>5, MailLinesType, SMTT(30)
  <2>9. Holds((p \o buf[s]) \o MailLines(all[k+1]), SubSeq(all, 1, k + 1))
    BY <2>2, <2>7, <2>8, HoldsAppend
  <2>10. p \o buf'[s] = (p \o buf[s]) \o MailLines(all[k+1])
    <3>1. buf'[s] = buf[s] \o MailLines(all[k+1])
      BY <1>1, <2>6
    <3>2. \A x, y, z \in Seq(Line) : (x \o y) \o z = x \o (y \o z)
      BY JoinAssociative
    <3>3. (p \o buf[s]) \o MailLines(all[k+1]) = p \o (buf[s] \o MailLines(all[k+1]))
      BY <3>2, <1>1, <2>3, <2>8
    <3> QED BY <3>1, <3>3
  <2>11. k + 1 \in 0..Len(all)
    BY <2>5
  <2>12. \E j \in 0..Len(all) : /\ mails'[s] = SubSeq(all, j + 1, Len(all))
                                /\ Holds(p \o buf'[s], SubSeq(all, 1, j))
    BY <1>1, <2>6, <2>9, <2>10, <2>11
  <2> QED BY <1>1, <1>2, <2>13, <2>12 DEF Progress, f, p, all
<1> QED
  BY <1>1, <1>2, <1>4, <1>5, <1>6, LocalStep DEF TypeOK

\* A write that fails leaves a mailbox nothing is claimed of any more.
LEMMA WriteFailsKeeps ==
  ASSUME TypeOK, Inductive, NEW s \in Session, WriteFails(s)
  PROVE  Inductive'
<1>1. pc[s] = "write" /\ UNCHANGED <<file, exists, req, acked, mixed, overlapped, pc, off, reply>>
      /\ buf' = [buf EXCEPT ![s] = <<>>] /\ buf'[s] = <<>>
      /\ mails' = [mails EXCEPT ![s] = <<>>] /\ mails'[s] = <<>>
      /\ torn' = torn \cup {req[s].box}
  BY DEF WriteFails, TypeOK
<1>2. Tidy(s)
  BY DEF Inductive
<1>3. Tidy(s)'
  BY <1>1, <1>2 DEF Tidy
<1>4. InDoubt(s)' <=> InDoubt(s)
  BY <1>1 DEF InDoubt
<1>5. ~ Clean(s)'
  BY <1>1 DEF Clean, Undisturbed
<1> QED
  BY <1>1, <1>3, <1>4, <1>5, LocalStep DEF TypeOK

\* When nothing is left to write, the file holds what it should.
LEMMA CloseKeeps ==
  ASSUME TypeOK, Inductive, NEW s \in Session, Close(s)
  PROVE  Inductive'
<1>1. pc[s] = "write" /\ pc' = [pc EXCEPT ![s] = "reply"] /\ pc'[s] = "reply"
      /\ mails[s] = <<>> /\ buf[s] = <<>>
      /\ off' = [off EXCEPT ![s] = 0] /\ off'[s] = 0
      /\ reply' = [reply EXCEPT ![s] = Done] /\ reply'[s] = Done
  BY DEF Close, TypeOK
<1>2. UNCHANGED <<file, exists, req, acked, mixed, overlapped, torn, mails, buf>>
  BY DEF Close, history
<1>3. Tidy(s)
  BY DEF Inductive
<1>4. Tidy(s)' /\ req[s].op \in Rewriting
  BY <1>1, <1>2, <1>3 DEF Tidy
<1>5. InDoubt(s)' /\ InDoubt(s)
  BY <1>1, <1>2 DEF InDoubt, Done
<1>6. ASSUME Clean(s)
      PROVE  Progress(s, file[req[s].box], acked[req[s].box])'
  <2> DEFINE f == file[req[s].box]
             all == Updated(req[s], acked[req[s].box])
  <2>1. f \in Seq(Line) /\ all \in Seq(Mail)
    BY <1>6, UpdatedType DEF Clean, TypeOK
  <2>2. PICK k \in 0..Len(all) : /\ mails[s] = SubSeq(all, k + 1, Len(all))
                                 /\ Holds(SubSeq(f, 1, off[s]) \o buf[s], SubSeq(all, 1, k))
    BY <1>1, <1>6 DEF Inductive, Progress
  <2>6. off[s] = Len(f)
    BY <1>1, <1>6 DEF Inductive, Progress, AtEnd
  <2> HIDE DEF f, all
  <2>3. k = Len(all)
    <3> SUFFICES ASSUME k < Len(all) PROVE FALSE
      BY <2>1
    <3>1. SubSeq(all, k + 1, Len(all)) # <<>>
      BY <2>1, SuffixNotEmpty
    <3> QED BY <1>1, <2>2, <3>1
  <2>4. SubSeq(all, 1, Len(all)) = all /\ SubSeq(f, 1, Len(f)) = f /\ f \o <<>> = f
    BY <2>1
  <2>5. Holds(f, all)
    BY <1>1, <2>2, <2>3, <2>4, <2>6
  <2> QED BY <1>1, <1>2, <1>4, <2>5 DEF Progress, f, all
<1> QED
  BY <1>1, <1>2, <1>4, <1>5, <1>6, LocalStep DEF TypeOK
-----------------------------------------------------------------------------
(* The steps that write to a file, and those that begin and end a command. *)

\* A step of a thread that writes to the file of its mailbox, and is in doubt
\* about the mailbox from then on.
LEMMA FileStep ==
  ASSUME TypeOK, Inductive, NEW s \in Session, NEW f \in Seq(Line),
         pc[s] \in {"open", "write"},
         UNCHANGED <<req, acked, mixed, overlapped, torn, reply>>,
         file' = [file EXCEPT ![req[s].box] = f],
         exists' = exists \cup {req[s].box},
         \A t \in Session \ {s} : /\ pc'[t] = pc[t] /\ mails'[t] = mails[t]
                                  /\ buf'[t] = buf[t] /\ off'[t] = off[t],
         Tidy(s)',
         InDoubt(s)',
         Clean(s) => Progress(s, f, acked[req[s].box])'
  PROVE  Inductive'
<1> DEFINE box == req[s].box
<1>1. box \in User /\ Rewrites(s, box) /\ Tidy(s)
  BY DEF Inductive, Tidy, TypeOK, Rewrites
<1>2. file'[box] = f /\ \A u \in User \ {box} : file'[u] = file[u]
  BY <1>1 DEF TypeOK
<1>3. \A t \in Session : Tidy(t)'
  <2> TAKE t \in Session
  <2>1. CASE t = s
    BY <2>1
  <2>2. CASE t # s
    <3>1. Tidy(t)
      BY DEF Inductive
    <3> QED BY <2>2, <3>1 DEF Tidy
  <2> QED BY <2>1, <2>2
<1>4. Alone'
  BY DEF Inductive, Alone, Rewrites
<1>5. \A t \in Session \ {s} : InDoubt(t)' <=> InDoubt(t)
  BY DEF InDoubt
<1>6. ASSUME NEW u \in User, Undisturbed(u)'
      PROVE  Settled(u)'
  <2>1. Settled(u)
    BY <1>6 DEF Inductive, Undisturbed
  <2>2. CASE u = box
    <3>1. ~ Quiet(u)'
      BY <1>1, <2>2 DEF Quiet, Rewrites
    <3> QED BY <2>1, <2>2, <3>1 DEF Settled
  <2>3. CASE u # box
    <3>1. Quiet(u)' => Quiet(u)
      <4>1. ~ Rewrites(s, u)
        BY <2>3 DEF Rewrites
      <4> QED BY <1>5, <4>1 DEF Quiet, Rewrites
    <3> QED BY <1>2, <2>1, <2>3, <3>1 DEF Settled
  <2> QED BY <2>2, <2>3
<1>7. \A t \in Session : InDoubt(t)' /\ req'[t].op \in Rewriting => req'[t].box \in exists'
  BY <1>5 DEF Inductive
<1>8. ASSUME NEW t \in Session, Clean(t)'
      PROVE  Progress(t, file[req[t].box], acked[req[t].box])'
  <2>1. Clean(t)
    BY <1>8 DEF Clean, Undisturbed
  <2>2. CASE t = s
    BY <1>2, <2>1, <2>2, SMTT(30) DEF Progress, AtEnd
  <2>3. CASE t # s
    <3>1. Progress(t, file[req[t].box], acked[req[t].box])
      BY <2>1 DEF Inductive
    <3>2. req[t].box \in User \ {box}
      BY <1>1, <2>1, <2>3 DEF Clean, Inductive, Alone, Rewrites
    <3>3. /\ file'[req'[t].box] = file[req[t].box]
          /\ acked'[req'[t].box] = acked[req[t].box]
          /\ req'[t] = req[t] /\ reply'[t] = reply[t]
      BY <1>2, <3>2
    <3>4. /\ pc'[t] = pc[t] /\ mails'[t] = mails[t]
          /\ buf'[t] = buf[t] /\ off'[t] = off[t]
      BY <2>3
    <3> QED BY <3>1, <3>3, <3>4 DEF Progress, AtEnd
  <2> QED BY <2>2, <2>3
<1> QED
  BY <1>3, <1>4, <1>6, <1>7, <1>8 DEF Inductive

\* The truncated file holds none of the mails, and all are still to be put.
LEMMA OpenForWriteKeeps ==
  ASSUME TypeOK, Inductive, NEW s \in Session, OpenForWrite(s)
  PROVE  Inductive'
<1>1. pc[s] = "open" /\ pc' = [pc EXCEPT ![s] = "write"] /\ pc'[s] = "write"
      /\ file' = [file EXCEPT ![req[s].box] = <<>>]
      /\ exists' = exists \cup {req[s].box}
  BY DEF OpenForWrite, TypeOK
<1>2. UNCHANGED <<req, acked, mixed, overlapped, torn, mails, buf, off, reply>>
  BY DEF OpenForWrite, history
<1>3. Tidy(s)
  BY DEF Inductive
<1>4. Tidy(s)' /\ buf[s] = <<>> /\ off[s] = 0
  BY <1>1, <1>2, <1>3 DEF Tidy
<1>5. InDoubt(s)'
  BY <1>1 DEF InDoubt
<1>6. ASSUME Clean(s)
      PROVE  Progress(s, <<>>, acked[req[s].box])'
  <2> DEFINE all == Updated(req[s], acked[req[s].box])
  <2>1. all \in Seq(Mail)
    BY <1>6, UpdatedType DEF Clean, TypeOK
  <2>2. mails[s] = all
    BY <1>1, <1>6 DEF Inductive, Progress
  <2> HIDE DEF all
  <2>3. /\ 0 \in 0..Len(all) /\ mails[s] = SubSeq(all, 0 + 1, Len(all))
        /\ SubSeq(all, 1, 0) = <<>> /\ off[s] = Len(<<>>)
        /\ SubSeq(<<>>, 1, off[s]) \o buf[s] = <<>>
    BY <1>4, <2>1, <2>2
  <2>4. \E k \in 0..Len(all) : /\ mails[s] = SubSeq(all, k + 1, Len(all))
                               /\ Holds(SubSeq(<<>>, 1, off[s]) \o buf[s], SubSeq(all, 1, k))
    BY <2>3, HoldsNothing
  <2> QED BY <1>1, <1>2, <2>3, <2>4 DEF Progress, AtEnd, all
<1> QED
  BY <1>1, <1>2, <1>4, <1>5, <1>6, FileStep DEF TypeOK

\* Writing at a position of a file, up to its end or beyond, keeps what is
\* before the position and appends to it.
LEMMA OverwriteFrom ==
  ASSUME NEW lines \in Seq(Line), NEW new \in Seq(Line), NEW pos \in Nat,
         pos <= Len(lines), Len(lines) <= pos + Len(new)
  PROVE  /\ Overwrite(lines, pos, new) = SubSeq(lines, 1, pos) \o new
         /\ Len(Overwrite(lines, pos, new)) = pos + Len(new)
         /\ SubSeq(Overwrite(lines, pos, new), 1, pos) = SubSeq(lines, 1, pos)
<1> DEFINE l == Overwrite(lines, pos, new)
           before == SubSeq(lines, 1, pos)
           r == before \o new
           n == pos + Len(new)
<1>1. Len(lines) \in Nat /\ Len(new) \in Nat /\ n \in Nat /\ Len(lines) <= n /\ pos <= n
  OBVIOUS
<1>2. Max({Len(lines), n}) = n
  <2> HIDE DEF n
  <2> QED BY <1>1, MinMaxOfTwo
<1>3. l = [j \in 1..n |-> IF pos < j /\ j <= n THEN new[j - pos]
                          ELSE IF j <= Len(lines) THEN lines[j] ELSE Nul]
  BY <1>2 DEF Overwrite
<1>4. l \in Seq(Line)
  BY <1>1, OverwriteType
<1>5. before \in Seq(Line) /\ Len(before) = pos /\ \A j \in 1..pos : before[j] = lines[j]
  BY PrefixType
<1> HIDE DEF n, before
<1>6. Len(l) = n /\ \A j \in 1..n : l[j] = IF j <= pos THEN before[j] ELSE new[j - pos]
  <2>1. Len(l) = n
    BY <1>1, <1>3, <1>4
  <2>2. \A j \in 1..n : l[j] = IF j <= pos THEN before[j] ELSE new[j - pos]
    BY <1>1, <1>3, <1>5
  <2> QED BY <2>1, <2>2
<1>7. r \in Seq(Line) /\ Len(r) = n
      /\ \A j \in 1..n : r[j] = IF j <= pos THEN before[j] ELSE new[j - pos]
  BY <1>5, ConcatProperties DEF n
<1> HIDE DEF l, r
<1>8. l = r
  BY <1>4, <1>6, <1>7, SeqEqual
<1>9. SubSeq(l, 1, pos) = before
  <2>1. /\ SubSeq(l, 1, pos) \in Seq(Line) /\ Len(SubSeq(l, 1, pos)) = pos
        /\ \A i \in 1..pos : SubSeq(l, 1, pos)[i] = l[i]
    BY <1>1, <1>4, <1>6, PrefixType
  <2>2. \A i \in 1..pos : l[i] = before[i]
    BY <1>1, <1>6
  <2> QED BY <1>5, <2>1, <2>2, SeqEqual
<1> QED BY <1>6, <1>8, <1>9 DEF l, r, n, before

\* Two parts of what is to be written, the first of them not empty.
LEMMA FlushSplits ==
  ASSUME TypeOK, NEW s \in Session, Flush(s)
  PROVE  \E new, left \in Seq(Line) :
           /\ new \o left = buf[s] /\ Len(new) >= 1
           /\ file' = [file EXCEPT ![req[s].box] = Overwrite(@, off[s], new)]
           /\ off' = [off EXCEPT ![s] = @ + Len(new)]
           /\ buf' = [buf EXCEPT ![s] = left]
<1> DEFINE b == buf[s]
<1>1. b \in Seq(Line) /\ b # <<>>
  BY DEF Flush, TypeOK
<1>2. PICK n \in Chunk : LET k == Min({n, Len(b)})
         IN /\ file' = [file EXCEPT ![req[s].box] = Overwrite(@, off[s], SubSeq(b, 1, k))]
            /\ off' = [off EXCEPT ![s] = @ + k]
            /\ buf' = [buf EXCEPT ![s] = SubSeq(@, k + 1, Len(@))]
  BY DEF Flush
<1> DEFINE k == Min({n, Len(b)})
           new == SubSeq(b, 1, k)
           left == SubSeq(b, k + 1, Len(b))
<1>3. k \in 1..Len(b)
  <2>1. n \in Nat \ {0} /\ Len(b) \in Nat \ {0}
    BY <1>1, StoreAssumption
  <2> HIDE DEF b
  <2> QED BY <2>1, MinMaxOfTwo
<1>4. /\ file' = [file EXCEPT ![req[s].box] = Overwrite(@, off[s], new)]
      /\ off' = [off EXCEPT ![s] = @ + k]
      /\ buf' = [buf EXCEPT ![s] = left]
  BY <1>2
<1> HIDE DEF k, b
<1>5. new \in Seq(Line) /\ Len(new) = k /\ left \in Seq(Line)
  <2>1. \A i \in 1..Len(b) : b[i] \in Line
    BY <1>1
  <2> QED BY <1>1, <1>3, <2>1
<1>6. new \o left = b
  <2>1. SubSeq(b, 1, k) \o SubSeq(b, k + 1, Len(b)) = SubSeq(b, 1, Len(b))
    <3>1. 1 \in 1..Len(b)+1 /\ k \in 1-1..Len(b) /\ Len(b) \in k..Len(b)
      BY <1>1, <1>3
    <3> QED BY <1>1, <3>1, ConcatAdjacentSubSeq
  <2>2. SubSeq(b, 1, Len(b)) = b
    BY <1>1
  <2> QED BY <2>1, <2>2
<1> HIDE DEF new, left
<1>7. Len(new) >= 1
  BY <1>1, <1>3, <1>5
<1> QED BY <1>4, <1>5, <1>6, <1>7 DEF b

\* The lines that go to the file are the ones that leave the stream.
LEMMA FlushKeeps ==
  ASSUME TypeOK, Inductive, NEW s \in Session, Flush(s)
  PROVE  Inductive'
<1>1. PICK f \in Seq(Line), b \in Seq(Line) : f = file[req[s].box] /\ b = buf[s]
  BY DEF Flush, TypeOK
<1>2. /\ pc[s] = "write" /\ off[s] \in Nat /\ req[s].box \in User
      /\ UNCHANGED <<exists, req, acked, mixed, overlapped, torn, mails, pc, reply>>
  BY DEF Flush, TypeOK, history
<1>3. PICK new \in Seq(Line), left \in Seq(Line) :
         /\ new \o left = b /\ Len(new) >= 1
         /\ file' = [file EXCEPT ![req[s].box] = Overwrite(@, off[s], new)]
         /\ off' = [off EXCEPT ![s] = @ + Len(new)]
         /\ buf' = [buf EXCEPT ![s] = left]
  BY <1>1, FlushSplits
<1>4. PICK g \in Seq(Line) : g = Overwrite(f, off[s], new)
  BY <1>2, OverwriteType
<1>5. /\ file' = [file EXCEPT ![req[s].box] = g]
      /\ off'[s] = off[s] + Len(new) /\ buf'[s] = left
      /\ \A t \in Session \ {s} : /\ pc'[t] = pc[t] /\ mails'[t] = mails[t]
                                  /\ buf'[t] = buf[t] /\ off'[t] = off[t]
  BY <1>1, <1>2, <1>3, <1>4 DEF TypeOK
<1>6. Tidy(s)
  BY DEF Inductive
<1>7. Tidy(s)'
  BY <1>2, <1>5, <1>6 DEF Tidy
<1>8. InDoubt(s)' /\ InDoubt(s)
  BY <1>2 DEF InDoubt
<1>9. exists' = exists \cup {req[s].box}
  <2>1. req[s].op \in Rewriting
    BY <1>2, <1>6 DEF Tidy
  <2> QED BY <1>2, <1>8, <2>1 DEF Inductive
<1>10. ASSUME Clean(s)
       PROVE  Progress(s, g, acked[req[s].box])'
  <2> DEFINE all == Updated(req[s], acked[req[s].box])
  <2>1. AtEnd(s, f) /\ \E j \in 0..Len(all) :
                          /\ mails[s] = SubSeq(all, j + 1, Len(all))
                          /\ Holds(SubSeq(f, 1, off[s]) \o b, SubSeq(all, 1, j))
    BY <1>1, <1>2, <1>10 DEF Inductive, Progress
  <2> HIDE DEF all
  <2>2. off[s] <= Len(f) /\ Len(f) <= off[s] + Len(new)
    BY <1>2, <1>3, <2>1 DEF AtEnd
  <2>3. g = SubSeq(f, 1, off[s]) \o new /\ Len(g) = off[s] + Len(new)
    BY <1>2, <1>4, <2>2, OverwriteFrom
  <2>4. SubSeq(g, 1, off'[s]) \o left = SubSeq(f, 1, off[s]) \o b
    <3>1. SubSeq(g, 1, Len(g)) = g
      OBVIOUS
    <3>2. PICK before \in Seq(Line) : before = SubSeq(f, 1, off[s])
      BY <1>2, <2>2, PrefixType
    <3>3. (before \o new) \o left = before \o (new \o left)
      BY <1>3, <3>2, JoinAssociative, ZenonT(30)
    <3> QED BY <1>3, <1>5, <2>3, <3>1, <3>2, <3>3
  <2>5. AtEnd(s, g)'
    BY <1>5, <2>3 DEF AtEnd
  <2>6. \E j \in 0..Len(all) : /\ mails'[s] = SubSeq(all, j + 1, Len(all))
                               /\ Holds(SubSeq(g, 1, off'[s]) \o buf'[s], SubSeq(all, 1, j))
    BY <1>2, <1>5, <2>1, <2>4
  <2>7. all' = all /\ pc'[s] = "write"
    BY <1>2 DEF all
  <2> QED BY <2>5, <2>6, <2>7 DEF Progress, all
<1> QED
  BY <1>2, <1>5, <1>7, <1>8, <1>9, <1>10, FileStep

\* A part of the next line is not what the file should hold, but the whole line
\* is still to be written over it.
LEMMA FlushPartKeeps ==
  ASSUME TypeOK, Inductive, NEW s \in Session, FlushPart(s)
  PROVE  Inductive'
<1>1. PICK f \in Seq(Line) : f = file[req[s].box]
  BY DEF FlushPart, TypeOK
<1>2. /\ pc[s] = "write" /\ buf[s] # <<>> /\ off[s] \in Nat /\ buf[s] \in Seq(Line)
      /\ UNCHANGED <<exists, req, acked, mixed, overlapped, torn, mails, buf, off, pc, reply>>
  BY DEF FlushPart, TypeOK, thread, history
<1>3. Beginning[Head(buf[s])] \subseteq Line
  BY <1>2, StoreAssumption
<1>4. PICK part \in Line : /\ part \in Beginning[Head(buf[s])]
                           /\ file' = [file EXCEPT ![req[s].box] = Overwrite(@, off[s], <<part>>)]
  BY <1>3 DEF FlushPart
<1>5. PICK new \in Seq(Line) : new = <<part>> /\ Len(new) = 1
  <2>1. <<part>> \in Seq(Line) /\ Len(<<part>>) = 1
    OBVIOUS
  <2> QED BY <2>1
<1>6. PICK g \in Seq(Line) : g = Overwrite(f, off[s], new)
  BY <1>2, OverwriteType
<1>7. Tidy(s) /\ req[s].box \in User /\ req[s].op \in Rewriting
  BY <1>2 DEF Inductive, Tidy
<1>8. file' = [file EXCEPT ![req[s].box] = g]
  BY <1>1, <1>4, <1>5, <1>6, <1>7 DEF TypeOK
<1>9. Tidy(s)'
  BY <1>2, <1>7 DEF Tidy
<1>10. InDoubt(s)' /\ InDoubt(s)
  BY <1>2 DEF InDoubt
<1>11. exists' = exists \cup {req[s].box}
  BY <1>2, <1>7, <1>10 DEF Inductive
<1>12. ASSUME Clean(s)
       PROVE  Progress(s, g, acked[req[s].box])'
  <2>1. Progress(s, f, acked[req[s].box])
    BY <1>1, <1>12 DEF Inductive
  <2>2. off[s] <= Len(f) /\ Len(f) <= off[s] + Len(new)
    BY <1>2, <1>5, <2>1 DEF Progress, AtEnd
  <2>3. /\ g = SubSeq(f, 1, off[s]) \o new /\ Len(g) = off[s] + 1
        /\ SubSeq(g, 1, off[s]) = SubSeq(f, 1, off[s])
    BY <1>2, <1>5, <1>6, <2>2, OverwriteFrom, ZenonT(60)
  <2>4. g[Len(g)] = part
    <3>1. SubSeq(f, 1, off[s]) \in Seq(Line) /\ Len(SubSeq(f, 1, off[s])) = off[s]
      BY <1>2, <2>2, PrefixType
    <3>2. PICK before \in Seq(Line) : before = SubSeq(f, 1, off[s]) /\ Len(before) = off[s]
      BY <3>1
    <3>3. (before \o new)[off[s] + 1] = new[1]
      <4>1. PICK i \in Nat : i = off[s] + 1
        BY <1>2
      <4>2. i \in 1..Len(before) + Len(new) /\ ~ (i <= Len(before)) /\ i - Len(before) = 1
        BY <1>2, <1>5, <3>2, <4>1
      <4>3. (before \o new)[i] = IF i <= Len(before) THEN before[i] ELSE new[i - Len(before)]
        BY <4>2, ConcatProperties
      <4> QED BY <4>1, <4>2, <4>3
    <3> QED BY <1>5, <2>3, <3>2, <3>3
  <2>5. AtEnd(s, g)'
    BY <1>2, <1>4, <2>3, <2>4 DEF AtEnd
  <2> QED BY <1>2, <2>1, <2>3, <2>5 DEF Progress
<1> QED
  BY <1>2, <1>8, <1>9, <1>10, <1>11, <1>12, FileStep
-----------------------------------------------------------------------------
\* Who is logged in and how many mails were sent does not matter.
LEMMA FrameKeeps ==
  ASSUME Inductive,
         UNCHANGED <<file, exists, pc, req, mails, buf, off, reply,
                     acked, mixed, overlapped, torn>>
  PROVE  Inductive'
<1>1. /\ \A s \in Session : Tidy(s)' <=> Tidy(s)
      /\ Alone' <=> Alone
  BY DEF Tidy, Alone, Rewrites
<1>2. \A u \in User : (Undisturbed(u)' <=> Undisturbed(u)) /\ (Settled(u)' <=> Settled(u))
  BY DEF Undisturbed, Settled, Quiet, InDoubt, Rewrites
<1>3. \A s \in Session : InDoubt(s)' <=> InDoubt(s)
  BY DEF InDoubt
<1>4. \A s \in Session : Clean(s)' <=> Clean(s)
  BY DEF Clean, Undisturbed
<1>5. ASSUME NEW s \in Session, Clean(s)
      PROVE  Progress(s, file[req[s].box], acked[req[s].box])'
  <2>1. Progress(s, file[req[s].box], acked[req[s].box])
    BY <1>5 DEF Inductive
  <2> QED BY <2>1 DEF Progress, AtEnd
<1> QED BY <1>1, <1>2, <1>3, <1>4, <1>5 DEF Inductive

\* A refused command never gets to a mailbox.
LEMMA RejectKeeps ==
  ASSUME TypeOK, Inductive, NEW s \in Session, Reject(s)
  PROVE  Inductive'
<1>1. pc[s] = "idle" /\ pc' = [pc EXCEPT ![s] = "reply"] /\ pc'[s] = "reply"
  BY DEF Reject, TypeOK
<1>2. UNCHANGED <<file, exists, req, acked, mixed, overlapped, torn, mails, buf, off, reply>>
  BY DEF Reject, history
<1>3. Tidy(s)
  BY DEF Inductive
<1>4. req[s] = NoRequest /\ reply[s] = Refused
  BY <1>1, <1>3 DEF Tidy
<1>5. Tidy(s)'
  BY <1>1, <1>2, <1>3, <1>4 DEF Tidy
<1>6. ~ InDoubt(s) /\ ~ InDoubt(s)' /\ ~ Clean(s)
  BY <1>1, <1>2, <1>4, StoreAssumption DEF InDoubt, Clean, NoRequest, Refused
<1> QED
  BY <1>1, <1>2, <1>5, <1>6, LocalStep DEF TypeOK

\* A command notes whom it meets on its mailbox, and has done nothing yet.
LEMMA BeginKeeps ==
  ASSUME TypeOK, Inductive, NEW s \in Session, NEW q \in Request,
         q.op # "none", q.box \in User, q.op = "SEND" => q.mail \in PlainMail,
         NEW step \in {"stat", "reply"}, Begin(s, q, step)
  PROVE  Inductive'
<1>1. pc[s] = "idle" /\ pc' = [pc EXCEPT ![s] = step] /\ pc'[s] = step
      /\ req' = [req EXCEPT ![s] = q] /\ req'[s] = q
  BY DEF Begin, TypeOK
<1>2. UNCHANGED <<file, exists, acked, torn, mails, buf, off, reply>>
  BY DEF Begin
<1>3. Tidy(s)
  BY DEF Inductive
<1>4. req[s] = NoRequest /\ s \notin mixed /\ reply[s] = Refused
  BY <1>1, <1>3 DEF Tidy
<1>5. \A t \in Session \ {s} : pc'[t] = pc[t] /\ req'[t] = req[t]
  BY <1>1 DEF TypeOK
<1>6. /\ mixed \subseteq mixed' /\ mixed' \subseteq Session
      /\ s \in mixed' <=> \E r \in Session : Rewrites(r, q.box)
      /\ \A t \in Session : t \in mixed' /\ t \notin mixed /\ t # s
                              => req[t].box = q.box /\ q.op \in Rewriting
      /\ \A t \in Session : req[t].box = q.box /\ q.op \in Rewriting => t \in mixed'
  <2>1. req[s].box # q.box
    BY <1>4, StoreAssumption DEF NoRequest
  <2> QED BY <1>4, <2>1 DEF Begin, TypeOK
<1>7. /\ overlapped \subseteq overlapped'
      /\ q.op \in Rewriting /\ (\E r \in Session : Rewrites(r, q.box)) => q.box \in overlapped'
  BY DEF Begin
<1>8. ~ InDoubt(s) /\ ~ InDoubt(s)'
  BY <1>1, <1>2, <1>4 DEF InDoubt, Refused
<1>9. \A t \in Session : Tidy(t)'
  <2> TAKE t \in Session
  <2>1. CASE t = s
    BY <1>1, <1>2, <1>3, <2>1, StoreAssumption DEF Tidy
  <2>2. CASE t # s
    <3>1. Tidy(t)
      BY DEF Inductive
    <3>2. pc[t] = "idle" => t \notin mixed'
      <4>1. pc[t] = "idle" => req[t].box # q.box /\ t \notin mixed
        BY <3>1, StoreAssumption DEF Tidy, NoRequest
      <4> QED BY <1>6, <2>2, <4>1
    <3> QED BY <1>2, <1>5, <2>2, <3>1, <3>2 DEF Tidy
  <2> QED BY <2>1, <2>2
<1>10. Alone'
  <2>1. ASSUME NEW t \in Session, t \notin mixed', NEW r \in Session,
               req'[t].box \in User, Rewrites(r, req[t].box)'
        PROVE  r = t
    <3>1. CASE t = s
      <4>1. ~ Rewrites(r, q.box)
        BY <1>6, <2>1, <3>1
      <4> QED BY <1>1, <1>5, <2>1, <3>1, <4>1 DEF Rewrites
    <3>2. CASE t # s
      <4>1. t \notin mixed /\ req'[t] = req[t] /\ ~ (req[t].box = q.box /\ q.op \in Rewriting)
        BY <1>5, <1>6, <2>1, <3>2
      <4>2. r # s
        BY <1>1, <2>1, <4>1 DEF Rewrites
      <4>3. Rewrites(r, req[t].box)
        BY <1>5, <2>1, <4>1, <4>2 DEF Rewrites
      <4> QED BY <2>1, <4>1, <4>3 DEF Inductive, Alone
    <3> QED BY <3>1, <3>2
  <2>2. ASSUME NEW t \in Session, t \in mixed', req'[t].op \in Rewriting
        PROVE  req'[t].box \in overlapped'
    <3>1. CASE t = s
      BY <1>1, <1>6, <1>7, <2>2, <3>1
    <3>2. CASE t # s
      <4>1. CASE t \in mixed
        BY <1>5, <1>7, <2>2, <3>2, <4>1 DEF Inductive, Alone
      <4>2. CASE t \notin mixed
        BY <1>5, <1>6, <1>7, <2>2, <3>2, <4>2 DEF Rewrites
      <4> QED BY <4>1, <4>2
    <3> QED BY <3>1, <3>2
  <2> QED BY <2>1, <2>2 DEF Alone
<1>11. \A t \in Session \ {s} : (InDoubt(t)' <=> InDoubt(t)) /\ \A u \in User : Rewrites(t, u)' <=> Rewrites(t, u)
  BY <1>2, <1>5 DEF InDoubt, Rewrites
<1>12. \A u \in User : Undisturbed(u)' => Settled(u)'
  <2> TAKE u \in User
  <2>1. Quiet(u)' => Quiet(u)
    BY <1>8, <1>11 DEF Quiet
  <2>2. Undisturbed(u)' => Undisturbed(u)
    BY <1>2, <1>7 DEF Undisturbed
  <2> QED BY <1>2, <2>1, <2>2 DEF Inductive, Settled
<1>13. \A t \in Session : InDoubt(t)' /\ req'[t].op \in Rewriting => req'[t].box \in exists'
  BY <1>2, <1>5, <1>8, <1>11 DEF Inductive
<1>14. ASSUME NEW t \in Session, Clean(t)'
       PROVE  Progress(t, file[req[t].box], acked[req[t].box])'
  <2>1. CASE t = s
    BY <1>1, <1>2, <1>4, <2>1 DEF Progress, Refused
  <2>2. CASE t # s
    <3>1. Clean(t)
      BY <1>2, <1>5, <1>6, <1>7, <1>14, <2>2 DEF Clean, Undisturbed
    <3>2. Progress(t, file[req[t].box], acked[req[t].box])
      BY <3>1 DEF Inductive
    <3> QED BY <1>2, <1>5, <2>2, <3>2 DEF Progress, AtEnd
  <2> QED BY <2>1, <2>2
<1> QED
  BY <1>9, <1>10, <1>12, <1>13, <1>14 DEF Inductive

\* The answer of a rewriting command makes its change an acknowledged one,
\* which the file already holds.
LEMMA ReplyKeeps ==
  ASSUME TypeOK, Inductive, NEW s \in Session, Reply(s)
  PROVE  Inductive'
<1>1. /\ pc[s] = "reply" /\ pc' = [pc EXCEPT ![s] = "idle"] /\ pc'[s] = "idle"
      /\ req' = [req EXCEPT ![s] = NoRequest] /\ req'[s] = NoRequest
      /\ reply' = [reply EXCEPT ![s] = Refused] /\ reply'[s] = Refused
      /\ mixed' = mixed \ {s}
  BY DEF Reply, TypeOK
<1>2. UNCHANGED <<file, exists, overlapped, torn, mails, buf, off>>
  BY DEF Reply
<1>3. Tidy(s)
  BY DEF Inductive
<1>4. \A t \in Session \ {s} : pc'[t] = pc[t] /\ req'[t] = req[t] /\ reply'[t] = reply[t]
  BY <1>1 DEF TypeOK
<1>5. NoRequest.op \notin Rewriting /\ NoRequest.op = "none" /\ NoRequest.box = NoUser
  BY DEF NoRequest, Rewriting
<1>6. \A t \in Session : Tidy(t)'
  <2> TAKE t \in Session
  <2>1. CASE t = s
    BY <1>1, <1>2, <1>3, <1>5, <2>1 DEF Tidy
  <2>2. CASE t # s
    <3>1. Tidy(t)
      BY DEF Inductive
    <3> QED BY <1>1, <1>2, <1>4, <2>2, <3>1 DEF Tidy
  <2> QED BY <2>1, <2>2
<1>7. ~ InDoubt(s)' /\ \A t \in Session \ {s} : InDoubt(t)' <=> InDoubt(t)
  BY <1>1, <1>4 DEF InDoubt
<1>8. \A u : \A t \in Session : Rewrites(t, u)' <=> t # s /\ Rewrites(t, u)
  BY <1>1, <1>4, <1>5 DEF Rewrites
<1>9. Alone'
  BY <1>1, <1>2, <1>4, <1>5, <1>8, StoreAssumption DEF Inductive, Alone
<1>10. ASSUME NEW u \in User, Undisturbed(u)'
       PROVE  Settled(u)'
  <2>1. Settled(u) /\ Undisturbed(u)
    BY <1>2, <1>10 DEF Inductive, Undisturbed
  <2>2. CASE reply[s].ok /\ Rewrites(s, u)
    <3>1. acked'[u] = Updated(req[s], acked[u])
      BY <2>2 DEF Reply
    <3>2. req[s].box = u /\ req[s].op \in Rewriting
      BY <2>2 DEF Rewrites
    <3>3. InDoubt(s)
      BY <1>1, <2>2 DEF InDoubt
    <3>4. Clean(s)
      BY <2>1, <3>2 DEF Clean, Inductive, Alone, Undisturbed
    <3>5. Holds(file[u], Updated(req[s], acked[u]))
      BY <1>1, <2>2, <3>2, <3>4 DEF Inductive, Progress
    <3>6. u \in exists
      BY <3>2, <3>3 DEF Inductive
    <3>7. Updated(req[s], acked[u]) \in Seq(PlainMail)
      BY <1>3, <2>1, UpdatedPlain DEF Tidy, Settled, TypeOK
    <3> QED BY <1>2, <3>1, <3>5, <3>6, <3>7 DEF Settled
  <2>3. CASE ~ (reply[s].ok /\ Rewrites(s, u))
    <3>1. acked'[u] = acked[u]
      BY <2>3 DEF Reply
    <3>2. Quiet(u)' => Quiet(u)
      <4>1. InDoubt(s) => ~ Rewrites(s, u)
        BY <1>1, <2>3 DEF InDoubt
      <4> QED BY <1>7, <1>8, <4>1 DEF Quiet
    <3> QED BY <1>2, <2>1, <3>1, <3>2 DEF Settled
  <2> QED BY <2>2, <2>3
<1>11. \A t \in Session : InDoubt(t)' /\ req'[t].op \in Rewriting => req'[t].box \in exists'
  BY <1>2, <1>4, <1>7 DEF Inductive
<1>12. ASSUME NEW t \in Session, Clean(t)'
       PROVE  Progress(t, file[req[t].box], acked[req[t].box])'
  <2>1. t # s
    BY <1>1, <1>5, <1>12, StoreAssumption DEF Clean
  <2>2. Clean(t)
    BY <1>1, <1>2, <1>4, <1>12, <2>1 DEF Clean, Undisturbed
  <2>3. Progress(t, file[req[t].box], acked[req[t].box])
    BY <2>2 DEF Inductive
  <2>4. ~ Rewrites(s, req[t].box)
    BY <2>1, <2>2 DEF Clean, Inductive, Alone
  <2>5. acked'[req[t].box] = acked[req[t].box]
    BY <2>2, <2>4 DEF Reply, Clean
  <2>6. acked'[req'[t].box] = acked[req[t].box] /\ file'[req'[t].box] = file[req[t].box]
        /\ pc'[t] = pc[t] /\ req'[t] = req[t] /\ reply'[t] = reply[t]
    BY <1>2, <1>4, <2>1, <2>5
  <2> QED BY <1>2, <2>3, <2>6 DEF Progress, AtEnd
<1> QED
  BY <1>6, <1>9, <1>10, <1>11, <1>12 DEF Inductive

\* The end of the process leaves the files, and marks those a thread was in
\* doubt about.
LEMMA StopKeeps ==
  ASSUME TypeOK, Inductive, Stop
  PROVE  Inductive'
<1>1. \A s \in Session : /\ pc'[s] = "idle" /\ req'[s] = NoRequest /\ mails'[s] = <<>>
                         /\ buf'[s] = <<>> /\ off'[s] = 0 /\ reply'[s] = Refused
  BY DEF Stop
<1>2. UNCHANGED <<file, exists, acked, overlapped>> /\ mixed' = {}
      /\ torn' = torn \cup {u \in User : \E s \in Session : InDoubt(s) /\ Rewrites(s, u)}
  BY DEF Stop
<1>3. NoRequest.op = "none" /\ NoRequest.op \notin Rewriting
      /\ NoRequest.box = NoUser /\ NoUser \notin User
  BY StoreAssumption DEF NoRequest, Rewriting
<1>4. \A s \in Session : Tidy(s)'
  BY <1>1, <1>2, <1>3 DEF Tidy
<1>5. Alone'
  BY <1>1, <1>2, <1>3 DEF Alone
<1>6. ASSUME NEW u \in User, Undisturbed(u)'
      PROVE  Settled(u)'
  <2>1. Undisturbed(u) /\ Quiet(u)
    BY <1>2, <1>6 DEF Undisturbed, Quiet
  <2>2. Settled(u)
    BY <2>1 DEF Inductive
  <2> QED BY <1>2, <2>1, <2>2 DEF Settled
<1>7. \A s \in Session : ~ InDoubt(s)' /\ ~ Clean(s)'
  BY <1>1, <1>3 DEF InDoubt, Clean, Refused
<1> QED
  BY <1>4, <1>5, <1>6, <1>7 DEF Inductive

\* A server that starts on no files knows of no mails.
LEMMA InitInductive == Init => Inductive
<1> SUFFICES ASSUME Init PROVE Inductive
  OBVIOUS
<1>1. \A s \in Session : Tidy(s) /\ ~ InDoubt(s) /\ ~ Clean(s)
  BY StoreAssumption DEF Init, Tidy, InDoubt, Clean, NoRequest, Refused
<1>2. Alone
  BY StoreAssumption DEF Init, Alone, NoRequest
<1>3. \A u \in User : Settled(u)
  BY HoldsNothing DEF Init, Settled
<1> QED
  BY <1>1, <1>2, <1>3 DEF Inductive
-----------------------------------------------------------------------------
\* A mail of a body that is not empty can be read back.
LEMMA SendKeeps ==
  ASSUME <<>> \notin Body, TypeOK, Inductive, NEW s \in Session,
         NEW r \in User, NEW subject \in Subject, NEW body \in Body,
         Send(s, r, subject, body)
  PROVE  Inductive'
<1> DEFINE m == [sender |-> user[s], receiver |-> r, subject |-> subject,
                 content |-> StoredContent(body)]
           q == [op |-> "SEND", box |-> r, index |-> 0, mail |-> m]
<1>1. user[s] \in User
  BY DEF Send, TypeOK
<1>2. q \in Request
  BY <1>1, RequestType
<1>3. m \in PlainMail
  <2>1. StoredContent(body) = body /\ body # <<>>
    BY DEF StoredContent
  <2>2. \A i \in 1..Len(body) : body[i] # Dot
    <3>1. body \in Seq(Word) /\ Dot \notin Word
      BY StoreAssumption, MarkAssumption
    <3> QED BY <3>1
  <2>3. m \in Mail
    BY <1>2 DEF Request
  <2> QED BY <2>1, <2>2, <2>3 DEF PlainMail
<1>4. Begin(s, q, "stat")
  BY DEF Send
<1>5. q.op = "SEND" /\ q.box = r /\ q.mail = m
  OBVIOUS
<1> HIDE DEF q, m
<1> QED BY <1>2, <1>3, <1>4, <1>5, BeginKeeps

LEMMA AccessKeeps ==
  ASSUME TypeOK, Inductive, NEW s \in Session,
         NEW op \in {"LIST", "READ", "DEL"}, NEW i \in Int, Access(s, op, i)
  PROVE  Inductive'
<1> DEFINE q == [op |-> op, box |-> user[s], mail |-> BlankMail, index |-> i]
           step == IF user[s] \in exists THEN "stat" ELSE "reply"
<1>1. user[s] \in User
  BY DEF Access, TypeOK
<1>2. q \in Request /\ step \in {"stat", "reply"}
  BY <1>1, RequestType
<1>3. Begin(s, q, step)
  BY DEF Access
<1>4. q.op # "none" /\ q.op # "SEND" /\ q.box \in User
  BY <1>1
<1> HIDE DEF q, step
<1> QED BY <1>2, <1>3, <1>4, BeginKeeps

\* Every step of the server preserves the invariant.
LEMMA NextInductive ==
  ASSUME <<>> \notin Body
  PROVE  TypeOK /\ Inductive /\ [Next]_vars => Inductive'
<1> SUFFICES ASSUME TypeOK, Inductive, [Next]_vars PROVE Inductive'
  OBVIOUS
<1>1. ASSUME NEW s \in Session, Arrive(s) PROVE Inductive'
  <2>1. ASSUME NEW u \in User, Login(s, u) PROVE Inductive'
    BY <2>1, FrameKeeps DEF Login, history
  <2>2. ASSUME Quit(s) PROVE Inductive'
    BY <2>2, FrameKeeps DEF Quit, history
  <2>3. Index \subseteq Int
    BY StoreAssumption
  <2> QED
    BY <1>1, <2>1, <2>2, <2>3, SendKeeps, RejectKeeps, AccessKeeps
       DEF Arrive, SendRejected, List, Read, Delete, AccessRejected
<1>2. ASSUME NEW s \in Session, Step(s) PROVE Inductive'
  BY <1>2, NoFileKeeps, OpenForReadKeeps, OpenFailsKeeps, FetchKeeps, FetchEndKeeps,
     ParseMailKeeps, ChangeKeeps, LookKeeps, OpenForWriteKeeps, PutMailKeeps,
     FlushKeeps, WriteFailsKeeps, CloseKeeps, ReplyKeeps, StopKeeps
     DEF Step, ParseThrows, ReplyFails
<1>3. CASE Killed
  BY <1>3, StopKeeps DEF Killed
<1>4. CASE Restart
  BY <1>4, FrameKeeps DEF Restart, thread, history
<1>5. CASE UNCHANGED vars
  BY <1>5, FrameKeeps DEF vars, thread, history
<1> QED BY <1>1, <1>2, <1>3, <1>4, <1>5, FlushPartKeeps DEF Next

\* The invariant gives the two properties.
LEMMA InductiveImplies ==
  ASSUME TypeOK, Inductive
  PROVE  AckedMailKept /\ TrueAnswers
<1>1. AckedMailKept
  BY DEF Inductive, Settled, AckedMailKept
<1>2. ASSUME NEW s \in Session, pc[s] = "reply", req[s].op \in {"READ", "LIST"}, reply[s].ok,
             Undisturbed(req[s].box), s \notin mixed
      PROVE  reply[s] = Answer(req[s], acked[req[s].box])
  <2>1. req[s].box \in User
    BY <1>2 DEF Inductive, Tidy, TypeOK, Request
  <2>2. Progress(s, file[req[s].box], acked[req[s].box])
    BY <1>2, <2>1 DEF Inductive, Clean
  <2>3. req[s].op \notin Rewriting
    BY <1>2 DEF Rewriting
  <2> QED BY <1>2, <2>2, <2>3 DEF Progress
<1> QED BY <1>1, <1>2 DEF TrueAnswers

(***************************************************************************)
(* The relation between files, copies and acknowledged mails holds in      *)
(* every reachable state, for any number of sessions and mailboxes, any    *)
(* sizes of reads and writes, crashes and failing writes at any step.      *)
(***************************************************************************)
THEOREM InductiveInvariant ==
  ASSUME <<>> \notin Body
  PROVE  Spec => []Inductive
<1>1. TypeOK /\ Inductive /\ [Next]_vars => Inductive'
  BY NextInductive
<1> QED BY InitInductive, TypeInvariant, <1>1, PTL DEF Spec

(***************************************************************************)
(* No acknowledged mail is lost, and no deleted one comes back, in a       *)
(* mailbox whose rewriting no other rewriting met and neither a crash nor  *)
(* a full disk cut off (Command::Send, Command::Delete, Mail.cpp).         *)
(***************************************************************************)
THEOREM AckedMailIsKept ==
  ASSUME <<>> \notin Body
  PROVE  Spec => []AckedMailKept
<1>1. TypeOK /\ Inductive => AckedMailKept
  BY InductiveImplies
<1> QED BY TypeInvariant, InductiveInvariant, <1>1, PTL

(***************************************************************************)
(* READ and LIST answer from the acknowledged mails, unless a change of    *)
(* the mailbox ran into them (Command::Read, Command::List).               *)
(***************************************************************************)
THEOREM AnswersAreTrue ==
  ASSUME <<>> \notin Body
  PROVE  Spec => []TrueAnswers
<1>1. TypeOK /\ Inductive => TrueAnswers
  BY InductiveImplies
<1> QED BY TypeInvariant, InductiveInvariant, <1>1, PTL
=============================================================================
