------------------------- MODULE MailRefinementProofs -------------------------
(***************************************************************************)
(* The threads that read and write files implement the mailboxes on which  *)
(* every command takes effect at once: Spec => Atomic, step by step.       *)
(*                                                                         *)
(* A step of a thread between its arrival and its answer is a stutter of   *)
(* Mailbox, but for the one that takes effect: Close for SEND and DEL,     *)
(* Look for the others.                                                    *)
(***************************************************************************)
EXTENDS MailRefinement, MailStoreProofs

\* Mailbox and MailStore speak of the same commands and answers.
LEMMA SameCommands ==
  /\ Promise!Rewriting = Rewriting /\ Promise!Request = Request
  /\ Promise!NoRequest = NoRequest /\ Promise!Refused = Refused
  /\ Promise!AnyReply = [ok : BOOLEAN, lines : Seq(Line)]
  /\ \A q, ms : /\ Promise!Updated(q, ms) = Updated(q, ms)
                /\ Promise!Answer(q, ms) = Answer(q, ms)
BY DEF Promise!Rewriting, Rewriting, Promise!Request, Request, Promise!Mail, Mail,
       Promise!Line, Line, Promise!NoRequest, NoRequest, Promise!BlankMail, BlankMail,
       Promise!Refused, Refused, Promise!AnyReply, Promise!Updated, Updated,
       Promise!ValidIndex, ValidIndex, Promise!RemoveAt, RemoveAt, Promise!Answer, Answer,
       Promise!ReadText, ReadText, Promise!SubjectsOf, SubjectsOf, Promise!Done, Done

\* A DEL writes the mailbox only after it has found its mail there.
Decided ==
  \A s \in Session :
    Clean(s) /\ pc[s] \in {"open", "write"}
    => Answer(req[s], acked[req[s].box]) = Done

\* No other thread than s rewrites the mailbox of s.
LEMMA OnlyOne ==
  ASSUME Inductive, NEW s \in Session, req[s].box \in User, s \notin mixed
  PROVE  \A t \in Session : Rewrites(t, req[s].box) => t = s
BY DEF Inductive, Alone

\* A thread that rewrites an undisturbed mailbox has met no other one.
LEMMA RewriterIsClean ==
  ASSUME Inductive, NEW s \in Session, NEW u \in User, Rewrites(s, u), Undisturbed(u)
  PROVE  Clean(s)
BY DEF Inductive, Alone, Rewrites, Undisturbed, Clean
-----------------------------------------------------------------------------
(* Decided is an invariant.                                                *)

LEMMA InitDecided == Init => Decided
BY DEF Init, Decided

LEMMA NextDecided ==
  TypeOK /\ Inductive /\ Decided /\ [Next]_vars => Decided'
<1> SUFFICES ASSUME TypeOK, Inductive, Decided, [Next]_vars PROVE Decided'
  OBVIOUS
\* A step that moves no thread to "open" and acknowledges nothing.
<1>1. ASSUME UNCHANGED <<req, acked>>, mixed \subseteq mixed', overlapped \subseteq overlapped',
             torn \subseteq torn',
             \A t \in Session : pc'[t] \in {"open", "write"} => pc[t] \in {"open", "write"}
      PROVE  Decided'
  BY <1>1 DEF Decided, Clean, Undisturbed
<1>2. ASSUME NEW s \in Session, NEW q, NEW step \in {"stat", "reply"}, Begin(s, q, step)
      PROVE  Decided'
  <2>1. pc'[s] = step /\ \A t \in Session \ {s} : pc'[t] = pc[t] /\ req'[t] = req[t]
    BY <1>2 DEF Begin, TypeOK
  <2>2. UNCHANGED <<acked, torn>> /\ mixed \subseteq mixed' /\ overlapped \subseteq overlapped'
    BY <1>2 DEF Begin
  <2> QED BY <2>1, <2>2 DEF Decided, Clean, Undisturbed
<1>3. ASSUME NEW s \in Session, Arrive(s) PROVE Decided'
  <2>1. ASSUME Reject(s) PROVE Decided'
    <3>1. \A t \in Session : pc'[t] \in {"open", "write"} => pc[t] \in {"open", "write"}
      BY <2>1 DEF Reject, TypeOK
    <3> QED BY <2>1, <3>1, <1>1 DEF Reject, history
  <2>2. ASSUME NEW u \in User, Login(s, u) PROVE Decided'
    BY <2>2, <1>1 DEF Login, history
  <2>3. ASSUME Quit(s) PROVE Decided'
    BY <2>3, <1>1 DEF Quit, history
  <2>4. ASSUME NEW op, NEW i, Access(s, op, i) PROVE Decided'
    BY <2>4, <1>2 DEF Access
  <2>5. ASSUME NEW r \in User, NEW subject \in Subject, NEW body \in Body,
               Send(s, r, subject, body)
        PROVE  Decided'
    BY <2>5, <1>2 DEF Send
  <2> QED
    BY <1>3, <2>1, <2>2, <2>3, <2>4, <2>5
       DEF Arrive, SendRejected, List, Read, Delete, AccessRejected
<1>4. ASSUME NEW s \in Session, Change(s) PROVE Decided'
  <2>1. pc[s] = "parse" /\ buf[s] = <<>> /\ req[s].op \in Rewriting
        /\ Answer(req[s], mails[s]).ok
    BY <1>4 DEF Change
  <2>2. \A t \in Session \ {s} : pc'[t] = pc[t]
    BY <1>4 DEF Change, TypeOK
  <2>3. UNCHANGED <<req, acked, mixed, overlapped, torn>>
    BY <1>4 DEF Change, history
  <2>4. Clean(s) => Answer(req[s], acked[req[s].box]) = Done
    <3>1. HAVE Clean(s)
    <3>2. mails[s] = acked[req[s].box]
      BY <2>1, <3>1, CopyComplete
    <3> QED BY <2>1, <3>2 DEF Answer, Rewriting, Refused
  <2> QED BY <2>2, <2>3, <2>4 DEF Decided, Clean, Undisturbed
<1>5. ASSUME NEW s \in Session, Reply(s) PROVE Decided'
  <2>1. pc[s] = "reply" /\ pc'[s] = "idle"
        /\ \A t \in Session \ {s} : pc'[t] = pc[t] /\ req'[t] = req[t]
        /\ UNCHANGED <<overlapped, torn>> /\ mixed' = mixed \ {s}
    BY <1>5 DEF Reply, TypeOK
  <2>2. ASSUME NEW t \in Session, Clean(t)', pc'[t] \in {"open", "write"}
        PROVE  Answer(req[t], acked[req[t].box])' = Done
    <3>1. t # s /\ Clean(t)
      BY <2>1, <2>2 DEF Clean, Undisturbed
    <3>2. ~ Rewrites(s, req[t].box)
      BY <3>1, OnlyOne DEF Clean
    <3>3. acked'[req[t].box] = acked[req[t].box]
      BY <1>5, <3>1, <3>2 DEF Reply, Clean
    <3> QED BY <2>1, <2>2, <3>1, <3>3 DEF Decided
  <2> QED BY <2>2 DEF Decided
<1>6. ASSUME Stop PROVE Decided'
  BY <1>6 DEF Stop, Decided
<1>7. ASSUME NEW s \in Session, Step(s) PROVE Decided'
  <2>1. ASSUME NoFile(s) \/ OpenForRead(s) \/ OpenFails(s) \/ Fetch(s) \/ FetchEnd(s)
               \/ ParseMail(s) \/ Look(s) \/ OpenForWrite(s) \/ PutMail(s) \/ Flush(s)
               \/ WriteFails(s) \/ Close(s)
        PROVE  Decided'
    <3>1. UNCHANGED <<req, acked, mixed, overlapped>> /\ torn \subseteq torn'
      BY <2>1 DEF NoFile, OpenForRead, OpenFails, Fetch, FetchEnd, ParseMail, Look,
                  OpenForWrite, PutMail, Flush, WriteFails, Close, history
    <3>2. \A t \in Session : pc'[t] \in {"open", "write"} => pc[t] \in {"open", "write"}
      BY <2>1 DEF NoFile, OpenForRead, OpenFails, Fetch, FetchEnd, ParseMail, Look,
                  OpenForWrite, PutMail, Flush, WriteFails, Close, TypeOK
    <3> QED BY <3>1, <3>2, <1>1
  <2> QED BY <1>7, <2>1, <1>4, <1>5, <1>6 DEF Step, ParseThrows, ReplyFails
<1>8. CASE Restart \/ UNCHANGED vars
  BY <1>8, <1>1 DEF Restart, vars, thread, history
<1>9. ASSUME NEW s \in Session, FlushPart(s) PROVE Decided'
  BY <1>9, <1>1 DEF FlushPart, thread, history
<1> QED BY <1>3, <1>6, <1>7, <1>8, <1>9 DEF Next, Killed
-----------------------------------------------------------------------------
(* The mails of a mailbox, before and after a step.                        *)

\* The contents of an undisturbed mailbox are the acknowledged mails, or those
\* and the change of the one command that has been written.
ContentsFacts ==
  \A u \in User :
    /\ ~ Undisturbed(u) => Contents(u) = <<>>
    /\ Undisturbed(u) => \A s \in Session :
         Written(s, u) => Contents(u) = Updated(req[s], acked[u])
    /\ Undisturbed(u) /\ (\A s \in Session : ~ Written(s, u)) => Contents(u) = acked[u]

LEMMA ContentsAre == TypeOK /\ Inductive => ContentsFacts
<1> SUFFICES ASSUME TypeOK, Inductive, NEW u \in User, Undisturbed(u),
                    NEW s \in Session, Written(s, u)
             PROVE  Contents(u) = Updated(req[s], acked[u])
  BY DEF ContentsFacts, Contents
<1>1. \A t \in Session : Written(t, u) => t = s
  BY RewriterIsClean, OnlyOne DEF Written, Rewrites, Clean
<1>2. (CHOOSE t \in Session : Written(t, u)) = s
  BY <1>1
<1> QED BY <1>2 DEF Contents

\* What a reachable state satisfies.
Reached == TypeOK /\ Inductive /\ Decided /\ ContentsFacts

\* A step that writes no answer of a SEND or DEL and acknowledges none spoils
\* the mailboxes it disturbs and leaves the others as they were.
LEMMA ContentsKept ==
  ASSUME Reached, Reached', NEW us,
         (overlapped \cup torn)' = (overlapped \cup torn) \cup us,
         UNCHANGED acked,
         \A s \in Session, u \in User \ us :
           /\ Written(s, u)' <=> Written(s, u)
           /\ Written(s, u) => req'[s] = req[s]
  PROVE  /\ Promise!Spoil(us)
         /\ \A u \in User : Contents(u)' = IF u \in us THEN <<>> ELSE Contents(u)
<1>1. \A u \in User : Undisturbed(u)' <=> Undisturbed(u) /\ u \notin us
  BY DEF Undisturbed
<1>2. ASSUME NEW u \in User
      PROVE  Contents(u)' = IF u \in us THEN <<>> ELSE Contents(u)
  <2>1. CASE ~ Undisturbed(u)'
    BY <1>1, <2>1 DEF Reached, ContentsFacts
  <2>2. CASE Undisturbed(u)' /\ \A s \in Session : ~ Written(s, u)
    <3>1. \A s \in Session : ~ Written(s, u)'
      BY <1>1, <2>2
    <3> QED BY <1>1, <2>2, <3>1 DEF Reached, ContentsFacts
  <2>3. ASSUME NEW s \in Session, Written(s, u), Undisturbed(u)'
        PROVE  Contents(u)' = Contents(u)
    <3>1. Written(s, u)' /\ req'[s] = req[s] /\ acked'[u] = acked[u]
      BY <1>1, <2>3
    <3> QED BY <1>1, <2>3, <3>1 DEF Reached, ContentsFacts
  <2> QED BY <1>1, <2>1, <2>2, <2>3
<1>3. Promise!Spoil(us)
  BY <1>2 DEF Promise!Spoil
<1> QED BY <1>2, <1>3

\* The special case of a step that disturbs nothing.
LEMMA ContentsSame ==
  ASSUME Reached, Reached', UNCHANGED <<acked, overlapped, torn>>,
         \A s \in Session, u \in User :
           /\ Written(s, u)' <=> Written(s, u)
           /\ Written(s, u) => req'[s] = req[s]
  PROVE  UNCHANGED <<[u \in User |-> Contents(u)], overlapped \cup torn>>
<1> PICK none : none = {}
  OBVIOUS
<1>1. (overlapped \cup torn)' = (overlapped \cup torn) \cup none /\ acked' = acked
  OBVIOUS
<1>2. \A s \in Session, u \in User \ none :
        /\ Written(s, u)' <=> Written(s, u)
        /\ Written(s, u) => req'[s] = req[s]
  OBVIOUS
<1>3. \A u \in User : Contents(u)' = IF u \in none THEN <<>> ELSE Contents(u)
  BY <1>1, <1>2, ContentsKept
<1> QED BY <1>1, <1>3

\* A thread that has not answered wrote nothing Mailbox does not know of.
LEMMA WrittenOnly ==
  ASSUME TypeOK, NEW s \in Session, UNCHANGED req,
         \A t \in Session \ {s} : pc'[t] = pc[t] /\ reply'[t] = reply[t],
         req[s].op \in Rewriting =>
           ~ (pc[s] = "reply" /\ reply[s].ok) /\ ~ (pc'[s] = "reply" /\ reply'[s].ok)
  PROVE  \A t \in Session, u \in User :
           /\ Written(t, u)' <=> Written(t, u)
           /\ Written(t, u) => req'[t] = req[t]
BY DEF Written, Rewrites
-----------------------------------------------------------------------------
(* The steps of MailStore as steps of Mailbox.                             *)

LEMMA InitMaps == Init => Promise!Init
<1> SUFFICES ASSUME Init PROVE Promise!Init
  OBVIOUS
<1>1. \A s \in Session : Stage(s) = "none"
  BY DEF Init, Stage
<1>2. \A u \in User : Contents(u) = <<>>
  <2>1. \A s \in Session, u \in User : ~ Written(s, u)
    BY DEF Init, Written
  <2> QED BY <2>1 DEF Init, Contents
<1> QED BY <1>1, <1>2, SameCommands DEF Init, Promise!Init

\* The steps of a thread with its file, and those of a session without a
\* command, are not visible in Mailbox.
LEMMA StutterMaps ==
  ASSUME Reached, Reached', UNCHANGED <<req, reply, mixed, acked, overlapped, torn>>,
         \A s \in Session : \/ pc'[s] = pc[s]
                            \/ {pc[s], pc'[s]} \subseteq {"stat", "read", "parse", "open", "write"}
  PROVE  UNCHANGED Promise!mvars
<1>1. \A s \in Session : Stage(s)' = Stage(s)
  BY DEF Stage
<1>2. \A s \in Session, u \in User : (Written(s, u)' <=> Written(s, u)) /\ req'[s] = req[s]
  BY DEF Written, Rewrites
<1>3. UNCHANGED <<[u \in User |-> Contents(u)], overlapped \cup torn>>
  BY <1>2, ContentsSame
<1>4. UNCHANGED [s \in Session |-> Stage(s)]
  BY <1>1
<1> QED BY <1>3, <1>4 DEF Promise!mvars

\* Stage follows pc.
LEMMA StageMoves ==
  ASSUME TypeOK, NEW s \in Session, \A t \in Session \ {s} : pc'[t] = pc[t]
  PROVE  [t \in Session |-> Stage(t)]'
           = [[t \in Session |-> Stage(t)] EXCEPT ![s] = Stage(s)']
<1>1. \A t \in Session \ {s} : Stage(t)' = Stage(t)
  BY DEF Stage
<1> QED BY <1>1

\* A refused command: Refuse.
LEMMA RejectMaps ==
  ASSUME Reached, Reached', NEW s \in Session, Reject(s)
  PROVE  Promise!Refuse(s)
<1>1. /\ pc[s] = "idle" /\ pc'[s] = "reply" /\ \A t \in Session \ {s} : pc'[t] = pc[t]
      /\ UNCHANGED <<req, reply, mixed, acked, overlapped, torn>>
  BY DEF Reject, history, Reached, TypeOK
<1>2. reply[s] = Refused
  BY <1>1 DEF Reached, Inductive, Tidy
<1>3. UNCHANGED <<[u \in User |-> Contents(u)], overlapped \cup torn>>
  BY <1>1, <1>2, WrittenOnly, ContentsSame DEF Reached, Refused
<1>4. Stage(s) = "none" /\ Stage(s)' = "done"
  BY <1>1 DEF Stage
<1> QED BY <1>1, <1>3, <1>4, StageMoves DEF Promise!Refuse, Reached

\* The arrival of a command: Start, or CallEmpty when the mailbox has no file.
LEMMA BeginMaps ==
  ASSUME Reached, Reached', NEW s \in Session, NEW q \in Request,
         q.box \in User, q.op = "SEND" => q.mail.receiver = q.box,
         NEW step \in {"stat", "reply"}, Begin(s, q, step),
         step = "reply" => q.op # "SEND" /\ q.box \notin exists
  PROVE  Promise!Start(s) \/ Promise!CallEmpty(s)
<1>1. /\ pc[s] = "idle" /\ pc'[s] = step
      /\ req' = [req EXCEPT ![s] = q] /\ req'[s] = q
      /\ \A t \in Session \ {s} : pc'[t] = pc[t] /\ req'[t] = req[t]
      /\ UNCHANGED <<acked, torn, reply>>
  BY DEF Begin, Reached, TypeOK
<1>2. reply[s] = Refused
  BY <1>1 DEF Reached, Inductive, Tidy
<1>3. PICK us : us = {u \in {q.box} : q.op \in Rewriting /\ \E r \in Session : Rewrites(r, u)}
  OBVIOUS
<1>4. (overlapped \cup torn)' = (overlapped \cup torn) \cup us /\ acked' = acked
  BY <1>1, <1>3 DEF Begin
<1>5. \A t \in Session, u \in User \ us : /\ Written(t, u)' <=> Written(t, u)
                                          /\ Written(t, u) => req'[t] = req[t]
  BY <1>1, <1>2 DEF Written, Rewrites, Refused
<1>6. Promise!Spoil(us)
  BY <1>4, <1>5, ContentsKept
<1>7. Stage(s) = "none" /\ Stage(s)' = IF step = "stat" THEN "called" ELSE "done"
  BY <1>1 DEF Stage
<1>8. \A t \in Session : \A u : Promise!Changing(t, u) <=> Rewrites(t, u)
  BY SameCommands DEF Promise!Changing, Rewrites
<1>9. Promise!Call(s)
  <2>1. us = {u \in {req'[s].box} : req'[s].op \in Promise!Rewriting
                   /\ {t \in Session : Promise!Changing(t, req'[s].box)} # {}}
    BY <1>1, <1>3, <1>8, SameCommands
  <2>2. Promise!Spoil({u \in {req'[s].box} : req'[s].op \in Promise!Rewriting
                   /\ {t \in Session : Promise!Changing(t, req'[s].box)} # {}})
    BY <1>6, <2>1
  <2>3. mixed' = mixed
          \cup {t \in {s} : {r \in Session : Promise!Changing(r, req'[s].box)} # {}}
          \cup {t \in Session : req'[s].op \in Promise!Rewriting /\ req[t].box = req'[s].box}
    BY <1>1, <1>8, SameCommands DEF Begin
  <2>4. [t \in Session |-> Stage(t)][s] = "none"
    BY <1>7
  <2>5. req'[s] \in Promise!Request
    <3>1. Promise!Request = Request
      BY SameCommands
    <3>2. q \in Promise!Request
      BY <3>1
    <3> QED BY <1>1, <3>2
  <2>6. req' = [req EXCEPT ![s] = req'[s]]
    BY <1>1
  <2> QED BY <1>1, <2>2, <2>3, <2>4, <2>5, <2>6 DEF Promise!Call
<1>10. CASE step = "stat"
  BY <1>1, <1>7, <1>9, <1>10, StageMoves DEF Promise!Start, Reached
<1>11. CASE step = "reply"
  <2>1. q.op # "SEND" /\ q.box \notin exists
    BY <1>11
  <2>2. Undisturbed(q.box) => Contents(q.box) = <<>>
    <3>1. HAVE Undisturbed(q.box)
    <3>2. acked[q.box] = <<>>
      BY <2>1, <3>1 DEF Reached, Inductive, Settled
    <3>3. \A t \in Session : ~ Written(t, q.box)
      BY <2>1 DEF Reached, Inductive, Written, InDoubt, Rewrites
    <3> QED BY <3>1, <3>2, <3>3 DEF Reached, ContentsFacts
  <2>3. q.box \in (overlapped \cup torn) \cup {u \in User : Contents(u) = <<>>}
    BY <2>2 DEF Undisturbed
  <2> QED BY <1>1, <1>7, <1>9, <1>11, <2>1, <2>3, StageMoves, SameCommands
             DEF Promise!CallEmpty, Reached, Rewriting
<1> QED BY <1>10, <1>11

\* The file cannot be opened: Fail.
LEMMA OpenFailsMaps ==
  ASSUME Reached, Reached', NEW s \in Session, OpenFails(s)
  PROVE  Promise!Fail(s)
<1>1. /\ pc[s] \in {"stat", "open"} /\ pc'[s] = "reply"
      /\ \A t \in Session \ {s} : pc'[t] = pc[t]
      /\ UNCHANGED <<req, reply, mixed, acked, overlapped, torn>>
  BY DEF OpenFails, history, Reached, TypeOK
<1>2. reply[s] = Refused
  BY <1>1 DEF Reached, Inductive, Tidy
<1>3. UNCHANGED <<[u \in User |-> Contents(u)], overlapped \cup torn>>
  BY <1>1, <1>2, WrittenOnly, ContentsSame DEF Reached, Refused
<1>4. Stage(s) = "called" /\ Stage(s)' = "done"
  BY <1>1 DEF Stage
<1> QED BY <1>1, <1>3, <1>4, StageMoves DEF Promise!Fail, Reached

\* What is common to the two steps that may take effect: of a clean command
\* the answer and the new mails follow from the acknowledged ones, and of any
\* other nothing is promised.
LEMMA EffectMaps ==
  ASSUME Reached, Reached', NEW s \in Session,
         pc[s] \in {"parse", "write"}, pc'[s] = "reply",
         UNCHANGED <<req, mixed, acked, overlapped, torn>>,
         reply' = [reply EXCEPT ![s] = reply'[s]],
         \A t \in Session \ {s} : pc'[t] = pc[t],
         Clean(s) => reply'[s] = Answer(req[s], acked[req[s].box]),
         req[s].op \in Rewriting /\ Clean(s) /\ ~ reply'[s].ok
           => Updated(req[s], acked[req[s].box]) = acked[req[s].box]
  PROVE  Promise!TakeEffect(s) \/ Promise!Guess(s)
<1> DEFINE b == req[s].box
<1>1. b \in User /\ \A t \in Session \ {s} : reply'[t] = reply[t]
  BY DEF Reached, TypeOK
<1>2. Stage(s) = "called" /\ Stage(s)' = "done"
  BY DEF Stage
<1>3. \A u \in User : Undisturbed(u)' <=> Undisturbed(u)
  BY DEF Undisturbed
<1>4. \A t \in Session, u \in User :
         (t # s \/ u # b) => (Written(t, u)' <=> Written(t, u)) /\ req'[t] = req[t]
  BY <1>1 DEF Written, Rewrites
<1>5. \A u \in User \ {b} : Contents(u)' = Contents(u)
  <2> SUFFICES ASSUME NEW u \in User, u # b, Undisturbed(u) PROVE Contents(u)' = Contents(u)
    BY <1>3 DEF Reached, ContentsFacts
  <2>1. CASE \A t \in Session : ~ Written(t, u)
    BY <1>3, <1>4, <2>1 DEF Reached, ContentsFacts
  <2>2. ASSUME NEW t \in Session, Written(t, u) PROVE Contents(u)' = Contents(u)
    <3>1. Written(t, u)' /\ req'[t] = req[t] /\ acked'[u] = acked[u]
      BY <1>4, <2>2
    <3> QED BY <1>3, <2>2, <3>1 DEF Reached, ContentsFacts
  <2> QED BY <2>1, <2>2
<1>6. CASE Clean(s)
  <2>1. Undisturbed(b) /\ s \notin mixed
    BY <1>6 DEF Clean
  <2>2. \A t \in Session : Rewrites(t, b) => t = s
    BY <1>1, <2>1, OnlyOne DEF Reached
  <2>3. Contents(b) = acked[b]
    BY <1>1, <2>1, <2>2 DEF Written, Reached, ContentsFacts
  <2>4. \A t \in Session : Written(t, b)' => t = s
    BY <2>2 DEF Written, Rewrites
  <2>5. Contents(b)' = Updated(req[s], acked[b])
    <3>1. CASE Written(s, b)'
      BY <1>1, <1>3, <2>1, <3>1 DEF Reached, ContentsFacts
    <3>2. CASE ~ Written(s, b)'
      <4>1. Contents(b)' = acked[b]
        BY <1>1, <1>3, <2>1, <2>4, <3>2 DEF Reached, ContentsFacts
      <4>2. req[s].op \in Rewriting => ~ reply'[s].ok
        BY <3>2 DEF Written, Rewrites
      <4>3. req[s].op \notin Rewriting => Updated(req[s], acked[b]) = acked[b]
        BY DEF Updated, Rewriting
      <4> QED BY <1>6, <4>1, <4>2, <4>3
    <3> QED BY <3>1, <3>2
  <2>6. [u \in User |-> Contents(u)]'
          = [[u \in User |-> Contents(u)] EXCEPT ![b] = Promise!Updated(req[s], @)]
    BY <1>1, <1>5, <2>3, <2>5, SameCommands
  <2>7. reply' = [reply EXCEPT ![s] = Promise!Answer(req[s], [u \in User |-> Contents(u)][b])]
    BY <1>1, <1>6, <2>3, SameCommands
  <2> QED BY <1>2, <2>1, <2>6, <2>7, StageMoves DEF Promise!TakeEffect, Reached, Undisturbed
<1>7. CASE ~ Clean(s)
  <2>1. ~ Undisturbed(b) \/ s \in mixed
    BY <1>1, <1>7 DEF Clean
  <2>2. Contents(b)' = Contents(b)
    <3>1. CASE ~ Undisturbed(b)
      BY <1>1, <1>3, <3>1 DEF Reached, ContentsFacts
    <3>2. CASE Undisturbed(b) /\ s \in mixed
      <4>1. req[s].op \notin Rewriting
        BY <3>2 DEF Reached, Inductive, Alone, Undisturbed
      <4>2. ~ Written(s, b) /\ ~ Written(s, b)'
        BY <4>1 DEF Written, Rewrites
      <4>3. \A t \in Session : (Written(t, b)' <=> Written(t, b)) /\ req'[t] = req[t]
        BY <1>1, <1>4, <4>2
      <4>4. CASE \A t \in Session : ~ Written(t, b)
        BY <1>1, <1>3, <3>2, <4>3, <4>4 DEF Reached, ContentsFacts
      <4>5. ASSUME NEW t \in Session, Written(t, b) PROVE Contents(b)' = Contents(b)
        BY <1>1, <1>3, <3>2, <4>3, <4>5 DEF Reached, ContentsFacts
      <4> QED BY <4>4, <4>5
    <3> QED BY <2>1, <3>1, <3>2
  <2>3. UNCHANGED [u \in User |-> Contents(u)]
    BY <1>5, <2>2
  <2>4. reply' \in [Session -> Promise!AnyReply]
    BY SameCommands DEF Reached, TypeOK
  <2> QED BY <1>1, <1>2, <2>1, <2>3, <2>4, StageMoves DEF Promise!Guess, Reached, Undisturbed
<1> QED BY <1>6, <1>7

\* READ and LIST take effect when the copy is complete, and so does a DEL that
\* finds no mail of its number.
LEMMA LookMaps ==
  ASSUME Reached, Reached', NEW s \in Session, Look(s)
  PROVE  Promise!TakeEffect(s) \/ Promise!Guess(s)
<1>1. /\ pc[s] = "parse" /\ buf[s] = <<>> /\ pc'[s] = "reply"
      /\ reply' = [reply EXCEPT ![s] = Answer(req[s], mails[s])]
      /\ reply'[s] = Answer(req[s], mails[s])
      /\ \A t \in Session \ {s} : pc'[t] = pc[t]
      /\ UNCHANGED <<req, mixed, acked, overlapped, torn>>
      /\ req[s].op \in Rewriting => ~ reply'[s].ok
  BY DEF Look, history, Reached, TypeOK
<1>2. ASSUME Clean(s) PROVE mails[s] = acked[req[s].box]
  BY <1>1, <1>2, CopyComplete DEF Reached
<1>3. ASSUME req[s].op \in Rewriting, Clean(s), ~ reply'[s].ok
      PROVE  Updated(req[s], acked[req[s].box]) = acked[req[s].box]
  BY <1>1, <1>2, <1>3 DEF Answer, Updated, Rewriting, Done
<1> QED BY <1>1, <1>2, <1>3, EffectMaps

\* SEND and DEL take effect when the file is closed.
LEMMA CloseMaps ==
  ASSUME Reached, Reached', NEW s \in Session, Close(s)
  PROVE  Promise!TakeEffect(s) \/ Promise!Guess(s)
<1>1. /\ pc[s] = "write" /\ pc'[s] = "reply"
      /\ reply' = [reply EXCEPT ![s] = Done] /\ reply'[s] = Done
      /\ \A t \in Session \ {s} : pc'[t] = pc[t]
      /\ UNCHANGED <<req, mixed, acked, overlapped, torn>>
  BY DEF Close, history, Reached, TypeOK
<1>2. Clean(s) => Answer(req[s], acked[req[s].box]) = Done
  BY <1>1 DEF Reached, Decided
<1>3. reply'[s].ok
  BY <1>1 DEF Done
<1> QED BY <1>1, <1>2, <1>3, EffectMaps

\* A failed write spoils the mailbox, and the command goes on.
LEMMA WriteFailsMaps ==
  ASSUME Reached, Reached', NEW s \in Session, WriteFails(s)
  PROVE  Promise!WriteFails(s)
<1>1. /\ pc[s] = "write" /\ torn' = torn \cup {req[s].box}
      /\ UNCHANGED <<pc, req, reply, mixed, acked, overlapped>>
  BY DEF WriteFails
<1>2. Stage(s) = "called" /\ UNCHANGED [t \in Session |-> Stage(t)]
  BY <1>1 DEF Stage
<1>3. req[s].op \in Promise!Rewriting
  BY <1>1, SameCommands DEF Reached, Inductive, Tidy
<1>4. PICK us : us = {req[s].box}
  OBVIOUS
<1>5. (overlapped \cup torn)' = (overlapped \cup torn) \cup us /\ acked' = acked
  BY <1>1, <1>4
<1>6. \A t \in Session, u \in User \ us : /\ Written(t, u)' <=> Written(t, u)
                                          /\ Written(t, u) => req'[t] = req[t]
  BY <1>1 DEF Written, Rewrites
<1>7. Promise!Spoil({req[s].box})
  BY <1>4, <1>5, <1>6, ContentsKept
<1> QED BY <1>1, <1>2, <1>3, <1>7 DEF Promise!WriteFails

\* The answer: what was carried out is now acknowledged.
LEMMA ReplyMaps ==
  ASSUME Reached, Reached', NEW s \in Session, Reply(s)
  PROVE  Promise!Return(s)
<1>1. /\ pc[s] = "reply" /\ pc'[s] = "idle"
      /\ req' = [req EXCEPT ![s] = NoRequest] /\ reply' = [reply EXCEPT ![s] = Refused]
      /\ mixed' = mixed \ {s} /\ UNCHANGED <<overlapped, torn>>
      /\ \A t \in Session \ {s} : pc'[t] = pc[t] /\ req'[t] = req[t] /\ reply'[t] = reply[t]
  BY DEF Reply, Reached, TypeOK
<1>2. \A u \in User : /\ Undisturbed(u)' <=> Undisturbed(u)
                      /\ acked'[u] = IF Written(s, u) THEN Updated(req[s], acked[u]) ELSE acked[u]
  BY <1>1 DEF Undisturbed, Reply, Written
<1>3. \A u \in User : /\ ~ Written(s, u)'
                      /\ \A t \in Session \ {s} : Written(t, u)' <=> Written(t, u)
  BY <1>1 DEF Written, Rewrites
<1>4. \A u \in User : Contents(u)' = Contents(u)
  <2> SUFFICES ASSUME NEW u \in User, Undisturbed(u) PROVE Contents(u)' = Contents(u)
    BY <1>2 DEF Reached, ContentsFacts
  <2>1. CASE Written(s, u)
    <3>1. \A t \in Session : Written(t, u) => t = s
      BY <2>1, RewriterIsClean, OnlyOne DEF Written, Rewrites, Clean, Reached
    <3>2. \A t \in Session : ~ Written(t, u)'
      BY <1>3, <3>1
    <3> QED BY <1>2, <2>1, <3>2 DEF Reached, ContentsFacts
  <2>2. ASSUME ~ Written(s, u), NEW t \in Session, Written(t, u)
        PROVE  Contents(u)' = Contents(u)
    <3>1. t # s /\ Written(t, u)' /\ req'[t] = req[t] /\ acked'[u] = acked[u]
      BY <1>1, <1>2, <1>3, <2>2
    <3> QED BY <1>2, <2>2, <3>1 DEF Reached, ContentsFacts
  <2>3. CASE \A t \in Session : ~ Written(t, u)
    <3>1. (\A t \in Session : ~ Written(t, u)') /\ acked'[u] = acked[u]
      BY <1>2, <1>3, <2>3
    <3> QED BY <1>2, <2>3, <3>1 DEF Reached, ContentsFacts
  <2> QED BY <2>1, <2>2, <2>3
<1>5. Stage(s) = "done" /\ Stage(s)' = "none"
  BY <1>1 DEF Stage
<1> QED BY <1>1, <1>4, <1>5, StageMoves, SameCommands DEF Promise!Return, Reached

\* The end of the process cuts off the commands the threads are in doubt about.
LEMMA StopMaps ==
  ASSUME Reached, Reached', Stop
  PROVE  Promise!Crash
<1>1. /\ \A s \in Session : pc'[s] = "idle"
      /\ req' = [s \in Session |-> NoRequest] /\ reply' = [s \in Session |-> Refused]
      /\ mixed' = {} /\ UNCHANGED <<acked, overlapped>>
      /\ torn' = torn \cup {u \in User : \E s \in Session : InDoubt(s) /\ Rewrites(s, u)}
  BY DEF Stop
<1>2. PICK cut : cut = {s \in Session : InDoubt(s)}
  OBVIOUS
<1>3. PICK us : us = {u \in User : \E s \in cut : Promise!Changing(s, u)}
  OBVIOUS
<1>4. us = {u \in User : \E s \in Session : InDoubt(s) /\ Rewrites(s, u)}
  BY <1>2, <1>3, SameCommands DEF Promise!Changing, Rewrites
<1>5. (overlapped \cup torn)' = (overlapped \cup torn) \cup us /\ acked' = acked
  BY <1>1, <1>4
<1>6. \A s \in Session, u \in User \ us : ~ Written(s, u) /\ ~ Written(s, u)'
  BY <1>1, <1>4 DEF Written, InDoubt
<1>7. Promise!Spoil(us)
  BY <1>5, <1>6, ContentsKept
<1>8. Promise!Spoil({u \in User : \E s \in cut : Promise!Changing(s, u)})
  BY <1>3, <1>7
<1>9. [s \in Session |-> Stage(s)]' = [s \in Session |-> "none"]
  BY <1>1 DEF Stage
<1>10. cut \in SUBSET Session
  BY <1>2
<1> QED BY <1>1, <1>8, <1>9, <1>10, SameCommands DEF Promise!Crash
-----------------------------------------------------------------------------
LEMMA ArriveMaps ==
  ASSUME Reached, Reached', NEW s \in Session, Arrive(s)
  PROVE  [Promise!Next]_Promise!mvars
<1>1. ASSUME Reject(s) PROVE Promise!Next
  BY <1>1, RejectMaps DEF Promise!Next
<1>2. ASSUME NEW u \in User, Login(s, u) PROVE UNCHANGED Promise!mvars
  BY <1>2, StutterMaps DEF Login, history
<1>3. ASSUME Quit(s) PROVE UNCHANGED Promise!mvars
  BY <1>3, StutterMaps DEF Quit, history
<1>4. ASSUME NEW op \in {"LIST", "READ", "DEL"}, NEW i \in Int, Access(s, op, i)
      PROVE  Promise!Next
  <2> DEFINE q == [op |-> op, box |-> user[s], mail |-> BlankMail, index |-> i]
             step == IF user[s] \in exists THEN "stat" ELSE "reply"
  <2>1. user[s] \in User
    BY <1>4 DEF Access, Reached, TypeOK
  <2>2. q \in Request /\ step \in {"stat", "reply"}
    BY <2>1, RequestType
  <2>3. Begin(s, q, step)
    BY <1>4 DEF Access
  <2>4. q.box \in User /\ q.op # "SEND" /\ (step = "reply" => q.box \notin exists)
    BY <2>1
  <2> HIDE DEF q, step
  <2>5. Promise!Start(s) \/ Promise!CallEmpty(s)
    BY <2>2, <2>3, <2>4, BeginMaps
  <2> QED BY <2>5 DEF Promise!Next
<1>5. ASSUME NEW r \in User, NEW subject \in Subject, NEW body \in Body,
             Send(s, r, subject, body)
      PROVE  Promise!Next
  <2> DEFINE m == [sender |-> user[s], receiver |-> r, subject |-> subject,
                   content |-> StoredContent(body)]
             q == [op |-> "SEND", box |-> r, index |-> 0, mail |-> m]
  <2>1. user[s] \in User
    BY <1>5 DEF Send, Reached, TypeOK
  <2>2. q \in Request
    BY <2>1, RequestType
  <2>3. Begin(s, q, "stat")
    BY <1>5 DEF Send
  <2>4. q.box \in User /\ q.mail.receiver = q.box
    OBVIOUS
  <2> HIDE DEF m, q
  <2>5. Promise!Start(s) \/ Promise!CallEmpty(s)
    BY <2>2, <2>3, <2>4, BeginMaps
  <2> QED BY <2>5 DEF Promise!Next
<1>6. Index \subseteq Int
  BY StoreAssumption
<1> QED
  BY <1>1, <1>2, <1>3, <1>4, <1>5, <1>6
     DEF Arrive, SendRejected, List, Read, Delete, AccessRejected

LEMMA StepMaps ==
  ASSUME Reached, Reached', NEW s \in Session, Step(s)
  PROVE  [Promise!Next]_Promise!mvars
<1>1. ASSUME NoFile(s) \/ OpenForRead(s) \/ Fetch(s) \/ FetchEnd(s) \/ ParseMail(s)
             \/ Change(s) \/ OpenForWrite(s) \/ PutMail(s) \/ Flush(s)
      PROVE  UNCHANGED Promise!mvars
  <2>1. UNCHANGED <<req, reply, mixed, acked, overlapped, torn>>
    BY <1>1 DEF NoFile, OpenForRead, Fetch, FetchEnd, ParseMail, Change, OpenForWrite,
                PutMail, Flush, history
  <2>2. \A t \in Session : \/ pc'[t] = pc[t]
                           \/ {pc[t], pc'[t]} \subseteq {"stat", "read", "parse", "open", "write"}
    BY <1>1, ZenonT(30) DEF NoFile, OpenForRead, Fetch, FetchEnd, ParseMail, Change, OpenForWrite,
                PutMail, Flush, Reached, TypeOK
  <2> QED BY <2>1, <2>2, StutterMaps
<1>2. ASSUME Stop PROVE Promise!Next
  BY <1>2, StopMaps DEF Promise!Next
<1> QED
  BY <1>1, <1>2, OpenFailsMaps, LookMaps, CloseMaps, WriteFailsMaps, ReplyMaps
     DEF Step, ParseThrows, ReplyFails, Promise!Next, Promise!Serve

LEMMA NextMaps ==
  Reached /\ Reached' /\ [Next]_vars => [Promise!Next]_Promise!mvars
<1> SUFFICES ASSUME Reached, Reached', [Next]_vars PROVE [Promise!Next]_Promise!mvars
  OBVIOUS
<1>1. CASE Killed
  BY <1>1, StopMaps DEF Killed, Promise!Next
<1>2. CASE Restart \/ UNCHANGED vars
  BY <1>2, StutterMaps DEF Restart, vars, thread, history
<1>3. ASSUME NEW s \in Session, FlushPart(s) PROVE UNCHANGED Promise!mvars
  BY <1>3, StutterMaps DEF FlushPart, thread, history
<1> QED BY <1>1, <1>2, <1>3, ArriveMaps, StepMaps DEF Next

(***************************************************************************)
(* The server keeps its promise, for any number of sessions and mailboxes: *)
(* every command on an undisturbed mailbox takes effect at one moment and  *)
(* is answered from the mails of that moment, although the threads         *)
(* truncate and rewrite files under each other, fail and are killed        *)
(* (Command::Send, Read, List and Delete over Mails::Deserialize and       *)
(* Serialize).                                                             *)
(***************************************************************************)
THEOREM ServerKeepsPromise ==
  ASSUME <<>> \notin Body
  PROVE  Spec => Atomic
<1>1. Spec => []Inductive
  BY InductiveInvariant
<1>2. Spec => []Reached
  BY InitDecided, NextDecided, TypeInvariant, <1>1, ContentsAre, PTL DEF Spec, Reached
<1> QED BY InitMaps, NextMaps, <1>2, PTL DEF Spec, Atomic, Promise!Spec
=============================================================================
