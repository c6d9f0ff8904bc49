------------------------------ MODULE MailStore ------------------------------
(***************************************************************************)
(* The mailboxes of the server and the threads that work on them           *)
(* (tw-mailer/src/server: Command.cpp, Mail.cpp, ServerCommunication.cpp). *)
(*                                                                         *)
(* Every connection has a thread.  SEND, READ, LIST and DEL load the whole *)
(* file of a mailbox, change the copy, and write the whole file again:     *)
(* truncate, write from the start, close.  The mutex each command locks is *)
(* a local variable of the function, so it excludes nobody, and it has no  *)
(* action here.  The file keeps what has been written when the process     *)
(* ends; everything else is lost.                                          *)
(***************************************************************************)
EXTENDS MailCommands

CONSTANTS
  Session,      \* the connections, each with a thread of its own
  InvalidName,  \* a receiver ValidateUsername rejects
  LongSubject,  \* a subject of more than 80 characters
  Body,         \* the bodies clients type, as sequences of lines
  Index,        \* the message numbers clients type
  Chunk,        \* how many lines one read or write of a file may move
  Beginning,    \* what may be left of a line when a write ends inside it
  MaxSends,     \* a bound: how many SENDs every mailbox gets
  Fault         \* which of "open", "disk", "pipe" and "kill" may happen

ASSUME StoreAssumption ==
  /\ NoUser \notin User
  /\ InvalidName \notin User
  /\ LongSubject \notin Subject
  /\ Body \subseteq Seq(Word)
  /\ Index \subseteq Int
  /\ Chunk \subseteq Nat \ {0}
  /\ Beginning \in [Line -> SUBSET Line] /\ Beginning[Dot] = {}
  /\ MaxSends \in Nat
  /\ Fault \subseteq {"open", "disk", "pipe", "kill"}

VARIABLES
  up,      \* is the server process running
  file,    \* the lines of every mailbox file
  exists,  \* the mailboxes that have a file
  pc,      \* what the thread of a session does next
  user,    \* mSessionData.first
  req,     \* the command the thread executes
  mails,   \* mMails: the mails read so far, or those still to be written
  buf,     \* lines read and not yet parsed, or put and not yet written
  off,     \* the position of the open file
  reply    \* the answer to be sent

\* What happened, for the properties to refer to; the code has none of it.
VARIABLES
  sent,        \* how many SENDs the mailbox got, for the bound MaxSends only
  acked,       \* the mails of a mailbox according to the answers sent
  mixed,       \* the sessions whose command met one that rewrites its mailbox
  overlapped,  \* the mailboxes two rewriting commands ever met on
  torn         \* the mailboxes whose rewriting a crash or a full disk ever cut off

thread  == <<pc, user, req, mails, buf, off, reply>>
history == <<sent, acked, mixed, overlapped, torn>>
vars    == <<up, file, exists, thread, history>>

\* The thread t executes a command that may rewrite the mailbox u.
Rewrites(t, u) == req[t].box = u /\ req[t].op \in Rewriting

Overwrite(lines, pos, new) ==
  [j \in 1..Max({Len(lines), pos + Len(new)}) |->
     IF pos < j /\ j <= pos + Len(new) THEN new[j - pos]
     ELSE IF j <= Len(lines) THEN lines[j] ELSE Nul]

Init ==
  /\ up = TRUE
  /\ file = [u \in User |-> <<>>]
  /\ exists = {}
  /\ pc = [s \in Session |-> "idle"]
  /\ user = [s \in Session |-> NoUser]
  /\ req = [s \in Session |-> NoRequest]
  /\ mails = [s \in Session |-> <<>>]
  /\ buf = [s \in Session |-> <<>>]
  /\ off = [s \in Session |-> 0]
  /\ reply = [s \in Session |-> Refused]
  /\ sent = [u \in User |-> 0]
  /\ acked = [u \in User |-> <<>>]
  /\ mixed = {}
  /\ overlapped = {}
  /\ torn = {}
-----------------------------------------------------------------------------
(* The session: its login, its end and the arrival of a command.           *)

\* CheckLoginData accepted the name and the password.
Login(s, u) ==
  /\ up
  /\ pc[s] = "idle"
  /\ user[s] # u
  /\ user' = [user EXCEPT ![s] = u]
  /\ UNCHANGED <<up, file, exists, pc, req, mails, buf, off, reply, history>>

\* QUIT, or the end of the connection between two commands.
Quit(s) ==
  /\ up
  /\ pc[s] = "idle"
  /\ user[s] # NoUser
  /\ user' = [user EXCEPT ![s] = NoUser]
  /\ UNCHANGED <<up, file, exists, pc, req, mails, buf, off, reply, history>>

\* The thread starts on the command q and goes on at the given step.
Begin(s, q, step) ==
  /\ up
  /\ pc[s] = "idle"
  /\ pc' = [pc EXCEPT ![s] = step]
  /\ req' = [req EXCEPT ![s] = q]
  /\ mixed' = mixed
       \cup {t \in {s} : \E r \in Session : Rewrites(r, q.box)}
       \cup {t \in Session : req[t].box = q.box /\ q.op \in Rewriting}
  /\ overlapped' = overlapped
       \cup {u \in {q.box} : q.op \in Rewriting /\ \E r \in Session : Rewrites(r, u)}
  /\ UNCHANGED <<up, file, exists, user, mails, buf, off, reply, acked, torn>>

\* A command that is answered before it gets to a mailbox.
Reject(s) ==
  /\ up
  /\ pc[s] = "idle"
  /\ pc' = [pc EXCEPT ![s] = "reply"]
  /\ UNCHANGED <<up, file, exists, user, req, mails, buf, off, reply, history>>

\* Broken: SEND does not ask whether somebody has logged in.
SendUnchecked(s, r, subject, body) ==
  /\ sent[r] < MaxSends
  /\ sent' = [sent EXCEPT ![r] = @ + 1]
  /\ Begin(s, [op |-> "SEND", box |-> r, index |-> 0,
               mail |-> [sender |-> user[s], receiver |-> r, subject |-> subject,
                         content |-> StoredContent(body)]],
           "stat")

Send(s, r, subject, body) ==
  /\ user[s] # NoUser
  /\ sent[r] < MaxSends
  /\ sent' = [sent EXCEPT ![r] = @ + 1]
  /\ Begin(s, [op |-> "SEND", box |-> r, index |-> 0,
               mail |-> [sender |-> user[s], receiver |-> r, subject |-> subject,
                         content |-> StoredContent(body)]],
           "stat")

SendRejected(s, r, subject) ==
  /\ user[s] = NoUser \/ r = InvalidName \/ subject = LongSubject
  /\ Reject(s)

\* LIST, READ and DEL look for the file before they load it.
Access(s, op, i) ==
  /\ user[s] # NoUser
  /\ Begin(s, [op |-> op, box |-> user[s], mail |-> BlankMail, index |-> i],
           IF user[s] \in exists THEN "stat" ELSE "reply")
  /\ UNCHANGED sent

List(s)      == Access(s, "LIST", 0)
Read(s, i)   == Access(s, "READ", i)
Delete(s, i) == Access(s, "DEL", i)

\* LIST, READ or DEL of a session that has not logged in.
AccessRejected(s) ==
  /\ user[s] = NoUser
  /\ Reject(s)
-----------------------------------------------------------------------------
(* Mails::Deserialize                                                      *)

\* A command that has no file to load starts from no mails at all.
NoFile(s) ==
  /\ pc[s] = "stat"
  /\ req[s].box \notin exists
  /\ pc' = [pc EXCEPT ![s] = "parse"]
  /\ UNCHANGED <<up, file, exists, user, req, mails, buf, off, reply, history>>

OpenForRead(s) ==
  /\ pc[s] = "stat"
  /\ req[s].box \in exists
  /\ pc' = [pc EXCEPT ![s] = "read"]
  /\ UNCHANGED <<up, file, exists, user, req, mails, buf, off, reply, history>>

\* Broken: a file that cannot be read counts as empty.
OpenFailsUnnoticed(s) ==
  /\ "open" \in Fault
  /\ \/ pc[s] = "stat" /\ req[s].box \in exists /\ pc' = [pc EXCEPT ![s] = "parse"]
     \/ pc[s] = "open" /\ pc' = [pc EXCEPT ![s] = "reply"]
  /\ mails' = [mails EXCEPT ![s] = <<>>]
  /\ UNCHANGED <<up, file, exists, user, req, buf, off, reply, history>>

\* The file cannot be opened: for reading, or for writing in Serialize.
OpenFails(s) ==
  /\ "open" \in Fault
  /\ \/ pc[s] = "stat" /\ req[s].box \in exists
     \/ pc[s] = "open"
  /\ pc' = [pc EXCEPT ![s] = "reply"]
  /\ mails' = [mails EXCEPT ![s] = <<>>]
  /\ UNCHANGED <<up, file, exists, user, req, buf, off, reply, history>>

\* Broken: the threads share the name of the file they read.
FetchFromAnyBox(s) ==
  /\ pc[s] = "read"
  /\ \E u \in User, n \in Chunk :
       /\ off[s] < Len(file[u])
       /\ LET to == Min({off[s] + n, Len(file[u])})
          IN /\ buf' = [buf EXCEPT ![s] = @ \o SubSeq(file[u], off[s] + 1, to)]
             /\ off' = [off EXCEPT ![s] = to]
  /\ UNCHANGED <<up, file, exists, pc, user, req, mails, reply, history>>

\* The stream reads on, from wherever the file is by now.
Fetch(s) ==
  /\ pc[s] = "read"
  /\ off[s] < Len(file[req[s].box])
  /\ \E n \in Chunk :
       LET to == Min({off[s] + n, Len(file[req[s].box])})
       IN /\ buf' = [buf EXCEPT ![s] = @ \o SubSeq(file[req[s].box], off[s] + 1, to)]
          /\ off' = [off EXCEPT ![s] = to]
  /\ UNCHANGED <<up, file, exists, pc, user, req, mails, reply, history>>

\* Broken: reading stops before the end of the file.
FetchEndEarly(s) ==
  /\ pc[s] = "read"
  /\ pc' = [pc EXCEPT ![s] = "parse"]
  /\ off' = [off EXCEPT ![s] = 0]
  /\ UNCHANGED <<up, file, exists, user, req, mails, buf, reply, history>>

FetchEnd(s) ==
  /\ pc[s] = "read"
  /\ off[s] >= Len(file[req[s].box])
  /\ pc' = [pc EXCEPT ![s] = "parse"]
  /\ off' = [off EXCEPT ![s] = 0]
  /\ UNCHANGED <<up, file, exists, user, req, mails, buf, reply, history>>

\* One turn of the loop over the lines.
ParseMail(s) ==
  /\ pc[s] = "parse"
  /\ buf[s] # <<>>
  /\ ~ EraseThrows(buf[s])
  /\ mails' = [mails EXCEPT ![s] = Append(@, FirstMail(buf[s]))]
  /\ buf' = [buf EXCEPT ![s] = OtherMails(@)]
  /\ UNCHANGED <<up, file, exists, pc, user, req, off, reply, history>>
-----------------------------------------------------------------------------
(* The command itself, and Mails::Serialize.                               *)

\* SEND, and DEL of a mail that is there, change the copy and write it.
Change(s) ==
  /\ pc[s] = "parse"
  /\ buf[s] = <<>>
  /\ req[s].op \in Rewriting
  /\ Answer(req[s], mails[s]).ok
  /\ mails' = [mails EXCEPT ![s] = Updated(req[s], @)]
  /\ pc' = [pc EXCEPT ![s] = "open"]
  /\ UNCHANGED <<up, file, exists, user, req, buf, off, reply, history>>

\* READ and LIST take their answer from the copy; DEL refuses a bad index.
Look(s) ==
  /\ pc[s] = "parse"
  /\ buf[s] = <<>>
  /\ req[s].op \in Rewriting => ~ Answer(req[s], mails[s]).ok
  /\ reply' = [reply EXCEPT ![s] = Answer(req[s], mails[s])]
  /\ mails' = [mails EXCEPT ![s] = <<>>]
  /\ pc' = [pc EXCEPT ![s] = "reply"]
  /\ UNCHANGED <<up, file, exists, user, req, buf, off, history>>

\* Broken: the threads share the name of the file they write.
OpenAnyForWrite(s) ==
  /\ pc[s] = "open"
  /\ \E u \in User : /\ file' = [file EXCEPT ![u] = <<>>]
                     /\ exists' = exists \cup {u}
  /\ pc' = [pc EXCEPT ![s] = "write"]
  /\ UNCHANGED <<up, user, req, mails, buf, off, reply, history>>

\* std::ios::trunc
OpenForWrite(s) ==
  /\ pc[s] = "open"
  /\ file' = [file EXCEPT ![req[s].box] = <<>>]
  /\ exists' = exists \cup {req[s].box}
  /\ pc' = [pc EXCEPT ![s] = "write"]
  /\ UNCHANGED <<up, user, req, mails, buf, off, reply, history>>

\* One turn of the loop over mMails; the stream keeps the lines for now.
PutMail(s) ==
  /\ pc[s] = "write"
  /\ mails[s] # <<>>
  /\ buf' = [buf EXCEPT ![s] = @ \o MailLines(Head(mails[s]))]
  /\ mails' = [mails EXCEPT ![s] = Tail(@)]
  /\ UNCHANGED <<up, file, exists, pc, user, req, off, reply, history>>

\* The stream writes some of its lines at the position of its descriptor, the
\* first of them over the part of it that FlushPart has left there.
Flush(s) ==
  /\ pc[s] = "write"
  /\ buf[s] # <<>>
  /\ \E n \in Chunk :
       LET k == Min({n, Len(buf[s])})
       IN /\ file' = [file EXCEPT ![req[s].box] =
                        Overwrite(@, off[s], SubSeq(buf[s], 1, k))]
          /\ off' = [off EXCEPT ![s] = @ + k]
          /\ buf' = [buf EXCEPT ![s] = SubSeq(@, k + 1, Len(@))]
  /\ UNCHANGED <<up, exists, pc, user, req, mails, reply, history>>

\* A write ends inside a line.  What it leaves of the line is read as a line of
\* its own, if the thread gets no further: the line still has to be written.
FlushPart(s) ==
  /\ pc[s] = "write"
  /\ buf[s] # <<>>
  /\ \E part \in Beginning[Head(buf[s])] :
       file' = [file EXCEPT ![req[s].box] = Overwrite(@, off[s], <<part>>)]
  /\ UNCHANGED <<up, exists, thread, history>>

\* A write fails.  The stream is bad from then on and drops what it is given;
\* Serialize never looks at its state.
WriteFails(s) ==
  /\ "disk" \in Fault
  /\ pc[s] = "write"
  /\ buf[s] # <<>>
  /\ buf' = [buf EXCEPT ![s] = <<>>]
  /\ mails' = [mails EXCEPT ![s] = <<>>]
  /\ torn' = torn \cup {req[s].box}
  /\ UNCHANGED <<up, file, exists, pc, user, req, off, reply, sent, acked, mixed, overlapped>>

\* Broken: the position stays where the last write left it.
CloseWithoutReset(s) ==
  /\ pc[s] = "write"
  /\ mails[s] = <<>>
  /\ buf[s] = <<>>
  /\ reply' = [reply EXCEPT ![s] = Done]
  /\ pc' = [pc EXCEPT ![s] = "reply"]
  /\ UNCHANGED <<up, file, exists, user, req, mails, buf, off, history>>

\* Broken: closing waits until the file is as long as what was written.
CloseWhenComplete(s) ==
  /\ pc[s] = "write"
  /\ mails[s] = <<>>
  /\ buf[s] = <<>>
  /\ off[s] = Len(file[req[s].box])
  /\ off' = [off EXCEPT ![s] = 0]
  /\ reply' = [reply EXCEPT ![s] = Done]
  /\ pc' = [pc EXCEPT ![s] = "reply"]
  /\ UNCHANGED <<up, file, exists, user, req, mails, buf, history>>

Close(s) ==
  /\ pc[s] = "write"
  /\ mails[s] = <<>>
  /\ buf[s] = <<>>
  /\ off' = [off EXCEPT ![s] = 0]
  /\ reply' = [reply EXCEPT ![s] = Done]
  /\ pc' = [pc EXCEPT ![s] = "reply"]
  /\ UNCHANGED <<up, file, exists, user, req, mails, buf, history>>

\* SendData: the client now knows.
Reply(s) ==
  /\ pc[s] = "reply"
  /\ pc' = [pc EXCEPT ![s] = "idle"]
  /\ req' = [req EXCEPT ![s] = NoRequest]
  /\ reply' = [reply EXCEPT ![s] = Refused]
  /\ mixed' = mixed \ {s}
  /\ acked' = [u \in User |-> IF reply[s].ok /\ Rewrites(s, u)
                              THEN Updated(req[s], acked[u]) ELSE acked[u]]
  /\ UNCHANGED <<up, file, exists, user, mails, buf, off, sent, overlapped, torn>>
-----------------------------------------------------------------------------
(* The end of the process, of which there are three kinds.                 *)

\* The thread has changed the file, and no answer has told so.
InDoubt(s) == pc[s] = "write" \/ (pc[s] = "reply" /\ reply[s].ok)

Stop ==
  /\ up' = FALSE
  /\ pc' = [s \in Session |-> "idle"]
  /\ user' = [s \in Session |-> NoUser]
  /\ req' = [s \in Session |-> NoRequest]
  /\ mails' = [s \in Session |-> <<>>]
  /\ buf' = [s \in Session |-> <<>>]
  /\ off' = [s \in Session |-> 0]
  /\ reply' = [s \in Session |-> Refused]
  /\ mixed' = {}
  /\ torn' = torn \cup {u \in User : \E s \in Session : InDoubt(s) /\ Rewrites(s, u)}
  /\ UNCHANGED <<file, exists, sent, acked, overlapped>>

\* Nothing catches what std::string::erase throws in a detached thread.
ParseThrows(s) ==
  /\ pc[s] = "parse"
  /\ buf[s] # <<>>
  /\ EraseThrows(buf[s])
  /\ Stop

\* send fails because the client has gone: SIGPIPE, or exit(EXIT_FAILURE).
ReplyFails(s) ==
  /\ "pipe" \in Fault
  /\ pc[s] = "reply"
  /\ Stop

\* A signal: "SIGNAL handling not implemented yet".
Killed ==
  /\ "kill" \in Fault
  /\ up
  /\ Stop

\* The server is started again and finds the files.
Restart ==
  /\ ~ up
  /\ up' = TRUE
  /\ UNCHANGED <<file, exists, thread, history>>
-----------------------------------------------------------------------------
Arrive(s) ==
  \/ \E u \in User : Login(s, u)
  \/ Quit(s)
  \/ \E r \in User, subject \in Subject, body \in Body : Send(s, r, subject, body)
  \/ \E r \in User \cup {InvalidName}, subject \in Subject \cup {LongSubject} :
       SendRejected(s, r, subject)
  \/ List(s)
  \/ \E i \in Index : Read(s, i)
  \/ \E i \in Index : Delete(s, i)
  \/ AccessRejected(s)

\* What a thread does once it has a command.
Step(s) ==
  \/ NoFile(s)
  \/ OpenForRead(s)
  \/ OpenFails(s)
  \/ Fetch(s)
  \/ FetchEnd(s)
  \/ ParseMail(s)
  \/ ParseThrows(s)
  \/ Change(s)
  \/ Look(s)
  \/ OpenForWrite(s)
  \/ PutMail(s)
  \/ Flush(s)
  \/ WriteFails(s)
  \/ Close(s)
  \/ Reply(s)
  \/ ReplyFails(s)

Next ==
  \/ \E s \in Session : Arrive(s) \/ Step(s)
  \/ \E s \in Session : FlushPart(s)
  \/ Killed
  \/ Restart

Spec == Init /\ [][Next]_vars

\* The scheduler runs every thread, and no call on a local file blocks.  A write
\* may end inside a line, but needs not, and does not for ever.
FairSpec == Spec /\ \A s \in Session : WF_vars(Step(s))
-----------------------------------------------------------------------------
TypeOK ==
  /\ up \in BOOLEAN
  /\ file \in [User -> Seq(Line)]
  /\ exists \subseteq User
  /\ pc \in [Session -> {"idle", "stat", "read", "parse", "open", "write", "reply"}]
  /\ user \in [Session -> User \cup {NoUser}]
  /\ req \in [Session -> Request]
  /\ \A s \in Session : pc[s] \notin {"idle", "reply"} => req[s].box \in User
  /\ mails \in [Session -> Seq(Mail)]
  /\ buf \in [Session -> Seq(Line)]
  /\ off \in [Session -> Nat]
  /\ reply \in [Session -> [ok : BOOLEAN, lines : Seq(Line)]]
  /\ sent \in [User -> Nat]
  /\ acked \in [User -> Seq(Mail)]
  /\ mixed \subseteq Session
  /\ overlapped \subseteq User
  /\ torn \subseteq User

\* No thread is about to change the mailbox, or has just done so.
Quiet(u) == \A s \in Session : InDoubt(s) => ~ Rewrites(s, u)

Undisturbed(u) == u \notin overlapped \cup torn

(***************************************************************************)
(* What clients were told stays true: when no thread is changing a mailbox *)
(* its file holds the mails whose SEND was answered with OK, in the order  *)
(* of the answers and without those a DEL answered with OK took away.  It  *)
(* is claimed of the mailboxes on which no two commands that rewrite the   *)
(* file ever met and whose writing no crash and no full disk cut off       *)
(* (Command::Send and Delete, Mails::Deserialize and Serialize).           *)
(***************************************************************************)
AckedMailKept ==
  \A u \in User : Undisturbed(u) /\ Quiet(u) => Holds(file[u], acked[u])

(***************************************************************************)
(* The same of every mailbox no crash cut off, whatever commands met on    *)
(* it: what "Message sent successfully!" tells the user.                   *)
(***************************************************************************)
AckedMailAlwaysKept ==
  \A u \in User : u \notin torn /\ Quiet(u) => Holds(file[u], acked[u])

(***************************************************************************)
(* A READ or LIST no change ran into answers from the acknowledged mails,  *)
(* neither from an older nor from a half-written file.                     *)
(***************************************************************************)
TrueAnswers ==
  \A s \in Session :
    pc[s] = "reply" /\ req[s].op \in {"READ", "LIST"} /\ reply[s].ok
      /\ Undisturbed(req[s].box) /\ s \notin mixed
    => reply[s] = Answer(req[s], acked[req[s].box])

(***************************************************************************)
(* The inductive invariant behind AckedMailKept and TrueAnswers.  Clean    *)
(* says which commands it follows; Progress says of such a command, at     *)
(* every step, how its copy of the mailbox and the file relate to the      *)
(* acknowledged mails.                                                     *)
(***************************************************************************)
Clean(s) == s \notin mixed /\ req[s].box \in User /\ Undisturbed(req[s].box)

\* What a thread holds at a step, whether or not it is disturbed.
Tidy(s) ==
  /\ pc[s] = "idle" => req[s] = NoRequest /\ s \notin mixed
  /\ req[s].op = "none" <=> req[s].box = NoUser
  /\ pc[s] \notin {"idle", "reply"} => req[s].box \in User
  /\ pc[s] \in {"open", "write"} => req[s].op \in Rewriting
  /\ req[s].op = "SEND" => req[s].mail \in PlainMail
  /\ pc[s] \notin {"read", "parse", "write"} => buf[s] = <<>>
  /\ pc[s] \notin {"read", "write"} => off[s] = 0
  /\ pc[s] \notin {"parse", "open", "write"} => mails[s] = <<>>
  /\ pc[s] # "reply" => reply[s] = Refused

\* A command that met no rewriting one is alone with its mailbox, but for
\* other readers.
Alone ==
  \A s \in Session :
    /\ s \notin mixed => \A t \in Session : req[s].box \in User /\ Rewrites(t, req[s].box) => t = s
    /\ s \in mixed /\ req[s].op \in Rewriting => req[s].box \in overlapped

Settled(u) ==
  /\ acked[u] \in Seq(PlainMail)
  /\ u \notin exists => file[u] = <<>> /\ acked[u] = <<>>
  /\ Quiet(u) => Holds(file[u], acked[u])

\* The position of the thread s in the file f it writes alone: behind the last
\* line, or before a part of the line that is next.
AtEnd(s, f) ==
  \/ off[s] = Len(f)
  \/ /\ off[s] + 1 = Len(f)
     /\ buf[s] # <<>>
     /\ f[Len(f)] \in Beginning[Head(buf[s])]

Progress(s, f, a) ==
  /\ pc[s] = "read" => off[s] <= Len(f) /\ buf[s] = SubSeq(f, 1, off[s])
  /\ pc[s] = "parse" => \E k \in 0..Len(a) :
        /\ mails[s] = SubSeq(a, 1, k)
        /\ Holds(buf[s], SubSeq(a, k + 1, Len(a)))
  /\ pc[s] = "open" => mails[s] = Updated(req[s], a)
  /\ pc[s] = "write" =>
        /\ AtEnd(s, f)
        /\ \E k \in 0..Len(Updated(req[s], a)) :
             /\ mails[s] = SubSeq(Updated(req[s], a), k + 1, Len(Updated(req[s], a)))
             /\ Holds(SubSeq(f, 1, off[s]) \o buf[s], SubSeq(Updated(req[s], a), 1, k))
  /\ pc[s] = "reply" /\ reply[s].ok =>
        IF req[s].op \in Rewriting THEN Holds(f, Updated(req[s], a))
        ELSE reply[s] = Answer(req[s], a)

Inductive ==
  /\ \A s \in Session : Tidy(s)
  /\ Alone
  /\ \A u \in User : Undisturbed(u) => Settled(u)
  /\ \A s \in Session : InDoubt(s) /\ req[s].op \in Rewriting => req[s].box \in exists
  /\ \A s \in Session : Clean(s) => Progress(s, file[req[s].box], acked[req[s].box])

(***************************************************************************)
(* When the answer of a SEND is OK and no other change met it, the mail is *)
(* the last of the file, whatever state earlier crashes and overlapping    *)
(* commands had left the file in.                                          *)
(***************************************************************************)
SentMailIsLast ==
  \A s \in Session :
    pc[s] = "reply" /\ req[s].op = "SEND" /\ reply[s].ok /\ s \notin mixed
    => IsSuffix(MailLines(req[s].mail), file[req[s].box])

(***************************************************************************)
(* A crash makes a mailbox unreadable, on which changes did not overlap,   *)
(* in one way only: it leaves the dot a line begins with and nothing more, *)
(* and the line was the first one of the last mail in the file.  All other *)
(* remains can be read: the erase that strips the last newline of a        *)
(* content does not throw (Mails::Deserialize).                            *)
(***************************************************************************)
OnlyCutDotThrows ==
  \A s \in Session :
    /\ pc[s] = "parse" /\ buf[s] # <<>> /\ EraseThrows(buf[s])
    /\ s \notin mixed /\ req[s].box \notin overlapped
    => /\ req[s].box \in torn
       /\ Len(buf[s]) = 4
       /\ \E line \in Line : Dot \in Beginning[line]

(***************************************************************************)
(* Every mail the server has stored can be parsed again, an empty one too: *)
(* the client lets the user end a message with a dot at once.              *)
(***************************************************************************)
StoredMailReadable ==
  \A s \in Session : pc[s] = "parse" /\ buf[s] # <<>> => ~ EraseThrows(buf[s])

(***************************************************************************)
(* Every command is answered, or the server stops.                         *)
(***************************************************************************)
Answered == \A s \in Session : pc[s] # "idle" ~> pc[s] = "idle"
=============================================================================
