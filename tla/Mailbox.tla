------------------------------- MODULE Mailbox -------------------------------
(***************************************************************************)
(* What the server promises of a mailbox: every command on it takes effect *)
(* at one moment between its arrival and its answer, and is answered from  *)
(* the mails of that moment, as if there were no file to be read, parsed,  *)
(* truncated and written again (tw-mailer/src/server: Command::Send, Read, *)
(* List and Delete).                                                       *)
(*                                                                         *)
(* The code keeps the promise only where nothing comes in its way, and the *)
(* module says where that is.  A reader that meets a rewriting command may *)
(* be told anything, but does no harm.  Two rewriting commands that meet,  *)
(* or one that is cut off, spoil the mailbox: nothing is said of it again. *)
(* No mailbox is ever harmed by commands on another one.                   *)
(***************************************************************************)
EXTENDS MailCommands

CONSTANT Session

VARIABLES
  box,     \* the mails of every mailbox; none of a spoiled one
  spoiled, \* the mailboxes the promise is off for
  call,    \* the stage of a session's command
  req,     \* the command
  reply,   \* the answer to it
  met      \* the sessions whose command met a rewriting one on its mailbox

mvars == <<box, spoiled, call, req, reply, met>>

AnyReply == [ok : BOOLEAN, lines : Seq(Line)]

\* The command of the session t, which has not returned, rewrites the mailbox u.
Changing(t, u) == req[t].box = u /\ req[t].op \in Rewriting

Init ==
  /\ box = [u \in User |-> <<>>]
  /\ spoiled = {}
  /\ call = [s \in Session |-> "none"]
  /\ req = [s \in Session |-> NoRequest]
  /\ reply = [s \in Session |-> Refused]
  /\ met = {}

\* The mailboxes us are spoiled, and their mails are forgotten.
Spoil(us) ==
  /\ spoiled' = spoiled \cup us
  /\ box' = [u \in User |-> IF u \in us THEN <<>> ELSE box[u]]

\* A command arrives and notes whom it meets.
Call(s) ==
  LET q == req'[s]
      others == {t \in Session : Changing(t, q.box)}
  IN /\ call[s] = "none"
     /\ q \in Request
     /\ q.box \in User
     /\ q.op = "SEND" => q.mail.receiver = q.box
     /\ req' = [req EXCEPT ![s] = q]
     /\ met' = met \cup {t \in {s} : others # {}}
                   \cup {t \in Session : q.op \in Rewriting /\ req[t].box = q.box}
     /\ Spoil({u \in {q.box} : q.op \in Rewriting /\ others # {}})
     /\ UNCHANGED reply

\* The command is still to take effect.
Start(s) == Call(s) /\ call' = [call EXCEPT ![s] = "called"]

\* The mailbox has no file yet: LIST, READ and DEL are refused at once.
CallEmpty(s) ==
  /\ Call(s)
  /\ req'[s].op \notin Rewriting \/ req'[s].op = "DEL"
  /\ req'[s].box \in spoiled \cup {u \in User : box[u] = <<>>} \/ s \in met'
  /\ call' = [call EXCEPT ![s] = "done"]

\* A command that is refused without a look at any mailbox.
Refuse(s) ==
  /\ call[s] = "none"
  /\ call' = [call EXCEPT ![s] = "done"]
  /\ UNCHANGED <<box, spoiled, req, reply, met>>

\* The one moment: the answer is taken from the mails, and the mails change.
TakeEffect(s) ==
  LET u == req[s].box
  IN /\ call[s] = "called"
     /\ u \notin spoiled
     /\ s \notin met
     /\ call' = [call EXCEPT ![s] = "done"]
     /\ reply' = [reply EXCEPT ![s] = Answer(req[s], box[u])]
     /\ box' = [box EXCEPT ![u] = Updated(req[s], @)]
     /\ UNCHANGED <<spoiled, req, met>>

\* A file cannot be opened: the command is refused and changes nothing.
Fail(s) ==
  /\ call[s] = "called"
  /\ call' = [call EXCEPT ![s] = "done"]
  /\ UNCHANGED <<box, spoiled, req, reply, met>>

\* An answer nothing is promised of.
Guess(s) ==
  /\ call[s] = "called"
  /\ req[s].box \in spoiled \/ s \in met
  /\ call' = [call EXCEPT ![s] = "done"]
  /\ reply' \in [Session -> AnyReply]
  /\ \A t \in Session \ {s} : reply'[t] = reply[t]
  /\ UNCHANGED <<box, spoiled, req, met>>

Return(s) ==
  /\ call[s] = "done"
  /\ call' = [call EXCEPT ![s] = "none"]
  /\ req' = [req EXCEPT ![s] = NoRequest]
  /\ reply' = [reply EXCEPT ![s] = Refused]
  /\ met' = met \ {s}
  /\ UNCHANGED <<box, spoiled>>

\* The writing of a mailbox fails, and the command goes on.
WriteFails(s) ==
  /\ call[s] = "called"
  /\ req[s].op \in Rewriting
  /\ Spoil({req[s].box})
  /\ UNCHANGED <<call, req, reply, met>>

\* The server ends in the middle of all calls, and those that have begun to
\* write spoil their mailboxes.
Crash ==
  /\ \E cut \in SUBSET Session : Spoil({u \in User : \E s \in cut : Changing(s, u)})
  /\ call' = [s \in Session |-> "none"]
  /\ req' = [s \in Session |-> NoRequest]
  /\ reply' = [s \in Session |-> Refused]
  /\ met' = {}

Serve(s) == TakeEffect(s) \/ Fail(s) \/ Guess(s) \/ Return(s)

Next ==
  \/ \E s \in Session : Start(s) \/ CallEmpty(s) \/ Refuse(s) \/ WriteFails(s) \/ Serve(s)
  \/ Crash

Spec == Init /\ [][Next]_mvars

\* Every command is answered in the end.
FairSpec == Spec /\ \A s \in Session : WF_mvars(Serve(s))
=============================================================================
