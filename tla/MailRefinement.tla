--------------------------- MODULE MailRefinement ---------------------------
(***************************************************************************)
(* The threads of MailStore, with files that are truncated and written     *)
(* again, implement the mailboxes of Mailbox, where every command takes    *)
(* effect at once.  SEND and DEL take effect when the file is closed, READ *)
(* and LIST when the copy has been parsed to its end.                      *)
(***************************************************************************)
EXTENDS MailStore

\* The file has been written, and the answer is not yet given.
Written(s, u) == pc[s] = "reply" /\ reply[s].ok /\ Rewrites(s, u)

\* The mails of an undisturbed mailbox: the acknowledged ones, after the
\* command that has been carried out and not yet acknowledged.
Contents(u) ==
  IF ~ Undisturbed(u) THEN <<>>
  ELSE IF \E s \in Session : Written(s, u)
       THEN Updated(req[CHOOSE s \in Session : Written(s, u)], acked[u])
       ELSE acked[u]

Stage(s) == CASE pc[s] = "idle"  -> "none"
              [] pc[s] = "reply" -> "done"
              [] OTHER           -> "called"

Promise == INSTANCE Mailbox WITH
  box     <- [u \in User |-> Contents(u)],
  spoiled <- overlapped \cup torn,
  call    <- [s \in Session |-> Stage(s)],
  req     <- req,
  reply   <- reply,
  met     <- mixed

(***************************************************************************)
(* Every command on an undisturbed mailbox takes effect at one moment and  *)
(* is answered from the mails of that moment, whatever else the threads do *)
(* with other files and whatever readers come along.                       *)
(***************************************************************************)
Atomic == Promise!Spec

(***************************************************************************)
(* The same, and every command is answered in the end.                     *)
(***************************************************************************)
AtomicAndAnswered == Promise!FairSpec
=============================================================================
