---------------------------- MODULE MailCommands ----------------------------
(***************************************************************************)
(* The commands on a mailbox as functions of its mails: what SEND and DEL  *)
(* make of them, and what each command is answered                         *)
(* (tw-mailer/src/server: Mail.cpp, ServerCommunication.cpp).  The threads *)
(* that execute them step by step are in MailStore; Mailbox says what they *)
(* amount to.                                                              *)
(***************************************************************************)
EXTENDS MailFormat

CONSTANT NoUser  \* the user of a session that has not logged in

\* The commands that write the mailbox again.
Rewriting == {"SEND", "DEL"}

Request == [op : {"none", "SEND", "READ", "LIST", "DEL"}, box : User \cup {NoUser},
            mail : Mail, index : Int]

NoRequest == [op |-> "none", box |-> NoUser, mail |-> BlankMail, index |-> 0]

\* ERR, and also what LIST makes of a mailbox it finds empty.
Refused == [ok |-> FALSE, lines |-> <<>>]
Done    == [ok |-> TRUE, lines |-> <<>>]

\* Broken: SEND puts its mail before the others.
UpdatedAtFront(q, ms) ==
  IF q.op = "SEND" THEN <<q.mail>> \o ms
  ELSE IF q.op = "DEL" /\ ValidIndex(q.index, ms) THEN RemoveAt(ms, q.index + 1)
  ELSE ms

\* The mails of a mailbox after the command q on it.
Updated(q, ms) ==
  IF q.op = "SEND" THEN Append(ms, q.mail)
  ELSE IF q.op = "DEL" /\ ValidIndex(q.index, ms) THEN RemoveAt(ms, q.index + 1)
  ELSE ms

\* The answer to the command q on a mailbox that holds the mails.
Answer(q, ms) ==
  CASE q.op = "READ" -> IF ValidIndex(q.index, ms)
                        THEN [ok |-> TRUE, lines |-> ReadText(ms[q.index + 1])]
                        ELSE Refused
    [] q.op = "LIST" -> [ok |-> ms # <<>>, lines |-> SubjectsOf(ms)]
    [] q.op = "DEL"  -> IF ValidIndex(q.index, ms) THEN Done ELSE Refused
    [] OTHER         -> Done
=============================================================================
