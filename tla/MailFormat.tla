----------------------------- MODULE MailFormat -----------------------------
(***************************************************************************)
(* The text format of a mailbox file, as Mails::Serialize writes it and    *)
(* Mails::Deserialize reads it back (tw-mailer/src/server/Mail.cpp).       *)
(*                                                                         *)
(* A file is a sequence of lines.  A mail is three header lines (sender,   *)
(* receiver, subject), the lines of its content and a line holding one     *)
(* dot.  A content is the sequence of the lines between its newlines, so   *)
(* it always has at least one line, the empty string being <<Empty>>.      *)
(*                                                                         *)
(* Nothing here is recursive: the loops over the mails of a file are steps *)
(* of the threads that run them (module MailStore).                        *)
(***************************************************************************)
EXTENDS Integers, Sequences, SequencesExt

CONSTANTS
  User,     (* the names that own a mailbox: lower case letters and digits *)
  Subject,  (* subject lines of at most 80 characters                      *)
  Word,     (* the lines clients type into the body of a mail              *)
  Empty,    (* the empty line                                              *)
  Dot,      (* the line "."                                                *)
  Nul       (* a line of NUL bytes, the hole left by a write past the end  *)

ASSUME MarkAssumption ==
  /\ Dot # Empty
  /\ Nul \notin {Dot, Empty}
  /\ {Dot, Nul} \cap (User \cup Word) = {}

Line == User \cup Subject \cup Word \cup {Empty, Dot, Nul}

Mail == [sender : Line, receiver : Line, subject : Line, content : Seq(Line)]

\* The default constructor of Mail.
BlankMail == [sender   |-> Empty, receiver |-> Empty,
              subject  |-> Empty, content  |-> <<Empty>>]

\* Broken: the dot before the content.
DotFirst(m) == <<m.sender, m.receiver, m.subject, Dot>> \o m.content

\* What one turn of the loop in Serialize sends to the stream.
MailLines(m) == <<m.sender, m.receiver, m.subject>> \o m.content \o <<Dot>>

\* A header line, or the empty string when std::getline meets the end.
HeaderLine(lines, i) == IF i <= Len(lines) THEN lines[i] ELSE Empty

\* The position of the dot that ends the first mail of the lines, or the one
\* after the last line when no dot follows.
ContentEnd(lines) ==
  Min({j \in 4..Len(lines) : lines[j] = Dot} \cup {Len(lines) + 1})

(***************************************************************************)
(* What one turn of the loop in Deserialize makes of the lines that are    *)
(* left.  Every content line is stored with a newline and the dot takes    *)
(* the last newline away again; a content cut off by the end of the file   *)
(* keeps it, which leaves one empty line at its end.  A dot right after    *)
(* the headers finds no newline to take away: std::string::erase throws,   *)
(* and the mail is given the impossible content of no line at all.         *)
(***************************************************************************)
FirstMail(lines) ==
  LET end == ContentEnd(lines)
  IN [sender   |-> HeaderLine(lines, 1),
      receiver |-> HeaderLine(lines, 2),
      subject  |-> HeaderLine(lines, 3),
      content  |-> IF end <= Len(lines)
                   THEN SubSeq(lines, 4, end - 1)
                   ELSE Append(SubSeq(lines, 4, Len(lines)), Empty)]

OtherMails(lines) == SubSeq(lines, ContentEnd(lines) + 1, Len(lines))

EraseThrows(lines) == FirstMail(lines).content = <<>>

\* The text READ sends for one mail, and LIST for a mailbox.
ReadText(m) == <<m.sender, m.receiver, m.subject>> \o m.content
SubjectsOf(ms) == [i \in 1..Len(ms) |-> ms[i].subject]

\* A C++ index held in a size_t: a negative number wraps above every size.
ValidIndex(i, ms) == 0 <= i /\ i < Len(ms)

(***************************************************************************)
(* What Command::Send keeps of a body.  The client sends every line of the *)
(* body with a newline and then ".\n"; the server drops the last three     *)
(* characters.  Of an empty body only ".\n" arrives, the length minus      *)
(* three wraps around, and nothing is dropped.                             *)
(***************************************************************************)
StoredContent(body) == IF body = <<>> THEN <<Dot, Empty>> ELSE body

\* The mails that can be read back: the content has a line, and none of its
\* lines is the dot that ends it.
PlainMail == {m \in Mail : /\ m.content # <<>>
                           /\ \A i \in 1..Len(m.content) : m.content[i] # Dot}

(***************************************************************************)
(* The lines hold exactly the mails ms, in order: end[i] is the position   *)
(* of the dot that closes the i-th mail.  This is the meaning of a file    *)
(* the properties refer to; the code has no such function.                 *)
(***************************************************************************)
Holds(lines, ms) ==
  \E end \in [0..Len(ms) -> {0} \cup {j \in 1..Len(lines) : lines[j] = Dot}] :
    /\ end[0] = 0
    /\ end[Len(ms)] = Len(lines)
    /\ \A i \in 1..Len(ms) :
         /\ \A j \in 0..i-1 : end[j] < end[i]
         /\ SubSeq(lines, end[i-1] + 1, end[i]) = MailLines(ms[i])

=============================================================================
