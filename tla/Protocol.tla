------------------------------- MODULE Protocol -------------------------------
(***************************************************************************)
(* A client and the thread that serves it, and the two streams of bytes    *)
(* between them (tw-mailer: client.cpp, socketUtils.hpp,                   *)
(* ServerCommunication.cpp).                                               *)
(*                                                                         *)
(* A request goes out with the NUL that ends it as a C string; an answer   *)
(* has no mark at its end.  The server takes a request for complete when   *)
(* what it has read so far ends with a newline; the client takes an answer *)
(* for complete when a read does not fill its buffer.  A unit of a stream  *)
(* is one character of a text, or a word whose characters are of no        *)
(* interest: a command, a name, a number.  A command on the mailbox is one *)
(* step here, which is what MailRefinement shows of undisturbed mailboxes. *)
(***************************************************************************)
EXTENDS Integers, Sequences, FiniteSets, FiniteSetsExt, SequencesExt

CONSTANTS
  Me,        \* the name of the user at the client
  Password,  \* the passwords the user types
  Good,      \* the one the directory accepts
  Letter,    \* the mails users type: a subject, and lines that each end with NL
  Word,      \* the units names, passwords, mails and numbers are made of
  Numeral,   \* the texts of the numbers from 0 on, which bound a mailbox, too
  Index,     \* the message numbers the user types
  Lower,     \* the units that may be part of a user name
  Junk,      \* what memory nobody has written may hold
  Buffer,    \* how many units one read can take: 1023 in the code
  MaxSends,  \* a bound on the mails the user of the client sends
  MaxOthers, \* a bound on what other connections do to the mailbox
  MaxLate,   \* a bound on the requests after a read went wrong
  Fault      \* "short" when a read may get a part of what was sent,
             \* "stop" when the server process may end

NL  == "\n"
Nul == "NUL"
Dot == "."

ASSUME ProtocolAssumption ==
  /\ {NL, Nul} \cap Word = {}
  /\ Me \in Word /\ Good \in Password /\ Password \subseteq Word
  /\ Numeral \in Seq(Word \ {"OK"}) /\ Numeral # <<>>
  /\ Index \subseteq 0..(Len(Numeral) - 1)
  /\ Buffer \in Nat \ {0} /\ MaxSends \in Nat /\ MaxOthers \in Nat /\ MaxLate \in Nat
  /\ \A l \in Letter : /\ l.subject \in Word
                       /\ l.body \in Seq(Word \cup {NL}) \ {<<>>}
                       /\ Last(l.body) = NL
  /\ Fault \subseteq {"short", "stop"}

VARIABLES
  toServer,   \* what has been sent to the server and not been read
  toClient,   \* what has been sent to the client and not been read
  cpc,        \* the client: in the menu, waiting, with an answer, ended, crashed
  asked,      \* the request the client made last
  response,   \* messageText of readAll
  loggedIn,   \* loggedIn of main
  table,      \* the subjects of the last LIST, by number
  spc,        \* the server: receiving, executing, in the middle of an answer, closed
  cell,       \* the last cell of the buffer, which recv never writes
  buffer,     \* the buffer as a C string, after the last read
  message,    \* what the server has made of the request so far
  rest,       \* the second part of the answer to LIST
  user,       \* has the session of the server a user
  box         \* the mails of the user

\* What happened, for the properties to refer to; the code has none of it.
VARIABLES
  did,        \* the commands the server executed since the last request
  trouble,    \* how reads of either side ever went wrong
  stale,      \* has a mail been deleted since the last LIST was answered
  sends, others, late  \* counted for the bounds MaxSends, MaxOthers and MaxLate

client  == <<cpc, asked, response, loggedIn, table>>
server  == <<spc, cell, buffer, message, rest, user>>
history == <<did, trouble, stale, sends, others, late>>
vars    == <<toServer, toClient, client, server, box, history>>
-----------------------------------------------------------------------------
(* Texts.                                                                  *)

\* Where the line k of a text ends; a text without that line ends it.
BreakAt(t, k) ==
  LET breaks == {i \in 1..Len(t) : t[i] = NL}
  IN IF k = 0 THEN 0
     ELSE IF Cardinality(breaks) < k THEN Len(t) + 1
     ELSE CHOOSE i \in breaks : Cardinality({j \in breaks : j <= i}) = k

\* SplitAtFirstOccurence, k times: the line k, and the text left.
Line(t, k)  == SubSeq(t, BreakAt(t, k - 1) + 1, BreakAt(t, k) - 1)
After(t, k) == SubSeq(t, BreakAt(t, k) + 1, Len(t))

EndsWithNL(t) == t # <<>> /\ Last(t) = NL

\* What std::string::append makes of a buffer a read has written t to: the
\* text before the NUL.  Without one, older cells follow, and beyond a filled
\* array whatever memory holds, until a NUL turns up.
CStrings(t) ==
  LET nuls == {i \in 1..Len(t) : t[i] = Nul}
      text == IF nuls = {} THEN t ELSE SubSeq(t, 1, Min(nuls) - 1)
      ends == nuls # {} \/ (Len(t) = Buffer /\ cell = Nul)
      beyond == {x \in {<<>>, <<Junk>>, <<Junk, NL>>} :
                   /\ ends => x = <<>>
                   /\ ~ ends /\ Len(t) = Buffer => x # <<>>}
  IN {text \o x : x \in beyond}

\* splitStringByNewLine
Lines(t) == [k \in 1..Cardinality({i \in 1..Len(t) : t[i] = NL \/ i = Len(t)}) |-> Line(t, k)]

Numbers == 0..(Len(Numeral) - 1)
NumberText(i) == Numeral[i + 1]
\* std::stoi reads the number a text begins with, or throws.
IsNumber(t) == t # <<>> /\ \E i \in Numbers : Head(t) = NumberText(i)
NumberOf(t) == CHOOSE i \in Numbers : Head(t) = NumberText(i)

NoRequest == [op |-> "none", arg |-> <<>>]

\* What the client writes for a request, without the NUL.
TextOf(q) ==
  <<q.op, NL>> \o
  CASE q.op = "LOGIN"           -> <<Me, NL>> \o q.arg \o <<NL>>
    [] q.op = "SEND"            -> <<Me, NL>> \o q.arg \o <<Dot, NL>>
    [] q.op \in {"READ", "DEL"} -> q.arg \o <<NL>>
    [] OTHER                    -> <<>>

OK == <<"OK", NL>>
ERR == <<"ERR", NL>>
BLOCKED == <<"BLOCKED", NL>>

\* Broken: the newline before the dot stays.
ContentWithNewline(t) == IF Len(t) < 2 THEN t ELSE SubSeq(t, 1, Len(t) - 2)

\* message.substr(0, length() - 3), where the difference may wrap around.
ContentOf(t) == IF Len(t) < 3 THEN t ELSE SubSeq(t, 1, Len(t) - 3)

MailText(m) == <<Me, NL, Me, NL>> \o m.subject \o <<NL>> \o m.content \o <<NL>>

Subjects(b) == [i \in 1..Len(b) |-> b[i].subject]

\* The mail a letter should arrive as.
Sent(l) == [subject |-> <<l.subject>>, content |-> Front(l.body)]
-----------------------------------------------------------------------------
Init ==
  /\ toServer = <<>> /\ toClient = <<>>
  /\ cpc = "menu" /\ asked = NoRequest /\ response = <<>>
  /\ loggedIn = FALSE /\ table = <<>>
  /\ spc = "recv" /\ message = <<>> /\ rest = <<>> /\ user = FALSE
  /\ cell \in {Nul, Junk} /\ buffer = <<>>
  /\ box = <<>>
  /\ did = <<>> /\ trouble = {} /\ stale = FALSE /\ sends = 0 /\ others = 0 /\ late = 0

(* The client.                                                             *)

\* writeAll, with the NUL; an error is not looked at.
Write(q) ==
  /\ asked' = q
  /\ trouble # {} => late < MaxLate
  /\ late' = IF trouble # {} THEN late + 1 ELSE late
  /\ toServer' = IF spc = "closed" THEN toServer ELSE toServer \o TextOf(q) \o <<Nul>>
  /\ UNCHANGED <<toClient, response, loggedIn, table, server, box, did, trouble, stale, others>>

Ask(q) ==
  /\ cpc = "menu"
  /\ Write(q)
  /\ cpc' = "wait"

AskLogin(p) ==
  /\ ~ loggedIn
  /\ Ask([op |-> "LOGIN", arg |-> <<p>>])
  /\ UNCHANGED sends

AskSend(l) ==
  /\ loggedIn
  /\ sends < MaxSends
  /\ sends' = sends + 1
  /\ Ask([op |-> "SEND", arg |-> <<l.subject, NL>> \o l.body])

AskAbout(op, i) ==
  /\ loggedIn
  /\ Ask([op |-> op, arg |-> <<NumberText(i)>>])
  /\ UNCHANGED sends

AskList ==
  /\ loggedIn
  /\ Ask([op |-> "LIST", arg |-> <<>>])
  /\ UNCHANGED sends

\* The client does not wait for an answer to QUIT.
Quit ==
  /\ cpc = "menu"
  /\ Write([op |-> "QUIT", arg |-> <<>>])
  /\ cpc' = "end"
  /\ UNCHANGED sends

\* How much a read of a stream that holds n units may get.  A bound: one short
\* read in a behaviour.
Portion(n) == LET most == IF n < Buffer THEN n ELSE Buffer
              IN IF "short" \in Fault /\ trouble = {} THEN 1..most ELSE {most}

\* Broken: a read that fills the buffer counts as the last one.
ReadOnce ==
  /\ cpc = "wait"
  /\ toClient # <<>>
  /\ \E n \in Portion(Len(toClient)) :
       /\ response' = response \o SubSeq(toClient, 1, n)
       /\ toClient' = SubSeq(toClient, n + 1, Len(toClient))
       /\ cpc' = "got"
       /\ trouble' = trouble
            \cup {x \in {"part"} : n < Buffer /\ (n < Len(toClient) \/ rest # <<>>)}
            \cup {x \in {"full"} : n = Buffer /\ n = Len(toClient)}
  /\ UNCHANGED <<toServer, asked, loggedIn, table, server, box, did, stale, sends, others, late>>

\* One turn of the loop of readAll.
Read ==
  /\ cpc = "wait"
  /\ toClient # <<>>
  /\ \E n \in Portion(Len(toClient)) :
       /\ response' = response \o SubSeq(toClient, 1, n)
       /\ toClient' = SubSeq(toClient, n + 1, Len(toClient))
       /\ cpc' = IF n < Buffer THEN "got" ELSE "wait"
       /\ trouble' = trouble
            \cup {x \in {"part"} : n < Buffer /\ (n < Len(toClient) \/ rest # <<>>)}
            \cup {x \in {"full"} : n = Buffer /\ n = Len(toClient)}
  /\ UNCHANGED <<toServer, asked, loggedIn, table, server, box, did, stale, sends, others, late>>

\* The server has closed the connection.
ReadEnd ==
  /\ cpc = "wait"
  /\ toClient = <<>>
  /\ spc = "closed"
  /\ cpc' = IF response = <<>> THEN "end" ELSE "got"
  /\ UNCHANGED <<toServer, toClient, asked, response, loggedIn, table, server, box, history>>

\* The read fails, as it may once the server has gone: what readAll has read of
\* the answer is dropped, and the client ends.
ReadFails ==
  /\ cpc = "wait"
  /\ spc = "closed"
  /\ cpc' = "end"
  /\ toClient' = <<>>
  /\ response' = <<>>
  /\ UNCHANGED <<toServer, asked, loggedIn, table, server, box, history>>

\* Broken: any answer to READ is taken for a mail.
SuccessAnyhow ==
  CASE asked.op \in {"LOGIN", "SEND", "DEL"} -> response = OK
    [] asked.op = "READ"                     -> response # <<>>
    [] asked.op = "LIST"                     -> IsNumber(response)
    [] OTHER                                 -> FALSE

\* What the client takes for a success.
Success ==
  CASE asked.op \in {"LOGIN", "SEND", "DEL"} -> response = OK
    [] asked.op = "READ"                     -> IsPrefix(OK, response)
    [] asked.op = "LIST"                     -> IsNumber(response)
    [] OTHER                                 -> FALSE

\* The client shows the answer and forgets it.
Show(op, next) ==
  /\ cpc = "got"
  /\ asked.op = op
  /\ cpc' = next
  /\ asked' = NoRequest
  /\ response' = <<>>
  /\ did' = <<>>
  /\ UNCHANGED <<toServer, toClient, server, box, trouble, stale, sends, others, late>>

\* Broken: a blocked user counts as logged in.
ShowLoginCarelessly ==
  /\ Show("LOGIN", "menu")
  /\ loggedIn' = (response # ERR)
  /\ UNCHANGED table

ShowLogin ==
  /\ Show("LOGIN", "menu")
  /\ loggedIn' = Success
  /\ UNCHANGED table

ShowSendOrDelete ==
  /\ \E op \in {"SEND", "DEL"} : Show(op, "menu")
  /\ UNCHANGED <<loggedIn, table>>

\* lines.at(3) throws when there are fewer lines, and nothing catches it.
ShowRead ==
  /\ Show("READ", IF Success /\ Len(Lines(response)) < 4 THEN "crash" ELSE "menu")
  /\ UNCHANGED <<loggedIn, table>>

ShowList ==
  /\ Show("LIST", "menu")
  /\ table' = IF Success THEN Tail(Lines(response)) ELSE table
  /\ UNCHANGED loggedIn
-----------------------------------------------------------------------------
(* The server.                                                             *)

\* What a read of n units does that the code does not reckon with.
Mishaps(n) ==
  LET nuls == {i \in 1..n : toServer[i] = Nul}
  IN {x \in {"merged"}  : nuls # {} /\ nuls # {n}} \cup
     {x \in {"cut"}     : nuls = {} /\ n < Buffer} \cup
     {x \in {"junk"}    : nuls = {} /\ n = Buffer /\ cell = Junk} \cup
     {x \in {"newline"} : nuls = {} /\ n = Buffer /\ cell = Nul
                            /\ toServer[n] = NL /\ Len(toServer) > n + 1}

\* Broken: the text of the message is forgotten with every read.
ReceiveForgetful ==
  /\ spc = "recv"
  /\ toServer # <<>>
  /\ \E n \in Portion(Len(toServer)) :
       /\ buffer' \in CStrings(SubSeq(toServer, 1, n))
       /\ message' = buffer'
       /\ toServer' = SubSeq(toServer, n + 1, Len(toServer))
       /\ trouble' = trouble \cup Mishaps(n)
  /\ spc' = IF EndsWithNL(message') THEN "execute" ELSE "recv"
  /\ UNCHANGED <<toClient, client, cell, rest, user, box, did, stale, sends, others, late>>

\* One turn of the inner loop: recv writes the first cells of the buffer, and
\* append takes the buffer up to the first NUL, wherever that comes from.
Receive ==
  /\ spc = "recv"
  /\ toServer # <<>>
  /\ \E n \in Portion(Len(toServer)) :
       /\ buffer' \in CStrings(SubSeq(toServer, 1, n))
       /\ message' = message \o buffer'
       /\ toServer' = SubSeq(toServer, n + 1, Len(toServer))
       /\ trouble' = trouble \cup Mishaps(n)
  /\ spc' = IF EndsWithNL(message') THEN "execute" ELSE "recv"
  /\ UNCHANGED <<toClient, client, cell, rest, user, box, did, stale, sends, others, late>>

\* recv returns 0: what has been read of a message is dropped.
ReceiveEnd ==
  /\ spc = "recv"
  /\ toServer = <<>>
  /\ cpc \in {"end", "crash"}
  /\ spc' = "closed"
  /\ UNCHANGED <<toServer, toClient, client, cell, buffer, message, rest, user, box, history>>

\* Command::Quit is asked about the buffer, not about the message.
LastWasQuit == buffer = TextOf([op |-> "QUIT", arg |-> <<>>])

\* Broken: message is not declared anew for every turn.
EndTurnKeeping ==
  /\ spc' = IF LastWasQuit THEN "closed" ELSE "recv"
  /\ buffer' = <<>>
  /\ rest' = <<>>
  /\ UNCHANGED <<cell, message>>

EndTurn ==
  /\ spc' = IF LastWasQuit THEN "closed" ELSE "recv"
  /\ message' = <<>>
  /\ buffer' = <<>>
  /\ rest' = <<>>
  /\ UNCHANGED cell

\* The command is executed, and its answer sent.
Answer(op, answer, ok) ==
  /\ spc = "execute"
  /\ Line(message, 1) = <<op>>
  /\ toClient' = toClient \o answer
  /\ did' = Append(did, [text |-> message, answer |-> answer, ok |-> ok])
  /\ EndTurn
  /\ UNCHANGED <<toServer, client, trouble, sends, others, late>>

\* Wrong passwords are refused; so may be any user, as module Login has it.
Login ==
  \/ /\ Line(message, 2) = <<Me>>
     /\ Line(message, 3) = <<Good>>
     /\ user' = TRUE
     /\ Answer("LOGIN", OK, TRUE)
     /\ UNCHANGED <<box, stale>>
  \/ /\ \E answer \in {ERR, BLOCKED} : Answer("LOGIN", answer, FALSE)
     /\ UNCHANGED <<user, box, stale>>

ValidUsername(t) == \A i \in 1..Len(t) : t[i] \in Lower \/ IsNumber(<<t[i]>>)

\* A bound: there is a text for the number of mails.
Room == Len(box) + 1 \in Numbers

Send ==
  LET receiver == Line(message, 2)
      mail == [subject |-> Line(message, 3), content |-> ContentOf(After(message, 3))]
      ok == user /\ ValidUsername(receiver) /\ receiver # <<>>
  IN /\ ok /\ receiver = <<Me>> => Room
     /\ Answer("SEND", IF ok THEN OK ELSE ERR, ok)
     /\ box' = IF ok /\ receiver = <<Me>> THEN Append(box, mail) ELSE box
     /\ UNCHANGED <<user, stale>>

\* The mail a READ or DEL is about.
Wanted == NumberOf(After(message, 1)) + 1
Throws == user /\ ~ IsNumber(After(message, 1))

ReadMail ==
  LET ok == user /\ Wanted <= Len(box)
  IN /\ ~ Throws
     /\ Answer("READ", IF ok THEN OK \o MailText(box[Wanted]) ELSE ERR, ok)
     /\ UNCHANGED <<user, box, stale>>

Delete ==
  LET ok == user /\ Wanted <= Len(box)
  IN /\ ~ Throws
     /\ Answer("DEL", IF ok THEN OK ELSE ERR, ok)
     /\ box' = IF ok THEN RemoveAt(box, Wanted) ELSE box
     /\ stale' = (stale \/ ok)
     /\ UNCHANGED user

\* The number of mails goes out first, the subjects in a call of their own.
ListCount ==
  LET subjects == IF user THEN Subjects(box) ELSE <<>>
      count == <<NumberText(Len(subjects)), NL>>
      list == FlattenSeq([i \in 1..Len(subjects) |-> subjects[i] \o <<NL>>])
  IN /\ spc = "execute"
     /\ Line(message, 1) = <<"LIST">>
     /\ toClient' = toClient \o count
     /\ did' = Append(did, [text |-> message, answer |-> count \o list, ok |-> TRUE])
     /\ stale' = FALSE
     /\ IF list = <<>> THEN EndTurn
                       ELSE spc' = "rest" /\ rest' = list /\ UNCHANGED <<cell, buffer, message>>
     /\ UNCHANGED <<toServer, client, user, box, trouble, sends, others, late>>

ListRest ==
  /\ spc = "rest"
  /\ toClient' = toClient \o rest
  /\ EndTurn
  /\ UNCHANGED <<toServer, client, user, box, history>>

\* Any other text is passed over without an answer, QUIT too.
Ignore ==
  /\ spc = "execute"
  /\ Line(message, 1) \notin {<<op>> : op \in {"LOGIN", "SEND", "READ", "DEL", "LIST"}}
  /\ EndTurn
  /\ user' = (user /\ ~ LastWasQuit)
  /\ UNCHANGED <<toServer, toClient, client, box, history>>

Close ==
  /\ spc' = "closed"
  /\ toServer' = <<>>
  /\ UNCHANGED <<toClient, client, cell, buffer, message, rest, user, box, history>>

\* std::stoi is given no number, and nothing catches what it throws.
StoiThrows ==
  /\ spc = "execute"
  /\ Line(message, 1) \in {<<"READ">>, <<"DEL">>}
  /\ Throws
  /\ Close

Stop ==
  /\ "stop" \in Fault
  /\ spc # "closed"
  /\ Close
-----------------------------------------------------------------------------
(* Other connections of the same user, and of users who write to this one. *)

\* Broken: new mails come first.
OtherSendsFirst(l) ==
  /\ others < MaxOthers
  /\ Room
  /\ others' = others + 1
  /\ box' = <<Sent(l)>> \o box
  /\ UNCHANGED <<toServer, toClient, client, server, did, trouble, stale, sends, late>>

OtherSends(l) ==
  /\ others < MaxOthers
  /\ Room
  /\ others' = others + 1
  /\ box' = Append(box, Sent(l))
  /\ UNCHANGED <<toServer, toClient, client, server, did, trouble, stale, sends, late>>

OtherDeletes(i) ==
  /\ others < MaxOthers
  /\ others' = others + 1
  /\ i < Len(box)
  /\ box' = RemoveAt(box, i + 1)
  /\ stale' = TRUE
  /\ UNCHANGED <<toServer, toClient, client, server, did, trouble, sends, late>>

Type ==
  \/ \E p \in Password : AskLogin(p)
  \/ \E l \in Letter : AskSend(l)
  \/ \E op \in {"READ", "DEL"}, i \in Index : AskAbout(op, i)
  \/ AskList
  \/ Quit

ClientStep ==
  \/ Read
  \/ ReadEnd
  \/ ReadFails
  \/ ShowLogin
  \/ ShowSendOrDelete
  \/ ShowRead
  \/ ShowList

\* What the thread does without the directory.
OwnStep ==
  \/ Receive
  \/ ReceiveEnd
  \/ Send
  \/ ReadMail
  \/ Delete
  \/ ListCount
  \/ ListRest
  \/ Ignore
  \/ StoiThrows

ServerStep == OwnStep \/ Login

Next ==
  \/ Type
  \/ ClientStep
  \/ ServerStep
  \/ Stop
  \/ \E l \in Letter : OtherSends(l)
  \/ \E i \in Index : OtherDeletes(i)

Spec == Init /\ [][Next]_vars

\* Both processes run on; nobody has to type anything, and the directory need
\* not answer.
FairSpec == Spec /\ WF_vars(ClientStep) /\ WF_vars(OwnStep)
-----------------------------------------------------------------------------
TypeOK ==
  /\ cpc \in {"menu", "wait", "got", "end", "crash"}
  /\ spc \in {"recv", "execute", "rest", "closed"}
  /\ {loggedIn, user, stale} \subseteq BOOLEAN
  /\ asked.op \in {"none", "LOGIN", "SEND", "READ", "DEL", "LIST", "QUIT"}
  /\ cell \in {Nul, Junk}
  /\ cpc = "menu" => asked = NoRequest /\ response = <<>>
  /\ spc = "rest" => rest # <<>>
  /\ spc = "recv" => ~ EndsWithNL(message)
  /\ trouble \subseteq {"merged", "cut", "junk", "newline", "part", "full"}

(***************************************************************************)
(* What the client reports is true: as long as no read of either side went *)
(* wrong, the server has executed exactly the request the user made, once, *)
(* the client has got the whole answer, and it reports a success exactly   *)
(* when there was one -- also for requests and answers that take several   *)
(* reads (readAll, ClientCommunication).                                   *)
(***************************************************************************)
Truthful ==
  cpc = "got" /\ trouble = {} =>
    /\ Len(did) = 1
    /\ did[1].text = TextOf(asked)
    /\ did[1].answer = response
    /\ did[1].ok = Success

(***************************************************************************)
(* Between two requests nothing of the last one is left anywhere, so that  *)
(* the next answer belongs to the next request; the NUL of a request that  *)
(* filled the buffer may still be on its way.                              *)
(***************************************************************************)
InStep ==
  cpc = "menu" /\ trouble = {} =>
    /\ toClient = <<>>
    /\ toServer \in {<<>>, <<Nul>>}
    /\ spc = "closed" \/ (spc = "recv" /\ message = <<>>)

(***************************************************************************)
(* The mailbox holds mails as users typed them, also those too long for    *)
(* one read: no end of one is missing and nothing has been put into it.    *)
(***************************************************************************)
StoredAsTyped ==
  trouble = {} => \A i \in 1..Len(box) : \E l \in Letter : box[i] = Sent(l)

(***************************************************************************)
(* A client that says the user is logged in talks to a session that has    *)
(* the user, whatever happened to the messages.                            *)
(***************************************************************************)
LoggedInAgrees == loggedIn /\ cpc = "menu" /\ spc # "closed" => user

(***************************************************************************)
(* As long as nobody deleted a mail since the server answered the LIST,    *)
(* the numbers the user sees are those the server knows the mails by, also *)
(* when mails have arrived since.                                          *)
(***************************************************************************)
NumbersHold ==
  cpc = "menu" /\ trouble = {} /\ ~ stale => IsPrefix(table, Subjects(box))

(***************************************************************************)
(* The client ends by an exception only after a read went wrong.           *)
(***************************************************************************)
NoCrash == cpc = "crash" => trouble # {}

\* The calls to the directory have no timeout.
AtDirectory == spc = "execute" /\ Line(message, 1) = <<"LOGIN">>

(***************************************************************************)
(* After every request the user gets back to the menu, or is told that the *)
(* server has gone, unless the server waits for the directory, or a read   *)
(* cut a message or filled the buffer with just the end of an answer.      *)
(***************************************************************************)
Returns ==
  cpc = "wait" ~>
    cpc # "wait" \/ AtDirectory \/ trouble \cap {"merged", "cut", "junk", "full"} # {}
=============================================================================
