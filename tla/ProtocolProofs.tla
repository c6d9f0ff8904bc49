---------------------------- MODULE ProtocolProofs ----------------------------
(***************************************************************************)
(* The safety properties of Protocol as theorems: for any words, mails,    *)
(* buffer sizes and faults.  What holds whatever goes wrong comes first,   *)
(* then the texts, and then the conversation of which no read went wrong.  *)
(***************************************************************************)
EXTENDS Protocol, SequenceTheorems, FiniteSetTheorems, WellFoundedInduction, TLAPS

USE DEF NL, Nul, Dot

(* Types.                                                                  *)

LEMMA InitType == Init => TypeOK
<1> SUFFICES ASSUME Init PROVE TypeOK
  OBVIOUS
<1>1. ~ EndsWithNL(message) /\ asked.op = "none" /\ {loggedIn, user, stale} \subseteq BOOLEAN
  BY DEF Init, NoRequest, EndsWithNL
<1>2. cell \in {Nul, Junk}
  BY DEF Init
<1> QED BY <1>1, <1>2 DEF Init, TypeOK

LEMMA TurnEnds == ASSUME EndTurn PROVE spc' \in {"recv", "closed"} /\ ~ EndsWithNL(message')
BY DEF EndTurn, EndsWithNL

LEMMA AnswerType == ASSUME TypeOK, NEW op, NEW answer, NEW ok, Answer(op, answer, ok),
                           user' \in BOOLEAN, stale' \in BOOLEAN
                    PROVE  TypeOK'
<1>1. spc' \in {"recv", "closed"} /\ ~ EndsWithNL(message')
  BY TurnEnds DEF Answer
<1> QED BY <1>1 DEF Answer, EndTurn, TypeOK, client

LEMMA ShowType == ASSUME TypeOK, NEW op, NEW next \in {"menu", "crash"}, Show(op, next),
                         loggedIn' \in BOOLEAN
                  PROVE  TypeOK'
BY DEF Show, TypeOK, server, NoRequest

LEMMA WriteType == ASSUME TypeOK, NEW q, Write(q), cpc' \in {"wait", "end"},
                          q.op \in {"LOGIN", "SEND", "READ", "DEL", "LIST", "QUIT"}
                   PROVE  TypeOK'
BY DEF Write, TypeOK, server

LEMMA NextType == ASSUME TypeOK, [Next]_vars PROVE TypeOK'
<1> USE DEF client, server, history
<1>1. CASE Type
  <2>1. ASSUME NEW p \in Password, AskLogin(p) PROVE TypeOK'
    BY <2>1, WriteType DEF AskLogin, Ask
  <2>2. ASSUME NEW l \in Letter, AskSend(l) PROVE TypeOK'
    BY <2>2, WriteType DEF AskSend, Ask
  <2>3. ASSUME NEW op \in {"READ", "DEL"}, NEW i \in Index, AskAbout(op, i) PROVE TypeOK'
    BY <2>3, WriteType DEF AskAbout, Ask
  <2>4. CASE AskList
    BY <2>4, WriteType DEF AskList, Ask
  <2>5. CASE Quit
    BY <2>5, WriteType DEF Quit
  <2> QED BY <1>1, <2>1, <2>2, <2>3, <2>4, <2>5 DEF Type
<1>2. CASE ClientStep
  <2>1. CASE Read
    BY <2>1 DEF Read, TypeOK
  <2>2. CASE ReadEnd \/ ReadFails
    BY <2>2 DEF ReadEnd, ReadFails, TypeOK
  <2>3. CASE ShowLogin
    <3>1. Success \in BOOLEAN
      BY DEF Success, IsPrefix, IsNumber
    <3> QED BY <2>3, <3>1, ShowType DEF ShowLogin
  <2>4. CASE ShowSendOrDelete
    BY <2>4, ShowType DEF ShowSendOrDelete, TypeOK
  <2>5. CASE ShowRead
    BY <2>5, ShowType DEF ShowRead, TypeOK
  <2>6. CASE ShowList
    BY <2>6, ShowType DEF ShowList, TypeOK
  <2> QED BY <1>2, <2>1, <2>2, <2>3, <2>4, <2>5, <2>6 DEF ClientStep
<1>3. CASE ServerStep
  <2>1. CASE Receive
    BY <2>1 DEF Receive, Mishaps, TypeOK
  <2>2. CASE ReceiveEnd
    BY <2>2 DEF ReceiveEnd, TypeOK
  <2>3. CASE Login
    BY <2>3, AnswerType DEF Login, TypeOK
  <2>4. CASE Send
    BY <2>4, AnswerType DEF Send, TypeOK
  <2>5. CASE ReadMail
    BY <2>5, AnswerType DEF ReadMail, TypeOK
  <2>6. CASE Delete
    <3>1. PICK ok : /\ ok = (user /\ Wanted <= Len(box))
                    /\ Answer("DEL", IF ok THEN OK ELSE ERR, ok)
                    /\ stale' = (stale \/ ok) /\ user' = user
      BY <2>6 DEF Delete
    <3> QED BY <3>1, AnswerType DEF TypeOK
  <2>7. CASE ListCount
    <3>1. PICK list : /\ toClient' \in {toClient'} /\ stale' = FALSE
                      /\ IF list = <<>> THEN EndTurn
                         ELSE spc' = "rest" /\ rest' = list /\ UNCHANGED <<cell, buffer, message>>
                      /\ UNCHANGED <<toServer, client, user, box, trouble, sends, others, late>>
      BY <2>7 DEF ListCount
    <3>2. CASE list = <<>>
      BY <3>1, <3>2, TurnEnds DEF EndTurn, TypeOK
    <3>3. CASE list # <<>>
      BY <3>1, <3>3 DEF TypeOK
    <3> QED BY <3>2, <3>3
  <2>8. CASE ListRest
    BY <2>8, TurnEnds DEF ListRest, EndTurn, TypeOK
  <2>9. CASE Ignore
    BY <2>9, TurnEnds DEF Ignore, EndTurn, TypeOK
  <2>10. CASE StoiThrows
    BY <2>10 DEF StoiThrows, Close, TypeOK
  <2> QED BY <1>3, <2>1, <2>2, <2>3, <2>4, <2>5, <2>6, <2>7, <2>8, <2>9, <2>10 DEF ServerStep, OwnStep
<1>4. CASE Stop
  BY <1>4 DEF Stop, Close, TypeOK
<1>5. ASSUME NEW l \in Letter, OtherSends(l) PROVE TypeOK'
  BY <1>5 DEF OtherSends, TypeOK
<1>6. ASSUME NEW i \in Index, OtherDeletes(i) PROVE TypeOK'
  BY <1>6 DEF OtherDeletes, TypeOK
<1>7. CASE UNCHANGED vars
  BY <1>7 DEF vars, TypeOK
<1> QED BY <1>1, <1>2, <1>3, <1>4, <1>5, <1>6, <1>7 DEF Next

(***************************************************************************)
(* Every variable stays in its type; in particular the server never waits  *)
(* for more of a message that is complete, and never sends an empty rest.  *)
(***************************************************************************)
THEOREM TypeCorrect == Spec => []TypeOK
BY InitType, NextType, PTL DEF Spec
-----------------------------------------------------------------------------
(* What holds of the user whatever goes wrong.                             *)

\* The units of answers that are no success.
Other == (Word \ {"OK"}) \cup {NL, "ERR", "BLOCKED"}

\* Without a user, no answer the client has not looked at yet says OK.
Untold ==
  /\ spc = "rest" => user
  /\ user \/ spc = "closed" \/ (toClient \in Seq(Other) /\ response \in Seq(Other) /\ ~ loggedIn)

Agreed == TypeOK /\ Untold

LEMMA FlattenNothing == ASSUME NEW s, Len(s) = 0
                        PROVE  FlattenSeq([i \in 1..Len(s) |-> s[i] \o <<NL>>]) = <<>>
<1>1. PICK t : t = [i \in 1..0 |-> s[i] \o <<NL>>]
  OBVIOUS
<1>2. t \in Seq({}) /\ Len(t) = 0
  <2>1. t \in [1..0 -> {}]
    BY <1>1
  <2> QED BY <2>1
<1>3. t = <<>>
  BY <1>2, EmptySeq
<1>4. [i \in 1..Len(s) |-> s[i] \o <<NL>>] = <<>>
  BY <1>1, <1>3
<1> QED BY <1>4 DEF FlattenSeq

LEMMA PortionType == ASSUME NEW n \in Nat \ {0}, NEW m \in Portion(n)
                     PROVE  m \in 1..n /\ m <= Buffer
<1>1. Buffer \in Nat \ {0}
  BY ProtocolAssumption
<1>2. PICK most : most = IF n < Buffer THEN n ELSE Buffer
  OBVIOUS
<1>3. most \in 1..n /\ most <= Buffer
  BY <1>1, <1>2
<1>4. m \in 1..most \/ m = most
  BY <1>2 DEF Portion
<1> QED BY <1>1, <1>3, <1>4

LEMMA AnswerTold == ASSUME Agreed, NEW op, NEW answer, NEW ok, Answer(op, answer, ok),
                           user' \in BOOLEAN, user => user',
                           user' \/ answer \in {ERR, BLOCKED}
                    PROVE  Untold'
<1>1. spc' \in {"recv", "closed"} /\ UNCHANGED <<response, loggedIn>>
      /\ toClient' = toClient \o answer /\ spc = "execute"
  BY TurnEnds DEF Answer, client
<1>2. CASE user'
  BY <1>1, <1>2 DEF Untold
<1>3. CASE ~ user'
  <2>1. answer \in Seq(Other)
    <3>1. {"ERR", "BLOCKED", NL} \subseteq Other
      BY DEF Other
    <3> QED BY <1>3, <3>1, SMTT(30) DEF ERR, BLOCKED
  <2>2. toClient \in Seq(Other) /\ response \in Seq(Other) /\ ~ loggedIn
    BY <1>1, <1>3 DEF Agreed, TypeOK, Untold
  <2>3. toClient \o answer \in Seq(Other)
    BY <2>1, <2>2, ConcatProperties
  <2> QED BY <1>1, <2>2, <2>3 DEF Untold
<1> QED BY <1>2, <1>3

LEMMA ListCountTold == ASSUME Agreed, ListCount PROVE Untold'
<1>1. PICK subjects : subjects = IF user THEN Subjects(box) ELSE <<>>
  OBVIOUS
<1>2. PICK list : list = FlattenSeq([i \in 1..Len(subjects) |-> subjects[i] \o <<NL>>])
  OBVIOUS
<1>3. PICK count : count = <<NumberText(Len(subjects)), NL>>
  OBVIOUS
<1>4. /\ toClient' = toClient \o count /\ spc = "execute"
      /\ IF list = <<>> THEN EndTurn ELSE spc' = "rest" /\ rest' = list
      /\ UNCHANGED <<response, loggedIn, user>>
  BY <1>1, <1>2, <1>3 DEF ListCount, client
<1>5. user \in BOOLEAN
  BY DEF Agreed, TypeOK
<1>6. CASE user
  BY <1>4, <1>6 DEF Untold
<1>7. CASE ~ user
  <2>1. subjects = <<>> /\ Len(subjects) = 0 /\ list = <<>>
    <3>1. subjects = <<>> /\ Len(subjects) = 0
      BY <1>1, <1>7, EmptySeq
    <3>2. FlattenSeq([i \in 1..Len(subjects) |-> subjects[i] \o <<NL>>]) = <<>>
      BY <3>1, FlattenNothing
    <3> QED BY <1>2, <3>1, <3>2
  <2>2. count = <<Numeral[1], NL>>
    BY <1>3, <2>1 DEF NumberText
  <2>3. Numeral[1] \in Word \ {"OK"}
    BY ProtocolAssumption, EmptySeq, ElementOfSeq
  <2>4. count \in Seq(Other)
    BY <2>2, <2>3 DEF Other
  <2>5. toClient \in Seq(Other) /\ response \in Seq(Other) /\ ~ loggedIn
    BY <1>4, <1>7 DEF Agreed, Untold
  <2>6. toClient \o count \in Seq(Other)
    BY <2>4, <2>5, ConcatProperties
  <2>7. spc' \in {"recv", "closed"}
    BY <1>4, <2>1, TurnEnds
  <2> QED BY <1>4, <2>5, <2>6, <2>7 DEF Untold
<1> QED BY <1>5, <1>6, <1>7

LEMMA ReadTold == ASSUME Agreed, Read PROVE Untold'
<1>1. UNCHANGED <<loggedIn, spc, user>>
  BY DEF Read, server
<1>2. PICK n \in Portion(Len(toClient)) :
        /\ response' = response \o SubSeq(toClient, 1, n)
        /\ toClient' = SubSeq(toClient, n + 1, Len(toClient))
        /\ toClient # <<>>
  BY DEF Read
<1>3. CASE user \/ spc = "closed"
  BY <1>1, <1>3 DEF Agreed, Untold
<1>4. CASE ~ (user \/ spc = "closed")
  <2>1. toClient \in Seq(Other) /\ response \in Seq(Other) /\ ~ loggedIn
    BY <1>4 DEF Agreed, Untold
  <2>2. Len(toClient) \in Nat \ {0}
    BY <1>2, <2>1, EmptySeq
  <2>3. n \in 1..Len(toClient)
    BY <1>2, <2>2, PortionType
  <2>4. SubSeq(toClient, 1, n) \in Seq(Other) /\ SubSeq(toClient, n + 1, Len(toClient)) \in Seq(Other)
    BY <2>1, <2>2, <2>3, SubSeqProperties, ElementOfSeq
  <2>5. response' \in Seq(Other) /\ toClient' \in Seq(Other)
    BY <1>2, <2>1, <2>4, ConcatProperties
  <2> QED BY <1>1, <1>4, <2>1, <2>5 DEF Agreed, Untold
<1> QED BY <1>3, <1>4

LEMMA ShowTold == ASSUME Agreed, NEW op, NEW next, Show(op, next),
                         loggedIn' => (loggedIn \/ response = OK)
                  PROVE  Untold'
<1>1. UNCHANGED <<toClient, spc, user>> /\ response' = <<>>
  BY DEF Show, server
<1>2. CASE user \/ spc = "closed"
  BY <1>1, <1>2 DEF Agreed, Untold
<1>3. CASE ~ (user \/ spc = "closed")
  <2>1. toClient \in Seq(Other) /\ response \in Seq(Other) /\ ~ loggedIn
    BY <1>3 DEF Agreed, Untold
  <2>2. response # OK
    <3>1. "OK" \notin Other
      BY DEF Other
    <3>2. OK[1] = "OK" /\ 1 \in 1..Len(OK)
      BY DEF OK
    <3> QED BY <2>1, <3>1, <3>2, ElementOfSeq
  <2>3. response' \in Seq(Other)
    BY <1>1, EmptySeq
  <2> QED BY <1>1, <1>3, <2>1, <2>2, <2>3 DEF Agreed, Untold
<1> QED BY <1>2, <1>3

\* Steps that send nothing, show nothing and leave the user alone.
LEMMA QuietTold == ASSUME Agreed, spc' = "rest" => spc = "rest", spc = "closed" => spc' = "closed",
                          UNCHANGED <<toClient, response, loggedIn>>,
                          user' = user \/ spc' = "closed"
                   PROVE  Untold'
BY DEF Agreed, Untold

LEMMA NextTold == ASSUME Agreed, [Next]_vars PROVE Untold'
<1> USE DEF client, server, history
<1>1. CASE Type
  <2>1. ASSUME NEW q, Write(q) PROVE Untold'
    BY <2>1, QuietTold DEF Write
  <2>2. ASSUME NEW p \in Password, AskLogin(p) PROVE Untold'
    BY <2>1, <2>2 DEF AskLogin, Ask
  <2>3. ASSUME NEW l \in Letter, AskSend(l) PROVE Untold'
    BY <2>1, <2>3 DEF AskSend, Ask
  <2>4. ASSUME NEW op \in {"READ", "DEL"}, NEW i \in Index, AskAbout(op, i) PROVE Untold'
    BY <2>1, <2>4 DEF AskAbout, Ask
  <2>5. CASE AskList
    BY <2>1, <2>5 DEF AskList, Ask
  <2>6. CASE Quit
    BY <2>1, <2>6 DEF Quit
  <2> QED BY <1>1, <2>2, <2>3, <2>4, <2>5, <2>6 DEF Type
<1>2. CASE ClientStep
  <2>1. CASE ReadEnd
    BY <2>1, QuietTold DEF ReadEnd
  <2>2. CASE ShowLogin
    <3>1. loggedIn' => response = OK
      BY <2>2 DEF ShowLogin, Show, Success
    <3> QED BY <2>2, <3>1, ShowTold DEF ShowLogin
  <2>3. CASE ShowSendOrDelete
    BY <2>3, ShowTold DEF ShowSendOrDelete
  <2>4. CASE ShowRead
    BY <2>4, ShowTold DEF ShowRead
  <2>5. CASE ShowList
    BY <2>5, ShowTold DEF ShowList
  <2>6. CASE ReadFails
    BY <2>6 DEF ReadFails, Agreed, Untold
  <2> QED BY <1>2, <2>1, <2>2, <2>3, <2>4, <2>5, <2>6, ReadTold DEF ClientStep
<1>3. CASE ServerStep
  <2> user \in BOOLEAN
    BY DEF Agreed, TypeOK
  <2>1. CASE Receive
    BY <2>1, QuietTold DEF Receive
  <2>2. CASE ReceiveEnd
    BY <2>2, QuietTold DEF ReceiveEnd
  <2>3. CASE Login
    BY <2>3, AnswerTold DEF Login
  <2>4. CASE Send
    BY <2>4, AnswerTold DEF Send
  <2>5. CASE ReadMail
    BY <2>5, AnswerTold DEF ReadMail
  <2>6. CASE Delete
    BY <2>6, AnswerTold DEF Delete
  <2>7. CASE ListRest
    <3>1. user /\ user' = user /\ spc' \in {"recv", "closed"}
      BY <2>7, TurnEnds DEF ListRest, Agreed, Untold
    <3> QED BY <3>1 DEF Untold
  <2>8. CASE Ignore
    <3>1. spc' \in {"recv", "closed"} /\ (LastWasQuit => spc' = "closed") /\ spc = "execute"
      BY <2>8 DEF Ignore, EndTurn
    <3>2. user' = user \/ spc' = "closed"
      BY <2>8, <3>1 DEF Ignore
    <3>3. UNCHANGED <<toClient, response, loggedIn>>
      BY <2>8 DEF Ignore
    <3> QED BY <3>1, <3>2, <3>3, QuietTold
  <2>9. CASE StoiThrows
    BY <2>9, QuietTold DEF StoiThrows, Close
  <2> QED BY <1>3, <2>1, <2>2, <2>3, <2>4, <2>5, <2>6, <2>7, <2>8, <2>9, ListCountTold
          DEF ServerStep, OwnStep
<1>4. CASE Stop
  BY <1>4, QuietTold DEF Stop, Close
<1>5. ASSUME NEW l \in Letter, OtherSends(l) PROVE Untold'
  BY <1>5, QuietTold DEF OtherSends
<1>6. ASSUME NEW i \in Index, OtherDeletes(i) PROVE Untold'
  BY <1>6, QuietTold DEF OtherDeletes
<1>7. CASE UNCHANGED vars
  BY <1>7, QuietTold DEF vars
<1> QED BY <1>1, <1>2, <1>3, <1>4, <1>5, <1>6, <1>7 DEF Next

LEMMA InitTold == Init => Untold
BY EmptySeq DEF Init, Untold

(***************************************************************************)
(* A client that says the user is logged in talks to a session that has    *)
(* the user, however reads of either side were cut, merged or filled up.   *)
(***************************************************************************)
THEOREM ClientAndServerAgree == Spec => []LoggedInAgrees
<1>1. Agreed => LoggedInAgrees
  BY DEF Agreed, Untold, LoggedInAgrees
<1> QED BY InitType, NextType, InitTold, NextTold, <1>1, PTL DEF Spec, Agreed
-----------------------------------------------------------------------------
(* Texts.                                                                  *)

\* The units of a request or an answer; the NUL of a request comes on top.
Plain == Word \cup {NL, Dot, "OK", "ERR", "BLOCKED",
                    "LOGIN", "SEND", "READ", "DEL", "LIST", "QUIT"}
Text == Seq(Plain)
Unit == Plain \cup {Nul}

\* The requests the client makes, and the mails it sends.
Logins  == {[op |-> "LOGIN", arg |-> <<p>>] : p \in Password}
Sends   == {[op |-> "SEND", arg |-> <<l.subject, NL>> \o l.body] : l \in Letter}
Abouts  == {[op |-> op, arg |-> <<NumberText(i)>>] : op \in {"READ", "DEL"}, i \in Index}
Others  == {[op |-> op, arg |-> <<>>] : op \in {"LIST", "QUIT"}}
Request == Logins \cup Sends \cup Abouts \cup Others
Mails == {Sent(l) : l \in Letter}

LEMMA PlainHasNoNul == Nul \notin Plain
BY ProtocolAssumption DEF Plain

LEMMA LeastElement == ASSUME NEW T \in SUBSET Nat, T # {}
                      PROVE  \E x \in T : \A y \in T : x <= y
<1> DEFINE R == {p \in Nat \X Nat : p[1] < p[2]}
<1>1. IsWellFoundedOn(R, Nat)
  BY NatLessThanWellFounded, Zenon DEF OpToRel
<1>2. \E x \in T : \A y \in T : ~ (<<y, x>> \in R)
  <2> HIDE DEF R
  <2> QED BY <1>1, WFMin
<1>3. PICK x \in T : \A y \in T : ~ (<<y, x>> \in R)
  BY <1>2
<1>4. ASSUME NEW y \in T PROVE x <= y
  <2>1. ~ (<<y, x>> \in {p \in Nat \X Nat : p[1] < p[2]})
    BY <1>3
  <2> QED BY <2>1
<1> QED BY <1>4

\* Concatenations by their elements.
LEMMA Joined == ASSUME NEW S, NEW a \in Seq(S), NEW b \in Seq(S)
                PROVE  /\ a \o b \in Seq(S) /\ Len(a \o b) = Len(a) + Len(b)
                       /\ \A i \in 1..Len(a) : (a \o b)[i] = a[i]
                       /\ \A i \in 1..Len(b) : (a \o b)[Len(a) + i] = b[i]
<1>1. Len(a) \in Nat /\ Len(b) \in Nat
  OBVIOUS
<1> QED BY <1>1, ConcatProperties

LEMMA JoinedText == \A a, b \in Text :
  /\ a \o b \in Text /\ Len(a \o b) = Len(a) + Len(b)
  /\ \A i \in 1..Len(a) : (a \o b)[i] = a[i]
  /\ \A i \in 1..Len(b) : (a \o b)[Len(a) + i] = b[i]
BY Joined DEF Text

LEMMA Extended == \A a \in Text, x \in Plain :
  /\ <<x>> \in Text /\ a \o <<x>> \in Text /\ Len(a \o <<x>>) = Len(a) + 1
  /\ \A i \in 1..Len(a) : (a \o <<x>>)[i] = a[i]
  /\ (a \o <<x>>)[Len(a) + 1] = x
<1> SUFFICES ASSUME NEW a \in Text, NEW x \in Plain
             PROVE  /\ <<x>> \in Text /\ a \o <<x>> \in Text /\ Len(a \o <<x>>) = Len(a) + 1
                    /\ \A i \in 1..Len(a) : (a \o <<x>>)[i] = a[i]
                    /\ (a \o <<x>>)[Len(a) + 1] = x
  OBVIOUS
<1>1. PICK b : b = <<x>>
  OBVIOUS
<1>2. b \in Text /\ Len(b) = 1 /\ 1 \in 1..Len(b) /\ b[1] = x
  BY <1>1 DEF Text
<1>3. a \o b \in Text /\ Len(a \o b) = Len(a) + Len(b)
      /\ (\A i \in 1..Len(a) : (a \o b)[i] = a[i])
      /\ \A i \in 1..Len(b) : (a \o b)[Len(a) + i] = b[i]
  BY <1>2, JoinedText
<1>4. (a \o b)[Len(a) + 1] = b[1]
  BY <1>2, <1>3
<1> QED BY <1>1, <1>2, <1>3, <1>4

\* The first breaks of a text whose even units are newlines.
LEMMA Breaks ==
  ASSUME NEW S, NEW t \in Seq(S), NEW k \in Nat \ {0}, 2 * k <= Len(t),
         \A m \in 1..k : t[2 * m] = NL /\ t[2 * m - 1] # NL
  PROVE  /\ BreakAt(t, k) = 2 * k
         /\ Len(t) = 2 * k => Cardinality({i \in 1..Len(t) : t[i] = NL \/ i = Len(t)}) = k
<1> DEFINE breaks == {i \in 1..Len(t) : t[i] = NL}
           upTo(i) == {j \in breaks : j <= i}
<1>1. Len(t) \in Nat /\ IsFiniteSet(breaks) /\ 2 * k \in breaks
  <2>1. Len(t) \in Nat /\ IsFiniteSet(1..Len(t))
    BY FS_Interval
  <2>2. breaks \in SUBSET (1..Len(t))
    OBVIOUS
  <2>3. IsFiniteSet(breaks)
    BY <2>1, <2>2, FS_Subset
  <2>4. 2 * k \in 1..Len(t) /\ t[2 * k] = NL
    BY <2>1
  <2> QED BY <2>1, <2>3, <2>4
<1>2. Cardinality(upTo(2 * k)) = k
  <2>1. PICK f : f = [m \in 1..k |-> 2 * m]
    OBVIOUS
  <2>2. \A j \in upTo(2 * k) : \E m \in 1..k : j = 2 * m
    <3> SUFFICES ASSUME NEW j \in upTo(2 * k), \A m \in 1..k : j # 2 * m PROVE FALSE
      OBVIOUS
    <3>1. j \in 1..(2 * k) /\ t[j] = NL
      BY <1>1
    <3>2. PICK m \in 1..k : j = 2 * m - 1 \/ j = 2 * m
      <4>1. (j + 1) \div 2 \in 1..k /\ (j = 2 * ((j + 1) \div 2) - 1 \/ j = 2 * ((j + 1) \div 2))
        BY <3>1
      <4> QED BY <4>1
    <3> QED BY <3>1, <3>2
  <2>3. f \in Bijection(1..k, upTo(2 * k))
    <3>1. \A m \in 1..k : 2 * m \in upTo(2 * k)
      BY <1>1
    <3>2. f \in [1..k -> upTo(2 * k)]
      BY <2>1, <3>1
    <3>3. \A m, n \in 1..k : f[m] = f[n] => m = n
      BY <2>1
    <3>4. \A j \in upTo(2 * k) : \E m \in 1..k : f[m] = j
      BY <2>1, <2>2
    <3> QED BY <3>2, <3>3, <3>4 DEF Bijection, Injection, Surjection, IsInjective
  <2>4. ExistsBijection(1..k, upTo(2 * k))
    BY <2>3 DEF ExistsBijection
  <2> QED BY <2>4, FS_CountingElements
<1>3. \A i \in breaks : IsFiniteSet(upTo(i)) /\ Cardinality(upTo(i)) <= Cardinality(breaks)
  BY <1>1, FS_Subset
<1>4. ~ (Cardinality(breaks) < k)
  <2>1. Cardinality(breaks) \in Nat
    BY <1>1, FS_CardinalityType
  <2>2. k <= Cardinality(breaks)
    <3>1. Cardinality(upTo(2 * k)) <= Cardinality(breaks)
      BY <1>1, <1>3
    <3> QED BY <1>2, <3>1
  <2> QED BY <2>1, <2>2
<1>5. ASSUME NEW i \in breaks, NEW j \in breaks, i < j,
             Cardinality(upTo(i)) = Cardinality(upTo(j))
      PROVE  FALSE
  <2>1. upTo(i) \in SUBSET upTo(j) /\ j \in upTo(j) /\ j \notin upTo(i)
    BY <1>1, <1>5
  <2>2. upTo(j) = upTo(i)
    BY <1>3, <1>5, <2>1, FS_Subset
  <2> QED BY <2>1, <2>2
<1>6. \A i \in breaks : Cardinality(upTo(i)) = k => i = 2 * k
  <2> SUFFICES ASSUME NEW i \in breaks, Cardinality(upTo(i)) = k PROVE i = 2 * k
    OBVIOUS
  <2>1. i \in Nat /\ 2 * k \in Nat
    BY <1>1
  <2>2. ~ (i < 2 * k) /\ ~ (2 * k < i)
    BY <1>1, <1>2, <1>5
  <2> QED BY <2>1, <2>2
<1>7. (CHOOSE i \in breaks : Cardinality(upTo(i)) = k) = 2 * k
  BY <1>1, <1>2, <1>6
<1>8. BreakAt(t, k) = IF k = 0 THEN 0
                      ELSE IF Cardinality(breaks) < k THEN Len(t) + 1
                      ELSE CHOOSE i \in breaks : Cardinality(upTo(i)) = k
  BY DEF BreakAt
<1>9. Len(t) = 2 * k => {i \in 1..Len(t) : t[i] = NL \/ i = Len(t)} = upTo(2 * k)
  BY <1>1
<1> HIDE DEF breaks, upTo
<1> QED BY <1>2, <1>4, <1>7, <1>8, <1>9

LEMMA FirstBreak == \A t : BreakAt(t, 0) = 0
BY DEF BreakAt

\* What SplitAtFirstOccurence returns and leaves, k times.
LEMMA LineOf ==
  ASSUME NEW S, NEW t \in Seq(S), NEW k \in Nat \ {0}, 2 * k <= Len(t),
         \A m \in 1..k : t[2 * m] = NL /\ t[2 * m - 1] # NL
  PROVE  Line(t, k) = <<t[2 * k - 1]>> /\ After(t, k) = SubSeq(t, 2 * k + 1, Len(t))
<1>1. BreakAt(t, k) = 2 * k
  BY Breaks
<1>2. BreakAt(t, k - 1) = 2 * (k - 1)
  <2>1. CASE k = 1
    BY <2>1, FirstBreak
  <2>2. CASE k # 1
    <3>1. k - 1 \in Nat \ {0} /\ 2 * (k - 1) <= Len(t) /\ 1..(k - 1) \subseteq 1..k
      BY <2>2
    <3> QED BY <3>1, Breaks
  <2> QED BY <2>1, <2>2
<1>3. Line(t, k) = SubSeq(t, 2 * k - 1, 2 * k - 1)
  <2>1. 2 * (k - 1) + 1 = 2 * k - 1
    OBVIOUS
  <2> QED BY <1>1, <1>2, <2>1 DEF Line
<1>4. SubSeq(t, 2 * k - 1, 2 * k - 1) = <<t[2 * k - 1]>>
  <2>1. 2 * k - 1 \in 1..Len(t)
    OBVIOUS
  <2>2. PICK u : u = SubSeq(t, 2 * k - 1, 2 * k - 1)
    OBVIOUS
  <2>3. u \in Seq(S) /\ Len(u) = 1 /\ u[1] = t[2 * k - 1]
    BY <2>1, <2>2
  <2>4. <<t[2 * k - 1]>> \in Seq(S)
    BY <2>1
  <2>5. u = <<t[2 * k - 1]>>
    BY <2>3, <2>4, SeqEqual
  <2> QED BY <2>2, <2>5
<1> QED BY <1>1, <1>3, <1>4 DEF After

\* What follows the command in a request.
RestOf(q) ==
  CASE q.op = "LOGIN"           -> <<Me, NL>> \o q.arg \o <<NL>>
    [] q.op = "SEND"            -> <<Me, NL>> \o q.arg \o <<Dot, NL>>
    [] q.op \in {"READ", "DEL"} -> q.arg \o <<NL>>
    [] OTHER                    -> <<>>

LEMMA TextIs == \A q : TextOf(q) = <<q.op, NL>> \o RestOf(q)
BY DEF TextOf, RestOf

LEMMA PlainUnits ==
  /\ {Me, NL, Dot, "OK", "ERR", "BLOCKED"} \subseteq Plain
  /\ {"LOGIN", "SEND", "READ", "DEL", "LIST", "QUIT"} \subseteq Plain
  /\ Word \subseteq Plain /\ Password \subseteq Plain
BY ProtocolAssumption DEF Plain

LEMMA NumberTexts == \A i \in Numbers : NumberText(i) \in Word /\ NumberText(i) # NL
<1> SUFFICES ASSUME NEW i \in Numbers PROVE NumberText(i) \in Word /\ NumberText(i) # NL
  OBVIOUS
<1>1. Numeral \in Seq(Word) /\ NL \notin Word
  BY ProtocolAssumption
<1>2. i + 1 \in 1..Len(Numeral)
  BY <1>1 DEF Numbers
<1> QED BY <1>1, <1>2 DEF NumberText

\* The text of a mail the client sends.
LEMMA LetterParts ==
  ASSUME NEW l \in Letter
  PROVE  /\ l.subject \in Word /\ l.subject # NL /\ l.body \in Text
         /\ Len(l.body) \in Nat \ {0} /\ l.body[Len(l.body)] = NL
<1>1. /\ l.subject \in Word /\ NL \notin Word
      /\ l.body \in Seq(Word \cup {NL}) /\ l.body # <<>> /\ Last(l.body) = NL
  BY ProtocolAssumption
<1>2. Word \cup {NL} \subseteq Plain
  BY PlainUnits
<1>3. l.body \in Text
  BY <1>1, <1>2, SeqMonotonic DEF Text
<1> QED BY <1>1, <1>3, EmptySeq DEF Last, Text

LEMMA RequestParts ==
  ASSUME NEW q \in Request
  PROVE  /\ q.op \in {"LOGIN", "SEND", "READ", "DEL", "LIST", "QUIT"}
         /\ q.arg \in Text
         /\ q.op = "SEND" => \E l \in Letter : q.arg = <<l.subject, NL>> \o l.body
<1>1. ASSUME NEW p \in Password PROVE <<p>> \in Text
  BY <1>1, PlainUnits DEF Text
<1>2. ASSUME NEW l \in Letter PROVE <<l.subject, NL>> \o l.body \in Text
  <2>1. <<l.subject, NL>> \in Text
    BY PlainUnits, LetterParts DEF Text
  <2> QED BY <2>1, LetterParts, ConcatProperties DEF Text
<1>3. ASSUME NEW i \in Index PROVE <<NumberText(i)>> \in Text
  <2>1. NumberText(i) \in Plain
    BY NumberTexts, PlainUnits, ProtocolAssumption DEF Numbers
  <2> QED BY <2>1 DEF Text
<1>4. <<>> \in Text
  BY EmptySeq DEF Text
<1>5. CASE q \in Logins
  BY <1>1, <1>5 DEF Logins
<1>6. CASE q \in Sends
  <2>1. PICK l \in Letter : q = [op |-> "SEND", arg |-> <<l.subject, NL>> \o l.body]
    BY <1>6 DEF Sends
  <2>2. q.op = "SEND" /\ q.arg = <<l.subject, NL>> \o l.body
    BY <2>1
  <2> QED BY <1>2, <2>2
<1>7. CASE q \in Abouts
  BY <1>3, <1>7 DEF Abouts
<1>8. CASE q \in Others
  BY <1>4, <1>8 DEF Others
<1> QED BY <1>5, <1>6, <1>7, <1>8 DEF Request

LEMMA RestParts ==
  ASSUME NEW q \in Request
  PROVE  RestOf(q) \in Text /\ (RestOf(q) # <<>> => RestOf(q)[Len(RestOf(q))] = NL)
<1>1. q.arg \in Text /\ <<Me, NL>> \in Text /\ <<NL>> \in Text /\ <<Dot, NL>> \in Text
  BY RequestParts, PlainUnits DEF Text
<1>2. PICK a : a = <<Me, NL>> \o q.arg
  OBVIOUS
<1>3. a \in Text
  BY <1>1, <1>2, ConcatProperties DEF Text
<1>4. ASSUME NEW b \in Text, NEW c \in {<<NL>>, <<Dot, NL>>}
      PROVE  b \o c \in Text /\ (b \o c)[Len(b \o c)] = NL
  <2>1. c \in Text /\ Len(c) \in {1, 2} /\ c[Len(c)] = NL
    <3>1. CASE c = <<NL>>
      BY <1>1, <3>1
    <3>2. CASE c = <<Dot, NL>>
      BY <1>1, <3>2
    <3> QED BY <1>4, <3>1, <3>2
  <2>2. Len(b) \in Nat
    BY DEF Text
  <2>3. Len(c) \in 1..Len(c)
    BY <2>1
  <2>4. b \o c \in Text /\ Len(b \o c) = Len(b) + Len(c)
        /\ (b \o c)[Len(b) + Len(c)] = c[Len(c)]
    BY <2>1, <2>3, JoinedText
  <2> QED BY <2>1, <2>4
<1>5. CASE q.op = "LOGIN"
  BY <1>2, <1>3, <1>4, <1>5 DEF RestOf
<1>6. CASE q.op = "SEND"
  BY <1>2, <1>3, <1>4, <1>6 DEF RestOf
<1>7. CASE q.op \in {"READ", "DEL"}
  BY <1>1, <1>4, <1>7 DEF RestOf
<1>8. CASE q.op \in {"LIST", "QUIT"}
  BY <1>8, EmptySeq DEF RestOf, Text
<1> QED BY <1>5, <1>6, <1>7, <1>8, RequestParts

LEMMA RequestText ==
  ASSUME NEW q \in Request
  PROVE  /\ TextOf(q) \in Text /\ Len(TextOf(q)) \in Nat /\ Len(TextOf(q)) >= 2
         /\ TextOf(q)[1] = q.op /\ q.op # NL /\ TextOf(q)[2] = NL
         /\ TextOf(q)[Len(TextOf(q))] = NL /\ EndsWithNL(TextOf(q))
<1>1. PICK a : a = <<q.op, NL>>
  OBVIOUS
<1>2. a \in Text /\ Len(a) = 2 /\ a[1] = q.op /\ a[2] = NL /\ q.op # NL
  BY <1>1, RequestParts, PlainUnits DEF Text
<1>3. PICK b : b = RestOf(q)
  OBVIOUS
<1>4. b \in Text /\ Len(b) \in Nat /\ (b # <<>> => b[Len(b)] = NL)
  BY <1>3, RestParts DEF Text
<1>5. TextOf(q) = a \o b
  BY <1>1, <1>3, TextIs
<1>6. /\ a \o b \in Text /\ Len(a \o b) = 2 + Len(b)
      /\ (a \o b)[1] = q.op /\ (a \o b)[2] = NL
  <2>1. 1 \in 1..Len(a) /\ 2 \in 1..Len(a)
    BY <1>2
  <2>2. /\ a \o b \in Text /\ Len(a \o b) = Len(a) + Len(b)
        /\ (a \o b)[1] = a[1] /\ (a \o b)[2] = a[2]
    BY <1>2, <1>4, <2>1, JoinedText
  <2> QED BY <1>2, <2>2
<1>7. (a \o b)[Len(a \o b)] = NL
  <2>1. CASE b = <<>>
    BY <1>2, <1>6, <2>1
  <2>2. CASE b # <<>>
    <3>1. Len(b) \in 1..Len(b)
      BY <1>4, <2>2, EmptySeq DEF Text
    <3> QED BY <1>2, <1>4, <1>6, <2>2, <3>1, JoinedText
  <2> QED BY <2>1, <2>2
<1>8. a \o b # <<>>
  BY <1>4, <1>6
<1> QED BY <1>2, <1>4, <1>5, <1>6, <1>7, <1>8 DEF EndsWithNL, Last

LEMMA CommandOf ==
  ASSUME NEW q \in Request
  PROVE  Line(TextOf(q), 1) = <<q.op>> /\ After(TextOf(q), 1) = SubSeq(TextOf(q), 3, Len(TextOf(q)))
<1>1. \A m \in 1..1 : TextOf(q)[2 * m] = NL /\ TextOf(q)[2 * m - 1] # NL
  BY RequestText
<1> QED BY <1>1, RequestText, LineOf DEF Text

\* Tuples put together.
LEMMA Four == ASSUME NEW a \in Plain, NEW b \in Plain, NEW c \in Plain, NEW d \in Plain
              PROVE  <<a, b>> \o <<c, d>> = <<a, b, c, d>>
<1>1. PICK u : u = <<a, b>> \o <<c, d>>
  OBVIOUS
<1>2. PICK v : v = <<a, b, c, d>>
  OBVIOUS
<1>3. u \in Text /\ Len(u) = 4 /\ u[1] = a /\ u[2] = b /\ u[3] = c /\ u[4] = d
  BY <1>1 DEF Text
<1>4. v \in Text /\ Len(v) = 4 /\ v[1] = a /\ v[2] = b /\ v[3] = c /\ v[4] = d
  BY <1>2 DEF Text
<1>5. \A i \in 1..4 : u[i] = v[i]
  BY <1>3, <1>4
<1> QED BY <1>1, <1>2, <1>3, <1>4, <1>5, SeqEqual DEF Text

LEMMA Six == ASSUME NEW a \in Plain, NEW b \in Plain, NEW c \in Plain, NEW d \in Plain,
                    NEW e \in Plain, NEW f \in Plain
             PROVE  <<a, b>> \o <<c, d, e, f>> = <<a, b, c, d, e, f>>
<1>1. PICK u : u = <<a, b>> \o <<c, d, e, f>>
  OBVIOUS
<1>2. PICK v : v = <<a, b, c, d, e, f>>
  OBVIOUS
<1>3. /\ u \in Text /\ Len(u) = 6 /\ u[1] = a /\ u[2] = b /\ u[3] = c /\ u[4] = d
      /\ u[5] = e /\ u[6] = f
  BY <1>1 DEF Text
<1>4. /\ v \in Text /\ Len(v) = 6 /\ v[1] = a /\ v[2] = b /\ v[3] = c /\ v[4] = d
      /\ v[5] = e /\ v[6] = f
  BY <1>2 DEF Text
<1>5. \A i \in 1..6 : u[i] = v[i]
  BY <1>3, <1>4
<1> QED BY <1>1, <1>2, <1>3, <1>4, <1>5, SeqEqual DEF Text

\* A mail arrives as it was typed.
LEMMA LetterArrives ==
  ASSUME NEW l \in Letter, NEW q \in Request, q.op = "SEND", q.arg = <<l.subject, NL>> \o l.body
  PROVE  /\ Line(TextOf(q), 2) = <<Me>>
         /\ [subject |-> Line(TextOf(q), 3), content |-> ContentOf(After(TextOf(q), 3))] = Sent(l)
<1>1. PICK s : s = l.subject
  OBVIOUS
<1>2. PICK body : body = l.body
  OBVIOUS
<1>3. /\ body \in Text /\ Len(body) \in Nat \ {0} /\ s # NL /\ s \in Plain
      /\ Me # NL
  BY <1>1, <1>2, LetterParts, PlainUnits, ProtocolAssumption
<1>4. PICK t : t = TextOf(q)
  OBVIOUS
<1>5. PICK head : head = <<"SEND", NL, Me, NL, s, NL>>
  OBVIOUS
<1>6. head \in Text /\ <<Dot, NL>> \in Text
  BY <1>3, <1>5, PlainUnits DEF Text
<1>7. t = head \o (body \o <<Dot, NL>>)
  <2>1. RestOf(q) = (<<Me, NL>> \o (<<s, NL>> \o body)) \o <<Dot, NL>>
    BY <1>1, <1>2 DEF RestOf
  <2>2. <<Me, NL>> \in Text /\ <<s, NL>> \in Text /\ <<"SEND", NL>> \in Text
        /\ <<Me, NL, s, NL>> \in Text
    BY <1>3, PlainUnits DEF Text
  <2>3. <<Me, NL>> \o (<<s, NL>> \o body) = (<<Me, NL>> \o <<s, NL>>) \o body
    BY <1>3, <2>2, ConcatAssociative DEF Text
  <2>4. <<Me, NL>> \o <<s, NL>> = <<Me, NL, s, NL>>
    BY <1>3, PlainUnits, Four
  <2>5. RestOf(q) = <<Me, NL, s, NL>> \o (body \o <<Dot, NL>>)
    BY <1>3, <1>6, <2>1, <2>2, <2>3, <2>4, ConcatAssociative, SMTT(30) DEF Text
  <2>6. body \o <<Dot, NL>> \in Text
    BY <1>3, <1>6, ConcatProperties DEF Text
  <2>7. t = (<<"SEND", NL>> \o <<Me, NL, s, NL>>) \o (body \o <<Dot, NL>>)
    <3>1. t = <<"SEND", NL>> \o (<<Me, NL, s, NL>> \o (body \o <<Dot, NL>>))
      BY <1>4, <2>5, TextIs
    <3> QED BY <2>2, <2>6, <3>1, ConcatAssociative, SMTT(30) DEF Text
  <2>8. <<"SEND", NL>> \o <<Me, NL, s, NL>> = head
    BY <1>3, <1>5, PlainUnits, Six
  <2> QED BY <2>7, <2>8
<1>8. PICK tail : tail = body \o <<Dot, NL>>
  OBVIOUS
<1>9. /\ tail \in Text /\ Len(tail) = Len(body) + 2
      /\ \A i \in 1..Len(body) : tail[i] = body[i]
  BY <1>3, <1>6, <1>8, JoinedText
<1>10. /\ t \in Text /\ Len(t) = 6 + Len(tail)
       /\ \A i \in 1..6 : t[i] = head[i]
       /\ \A i \in 1..Len(tail) : t[6 + i] = tail[i]
  <2>1. Len(head) = 6 /\ t = head \o tail
    BY <1>5, <1>7, <1>8
  <2>2. /\ t \in Text /\ Len(t) = Len(head) + Len(tail)
        /\ \A i \in 1..Len(head) : t[i] = head[i]
        /\ \A i \in 1..Len(tail) : t[Len(head) + i] = tail[i]
    BY <1>6, <1>9, <2>1, JoinedText, ZenonT(30)
  <2> QED BY <2>1, <2>2
<1>11. /\ t[1] # NL /\ t[2] = NL /\ t[3] = Me /\ t[4] = NL /\ t[5] = s /\ t[6] = NL
  BY <1>5, <1>10
<1>12. /\ \A m \in 1..2 : t[2 * m] = NL /\ t[2 * m - 1] # NL
       /\ \A m \in 1..3 : t[2 * m] = NL /\ t[2 * m - 1] # NL
  BY <1>3, <1>11
<1>13. Len(t) \in Nat /\ Len(t) >= 8
  BY <1>3, <1>9, <1>10
<1>14. Line(t, 2) = <<Me>>
  <2>1. 2 * 2 <= Len(t) /\ 2 * 2 - 1 = 3 /\ 2 \in Nat \ {0}
    BY <1>13
  <2> QED BY <1>10, <1>11, <1>12, <2>1, LineOf, ZenonT(60) DEF Text
<1>15. Line(t, 3) = <<s>> /\ After(t, 3) = SubSeq(t, 7, Len(t))
  <2>1. 2 * 3 <= Len(t) /\ 2 * 3 - 1 = 5 /\ 2 * 3 + 1 = 7 /\ 3 \in Nat \ {0}
    BY <1>13
  <2> QED BY <1>10, <1>11, <1>12, <2>1, LineOf, ZenonT(30) DEF Text
<1>16. After(t, 3) = tail
  <2>1. PICK u : u = SubSeq(t, 7, Len(t))
    OBVIOUS
  <2>2. u \in Text /\ Len(u) = Len(tail) /\ \A i \in 1..Len(tail) : u[i] = tail[i]
    <3>1. 7 \in 1..Len(t) /\ Len(t) - 7 + 1 = Len(tail)
      BY <1>9, <1>10, <1>13
    <3>2. \A i \in 7..Len(t) : t[i] \in Plain
      BY <1>10, <1>13 DEF Text
    <3>3. u \in Text /\ Len(u) = Len(tail) /\ \A i \in 1..Len(tail) : u[i] = t[7 + i - 1]
      BY <1>13, <2>1, <3>1, <3>2, SubSeqProperties DEF Text
    <3>4. \A i \in 1..Len(tail) : 7 + i - 1 = 6 + i
      BY <1>9
    <3> QED BY <1>10, <3>3, <3>4
  <2>3. u = tail
    BY <1>9, <2>2, SeqEqual DEF Text
  <2> QED BY <1>15, <2>1, <2>3
<1>17. ContentOf(tail) = Front(body)
  <2>1. ContentOf(tail) = SubSeq(tail, 1, Len(body) - 1)
    <3>1. ~ (Len(tail) < 3) /\ Len(tail) - 3 = Len(body) - 1
      BY <1>3, <1>9
    <3> QED BY <3>1 DEF ContentOf
  <2>2. PICK n : n = Len(body) - 1
    OBVIOUS
  <2>3. n \in Nat /\ n < Len(body) /\ n <= Len(tail)
    BY <1>3, <1>9, <2>2
  <2>4. SubSeq(tail, 1, n) \in Text /\ SubSeq(body, 1, n) \in Text
        /\ Len(SubSeq(tail, 1, n)) = n /\ Len(SubSeq(body, 1, n)) = n
        /\ \A i \in 1..n : SubSeq(tail, 1, n)[i] = tail[i] /\ SubSeq(body, 1, n)[i] = body[i]
    BY <1>3, <1>9, <2>3 DEF Text
  <2>5. SubSeq(tail, 1, n) = SubSeq(body, 1, n)
    BY <1>9, <2>3, <2>4, SeqEqual DEF Text
  <2> QED BY <2>1, <2>2, <2>5 DEF Front
<1> QED BY <1>1, <1>2, <1>4, <1>14, <1>15, <1>16, <1>17 DEF Sent

LEMMA PrefixOfJoined == \A s, t \in Text : IsPrefix(s, s \o t)
<1> SUFFICES ASSUME NEW s \in Text, NEW t \in Text PROVE IsPrefix(s, s \o t)
  OBVIOUS
<1>1. PICK u : u = s \o t
  OBVIOUS
<1>2. u \in Text /\ Len(u) = Len(s) + Len(t) /\ \A i \in 1..Len(s) : u[i] = s[i]
  BY <1>1, JoinedText
<1>3. Len(s) \in Nat /\ Len(t) \in Nat
  BY DEF Text
<1>4. Len(s) <= Len(u)
  BY <1>2, <1>3
<1>5. PICK v : v = SubSeq(u, 1, Len(s))
  OBVIOUS
<1>6. v \in Text /\ Len(v) = Len(s) /\ \A i \in 1..Len(s) : v[i] = u[i]
  BY <1>2, <1>3, <1>4, <1>5 DEF Text
<1>7. v = s
  BY <1>2, <1>6, SeqEqual DEF Text
<1>8. SubSeq(s, 1, Len(s)) = s
  BY SubSeqFull DEF Text
<1> QED BY <1>1, <1>4, <1>5, <1>7, <1>8 DEF IsPrefix

LEMMA OneMore == ASSUME NEW S, IsFiniteSet(S), NEW x, x \notin S
                 PROVE  IsFiniteSet(S \cup {x}) /\ Cardinality(S \cup {x}) = Cardinality(S) + 1
BY FS_AddElement

\* The answer to READ, in which the client looks for four lines.
LEMMA MailAnswer ==
  ASSUME NEW m \in Mails
  PROVE  /\ OK \in Text /\ MailText(m) \in Text /\ OK \o MailText(m) \in Text
         /\ Len(Lines(OK \o MailText(m))) >= 4
<1>1. PICK l \in Letter : m = Sent(l)
  BY DEF Mails
<1>2. PICK s : s = l.subject
  OBVIOUS
<1>3. PICK content : content = Front(l.body)
  OBVIOUS
<1>4. m.subject = <<s>> /\ m.content = content
  BY <1>1, <1>2, <1>3 DEF Sent
<1>5. content \in Text
  BY <1>3, LetterParts DEF Front, Text
<1>6. s \in Plain /\ <<s>> \in Text /\ <<NL>> \in Text /\ <<Me, NL, Me, NL>> \in Text /\ OK \in Text
  BY <1>2, LetterParts, PlainUnits DEF Text, OK
<1>7. PICK a : a = <<Me, NL, Me, NL>> \o <<s>>
  OBVIOUS
<1>8. a \in Text /\ Len(a) = 5 /\ a[2] = NL /\ a[4] = NL
  BY <1>6, <1>7, JoinedText
<1>9. PICK b : b = a \o <<NL>>
  OBVIOUS
<1>10. b \in Text /\ Len(b) = 6 /\ b[2] = NL /\ b[4] = NL /\ b[6] = NL
  <2>1. /\ b \in Text /\ Len(b) = Len(a) + 1
        /\ \A i \in 1..Len(a) : b[i] = a[i]
        /\ b[Len(a) + 1] = NL
    BY <1>8, <1>9, PlainUnits, Extended, ZenonT(30)
  <2> QED BY <1>8, <2>1
<1>11. PICK c : c = b \o content
  OBVIOUS
<1>12. c \in Text /\ Len(c) \in Nat /\ Len(c) >= 6 /\ c[2] = NL /\ c[4] = NL /\ c[6] = NL
  <2>1. Len(content) \in Nat
    BY <1>5 DEF Text
  <2>2. c \in Text /\ Len(c) = Len(b) + Len(content) /\ \A i \in 1..Len(b) : c[i] = b[i]
    BY <1>5, <1>10, <1>11, JoinedText
  <2> QED BY <1>10, <2>1, <2>2
<1>13. PICK d : d = c \o <<NL>>
  OBVIOUS
<1>14. d \in Text /\ Len(d) \in Nat /\ Len(d) >= 6 /\ d[2] = NL /\ d[4] = NL /\ d[6] = NL
  <2>1. d \in Text /\ Len(d) = Len(c) + 1 /\ \A i \in 1..Len(c) : d[i] = c[i]
    BY <1>12, <1>13, PlainUnits, Extended
  <2> QED BY <1>12, <2>1
<1>15. MailText(m) = d
  BY <1>4, <1>7, <1>9, <1>11, <1>13 DEF MailText
<1>16. PICK e : e = OK \o d
  OBVIOUS
<1>17. e \in Text /\ Len(e) \in Nat /\ Len(e) >= 8 /\ e[2] = NL /\ e[4] = NL /\ e[6] = NL /\ e[8] = NL
  <2>1. Len(OK) = 2 /\ OK[2] = NL
    BY DEF OK
  <2>2. /\ e \in Text /\ Len(e) = Len(OK) + Len(d)
        /\ \A i \in 1..Len(OK) : e[i] = OK[i]
        /\ \A i \in 1..Len(d) : e[Len(OK) + i] = d[i]
    BY <1>6, <1>14, <1>16, JoinedText
  <2>3. e[2 + 2] = d[2] /\ e[2 + 4] = d[4] /\ e[2 + 6] = d[6]
    BY <1>14, <2>1, <2>2
  <2> QED BY <1>14, <2>1, <2>2, <2>3
<1>18. PICK ends : ends = {i \in 1..Len(e) : e[i] = NL \/ i = Len(e)}
  OBVIOUS
<1>19. Cardinality(ends) \in Nat /\ Cardinality(ends) >= 4
  <2>1. IsFiniteSet(ends)
    <3>1. ends \in SUBSET (1..Len(e)) /\ IsFiniteSet(1..Len(e))
      BY <1>17, <1>18, FS_Interval
    <3> QED BY <3>1, FS_Subset
  <2>2. IsFiniteSet({2}) /\ Cardinality({2}) = 1
    BY FS_Singleton
  <2>3. PICK b2 : b2 = {2} \cup {4}
    OBVIOUS
  <2>4. IsFiniteSet(b2) /\ Cardinality(b2) = 2 /\ 6 \notin b2
    <3>1. IsFiniteSet(b2) /\ Cardinality(b2) = Cardinality({2}) + 1
      BY <2>2, <2>3, OneMore
    <3> QED BY <2>2, <2>3, <3>1
  <2>5. PICK b3 : b3 = b2 \cup {6}
    OBVIOUS
  <2>6. IsFiniteSet(b3) /\ Cardinality(b3) = 3 /\ 8 \notin b3
    <3>1. 8 \notin b3
      BY <2>3, <2>5
    <3>2. IsFiniteSet(b3) /\ Cardinality(b3) = Cardinality(b2) + 1
      BY <2>4, <2>5, OneMore
    <3> QED BY <2>4, <3>1, <3>2
  <2>7. PICK b4 : b4 = b3 \cup {8}
    OBVIOUS
  <2>8. Cardinality(b4) = 4
    <3>1. Cardinality(b4) = Cardinality(b3) + 1
      BY <2>6, <2>7, OneMore
    <3> QED BY <2>6, <3>1
  <2>9. b4 \in SUBSET ends
    BY <1>17, <1>18, <2>3, <2>5, <2>7
  <2>10. Cardinality(b4) <= Cardinality(ends) /\ Cardinality(ends) \in Nat
    BY <2>1, <2>9, FS_Subset, FS_CardinalityType
  <2> QED BY <2>8, <2>10
<1>20. Lines(e) = [k \in 1..Cardinality(ends) |-> Line(e, k)]
  BY <1>18 DEF Lines
<1>21. Len(Lines(e)) = Cardinality(ends)
  BY <1>19, <1>20
<1> QED BY <1>6, <1>14, <1>15, <1>16, <1>17, <1>19, <1>21

\* The rest of the answer to LIST; w holds the subjects.
LEMMA ListText ==
  ASSUME NEW n \in Nat, NEW w \in [1..n -> Word], NEW r \in Seq(Text), Len(r) = n,
         \A i \in 1..n : r[i] = <<w[i], NL>>
  PROVE  \E t \in Text : /\ t = FlattenSeq(r) /\ Len(t) = 2 * n
                         /\ \A i \in 1..n : t[2 * i - 1] = w[i] /\ t[2 * i] = NL
<1>1. CASE n = 0
  <2>1. <<>> \in Text /\ Len(<<>>) = 2 * n
    BY <1>1, EmptySeq DEF Text
  <2>2. r = <<>>
    BY <1>1, EmptySeq
  <2>3. FlattenSeq(r) = <<>>
    BY <2>2 DEF FlattenSeq
  <2> QED BY <1>1, <2>1, <2>3
<1>2. CASE n # 0
  <2>2. \A i \in 1..n : r[i] = <<w[i], NL>>
    OBVIOUS
  <2>3. Len(r) = n
    OBVIOUS
  <2>4. PICK t : t = [j \in 1..(2 * n) |-> IF j % 2 = 0 THEN NL ELSE w[(j + 1) \div 2]]
    OBVIOUS
  <2>5. t \in Text /\ Len(t) = 2 * n
    <3>1. ASSUME NEW j \in 1..(2 * n) PROVE t[j] \in Plain
      <4>1. (j + 1) \div 2 \in 1..n
        OBVIOUS
      <4> QED BY <2>4, <4>1, PlainUnits
    <3>2. t \in [1..(2 * n) -> Plain]
      BY <2>4, <3>1
    <3> QED BY <3>2 DEF Text
  <2>6. ASSUME NEW i \in 1..n PROVE t[2 * i - 1] = w[i] /\ t[2 * i] = NL
    <3>1. /\ 2 * i \in 1..(2 * n) /\ 2 * i - 1 \in 1..(2 * n)
          /\ (2 * i) % 2 = 0 /\ (2 * i - 1) % 2 = 1 /\ (2 * i - 1 + 1) \div 2 = i
      OBVIOUS
    <3> QED BY <2>4, <3>1
  <2>7. PICK f : f = [i \in 1..n |-> SubSeq(t, 1, 2 * i)]
    OBVIOUS
  <2>8. ASSUME NEW i \in 1..n PROVE SubSeq(t, 2 * i - 1, 2 * i) = r[i]
    <3>1. PICK u : u = SubSeq(t, 2 * i - 1, 2 * i)
      OBVIOUS
    <3>2. 2 * i - 1 \in 1..Len(t) /\ 2 * i \in 1..Len(t)
      BY <2>5
    <3>3. u \in Text /\ Len(u) = 2 /\ u[1] = t[2 * i - 1] /\ u[2] = t[2 * i]
      BY <2>5, <3>1, <3>2 DEF Text
    <3>4. <<w[i], NL>> \in Text
      BY PlainUnits DEF Text
    <3>5. u = <<w[i], NL>>
      BY <2>6, <3>3, <3>4, SeqEqual DEF Text
    <3> QED BY <2>2, <3>1, <3>5
  <2>9. f = [i \in 1..n |-> IF i = 1 THEN r[i] ELSE f[i - 1] \o r[i]]
    <3>1. ASSUME NEW i \in 1..n PROVE f[i] = IF i = 1 THEN r[i] ELSE f[i - 1] \o r[i]
      <4>1. CASE i = 1
        BY <2>7, <2>8, <4>1
      <4>2. CASE i # 1
        <5>1. i - 1 \in 1..n /\ f[i - 1] = SubSeq(t, 1, 2 * (i - 1))
          BY <2>7, <4>2
        <5>2. PICK k \in Nat : k = 2 * (i - 1)
          OBVIOUS
        <5>3. /\ k + 1 = 2 * i - 1 /\ 1 \in 1..(Len(t) + 1)
              /\ k \in (1 - 1)..Len(t) /\ 2 * i \in k..Len(t)
          BY <2>5, <4>2, <5>2
        <5>4. SubSeq(t, 1, k) \o SubSeq(t, k + 1, 2 * i) = SubSeq(t, 1, 2 * i)
          BY <2>5, <5>3, ConcatAdjacentSubSeq DEF Text
        <5> QED BY <2>7, <2>8, <4>2, <5>1, <5>2, <5>3, <5>4
      <4> QED BY <4>1, <4>2
    <3> QED BY <2>7, <3>1
  <2>10. PICK g : /\ g = CHOOSE g0 : g0 = [i \in 1..n |-> IF i = 1 THEN r[i] ELSE g0[i - 1] \o r[i]]
                  /\ FlattenSeq(r) = g[n]
    BY <1>2, <2>3 DEF FlattenSeq
  <2>11. g = [i \in 1..n |-> IF i = 1 THEN r[i] ELSE g[i - 1] \o r[i]]
    BY <2>9, <2>10
  <2>12. \A i \in 1..n : g[i] = f[i]
    <3> SUFFICES ASSUME {i \in 1..n : g[i] # f[i]} # {} PROVE FALSE
      OBVIOUS
    <3>1. PICK i \in 1..n : g[i] # f[i] /\ \A j \in 1..n : g[j] # f[j] => i <= j
      <4>1. {j \in 1..n : g[j] # f[j]} \in SUBSET Nat
        OBVIOUS
      <4> QED BY <4>1, LeastElement
    <3>2. g[i] = (IF i = 1 THEN r[i] ELSE g[i - 1] \o r[i])
          /\ f[i] = (IF i = 1 THEN r[i] ELSE f[i - 1] \o r[i])
      BY <2>9, <2>11
    <3>3. i # 1
      BY <3>1, <3>2
    <3>4. i - 1 \in 1..n /\ g[i - 1] = f[i - 1]
      BY <3>1, <3>3
    <3> QED BY <3>1, <3>2, <3>4
  <2>13. f[n] = t
    <3>1. f[n] = SubSeq(t, 1, Len(t))
      BY <1>2, <2>5, <2>7
    <3> QED BY <2>5, <3>1, SubSeqFull DEF Text
  <2>14. FlattenSeq(r) = t
    <3>1. n \in 1..n
      BY <1>2
    <3>2. g[n] = f[n]
      BY <2>12, <3>1
    <3> QED BY <2>10, <2>13, <3>2
  <2> QED BY <2>5, <2>6, <2>14
<1> QED BY <1>1, <1>2
-----------------------------------------------------------------------------
(* Reads of which none goes wrong.                                         *)

LEMMA TextUnits == /\ Text \subseteq Seq(Unit) /\ <<>> \in Text
                   /\ <<Nul>> \in Seq(Unit) /\ <<>> \in Seq(Unit)
<1>1. \A t \in Text : t \in Seq(Unit)
  BY SeqMonotonic DEF Text, Unit
<1>2. Nul \in Unit
  BY DEF Unit
<1> QED BY <1>1, <1>2, EmptySeq DEF Text

LEMMA JoinedUnits == \A a, b \in Seq(Unit) :
  /\ a \o b \in Seq(Unit) /\ Len(a \o b) = Len(a) + Len(b)
  /\ \A i \in 1..Len(a) : (a \o b)[i] = a[i]
  /\ \A i \in 1..Len(b) : (a \o b)[Len(a) + i] = b[i]
BY Joined

LEMMA Regrouped == \A a, b, c \in Seq(Unit) : (a \o b) \o c = a \o (b \o c)
BY ConcatAssociative

LEMMA OnlyNul == \A s \in Seq(Unit) : Len(s) = 1 /\ s[1] = Nul => s = <<Nul>>
<1> SUFFICES ASSUME NEW s \in Seq(Unit), Len(s) = 1, s[1] = Nul PROVE s = <<Nul>>
  OBVIOUS
<1>1. PICK z : z = <<Nul>>
  OBVIOUS
<1>2. z \in Seq(Unit) /\ Len(z) = 1 /\ z[1] = Nul
  BY <1>1, TextUnits
<1>3. ASSUME NEW i \in 1..1 PROVE s[i] = z[i]
  BY <1>2
<1>4. s = z
  BY <1>2, <1>3, SeqEqual
<1> QED BY <1>1, <1>4

\* A read that leaves the NUL, or takes it along as the last unit.
LEMMA ReadWhole ==
  ASSUME NEW r \in Seq(Unit), NEW n \in 1..Len(r), cell \in {Nul, Junk}, n <= Buffer,
         \A i \in 1..n : r[i] = Nul <=> (i = n /\ n = Len(r)),
         toServer = r, Mishaps(n) = {}, NEW b \in CStrings(SubSeq(r, 1, n))
  PROVE  /\ b = SubSeq(r, 1, IF n = Len(r) THEN n - 1 ELSE n)
         /\ n < Len(r) /\ r[n] = NL => Len(r) = n + 1
<1>1. PICK q : q = SubSeq(r, 1, n)
  OBVIOUS
<1>2. n \in Nat \ {0} /\ Len(r) \in Nat
  OBVIOUS
<1>3. q \in Seq(Unit) /\ Len(q) = n /\ \A i \in 1..n : q[i] = r[i]
  BY <1>1, <1>2
<1>4. PICK nuls : nuls = {i \in 1..Len(q) : q[i] = Nul}
  OBVIOUS
<1>5. nuls = {i \in 1..n : r[i] = Nul}
  BY <1>3, <1>4
<1>6. PICK ends : ends = (nuls # {} \/ (Len(q) = Buffer /\ cell = Nul))
  OBVIOUS
<1>7. ends => b = (IF nuls = {} THEN q ELSE SubSeq(q, 1, Min(nuls) - 1)) \o <<>>
  BY <1>1, <1>4, <1>6 DEF CStrings
<1>8. CASE n = Len(r)
  <2>1. nuls = {n}
    BY <1>2, <1>5, <1>8
  <2>2. Min(nuls) = n
    BY <1>2, <2>1 DEF Min
  <2>3. b = SubSeq(q, 1, n - 1) \o <<>>
    BY <1>6, <1>7, <2>1, <2>2
  <2>4. PICK c : c = SubSeq(q, 1, n - 1)
    OBVIOUS
  <2>5. PICK d : d = SubSeq(r, 1, n - 1)
    OBVIOUS
  <2>6. /\ c \in Seq(Unit) /\ Len(c) = n - 1 /\ \A i \in 1..(n - 1) : c[i] = q[i]
        /\ d \in Seq(Unit) /\ Len(d) = n - 1 /\ \A i \in 1..(n - 1) : d[i] = r[i]
    BY <1>2, <1>3, <2>4, <2>5
  <2>7. c = d
    BY <1>2, <1>3, <2>6, SeqEqual
  <2>8. b = d
    BY <2>3, <2>4, <2>6, <2>7, ConcatEmptySeq
  <2> QED BY <1>2, <1>8, <2>5, <2>8
<1>9. CASE n # Len(r)
  <2>1. nuls = {}
    BY <1>5, <1>9
  <2>2. /\ ~ (n < Buffer) /\ cell # Junk
        /\ ~ (cell = Nul /\ n = Buffer /\ r[n] = NL /\ Len(r) > n + 1)
    <3>1. {x \in {"cut"} : {i \in 1..n : toServer[i] = Nul} = {} /\ n < Buffer} = {}
      BY DEF Mishaps
    <3>2. {x \in {"junk"} : {i \in 1..n : toServer[i] = Nul} = {} /\ n = Buffer /\ cell = Junk} = {}
      BY DEF Mishaps
    <3>3. {x \in {"newline"} : {i \in 1..n : toServer[i] = Nul} = {} /\ n = Buffer /\ cell = Nul
                                 /\ toServer[n] = NL /\ Len(toServer) > n + 1} = {}
      BY DEF Mishaps
    <3>4. ~ (n < Buffer)
      BY <1>5, <2>1, <3>1
    <3>5. n = Buffer
      BY <3>4, ProtocolAssumption
    <3>6. cell # Junk
      BY <1>5, <2>1, <3>2, <3>5
    <3> QED BY <1>5, <2>1, <3>3, <3>4, <3>6
  <2>3. n = Buffer /\ cell = Nul
    BY <2>2, ProtocolAssumption
  <2>4. b = q \o <<>>
    BY <1>3, <1>6, <1>7, <2>1, <2>3
  <2>5. b = q
    BY <1>3, <2>4, ConcatEmptySeq
  <2> QED BY <1>1, <1>2, <1>9, <2>2, <2>3, <2>5
<1> QED BY <1>8, <1>9

\* What a turn of the loop of ClientCommunication makes of a request.
\* The read of n units that leaves s of the text t and its NUL, and gives b.
PartOf(t, n, b, s) ==
  /\ t \in Text /\ Len(t) \in Nat \ {0} /\ t[Len(t)] = NL
  /\ message \in Text /\ toServer \in Seq(Unit) /\ toServer # <<>> /\ cell \in {Nul, Junk}
  /\ message \o toServer = t \o <<Nul>>
  /\ n \in Portion(Len(toServer)) /\ Mishaps(n) = {}
  /\ b \in CStrings(SubSeq(toServer, 1, n))
  /\ s = SubSeq(toServer, n + 1, Len(toServer))

Received(t, b, s) ==
  /\ message \o b \in Text /\ s \in Seq(Unit)
  /\ \/ message \o b = t /\ s \in {<<>>, <<Nul>>}
     \/ ~ EndsWithNL(message \o b) /\ (message \o b) \o s = t \o <<Nul>>

LEMMA ReceivePart == ASSUME NEW t, NEW n, NEW b, NEW s, PartOf(t, n, b, s)
                     PROVE  Received(t, b, s)
<1> SUFFICES ASSUME t \in Text, Len(t) \in Nat \ {0}, t[Len(t)] = NL,
                    message \in Text, toServer \in Seq(Unit), toServer # <<>>,
                    cell \in {Nul, Junk}, message \o toServer = t \o <<Nul>>,
                    n \in Portion(Len(toServer)), Mishaps(n) = {},
                    b \in CStrings(SubSeq(toServer, 1, n)),
                    s = SubSeq(toServer, n + 1, Len(toServer))
             PROVE  /\ message \o b \in Text /\ s \in Seq(Unit)
                    /\ \/ message \o b = t /\ s \in {<<>>, <<Nul>>}
                       \/ ~ EndsWithNL(message \o b) /\ (message \o b) \o s = t \o <<Nul>>
  BY DEF PartOf, Received
<1>1. PICK r : r = toServer
  OBVIOUS
<1>2. r \in Seq(Unit) /\ Len(r) \in Nat \ {0} /\ message \in Seq(Unit) /\ t \in Seq(Unit)
      /\ Len(message) \in Nat
  BY <1>1, EmptySeq, TextUnits DEF Text
<1>3. n \in 1..Len(r) /\ n <= Buffer
  BY <1>1, <1>2, PortionType
<1>4. PICK u : u = t \o <<Nul>>
  OBVIOUS
<1>5. /\ u \in Seq(Unit) /\ Len(u) = Len(t) + 1 /\ u[Len(t) + 1] = Nul
      /\ \A i \in 1..Len(t) : u[i] = t[i]
  <2>1. PICK z : z = <<Nul>>
    OBVIOUS
  <2>2. z \in Seq(Unit) /\ Len(z) = 1 /\ 1 \in 1..Len(z) /\ z[1] = Nul
    BY <2>1, TextUnits
  <2>3. /\ u \in Seq(Unit) /\ Len(u) = Len(t) + Len(z)
        /\ \A i \in 1..Len(t) : u[i] = t[i]
        /\ \A i \in 1..Len(z) : u[Len(t) + i] = z[i]
    BY <1>2, <1>4, <2>1, <2>2, JoinedUnits
  <2> QED BY <2>2, <2>3
<1>6. /\ Len(message) + Len(r) = Len(t) + 1
      /\ \A i \in 1..Len(message) : u[i] = message[i]
      /\ \A i \in 1..Len(r) : u[Len(message) + i] = r[i]
  <2>1. u = message \o r
    BY <1>1, <1>4
  <2> QED BY <1>2, <1>5, <2>1, JoinedUnits
<1>7. /\ \A i \in 1..Len(message) : message[i] = t[i]
      /\ \A i \in 1..(Len(r) - 1) : r[i] = t[Len(message) + i] /\ r[i] \in Plain /\ r[i] # Nul
      /\ r[Len(r)] = Nul
  <2>1. ASSUME NEW i \in 1..Len(message) PROVE message[i] = t[i]
    <3>1. i \in 1..Len(t)
      BY <1>2, <1>6
    <3> QED BY <1>5, <1>6, <3>1
  <2>2. ASSUME NEW i \in 1..(Len(r) - 1)
        PROVE  r[i] = t[Len(message) + i] /\ r[i] \in Plain /\ r[i] # Nul
    <3>1. i \in 1..Len(r) /\ Len(message) + i \in 1..Len(t)
      BY <1>2, <1>6
    <3>2. r[i] = t[Len(message) + i]
      BY <1>5, <1>6, <3>1
    <3>3. t[Len(message) + i] \in Plain
      BY <3>1 DEF Text
    <3> QED BY <3>2, <3>3, PlainHasNoNul
  <2>3. r[Len(r)] = Nul
    BY <1>2, <1>5, <1>6
  <2> QED BY <2>1, <2>2, <2>3
<1>8. \A i \in 1..n : r[i] = Nul <=> (i = n /\ n = Len(r))
  BY <1>2, <1>3, <1>7, SMTT(30)
<1>9. PICK k : k = IF n = Len(r) THEN n - 1 ELSE n
  OBVIOUS
<1>10. k \in 0..(Len(r) - 1) /\ k <= n
  BY <1>2, <1>3, <1>9
<1>11. b = SubSeq(r, 1, k) /\ (n < Len(r) /\ r[n] = NL => Len(r) = n + 1)
  BY <1>1, <1>2, <1>3, <1>8, <1>9, ReadWhole
<1>12. b \in Text /\ Len(b) = k /\ \A i \in 1..k : b[i] = t[Len(message) + i]
  <2>1. \A i \in 1..k : r[i] \in Plain
    BY <1>7, <1>10, SMTT(30)
  <2>2. b \in Text /\ Len(b) = k /\ \A i \in 1..k : b[i] = r[i]
    BY <1>10, <1>11, <2>1, SubSeqProperties DEF Text
  <2>3. ASSUME NEW i \in 1..k PROVE b[i] = t[Len(message) + i]
    <3>1. i \in 1..(Len(r) - 1)
      BY <1>2, <1>10
    <3>2. r[i] = t[Len(message) + i]
      BY <1>7, <3>1
    <3> QED BY <2>2, <3>2
  <2> QED BY <2>2, <2>3
<1>13. PICK m : m = message \o b
  OBVIOUS
<1>14. m \in Text /\ Len(m) = Len(message) + k /\ \A i \in 1..Len(m) : m[i] = t[i]
  <2>1. /\ m \in Text /\ Len(m) = Len(message) + Len(b)
        /\ \A i \in 1..Len(message) : m[i] = message[i]
        /\ \A i \in 1..Len(b) : m[Len(message) + i] = b[i]
    BY <1>12, <1>13, JoinedText
  <2>2. ASSUME NEW i \in 1..Len(m) PROVE m[i] = t[i]
    <3>1. CASE i \in 1..Len(message)
      BY <1>7, <2>1, <3>1
    <3>2. CASE i \notin 1..Len(message)
      <4>1. PICK j \in 1..k : i = Len(message) + j
        <5>1. i - Len(message) \in 1..k
          BY <1>2, <1>10, <1>12, <2>1, <3>2
        <5> QED BY <1>2, <5>1
      <4> QED BY <1>12, <2>1, <4>1
    <3> QED BY <3>1, <3>2
  <2> QED BY <1>12, <2>1, <2>2
<1>15. s \in Seq(Unit) /\ Len(s) = Len(r) - n /\ \A i \in 1..(Len(r) - n) : s[i] = r[n + i]
  BY <1>1, <1>2, <1>3, SMTT(30)
<1>16. k = Len(r) - 1 => m = t
  <2>1. k = Len(r) - 1 => Len(m) = Len(t)
    BY <1>2, <1>6, <1>14
  <2> QED BY <1>14, <2>1, SeqEqual DEF Text
<1>17. CASE n = Len(r)
  <2>1. s = <<>> /\ m = t
    BY <1>2, <1>9, <1>15, <1>16, <1>17, EmptySeq
  <2> QED BY <1>13, <1>14, <1>15, <2>1
<1>18. CASE n # Len(r) /\ r[n] = NL
  <2>1. Len(r) = n + 1 /\ k = Len(r) - 1
    BY <1>2, <1>3, <1>9, <1>11, <1>18
  <2>2. Len(s) = 1 /\ s[1] = Nul
    BY <1>2, <1>3, <1>7, <1>15, <2>1
  <2>3. s = <<Nul>>
    BY <1>15, <2>2, OnlyNul
  <2> QED BY <1>13, <1>14, <1>15, <1>16, <2>1, <2>3
<1>19. CASE n # Len(r) /\ r[n] # NL
  <2>1. k = n /\ n \in 1..(Len(r) - 1)
    BY <1>2, <1>3, <1>9, <1>19
  <2>2. m[Len(m)] = r[n]
    <3>1. r[n] = t[Len(message) + n]
      BY <1>7, <2>1
    <3>2. Len(m) = Len(message) + n /\ Len(m) \in 1..Len(m)
      BY <1>2, <1>3, <1>14, <2>1
    <3>3. m[Len(m)] = t[Len(m)]
      BY <1>14, <3>2
    <3> QED BY <3>1, <3>2, <3>3
  <2>3. ~ EndsWithNL(m)
    BY <1>19, <2>2 DEF EndsWithNL, Last
  <2>4. m \o s = t \o <<Nul>>
    <3>1. b = SubSeq(r, 1, n) /\ s = SubSeq(r, n + 1, Len(r))
      BY <1>1, <1>11, <2>1
    <3>2. b \o s = SubSeq(r, 1, Len(r))
      <4>1. 1 \in 1..(Len(r) + 1) /\ n \in (1 - 1)..Len(r) /\ Len(r) \in n..Len(r)
        BY <1>2, <1>3
      <4> QED BY <1>2, <3>1, <4>1, ConcatAdjacentSubSeq
    <3>3. b \o s = r
      BY <1>2, <3>2, SubSeqFull
    <3>4. b \in Seq(Unit)
      BY <1>12, TextUnits
    <3>5. (message \o b) \o s = message \o (b \o s)
      <4>1. message \in Seq(Unit) /\ b \in Seq(Unit) /\ s \in Seq(Unit)
        BY <1>2, <1>15, <3>4
      <4> QED BY <4>1, Regrouped, ZenonT(30)
    <3> QED BY <1>1, <1>13, <3>3, <3>5
  <2> QED BY <1>13, <1>14, <1>15, <2>3, <2>4
<1> QED BY <1>17, <1>18, <1>19

\* A NUL that was left over can only be read alone.
LEMMA ReceiveNul ==
  ASSUME NEW w \in Seq(Unit), toServer = <<Nul>> \o w, cell \in {Nul, Junk},
         NEW n \in Portion(Len(toServer)), Mishaps(n) = {},
         NEW b \in CStrings(SubSeq(toServer, 1, n))
  PROVE  b = <<>> /\ SubSeq(toServer, n + 1, Len(toServer)) = w
<1>1. PICK r : r = toServer
  OBVIOUS
<1>2. /\ r \in Seq(Unit) /\ Len(r) = 1 + Len(w) /\ Len(w) \in Nat /\ r[1] = Nul
      /\ \A i \in 1..Len(w) : r[1 + i] = w[i]
  <2>1. PICK z : z = <<Nul>>
    OBVIOUS
  <2>2. z \in Seq(Unit) /\ Len(z) = 1 /\ 1 \in 1..Len(z) /\ z[1] = Nul
    BY <2>1, TextUnits
  <2>3. /\ r \in Seq(Unit) /\ Len(r) = Len(z) + Len(w)
        /\ \A i \in 1..Len(z) : r[i] = z[i]
        /\ \A i \in 1..Len(w) : r[Len(z) + i] = w[i]
    BY <1>1, <2>1, <2>2, JoinedUnits
  <2> QED BY <2>2, <2>3
<1>3. n \in 1..Len(r)
  BY <1>1, <1>2, PortionType
<1>4. n = 1
  <2>1. {x \in {"merged"} : {i \in 1..n : r[i] = Nul} # {} /\ {i \in 1..n : r[i] = Nul} # {n}} = {}
    BY <1>1 DEF Mishaps
  <2>2. 1 \in {i \in 1..n : r[i] = Nul}
    BY <1>2, <1>3
  <2>3. {i \in 1..n : r[i] = Nul} = {n}
    BY <2>1, <2>2
  <2> QED BY <2>2, <2>3
<1>5. PICK q : q = SubSeq(r, 1, 1)
  OBVIOUS
<1>6. q \in Seq(Unit) /\ Len(q) = 1 /\ q[1] = Nul
  BY <1>2, <1>5
<1>7. {i \in 1..Len(q) : q[i] = Nul} = {1}
  BY <1>6
<1>8. Min({1}) = 1
  BY DEF Min
<1>9. b = SubSeq(q, 1, 0) \o <<>>
  BY <1>1, <1>4, <1>5, <1>7, <1>8 DEF CStrings
<1>10. b = <<>>
  <2>1. SubSeq(q, 1, 0) = <<>>
    BY SubSeqEmpty
  <2> QED BY <1>9, <2>1, TextUnits, ConcatEmptySeq
<1>11. SubSeq(r, 2, Len(r)) = w
  <2>1. PICK v : v = SubSeq(r, 2, Len(r))
    OBVIOUS
  <2>2. v \in Seq(Unit) /\ Len(v) = Len(w) /\ \A i \in 1..Len(w) : v[i] = w[i]
    <3>1. v \in Seq(Unit) /\ Len(v) = Len(w) /\ \A i \in 1..Len(w) : v[i] = r[1 + i]
      BY <1>2, <2>1
    <3> QED BY <1>2, <3>1
  <2>3. v = w
    BY <2>2, SeqEqual
  <2> QED BY <2>1, <2>3
<1> QED BY <1>1, <1>4, <1>10, <1>11
-----------------------------------------------------------------------------
(* The conversation, as long as no read goes wrong.                        *)

\* What is on its way is text, and the mailbox holds what was typed.
Streams ==
  /\ asked \in Request \cup {NoRequest}
  /\ message \in Text /\ toServer \in Seq(Unit)
  /\ toClient \in Text /\ response \in Text /\ rest \in Text
Stored == box \in Seq(Mails) /\ Len(box) \in Numbers

\* All that a request may leave behind on its way.
Spare == toServer \in {<<>>, <<Nul>>}

Idle == Spare /\ (spc = "closed" \/ (spc = "recv" /\ message = <<>>))

\* The server has read a part of the request.
Arriving ==
  /\ spc = "recv"
  /\ \/ message \o toServer = TextOf(asked) \o <<Nul>>
     \/ message = <<>> /\ toServer = <<Nul>> \o (TextOf(asked) \o <<Nul>>)

Underway ==
  /\ asked \in Request /\ did = <<>> /\ toClient = <<>> /\ response = <<>>
  /\ \/ Arriving
     \/ spc = "execute" /\ message = TextOf(asked) /\ Spare
     \/ spc = "closed" /\ Spare

\* What Success is to say of the whole answer to a request.
Succeeds(op, r) ==
  CASE op \in {"LOGIN", "SEND", "DEL"} -> r = OK
    [] op = "READ"                     -> IsPrefix(OK, r)
    [] op = "LIST"                     -> IsNumber(r)
    [] OTHER                           -> FALSE

\* The answer, as far as the client has read it, has not, and is to be sent.
Whole == response \o (toClient \o rest)

\* The request has been executed.
Done ==
  /\ Spare
  /\ spc = "closed" \/ spc = "rest" \/ (spc = "recv" /\ message = <<>> /\ rest = <<>>)
  /\ did = <<[text |-> TextOf(asked), answer |-> Whole, ok |-> Succeeds(asked.op, Whole)]>>
  /\ asked.op = "READ" /\ Succeeds(asked.op, Whole) => Len(Lines(Whole)) >= 4

Phase ==
  /\ cpc = "menu" => Idle /\ did = <<>> /\ toClient = <<>>
  /\ cpc = "wait" => /\ asked.op # "QUIT"
                     /\ Underway \/ (Done /\ (response # <<>> => toClient # <<>>))
  /\ cpc = "got"  => Done /\ toClient = <<>> /\ rest = <<>>
  /\ cpc = "end"  => Idle \/ (asked.op = "QUIT" /\ Underway)
  /\ cpc # "crash"

Orderly == TypeOK /\ (trouble = {} => Streams /\ Stored /\ Phase)

\* Of a step before which and after which no read went wrong.
Before == TypeOK /\ trouble = {} /\ trouble' = {} /\ Streams /\ Stored /\ Phase

LEMMA Unmoved ==
  ASSUME Streams, Phase,
         UNCHANGED <<toServer, toClient, cpc, asked, response, spc, message, rest, did>>
  PROVE  Streams' /\ Phase'
BY DEF Streams, Phase, Idle, Spare, Underway, Arriving, Done, Whole

LEMMA ClosePhase == ASSUME Before, Close PROVE Streams' /\ Phase'
<1>1. /\ UNCHANGED <<toClient, cpc, asked, response, message, rest, did>>
      /\ spc' = "closed" /\ toServer' = <<>>
  BY DEF Close, client, history
<1>2. Streams'
  BY <1>1, TextUnits DEF Before, Streams
<1>3. Spare' /\ Idle'
  BY <1>1 DEF Spare, Idle
<1>4. Underway => Underway'
  BY <1>1, <1>3 DEF Underway
<1>5. Whole' = Whole
  BY <1>1 DEF Whole
<1>6. Done => Done'
  BY <1>1, <1>3, <1>5 DEF Done
<1>7. Phase'
  BY <1>1, <1>3, <1>4, <1>6 DEF Before, Phase
<1> QED BY <1>2, <1>7

LEMMA Executing ==
  ASSUME Before, spc = "execute"
  PROVE  /\ Underway /\ asked \in Request /\ Spare
         /\ message = TextOf(asked) /\ Line(message, 1) = <<asked.op>>
         /\ \/ cpc = "wait" /\ asked.op # "QUIT"
            \/ cpc = "end" /\ asked.op = "QUIT"
<1>1. ~ Idle /\ ~ Done
  BY DEF Idle, Done
<1>2. cpc \in {"menu", "wait", "got", "end", "crash"}
  BY DEF Before, TypeOK
<1>3. /\ Underway
      /\ \/ cpc = "wait" /\ asked.op # "QUIT"
         \/ cpc = "end" /\ asked.op = "QUIT"
  BY <1>1, <1>2 DEF Before, Phase
<1>4. asked \in Request /\ Spare /\ message = TextOf(asked)
  BY <1>3 DEF Underway, Arriving
<1> QED BY <1>3, <1>4, CommandOf

LEMMA EndTurnTyped ==
  ASSUME Before, EndTurn
  PROVE  message' \in Text /\ rest' = <<>> /\ rest' \in Text
         /\ (spc' = "closed" \/ (spc' = "recv" /\ message' = <<>> /\ rest' = <<>>))
BY TextUnits DEF EndTurn

LEMMA EmptyRest == \A t \in Text : <<>> \o (t \o <<>>) = t /\ <<>> \o (<<>> \o t) = t
BY ConcatEmptySeq DEF Text

\* Executing a request that has an answer.
LEMMA AnswerPhase ==
  ASSUME Before, NEW op \in {"LOGIN", "SEND", "READ", "DEL"}, NEW answer \in Text, NEW ok,
         Answer(op, answer, ok), ok = Succeeds(op, answer),
         op = "READ" /\ ok => Len(Lines(answer)) >= 4
  PROVE  Streams' /\ Phase'
<1>1. /\ spc = "execute" /\ Line(message, 1) = <<op>> /\ toClient' = toClient \o answer
      /\ did' = Append(did, [text |-> message, answer |-> answer, ok |-> ok])
      /\ EndTurn /\ UNCHANGED <<toServer, cpc, asked, response>>
  BY DEF Answer, client
<1>2. /\ Underway /\ Spare /\ message = TextOf(asked) /\ asked.op = op /\ cpc = "wait"
  BY <1>1, Executing
<1>3. toClient = <<>> /\ response = <<>> /\ did = <<>>
  BY <1>2 DEF Underway
<1>4. /\ message' \in Text /\ rest' = <<>> /\ rest' \in Text
      /\ (spc' = "closed" \/ (spc' = "recv" /\ message' = <<>> /\ rest' = <<>>))
  BY <1>1, EndTurnTyped
<1>5. toClient' = answer /\ Whole' = answer
  <2>1. toClient' = answer
    BY <1>1, <1>3, ConcatEmptySeq DEF Text
  <2> QED BY <1>1, <1>3, <1>4, <2>1, EmptyRest DEF Whole
<1>6. Streams'
  BY <1>1, <1>4, <1>5 DEF Before, Streams
<1>7. did' = <<[text |-> TextOf(asked'), answer |-> Whole', ok |-> Succeeds(asked'.op, Whole')]>>
  BY <1>1, <1>2, <1>3, <1>5
<1>8. Done'
  BY <1>1, <1>2, <1>4, <1>5, <1>7 DEF Done, Spare
<1>9. Phase'
  BY <1>1, <1>2, <1>3, <1>8 DEF Phase
<1> QED BY <1>6, <1>9

LEMMA Answers ==
  /\ OK \in Text /\ ERR \in Text /\ BLOCKED \in Text
  /\ ERR # OK /\ BLOCKED # OK /\ ~ IsPrefix(OK, ERR)
<1>1. OK \in Text /\ ERR \in Text /\ BLOCKED \in Text
  BY PlainUnits DEF OK, ERR, BLOCKED, Text
<1>2. OK[1] = "OK" /\ ERR[1] = "ERR" /\ BLOCKED[1] = "BLOCKED" /\ Len(OK) = 2
  BY DEF OK, ERR, BLOCKED
<1>3. ~ IsPrefix(OK, ERR)
  <2>1. PICK e : e = ERR
    OBVIOUS
  <2>2. PICK o : o = OK
    OBVIOUS
  <2>3. e \in Text /\ o \in Text /\ Len(o) = 2 /\ o[1] # e[1] /\ Len(e) = 2
    BY <1>1, <1>2, <2>1, <2>2 DEF ERR
  <2>4. SubSeq(o, 1, Len(o))[1] = o[1] /\ SubSeq(e, 1, Len(o))[1] = e[1]
    BY <2>3 DEF Text
  <2>5. ~ IsPrefix(o, e)
    BY <2>3, <2>4 DEF IsPrefix
  <2> QED BY <2>1, <2>2, <2>5
<1> QED BY <1>1, <1>2, <1>3

LEMMA LoginPhase == ASSUME Before, Login PROVE Streams' /\ Phase' /\ Stored'
<1>1. box' = box
  BY DEF Login
<1>2. PICK answer \in {OK, ERR, BLOCKED} : Answer("LOGIN", answer, answer = OK)
  <2>1. CASE Answer("LOGIN", OK, TRUE)
    BY <2>1
  <2>2. CASE \E answer \in {ERR, BLOCKED} : Answer("LOGIN", answer, FALSE)
    <3>1. PICK answer \in {ERR, BLOCKED} : Answer("LOGIN", answer, FALSE)
      BY <2>2
    <3>2. (answer = OK) = FALSE
      BY Answers
    <3> QED BY <3>1, <3>2
  <2> QED BY <2>1, <2>2 DEF Login
<1>3. (answer = OK) = Succeeds("LOGIN", answer)
  BY DEF Succeeds
<1>4. Streams' /\ Phase'
  BY <1>2, <1>3, Answers, AnswerPhase
<1> QED BY <1>1, <1>4 DEF Before, Stored

\* A mail more, or one less.
LEMMA OneMailMore ==
  ASSUME Stored, Room, NEW m \in Mails, box' = Append(box, m)
  PROVE  Stored'
<1>1. Append(box, m) \in Seq(Mails) /\ Len(Append(box, m)) = Len(box) + 1
  BY DEF Stored
<1> QED BY <1>1 DEF Stored, Room

LEMMA OneMailLess ==
  ASSUME Stored, NEW i \in 1..Len(box), box' = RemoveAt(box, i)
  PROVE  Stored'
<1>1. PICK b : b = box
  OBVIOUS
<1>2. b \in Seq(Mails) /\ Len(b) \in Nat \ {0} /\ i \in 1..Len(b)
  BY <1>1 DEF Stored
<1>3. PICK x : x = SubSeq(b, 1, i - 1)
  OBVIOUS
<1>4. PICK y : y = SubSeq(b, i + 1, Len(b))
  OBVIOUS
<1>5. x \in Seq(Mails) /\ Len(x) = i - 1 /\ y \in Seq(Mails) /\ Len(y) = Len(b) - i
  BY <1>2, <1>3, <1>4
<1>6. x \o y \in Seq(Mails) /\ Len(x \o y) = Len(b) - 1
  BY <1>2, <1>5, Joined
<1>7. box' \in Seq(Mails) /\ Len(box') = Len(box) - 1
  BY <1>1, <1>3, <1>4, <1>6 DEF RemoveAt
<1>8. Len(box) - 1 \in Numbers
  BY <1>1, <1>2 DEF Stored, Numbers
<1> QED BY <1>7, <1>8 DEF Stored

\* A mail a SEND stores is one the client sends.
LEMMA SendMore ==
  ASSUME Before, Send
  PROVE  \/ box' = box
         \/ Room /\ \E m \in Mails : box' = Append(box, m)
<1>1. PICK receiver : receiver = Line(message, 2)
  OBVIOUS
<1>2. PICK mail : mail = [subject |-> Line(message, 3), content |-> ContentOf(After(message, 3))]
  OBVIOUS
<1>3. PICK ok : ok = (user /\ ValidUsername(receiver) /\ receiver # <<>>)
  OBVIOUS
<1>4. /\ ok /\ receiver = <<Me>> => Room
      /\ Answer("SEND", IF ok THEN OK ELSE ERR, ok)
      /\ box' = IF ok /\ receiver = <<Me>> THEN Append(box, mail) ELSE box
  BY <1>1, <1>2, <1>3 DEF Send
<1>5. mail \in Mails
  <2>1. spc = "execute" /\ Line(message, 1) = <<"SEND">>
    BY <1>4 DEF Answer
  <2>2. asked \in Request /\ asked.op = "SEND" /\ message = TextOf(asked)
    BY <2>1, Executing
  <2>3. PICK l \in Letter : asked.arg = <<l.subject, NL>> \o l.body
    BY <2>2, RequestParts
  <2>4. mail = Sent(l)
    BY <1>2, <2>2, <2>3, LetterArrives
  <2> QED BY <2>4 DEF Mails
<1> QED BY <1>4, <1>5

LEMMA SendPhase == ASSUME Before, Send PROVE Streams' /\ Phase' /\ Stored'
<1>1. PICK ok \in BOOLEAN : Answer("SEND", IF ok THEN OK ELSE ERR, ok)
  BY DEF Send, Before, TypeOK, ValidUsername
<1>2. PICK answer : answer = IF ok THEN OK ELSE ERR
  OBVIOUS
<1>3. answer \in Text /\ ok = Succeeds("SEND", answer)
  BY <1>2, Answers DEF Succeeds
<1>4. Streams' /\ Phase'
  BY <1>1, <1>2, <1>3, AnswerPhase
<1>5. Stored'
  BY SendMore, OneMailMore DEF Before, Stored
<1> QED BY <1>4, <1>5

\* A command about a mail that is there.
LEMMA WantedIsThere ==
  ASSUME Before, ~ Throws, user, Wanted <= Len(box)
  PROVE  Wanted \in 1..Len(box)
<1>1. PICK i \in Numbers : Head(After(message, 1)) = NumberText(i)
  BY DEF Throws, IsNumber
<1>2. NumberOf(After(message, 1)) \in Numbers
  BY <1>1 DEF NumberOf
<1>3. Numbers \subseteq Nat /\ Len(box) \in Nat
  BY DEF Numbers, Before, Stored
<1>4. PICK j \in Numbers : j = NumberOf(After(message, 1))
  BY <1>2
<1>5. Wanted = j + 1
  BY <1>4 DEF Wanted
<1> QED BY <1>3, <1>4, <1>5

LEMMA ReadMailPhase == ASSUME Before, ReadMail PROVE Streams' /\ Phase' /\ Stored'
<1>1. PICK ok : ok = (user /\ Wanted <= Len(box))
  OBVIOUS
<1>2. PICK answer : answer = IF ok THEN OK \o MailText(box[Wanted]) ELSE ERR
  OBVIOUS
<1>3. ~ Throws /\ Answer("READ", answer, ok) /\ box' = box /\ user \in BOOLEAN
  BY <1>1, <1>2 DEF ReadMail, Before, TypeOK
<1>4. /\ answer \in Text /\ ok = Succeeds("READ", answer)
      /\ ok => Len(Lines(answer)) >= 4
  <2>1. CASE ok
    <3>1. Wanted \in 1..Len(box)
      BY <1>1, <1>3, <2>1, WantedIsThere
    <3>2. PICK m \in Mails : m = box[Wanted]
      BY <3>1 DEF Before, Stored
    <3>3. /\ OK \in Text /\ MailText(m) \in Text /\ answer \in Text
          /\ answer = OK \o MailText(m) /\ Len(Lines(answer)) >= 4
      BY <1>2, <2>1, <3>2, MailAnswer
    <3>4. IsPrefix(OK, answer)
      BY <3>3, PrefixOfJoined
    <3> QED BY <1>1, <1>3, <2>1, <3>3, <3>4 DEF Succeeds
  <2>2. CASE ~ ok
    <3>1. answer = ERR
      BY <1>2, <2>2
    <3> QED BY <1>1, <1>3, <2>2, <3>1, Answers DEF Succeeds, IsPrefix
  <2> QED BY <2>1, <2>2
<1>5. Streams' /\ Phase'
  BY <1>3, <1>4, AnswerPhase
<1> QED BY <1>3, <1>5 DEF Before, Stored

LEMMA DeletePhase == ASSUME Before, Delete PROVE Streams' /\ Phase' /\ Stored'
<1>1. PICK ok : ok = (user /\ Wanted <= Len(box))
  OBVIOUS
<1>2. PICK answer : answer = IF ok THEN OK ELSE ERR
  OBVIOUS
<1>3. /\ ~ Throws /\ Answer("DEL", answer, ok) /\ user \in BOOLEAN
      /\ box' = IF ok THEN RemoveAt(box, Wanted) ELSE box
  BY <1>1, <1>2 DEF Delete, Before, TypeOK
<1>4. answer \in Text /\ ok = Succeeds("DEL", answer)
  BY <1>1, <1>2, <1>3, Answers DEF Succeeds
<1>5. Streams' /\ Phase'
  BY <1>3, <1>4, AnswerPhase
<1>6. Stored'
  <2>1. CASE ok
    <3>1. Wanted \in 1..Len(box)
      BY <1>1, <1>3, <2>1, WantedIsThere
    <3> QED BY <1>3, <2>1, <3>1, OneMailLess DEF Before
  <2>2. CASE ~ ok
    BY <1>3, <2>2 DEF Before, Stored
  <2> QED BY <1>1, <1>3, <2>1, <2>2
<1> QED BY <1>5, <1>6

LEMMA SubjectLine == \A x \in Word : <<x>> \o <<NL>> = <<x, NL>> /\ <<x, NL>> \in Text
<1> SUFFICES ASSUME NEW x \in Word PROVE <<x>> \o <<NL>> = <<x, NL>> /\ <<x, NL>> \in Text
  OBVIOUS
<1>1. x \in Plain /\ <<x>> \in Text /\ <<NL>> \in Text /\ <<x, NL>> \in Text
  BY PlainUnits DEF Text
<1>2. PICK u : u = <<x>> \o <<NL>>
  OBVIOUS
<1>3. u \in Text /\ Len(u) = 2 /\ u[1] = x /\ u[2] = NL
  BY <1>1, <1>2 DEF Text
<1>4. u = <<x, NL>>
  BY <1>1, <1>3, SeqEqual DEF Text
<1> QED BY <1>1, <1>2, <1>4

\* The lines LIST sends for the subjects s.
ListOf(s) == FlattenSeq([i \in 1..Len(s) |-> s[i] \o <<NL>>])

LEMMA SubjectsText ==
  ASSUME NEW s, Len(s) \in Nat, \A i \in 1..Len(s) : \E x \in Word : s[i] = <<x>>
  PROVE  /\ ListOf(s) \in Text /\ Len(ListOf(s)) = 2 * Len(s)
         /\ \A i \in 1..Len(s) : /\ s[i] = <<ListOf(s)[2 * i - 1]>>
                                 /\ ListOf(s)[2 * i - 1] \in Word /\ ListOf(s)[2 * i] = NL
<1>1. PICK n \in Nat : n = Len(s)
  OBVIOUS
<1>2. PICK w : w = [i \in 1..n |-> CHOOSE x \in Word : s[i] = <<x>>]
  OBVIOUS
<1>3. w \in [1..n -> Word] /\ \A i \in 1..n : s[i] = <<w[i]>> /\ w[i] \in Word
  BY <1>1, <1>2
<1>4. PICK r : r = [i \in 1..n |-> s[i] \o <<NL>>]
  OBVIOUS
<1>5. ASSUME NEW i \in 1..n PROVE r[i] = <<w[i], NL>> /\ r[i] \in Text
  <2>1. r[i] = <<w[i]>> \o <<NL>>
    BY <1>3, <1>4
  <2> QED BY <1>3, <2>1, SubjectLine
<1>6. r \in Seq(Text) /\ Len(r) = n
  <2>1. r \in [1..n -> Text]
    BY <1>4, <1>5
  <2> QED BY <2>1
<1>7. PICK t \in Text : /\ t = FlattenSeq(r) /\ Len(t) = 2 * n
                        /\ \A i \in 1..n : t[2 * i - 1] = w[i] /\ t[2 * i] = NL
  BY <1>3, <1>5, <1>6, ListText
<1>8. ListOf(s) = t
  BY <1>1, <1>4, <1>7 DEF ListOf
<1> QED BY <1>1, <1>3, <1>7, <1>8

\* What LIST shows to the session.
Shown == IF user THEN Subjects(box) ELSE <<>>

LEMMA ShownSubjects ==
  ASSUME Before
  PROVE  Len(Shown) \in Numbers /\ Len(Shown) \in Nat
         /\ \A i \in 1..Len(Shown) : \E x \in Word : Shown[i] = <<x>>
<1>1. Numbers \subseteq Nat /\ 0 \in Numbers
  BY ProtocolAssumption, EmptySeq DEF Numbers
<1>2. CASE user
  <2>1. Shown = Subjects(box)
    BY <1>2 DEF Shown
  <2>2. Len(Shown) = Len(box) /\ \A i \in 1..Len(box) : Shown[i] = box[i].subject
    BY <2>1 DEF Before, Stored, Subjects
  <2>3. ASSUME NEW i \in 1..Len(box) PROVE \E x \in Word : Shown[i] = <<x>>
    <3>1. box[i] \in Mails
      BY DEF Before, Stored
    <3>2. PICK l \in Letter : box[i] = Sent(l)
      BY <3>1 DEF Mails
    <3>3. box[i].subject = <<l.subject>>
      BY <3>2 DEF Sent
    <3> QED BY <2>2, <3>3, LetterParts
  <2> QED BY <1>1, <2>2, <2>3 DEF Before, Stored
<1>3. CASE ~ user
  <2>1. Shown = <<>> /\ Len(Shown) = 0
    BY <1>3 DEF Shown
  <2> QED BY <1>1, <2>1
<1> QED BY <1>2, <1>3

LEMMA CountText == \A n \in Numbers : <<NumberText(n), NL>> \in Text
<1> SUFFICES ASSUME NEW n \in Numbers PROVE <<NumberText(n), NL>> \in Text
  OBVIOUS
<1>1. NumberText(n) \in Plain
  BY NumberTexts, PlainUnits
<1> QED BY <1>1, PlainUnits DEF Text

LEMMA ListCountPhase == ASSUME Before, ListCount PROVE Streams' /\ Phase'
<1>1. PICK subjects : subjects = Shown
  OBVIOUS
<1>2. PICK list : list = ListOf(subjects)
  OBVIOUS
<1>3. PICK count : count = <<NumberText(Len(subjects)), NL>>
  OBVIOUS
<1>4. /\ spc = "execute" /\ Line(message, 1) = <<"LIST">> /\ toClient' = toClient \o count
      /\ did' = Append(did, [text |-> message, answer |-> count \o list, ok |-> TRUE])
      /\ IF list = <<>> THEN EndTurn ELSE spc' = "rest" /\ rest' = list /\ UNCHANGED message
      /\ UNCHANGED <<toServer, cpc, asked, response>>
  BY <1>1, <1>2, <1>3 DEF ListCount, client, Shown, ListOf
<1>5. Len(subjects) \in Numbers /\ list \in Text /\ count \in Text
  <2>1. Len(Shown) \in Numbers /\ ListOf(Shown) \in Text
    BY ShownSubjects, SubjectsText
  <2> QED BY <1>1, <1>2, <1>3, <2>1, CountText
<1>6. /\ Underway /\ Spare /\ message = TextOf(asked) /\ asked.op = "LIST" /\ cpc = "wait"
  BY <1>4, Executing
<1>7. toClient = <<>> /\ response = <<>> /\ did = <<>>
  BY <1>6 DEF Underway
<1>8. /\ message' \in Text /\ rest' = list
      /\ spc' \in {"closed", "rest"} \/ (spc' = "recv" /\ message' = <<>> /\ rest' = <<>>)
  BY <1>4, EndTurnTyped DEF Before, Streams
<1>9. toClient' = count /\ Whole' = count \o list
  <2>1. toClient' = count
    BY <1>4, <1>5, <1>7, ConcatEmptySeq DEF Text
  <2>2. count \o list \in Text
    BY <1>5, JoinedText
  <2>3. <<>> \o (count \o list) = count \o list
    BY <2>2, ConcatEmptySeq DEF Text
  <2> QED BY <1>4, <1>7, <1>8, <2>1, <2>3 DEF Whole
<1>10. Streams'
  BY <1>4, <1>5, <1>8, <1>9 DEF Before, Streams
<1>11. Succeeds("LIST", count \o list) = TRUE
  <2>1. count \o list # <<>> /\ Head(count \o list) = NumberText(Len(subjects))
    <3>1. PICK t : t = count \o list
      OBVIOUS
    <3>2. /\ t \in Text /\ Len(t) = Len(count) + Len(list)
          /\ \A i \in 1..Len(count) : t[i] = count[i]
      BY <1>5, <3>1, JoinedText
    <3>3. Len(count) = 2 /\ 1 \in 1..Len(count) /\ count[1] = NumberText(Len(subjects))
      BY <1>3
    <3>4. Len(list) \in Nat
      BY <1>5 DEF Text
    <3>5. t[1] = NumberText(Len(subjects)) /\ t # <<>>
      BY <3>2, <3>3, <3>4, EmptySeq
    <3>6. Head(t) = t[1]
      BY <3>2, <3>5 DEF Text
    <3> QED BY <3>1, <3>5, <3>6
  <2> QED BY <1>5, <2>1 DEF Succeeds, IsNumber
<1>12. did' = <<[text |-> TextOf(asked'), answer |-> Whole', ok |-> Succeeds(asked'.op, Whole')]>>
  <2>1. PICK d : d = [text |-> message, answer |-> count \o list, ok |-> TRUE]
    OBVIOUS
  <2>2. did' = <<d>>
    BY <1>4, <1>7, <2>1
  <2>3. d = [text |-> TextOf(asked'), answer |-> Whole', ok |-> Succeeds(asked'.op, Whole')]
    <3>1. asked' = asked /\ message = TextOf(asked') /\ Succeeds(asked'.op, Whole') = TRUE
      BY <1>4, <1>6, <1>9, <1>11
    <3> QED BY <1>9, <2>1, <3>1
  <2> QED BY <2>2, <2>3
<1>13. Done'
  BY <1>4, <1>6, <1>8, <1>12 DEF Done, Spare
<1>14. Phase'
  BY <1>4, <1>6, <1>7, <1>13 DEF Phase
<1> QED BY <1>10, <1>14

LEMMA ListRestPhase == ASSUME Before, ListRest PROVE Streams' /\ Phase'
<1>1. /\ spc = "rest" /\ toClient' = toClient \o rest /\ EndTurn
      /\ UNCHANGED <<toServer, cpc, asked, response, did>>
  BY DEF ListRest, client, history
<1>2. rest # <<>> /\ ~ Idle /\ ~ Underway
  BY <1>1 DEF Before, TypeOK, Idle, Underway, Arriving
<1>3. cpc = "wait" /\ Done /\ asked.op # "QUIT"
  <2>1. cpc \in {"menu", "wait", "got", "end", "crash"}
    BY DEF Before, TypeOK
  <2> QED BY <1>2, <2>1 DEF Before, Phase
<1>4. /\ message' \in Text /\ rest' = <<>> /\ rest' \in Text
      /\ (spc' = "closed" \/ (spc' = "recv" /\ message' = <<>> /\ rest' = <<>>))
  BY <1>1, EndTurnTyped
<1>5. toClient \in Text /\ rest \in Text /\ response \in Text
  BY DEF Before, Streams
<1>6. toClient' \in Text /\ toClient' # <<>> /\ toClient' \o rest' = toClient \o rest
  <2>1. /\ toClient' \in Text /\ Len(toClient') = Len(toClient) + Len(rest)
    BY <1>1, <1>5, JoinedText
  <2>2. Len(rest) # 0 /\ Len(rest) \in Nat /\ Len(toClient) \in Nat
    BY <1>2, <1>5, EmptySeq DEF Text
  <2>3. toClient' # <<>>
    BY <2>1, <2>2, EmptySeq
  <2>4. toClient' \o <<>> = toClient'
    BY <2>1, ConcatEmptySeq DEF Text
  <2> QED BY <1>1, <1>4, <2>1, <2>3, <2>4
<1>7. Streams'
  BY <1>1, <1>4, <1>6 DEF Before, Streams
<1>8. Whole' = Whole
  BY <1>1, <1>6 DEF Whole
<1>9. Done'
  BY <1>1, <1>3, <1>4, <1>8 DEF Done, Spare
<1>10. Phase'
  BY <1>1, <1>3, <1>6, <1>9 DEF Phase
<1> QED BY <1>7, <1>10

LEMMA IgnorePhase == ASSUME Before, Ignore PROVE Streams' /\ Phase'
<1>1. /\ spc = "execute" /\ EndTurn
      /\ Line(message, 1) \notin {<<op>> : op \in {"LOGIN", "SEND", "READ", "DEL", "LIST"}}
      /\ UNCHANGED <<toServer, toClient, cpc, asked, response, did>>
  BY DEF Ignore, client, history
<1>2. cpc = "end" /\ Spare
  <2>1. /\ Spare /\ Line(message, 1) = <<asked.op>> /\ asked \in Request
        /\ \/ cpc = "wait" /\ asked.op # "QUIT"
           \/ cpc = "end"
    BY <1>1, Executing
  <2>2. asked.op = "QUIT"
    <3>1. asked.op \in {"LOGIN", "SEND", "READ", "DEL", "LIST", "QUIT"}
      BY <2>1, RequestParts
    <3> QED BY <1>1, <2>1, <3>1
  <2> QED BY <2>1, <2>2
<1>3. /\ message' \in Text /\ rest' = <<>> /\ rest' \in Text
      /\ (spc' = "closed" \/ (spc' = "recv" /\ message' = <<>> /\ rest' = <<>>))
  BY <1>1, EndTurnTyped
<1>4. Streams'
  BY <1>1, <1>3 DEF Before, Streams
<1>5. Idle'
  BY <1>1, <1>2, <1>3 DEF Idle, Spare
<1>6. Phase'
  BY <1>1, <1>2, <1>5 DEF Phase
<1> QED BY <1>4, <1>6

LEMMA ReceivePhase == ASSUME Before, Receive PROVE Streams' /\ Phase'
<1>1. /\ spc = "recv" /\ toServer # <<>>
      /\ UNCHANGED <<toClient, cpc, asked, response, rest, did>>
      /\ spc' = IF EndsWithNL(message') THEN "execute" ELSE "recv"
  BY DEF Receive, client
<1>2. PICK n \in Portion(Len(toServer)) :
        /\ buffer' \in CStrings(SubSeq(toServer, 1, n))
        /\ message' = message \o buffer'
        /\ toServer' = SubSeq(toServer, n + 1, Len(toServer))
        /\ Mishaps(n) = {}
  BY DEF Receive, Before
<1>3. PICK b \in CStrings(SubSeq(toServer, 1, n)) : b = buffer'
  BY <1>2
<1>4. PICK s : s = SubSeq(toServer, n + 1, Len(toServer))
  OBVIOUS
<1>5. message' = message \o b /\ toServer' = s
  BY <1>2, <1>3, <1>4
<1>6. /\ message \in Text /\ toServer \in Seq(Unit) /\ asked \in Request \cup {NoRequest}
      /\ toClient \in Text /\ response \in Text /\ rest \in Text /\ cell \in {Nul, Junk}
  BY DEF Before, Streams, TypeOK
<1>7. ASSUME NEW w \in Seq(Unit), toServer = <<Nul>> \o w, message = <<>>
      PROVE  message' = <<>> /\ toServer' = w /\ spc' = "recv"
  <2>1. b = <<>> /\ s = w
    BY <1>2, <1>4, <1>6, <1>7, ReceiveNul
  <2>2. message' = <<>>
    BY <1>5, <1>7, <2>1, TextUnits, ConcatEmptySeq
  <2> QED BY <1>1, <1>5, <2>1, <2>2 DEF EndsWithNL
<1>8. ASSUME Idle \/ Done
      PROVE  message' = <<>> /\ toServer' = <<>> /\ spc' = "recv" /\ Spare' /\ rest' = rest
  <2>1. message = <<>> /\ toServer = <<Nul>>
    BY <1>1, <1>8 DEF Idle, Done, Spare
  <2>2. <<Nul>> \o <<>> = <<Nul>>
    BY TextUnits, ConcatEmptySeq
  <2>3. message' = <<>> /\ toServer' = <<>> /\ spc' = "recv"
    BY <1>7, <2>1, <2>2, TextUnits
  <2> QED BY <1>1, <2>3 DEF Spare
<1>9. ASSUME Underway
      PROVE  Underway' /\ message' \in Text /\ toServer' \in Seq(Unit)
  <2>1. asked \in Request /\ Arriving
    BY <1>1, <1>9 DEF Underway
  <2>2. PICK t : t = TextOf(asked)
    OBVIOUS
  <2>3. t \in Text /\ Len(t) \in Nat \ {0} /\ t[Len(t)] = NL /\ EndsWithNL(t)
    BY <2>1, <2>2, RequestText
  <2>4. t \o <<Nul>> \in Seq(Unit)
    BY <2>3, TextUnits, JoinedUnits
  <2>5. /\ message' \in Text /\ toServer' \in Seq(Unit)
        /\ \/ spc' = "execute" /\ message' = t /\ Spare'
           \/ spc' = "recv" /\ message' \o toServer' = t \o <<Nul>>
    <3>1. CASE message \o toServer = t \o <<Nul>>
      <4>1. /\ message \o b \in Text /\ s \in Seq(Unit)
            /\ \/ message \o b = t /\ s \in {<<>>, <<Nul>>}
               \/ ~ EndsWithNL(message \o b) /\ (message \o b) \o s = t \o <<Nul>>
        <5>1. PartOf(t, n, b, s)
          BY <1>1, <1>2, <1>4, <1>6, <2>3, <3>1 DEF PartOf
        <5>2. Received(t, b, s)
          BY <5>1, ReceivePart
        <5> QED BY <5>2 DEF Received
      <4>2. CASE message \o b = t /\ s \in {<<>>, <<Nul>>}
        BY <1>1, <1>5, <2>3, <4>1, <4>2 DEF Spare
      <4>3. CASE ~ EndsWithNL(message \o b) /\ (message \o b) \o s = t \o <<Nul>>
        <5>1. ~ EndsWithNL(message')
          BY <1>5, <4>3
        <5> QED BY <1>1, <1>5, <4>1, <4>3, <5>1
      <4> QED BY <4>1, <4>2, <4>3
    <3>2. CASE message = <<>> /\ toServer = <<Nul>> \o (t \o <<Nul>>)
      <4>1. message' = <<>> /\ toServer' = t \o <<Nul>> /\ spc' = "recv"
        BY <1>7, <2>4, <3>2
      <4>2. <<>> \o (t \o <<Nul>>) = t \o <<Nul>>
        BY <2>4, ConcatEmptySeq
      <4> QED BY <2>4, <4>1, <4>2, TextUnits
    <3> QED BY <2>1, <2>2, <3>1, <3>2 DEF Arriving
  <2>6. Underway'
    BY <1>1, <1>9, <2>2, <2>5 DEF Underway, Arriving
  <2> QED BY <2>5, <2>6
<1>10. Idle => Idle'
  BY <1>8 DEF Idle
<1>11. Done => Done'
  <2>1. Whole' = Whole
    BY <1>1 DEF Whole
  <2> QED BY <1>1, <1>8, <2>1 DEF Done
<1>12. Idle \/ Underway \/ Done
  BY DEF Before, TypeOK, Phase
<1>13. Streams'
  BY <1>1, <1>6, <1>8, <1>9, <1>12, TextUnits DEF Streams
<1>14. Phase'
  BY <1>1, <1>9, <1>10, <1>11 DEF Before, Phase
<1> QED BY <1>13, <1>14

LEMMA ReceiveEndPhase == ASSUME Before, ReceiveEnd PROVE Streams' /\ Phase'
<1>1. /\ toServer = <<>> /\ cpc \in {"end", "crash"} /\ spc' = "closed"
      /\ UNCHANGED <<toServer, toClient, cpc, asked, response, message, rest, did>>
  BY DEF ReceiveEnd, client, history
<1>2. Streams'
  BY <1>1 DEF Before, Streams
<1>3. Idle'
  BY <1>1 DEF Idle, Spare
<1>4. Phase'
  BY <1>1, <1>3 DEF Before, Phase
<1> QED BY <1>2, <1>4

LEMMA Divided ==
  \A t \in Text : \A n \in 1..Len(t) :
    /\ SubSeq(t, 1, n) \in Text /\ SubSeq(t, n + 1, Len(t)) \in Text
    /\ SubSeq(t, 1, n) \o SubSeq(t, n + 1, Len(t)) = t
    /\ n = Len(t) <=> SubSeq(t, n + 1, Len(t)) = <<>>
<1> SUFFICES ASSUME NEW t \in Text, NEW n \in 1..Len(t)
             PROVE  /\ SubSeq(t, 1, n) \in Text /\ SubSeq(t, n + 1, Len(t)) \in Text
                    /\ SubSeq(t, 1, n) \o SubSeq(t, n + 1, Len(t)) = t
                    /\ n = Len(t) <=> SubSeq(t, n + 1, Len(t)) = <<>>
  OBVIOUS
<1>1. Len(t) \in Nat /\ t \in Seq(Plain)
  BY DEF Text
<1>2. PICK y : y = SubSeq(t, n + 1, Len(t))
  OBVIOUS
<1>3. SubSeq(t, 1, n) \in Text /\ y \in Text /\ Len(y) = Len(t) - n
  BY <1>1, <1>2 DEF Text
<1>4. n = Len(t) <=> y = <<>>
  BY <1>1, <1>3, EmptySeq DEF Text
<1>5. SubSeq(t, 1, n) \o SubSeq(t, n + 1, Len(t)) = SubSeq(t, 1, Len(t))
  <2>1. 1 \in 1..(Len(t) + 1) /\ n \in (1 - 1)..Len(t) /\ Len(t) \in n..Len(t)
    BY <1>1
  <2> QED BY <1>1, <2>1, ConcatAdjacentSubSeq
<1>6. SubSeq(t, 1, Len(t)) = t
  BY <1>1, SubSeqFull
<1> QED BY <1>2, <1>3, <1>4, <1>5, <1>6

LEMMA RegroupedText == \A a, b, c \in Text : (a \o b) \o c = a \o (b \o c)
BY ConcatAssociative DEF Text

LEMMA ReadPhase == ASSUME Before, Read PROVE Streams' /\ Phase'
<1>1. /\ cpc = "wait" /\ toClient # <<>>
      /\ UNCHANGED <<toServer, asked, spc, message, rest, did>>
  BY DEF Read, server
<1>2. PICK n \in Portion(Len(toClient)) :
        /\ response' = response \o SubSeq(toClient, 1, n)
        /\ toClient' = SubSeq(toClient, n + 1, Len(toClient))
        /\ cpc' = IF n < Buffer THEN "got" ELSE "wait"
        /\ trouble' = trouble
             \cup {x \in {"part"} : n < Buffer /\ (n < Len(toClient) \/ rest # <<>>)}
             \cup {x \in {"full"} : n = Buffer /\ n = Len(toClient)}
  BY DEF Read
<1>3. toClient \in Text /\ response \in Text /\ rest \in Text
  BY DEF Before, Streams
<1>4. Len(toClient) \in Nat \ {0}
  BY <1>1, <1>3, EmptySeq DEF Text
<1>5. n \in 1..Len(toClient) /\ n <= Buffer /\ Buffer \in Nat
  BY <1>2, <1>4, PortionType, ProtocolAssumption
<1>6. /\ ~ (n < Buffer /\ (n < Len(toClient) \/ rest # <<>>))
      /\ ~ (n = Buffer /\ n = Len(toClient))
  <2>1. /\ {x \in {"part"} : n < Buffer /\ (n < Len(toClient) \/ rest # <<>>)} = {}
        /\ {x \in {"full"} : n = Buffer /\ n = Len(toClient)} = {}
    BY <1>2 DEF Before
  <2> QED BY <2>1
<1>7. PICK x \in Text : x = SubSeq(toClient, 1, n)
  BY <1>3, <1>5, Divided
<1>8. PICK y \in Text : y = SubSeq(toClient, n + 1, Len(toClient))
  BY <1>3, <1>5, Divided
<1>9. x \o y = toClient /\ (n = Len(toClient) <=> y = <<>>)
  BY <1>3, <1>5, <1>7, <1>8, Divided
<1>10. response' = response \o x /\ toClient' = y /\ response' \in Text
  <2>1. response \o x \in Text
    BY <1>3, JoinedText
  <2> QED BY <1>2, <1>7, <1>8, <2>1
<1>11. Whole' = Whole
  <2>1. (response \o x) \o (y \o rest) = response \o (x \o (y \o rest))
    <3>1. response \in Text /\ x \in Text /\ y \o rest \in Text
      BY <1>3, JoinedText
    <3> QED BY <3>1, RegroupedText, ZenonT(30)
  <2>2. x \o (y \o rest) = toClient \o rest
    BY <1>3, <1>9, RegroupedText, ZenonT(30)
  <2> QED BY <1>1, <1>10, <2>1, <2>2 DEF Whole
<1>12. Done /\ asked.op # "QUIT"
  <2>1. ~ Underway
    BY <1>1 DEF Underway
  <2> QED BY <1>1, <2>1 DEF Before, Phase
<1>13. Done'
  BY <1>1, <1>11, <1>12 DEF Done, Spare
<1>14. Streams'
  BY <1>1, <1>3, <1>10 DEF Before, Streams
<1>15. CASE n < Buffer
  <2>1. rest = <<>> /\ toClient' = <<>> /\ cpc' = "got"
    BY <1>2, <1>5, <1>6, <1>9, <1>10, <1>15
  <2> QED BY <1>1, <1>13, <1>14, <2>1 DEF Phase
<1>16. CASE ~ (n < Buffer)
  <2>1. n = Buffer /\ toClient' # <<>> /\ cpc' = "wait"
    <3>1. n = Buffer
      BY <1>4, <1>5, <1>16
    <3>2. y # <<>>
      BY <1>6, <1>9, <3>1
    <3> QED BY <1>2, <1>10, <1>16, <3>1, <3>2
  <2> QED BY <1>1, <1>12, <1>13, <1>14, <2>1 DEF Phase
<1> QED BY <1>15, <1>16

LEMMA ReadEndPhase == ASSUME Before, ReadEnd PROVE Streams' /\ Phase'
<1>1. /\ cpc = "wait" /\ toClient = <<>> /\ spc = "closed"
      /\ cpc' = IF response = <<>> THEN "end" ELSE "got"
      /\ UNCHANGED <<toServer, toClient, asked, response, spc, message, rest, did>>
  BY DEF ReadEnd, server, history
<1>2. response = <<>> /\ Spare
  BY <1>1 DEF Before, Phase, Underway, Arriving, Done
<1>3. Streams'
  BY <1>1 DEF Before, Streams
<1>4. Idle' /\ cpc' = "end"
  BY <1>1, <1>2 DEF Idle, Spare
<1> QED BY <1>3, <1>4 DEF Phase

LEMMA ReadFailsPhase == ASSUME Before, ReadFails PROVE Streams' /\ Phase'
<1>1. /\ cpc = "wait" /\ spc = "closed" /\ cpc' = "end"
      /\ toClient' = <<>> /\ response' = <<>>
      /\ UNCHANGED <<toServer, asked, spc, message, rest, did>>
  BY DEF ReadFails, server, history
<1>2. Spare
  BY <1>1 DEF Before, Phase, Underway, Arriving, Done
<1>3. Streams'
  BY <1>1 DEF Before, Streams, Text
<1>4. Idle' /\ cpc' = "end"
  BY <1>1, <1>2 DEF Idle, Spare
<1> QED BY <1>3, <1>4 DEF Phase

\* An answer the client has got is complete.
LEMMA Complete ==
  ASSUME Before, cpc = "got"
  PROVE  /\ Done /\ toClient = <<>> /\ rest = <<>> /\ Whole = response
         /\ Success = Succeeds(asked.op, response) /\ Idle
<1>1. Done /\ toClient = <<>> /\ rest = <<>> /\ response \in Text
  BY DEF Before, Phase, Streams
<1>2. Whole = response
  <2>1. response \o (<<>> \o <<>>) = response
    BY <1>1, ConcatEmptySeq DEF Text
  <2> QED BY <1>1, <2>1 DEF Whole
<1>3. Success = Succeeds(asked.op, response)
  BY DEF Success, Succeeds
<1>4. Idle
  BY <1>1 DEF Done, Idle, Before, TypeOK
<1> QED BY <1>1, <1>2, <1>3, <1>4

LEMMA ShowPhase ==
  ASSUME Before, NEW op, Show(op, "menu")
  PROVE  Streams' /\ Phase'
<1>1. /\ cpc = "got" /\ cpc' = "menu" /\ asked' = NoRequest /\ response' = <<>> /\ did' = <<>>
      /\ UNCHANGED <<toServer, toClient, spc, message, rest>>
  BY DEF Show, server
<1>2. Idle /\ toClient = <<>>
  BY <1>1, Complete
<1>3. Streams'
  BY <1>1, TextUnits DEF Before, Streams
<1>4. Idle' /\ toClient' = <<>>
  BY <1>1, <1>2 DEF Idle, Spare
<1> QED BY <1>1, <1>3, <1>4 DEF Phase

LEMMA ShowReadPhase == ASSUME Before, ShowRead PROVE Streams' /\ Phase'
<1>1. cpc = "got" /\ asked.op = "READ"
  BY DEF ShowRead, Show
<1>2. Success => Len(Lines(response)) >= 4
  BY <1>1, Complete DEF Done
<1>3. ~ (Success /\ Len(Lines(response)) < 4)
  <2>1. Len(Lines(response)) >= 4 => ~ (Len(Lines(response)) < 4)
    <3>1. PICK k : k = Cardinality({i \in 1..Len(response) : response[i] = NL \/ i = Len(response)})
      OBVIOUS
    <3>2. k \in Nat
      <4>1. Len(response) \in Nat
        BY DEF Before, Streams, Text
      <4>2. IsFiniteSet(1..Len(response))
        BY <4>1, FS_Interval
      <4>3. {i \in 1..Len(response) : response[i] = NL \/ i = Len(response)} \in SUBSET (1..Len(response))
        OBVIOUS
      <4>4. IsFiniteSet({i \in 1..Len(response) : response[i] = NL \/ i = Len(response)})
        BY <4>2, <4>3, FS_Subset
      <4> QED BY <3>1, <4>4, FS_CardinalityType
    <3>3. Lines(response) = [j \in 1..k |-> Line(response, j)]
      BY <3>1 DEF Lines
    <3>4. Len(Lines(response)) = k
      BY <3>2, <3>3
    <3> QED BY <3>2, <3>4
  <2> QED BY <1>2, <2>1
<1>4. Show("READ", "menu")
  <2>1. (IF Success /\ Len(Lines(response)) < 4 THEN "crash" ELSE "menu") = "menu"
    BY <1>3
  <2> QED BY <2>1 DEF ShowRead
<1> QED BY <1>4, ShowPhase

\* The request q is sent.
LEMMA WritePhase ==
  ASSUME Before, NEW q \in Request, cpc = "menu", Write(q),
         (cpc' = "wait" /\ q.op # "QUIT") \/ (cpc' = "end" /\ q.op = "QUIT")
  PROVE  Streams' /\ Phase'
<1>1. /\ asked' = q
      /\ toServer' = IF spc = "closed" THEN toServer ELSE toServer \o TextOf(q) \o <<Nul>>
      /\ UNCHANGED <<toClient, response, spc, message, rest, did>>
  BY DEF Write, server
<1>2. /\ Idle /\ did = <<>> /\ toClient = <<>> /\ response = <<>> /\ toServer \in Seq(Unit)
  BY DEF Before, Phase, TypeOK, Streams
<1>3. PICK t : t = TextOf(q)
  OBVIOUS
<1>4. t \in Seq(Unit) /\ <<Nul>> \in Seq(Unit) /\ t \o <<Nul>> \in Seq(Unit)
  <2>1. t \in Text
    BY <1>3, RequestText
  <2> QED BY <2>1, TextUnits, JoinedUnits
<1>5. toServer' \in Seq(Unit)
  <2>1. toServer \o t \in Seq(Unit)
    BY <1>2, <1>4, JoinedUnits
  <2>2. toServer \o t \o <<Nul>> \in Seq(Unit)
    BY <1>4, <2>1, JoinedUnits
  <2> QED BY <1>1, <1>2, <1>3, <2>2
<1>6. Streams'
  BY <1>1, <1>5 DEF Before, Streams
<1>7. Underway'
  <2>1. CASE spc = "closed"
    BY <1>1, <1>2, <2>1 DEF Underway, Idle, Spare
  <2>2. CASE spc # "closed"
    <3>1. spc = "recv" /\ message = <<>> /\ toServer \in {<<>>, <<Nul>>}
      BY <1>2, <2>2 DEF Idle, Spare
    <3>2. toServer' = toServer \o (t \o <<Nul>>)
      <4>1. (toServer \o t) \o <<Nul>> = toServer \o (t \o <<Nul>>)
        BY <1>2, <1>4, Regrouped
      <4> QED BY <1>1, <1>3, <2>2, <4>1
    <3>3. <<>> \o (t \o <<Nul>>) = t \o <<Nul>>
      BY <1>4, ConcatEmptySeq
    <3>4. Arriving'
      <4>1. CASE toServer = <<>>
        BY <1>1, <1>3, <3>1, <3>2, <3>3, <4>1 DEF Arriving
      <4>2. CASE toServer = <<Nul>>
        BY <1>1, <1>3, <3>1, <3>2, <4>2 DEF Arriving
      <4> QED BY <3>1, <4>1, <4>2
    <3> QED BY <1>1, <1>2, <3>4 DEF Underway
  <2> QED BY <2>1, <2>2
<1>8. Phase'
  BY <1>1, <1>7 DEF Phase
<1> QED BY <1>6, <1>8

LEMMA TypeAsks ==
  ASSUME Type
  PROVE  \E q \in Request : /\ cpc = "menu" /\ Write(q)
                            /\ \/ cpc' = "wait" /\ q.op # "QUIT"
                               \/ cpc' = "end" /\ q.op = "QUIT"
<1> DEFINE Asks(q) == /\ cpc = "menu" /\ Write(q)
                      /\ \/ cpc' = "wait" /\ q.op # "QUIT"
                         \/ cpc' = "end" /\ q.op = "QUIT"
<1>1. ASSUME NEW p \in Password, AskLogin(p) PROVE \E q \in Request : Asks(q)
  <2>1. PICK q : q = [op |-> "LOGIN", arg |-> <<p>>]
    OBVIOUS
  <2>2. q \in Request /\ q.op # "QUIT"
    BY <2>1 DEF Request, Logins
  <2> QED BY <1>1, <2>1, <2>2 DEF AskLogin, Ask
<1>2. ASSUME NEW l \in Letter, AskSend(l) PROVE \E q \in Request : Asks(q)
  <2>1. PICK q : q = [op |-> "SEND", arg |-> <<l.subject, NL>> \o l.body]
    OBVIOUS
  <2>2. q \in Request /\ q.op # "QUIT"
    BY <2>1 DEF Request, Sends
  <2> QED BY <1>2, <2>1, <2>2 DEF AskSend, Ask
<1>3. ASSUME NEW op \in {"READ", "DEL"}, NEW i \in Index, AskAbout(op, i)
      PROVE  \E q \in Request : Asks(q)
  <2>1. PICK q : q = [op |-> op, arg |-> <<NumberText(i)>>]
    OBVIOUS
  <2>2. q \in Request /\ q.op # "QUIT"
    BY <2>1 DEF Request, Abouts
  <2> QED BY <1>3, <2>1, <2>2 DEF AskAbout, Ask
<1>4. CASE AskList
  <2>1. PICK q : q = [op |-> "LIST", arg |-> <<>>]
    OBVIOUS
  <2>2. q \in Request /\ q.op # "QUIT"
    BY <2>1 DEF Request, Others
  <2> QED BY <1>4, <2>1, <2>2 DEF AskList, Ask
<1>5. CASE Quit
  <2>1. PICK q : q = [op |-> "QUIT", arg |-> <<>>]
    OBVIOUS
  <2>2. q \in Request /\ q.op = "QUIT"
    BY <2>1 DEF Request, Others
  <2> QED BY <1>5, <2>1, <2>2 DEF Quit
<1> QED BY <1>1, <1>2, <1>3, <1>4, <1>5 DEF Type

LEMMA TypePhase == ASSUME Before, Type PROVE Streams' /\ Phase' /\ Stored'
<1>1. PICK q \in Request : /\ cpc = "menu" /\ Write(q)
                           /\ \/ cpc' = "wait" /\ q.op # "QUIT"
                              \/ cpc' = "end" /\ q.op = "QUIT"
  BY TypeAsks
<1>2. box' = box
  BY <1>1 DEF Write
<1> QED BY <1>1, <1>2, WritePhase DEF Before, Stored

\* What went wrong is never forgotten.
LEMMA TroubleStays == ASSUME [Next]_vars, trouble' = {} PROVE trouble = {}
<1> USE DEF client, server, history
<1>1. CASE Type
  BY <1>1 DEF Type, AskLogin, AskSend, AskAbout, AskList, Quit, Ask, Write
<1>2. CASE ClientStep
  BY <1>2 DEF ClientStep, Read, ReadEnd, ReadFails, ShowLogin, ShowSendOrDelete, ShowRead,
         ShowList, Show
<1>3. CASE ServerStep
  BY <1>3 DEF ServerStep, OwnStep, Receive, ReceiveEnd, Login, Send, ReadMail, Delete,
              ListCount, ListRest, Ignore, StoiThrows, Close, Answer
<1>4. CASE Stop \/ (\E l \in Letter : OtherSends(l)) \/ (\E i \in Index : OtherDeletes(i))
           \/ UNCHANGED vars
  BY <1>4 DEF Stop, Close, OtherSends, OtherDeletes, vars
<1> QED BY <1>1, <1>2, <1>3, <1>4 DEF Next

LEMMA MailIsFromLetter == \A l \in Letter : Sent(l) \in Mails
BY DEF Mails

LEMMA NextOrderly == ASSUME Orderly, [Next]_vars PROVE Orderly'
<1>1. TypeOK'
  BY NextType DEF Orderly
<1> SUFFICES ASSUME trouble' = {} PROVE Streams' /\ Stored' /\ Phase'
  BY <1>1 DEF Orderly
<1> USE DEF client, server, history
<1>2. trouble = {}
  BY TroubleStays
<1>3. Before
  BY <1>2 DEF Before, Orderly
<1>4. CASE Type
  BY <1>3, <1>4, TypePhase
<1>5. CASE ClientStep
  <2>1. box' = box
    BY <1>5 DEF ClientStep, Read, ReadEnd, ReadFails, ShowLogin, ShowSendOrDelete, ShowRead,
         ShowList, Show
  <2>2. Stored'
    BY <1>3, <2>1 DEF Before, Stored
  <2>3. ASSUME NEW op, Show(op, "menu") PROVE Streams' /\ Phase'
    BY <1>3, <2>3, ShowPhase
  <2>4. Streams' /\ Phase'
    BY <1>3, <1>5, <2>3, ReadPhase, ReadEndPhase, ReadFailsPhase, ShowReadPhase
       DEF ClientStep, ShowLogin, ShowSendOrDelete, ShowList
  <2> QED BY <2>2, <2>4
<1>6. CASE ServerStep
  <2>1. CASE Login \/ Send \/ ReadMail \/ Delete
    BY <1>3, <2>1, LoginPhase, SendPhase, ReadMailPhase, DeletePhase
  <2>2. CASE Receive \/ ReceiveEnd \/ ListCount \/ ListRest \/ Ignore \/ StoiThrows
    <3>1. box' = box
      BY <2>2 DEF Receive, ReceiveEnd, ListCount, ListRest, Ignore, StoiThrows, Close
    <3>2. Stored'
      BY <1>3, <3>1 DEF Before, Stored
    <3>3. Streams' /\ Phase'
      BY <1>3, <2>2, ReceivePhase, ReceiveEndPhase, ListCountPhase, ListRestPhase, IgnorePhase,
         ClosePhase DEF StoiThrows
    <3> QED BY <3>2, <3>3
  <2> QED BY <1>6, <2>1, <2>2 DEF ServerStep, OwnStep
<1>7. CASE Stop
  <2>1. Close /\ box' = box
    BY <1>7 DEF Stop, Close
  <2> QED BY <1>3, <2>1, ClosePhase DEF Before, Stored
<1>8. ASSUME NEW l \in Letter, OtherSends(l) PROVE Streams' /\ Stored' /\ Phase'
  <2>1. Room /\ box' = Append(box, Sent(l)) /\ Sent(l) \in Mails
        /\ UNCHANGED <<toServer, toClient, cpc, asked, response, spc, message, rest, did>>
    BY <1>8, MailIsFromLetter DEF OtherSends
  <2> QED BY <1>3, <2>1, OneMailMore, Unmoved DEF Before
<1>9. ASSUME NEW i \in Index, OtherDeletes(i) PROVE Streams' /\ Stored' /\ Phase'
  <2>1. i < Len(box) /\ box' = RemoveAt(box, i + 1)
        /\ UNCHANGED <<toServer, toClient, cpc, asked, response, spc, message, rest, did>>
    BY <1>9 DEF OtherDeletes
  <2>2. i + 1 \in 1..Len(box)
    <3>1. i \in Nat /\ Len(box) \in Nat
      BY <1>3, ProtocolAssumption DEF Before, Stored
    <3> QED BY <2>1, <3>1
  <2> QED BY <1>3, <2>1, <2>2, OneMailLess, Unmoved DEF Before
<1>10. CASE UNCHANGED vars
  BY <1>3, <1>10, Unmoved DEF vars, Before, Stored
<1> QED BY <1>4, <1>5, <1>6, <1>7, <1>8, <1>9, <1>10 DEF Next

LEMMA InitOrderly == Init => Orderly
<1> SUFFICES ASSUME Init PROVE Orderly
  OBVIOUS
<1>1. Streams
  BY TextUnits DEF Init, Streams
<1>2. Stored
  <2>1. <<>> \in Seq(Mails) /\ Len(<<>>) = 0
    BY EmptySeq
  <2>2. 0 \in Numbers
    BY ProtocolAssumption, EmptySeq DEF Numbers
  <2> QED BY <2>1, <2>2 DEF Init, Stored
<1>3. Phase
  BY DEF Init, Phase, Idle, Spare
<1> QED BY <1>1, <1>2, <1>3, InitType DEF Orderly

LEMMA AlwaysOrderly == Spec => []Orderly
BY InitOrderly, NextOrderly, PTL DEF Spec

(***************************************************************************)
(* An answer the client shows is the whole answer to the request it made,  *)
(* which the server executed once, whatever was cut into several reads.    *)
(***************************************************************************)
THEOREM AnswersAreTrue == Spec => []Truthful
<1>1. Orderly => Truthful
  <2> SUFFICES ASSUME Orderly, cpc = "got", trouble = {}
               PROVE  /\ Len(did) = 1
                      /\ did[1].text = TextOf(asked)
                      /\ did[1].answer = response
                      /\ did[1].ok = Success
    BY DEF Truthful
  <2>1. Done /\ toClient = <<>> /\ rest = <<>> /\ response \in Text
    BY DEF Orderly, Phase, Streams
  <2>2. response \o (<<>> \o <<>>) = response
    BY <2>1, ConcatEmptySeq DEF Text
  <2>3. Whole = response
    BY <2>1, <2>2 DEF Whole
  <2>4. Success = Succeeds(asked.op, response)
    BY DEF Success, Succeeds
  <2> QED BY <2>1, <2>3, <2>4 DEF Done
<1> QED BY AlwaysOrderly, <1>1, PTL

(***************************************************************************)
(* Between two requests nothing of the last one is left but the NUL of one *)
(* that filled the buffer.                                                 *)
(***************************************************************************)
THEOREM NothingIsLeftOver == Spec => []InStep
<1>1. Orderly => InStep
  BY DEF Orderly, Phase, Idle, Spare, InStep
<1> QED BY AlwaysOrderly, <1>1, PTL

(***************************************************************************)
(* Mails of any length arrive in the mailbox as they were typed.           *)
(***************************************************************************)
THEOREM MailsArriveAsTyped == Spec => []StoredAsTyped
<1>1. Orderly => StoredAsTyped
  <2> SUFFICES ASSUME Orderly, trouble = {}, NEW i \in 1..Len(box)
               PROVE  \E l \in Letter : box[i] = Sent(l)
    BY DEF StoredAsTyped
  <2>1. box[i] \in Mails
    BY DEF Orderly, Stored
  <2> QED BY <2>1 DEF Mails
<1> QED BY AlwaysOrderly, <1>1, PTL

(***************************************************************************)
(* The client does not run into lines.at(3) of an answer that is too short *)
(* while reads bring whole answers.                                        *)
(***************************************************************************)
THEOREM ClientDoesNotCrash == Spec => []NoCrash
<1>1. Orderly => NoCrash
  BY DEF Orderly, Phase, NoCrash
<1> QED BY AlwaysOrderly, <1>1, PTL
-----------------------------------------------------------------------------
(* The numbers of the mails.                                               *)

\* splitStringByNewLine of lines of one word each.
LEMMA LinesOf ==
  ASSUME NEW t \in Text, NEW n \in Nat \ {0}, Len(t) = 2 * n,
         \A m \in 1..n : t[2 * m] = NL /\ t[2 * m - 1] # NL
  PROVE  /\ Lines(t) \in Seq(Text) /\ Len(Lines(t)) = n
         /\ \A k \in 1..n : Lines(t)[k] = <<t[2 * k - 1]>>
<1>1. t \in Seq(Plain)
  BY DEF Text
<1>2. Cardinality({i \in 1..Len(t) : t[i] = NL \/ i = Len(t)}) = n
  <2>1. 2 * n <= Len(t)
    OBVIOUS
  <2> QED BY <1>1, <2>1, Breaks
<1>3. Lines(t) = [k \in 1..n |-> Line(t, k)]
  BY <1>2 DEF Lines
<1>4. ASSUME NEW k \in 1..n PROVE Line(t, k) = <<t[2 * k - 1]>> /\ Line(t, k) \in Text
  <2>1. k \in Nat \ {0} /\ 2 * k <= Len(t) /\ 1..k \subseteq 1..n
    OBVIOUS
  <2>2. \A m \in 1..k : t[2 * m] = NL /\ t[2 * m - 1] # NL
    BY <2>1
  <2>3. Line(t, k) = <<t[2 * k - 1]>>
    BY <1>1, <2>1, <2>2, LineOf
  <2>4. t[2 * k - 1] \in Plain
    BY <1>1, <2>1
  <2> QED BY <2>3, <2>4 DEF Text
<1>5. Lines(t) \in [1..n -> Text]
  BY <1>3, <1>4
<1>6. Lines(t) \in Seq(Text) /\ Len(Lines(t)) = n
  BY <1>5
<1> QED BY <1>3, <1>4, <1>6

\* What the client makes of the answer to LIST.
LEMMA TableText ==
  ASSUME NEW s, Len(s) \in Numbers, \A i \in 1..Len(s) : \E x \in Word : s[i] = <<x>>,
         NEW a, a = <<NumberText(Len(s)), NL>> \o ListOf(s)
  PROVE  /\ Tail(Lines(a)) \in Seq(Text) /\ Len(Tail(Lines(a))) = Len(s)
         /\ \A i \in 1..Len(s) : Tail(Lines(a))[i] = s[i]
<1>1. PICK n \in Nat : n = Len(s) /\ n \in Numbers
  BY DEF Numbers
<1>2. PICK list : list = ListOf(s)
  OBVIOUS
<1>3. /\ list \in Text /\ Len(list) = 2 * n
      /\ \A i \in 1..n : /\ s[i] = <<list[2 * i - 1]>>
                         /\ list[2 * i - 1] \in Word /\ list[2 * i] = NL
  BY <1>1, <1>2, SubjectsText
<1>4. PICK c : c = <<NumberText(n), NL>>
  OBVIOUS
<1>5. c \in Text /\ Len(c) = 2 /\ c[1] # NL /\ c[2] = NL
  BY <1>1, <1>4, CountText, NumberTexts
<1>6. a = c \o list
  BY <1>1, <1>2, <1>4
<1>7. /\ a \in Text /\ Len(a) = 2 * (n + 1) /\ a[1] = c[1] /\ a[2] = c[2]
      /\ \A i \in 1..(2 * n) : a[2 + i] = list[i]
  <2>1. /\ a \in Text /\ Len(a) = Len(c) + Len(list)
        /\ \A i \in 1..Len(c) : a[i] = c[i]
        /\ \A i \in 1..Len(list) : a[Len(c) + i] = list[i]
    <3>1. c \in Text /\ list \in Text
      BY <1>3, <1>5
    <3>2. /\ c \o list \in Text /\ Len(c \o list) = Len(c) + Len(list)
          /\ \A i \in 1..Len(c) : (c \o list)[i] = c[i]
          /\ \A i \in 1..Len(list) : (c \o list)[Len(c) + i] = list[i]
      BY <3>1, JoinedText, Zenon
    <3> QED BY <1>6, <3>2
  <2>2. 1 \in 1..Len(c) /\ 2 \in 1..Len(c)
    BY <1>5
  <2>3. Len(a) = 2 * (n + 1)
    BY <1>3, <1>5, <2>1
  <2>4. \A i \in 1..(2 * n) : a[2 + i] = list[i]
    BY <1>3, <1>5, <2>1
  <2> QED BY <2>1, <2>2, <2>3, <2>4
<1>8. ASSUME NEW m \in 1..(n + 1)
      PROVE  /\ a[2 * m] = NL /\ a[2 * m - 1] # NL
             /\ m # 1 => <<a[2 * m - 1]>> = s[m - 1]
  <2>1. CASE m = 1
    BY <1>5, <1>7, <2>1
  <2>2. CASE m # 1
    <3>1. PICK i \in 1..n : i = m - 1
      BY <2>2
    <3>2. 2 * i \in 1..(2 * n) /\ 2 * i - 1 \in 1..(2 * n)
      OBVIOUS
    <3>3. a[2 + 2 * i] = list[2 * i] /\ a[2 + (2 * i - 1)] = list[2 * i - 1]
      BY <1>7, <3>2
    <3>4. 2 + 2 * i = 2 * m /\ 2 + (2 * i - 1) = 2 * m - 1
      BY <3>1
    <3>5. a[2 * m] = list[2 * i] /\ a[2 * m - 1] = list[2 * i - 1]
      BY <3>3, <3>4
    <3>6. list[2 * i] = NL /\ list[2 * i - 1] # NL /\ s[i] = <<list[2 * i - 1]>>
      BY <1>3, ProtocolAssumption
    <3> QED BY <2>2, <3>1, <3>5, <3>6
  <2> QED BY <2>1, <2>2
<1>9. PICK ls : ls = Lines(a)
  OBVIOUS
<1>10. /\ ls \in Seq(Text) /\ Len(ls) = n + 1
       /\ \A k \in 1..(n + 1) : ls[k] = <<a[2 * k - 1]>>
  <2>1. n + 1 \in Nat \ {0}
    BY <1>1
  <2> QED BY <1>7, <1>8, <1>9, <2>1, LinesOf
<1>11. /\ Tail(ls) \in Seq(Text) /\ Len(Tail(ls)) = n
       /\ \A i \in 1..n : Tail(ls)[i] = ls[i + 1]
  <2>1. ls # <<>>
    BY <1>10, EmptySeq
  <2> QED BY <1>10, <2>1, HeadTailProperties
<1>12. ASSUME NEW i \in 1..n PROVE Tail(ls)[i] = s[i]
  <2>1. i + 1 \in 1..(n + 1) /\ i + 1 # 1 /\ (i + 1) - 1 = i
    OBVIOUS
  <2>2. <<a[2 * (i + 1) - 1]>> = s[i]
    BY <1>8, <2>1
  <2> QED BY <1>10, <1>11, <2>1, <2>2
<1> QED BY <1>1, <1>9, <1>11, <1>12

\* The table the client has, or will have after the answer to a LIST.
Told == IF asked.op = "LIST" /\ did # <<>> /\ did[1].ok THEN Tail(Lines(did[1].answer)) ELSE table

\* The entries of t are the first subjects of the mailbox.
Numbered(t) ==
  /\ t \in Seq(Text) /\ Len(t) <= Len(box)
  /\ \A i \in 1..Len(t) : t[i] = box[i].subject

Listed == trouble = {} /\ ~ stale /\ cpc \in {"menu", "wait", "got"} => Numbered(Told)

\* Steps that leave the numbers as they are.
LEMMA SameTold ==
  ASSUME Before, Listed, stale' = stale, Told' = Told,
         cpc' \in {"menu", "wait", "got"} => cpc \in {"menu", "wait", "got"},
         box' = box \/ \E m \in Mails : box' = Append(box, m)
  PROVE  Listed'
<1> SUFFICES ASSUME ~ stale, cpc \in {"menu", "wait", "got"} PROVE Numbered(Told)'
  BY DEF Listed
<1>1. PICK t : t = Told
  OBVIOUS
<1>2. t \in Seq(Text) /\ Len(t) <= Len(box) /\ \A i \in 1..Len(t) : t[i] = box[i].subject
  BY <1>1 DEF Listed, Before, Numbered
<1>3. Len(t) \in Nat /\ Len(box) \in Nat /\ box \in Seq(Mails)
  BY <1>2 DEF Before, Stored
<1>4. CASE box' = box
  BY <1>1, <1>2, <1>4 DEF Numbered
<1>5. ASSUME NEW m \in Mails, box' = Append(box, m) PROVE Numbered(Told)'
  <2>1. Len(box') = Len(box) + 1 /\ \A i \in 1..Len(box) : box'[i] = box[i]
    BY <1>3, <1>5
  <2>2. Len(t) <= Len(box') /\ \A i \in 1..Len(t) : box'[i] = box[i]
    BY <1>2, <1>3, <2>1
  <2> QED BY <1>1, <1>2, <2>2 DEF Numbered
<1> QED BY <1>4, <1>5

LEMMA AnswerListed ==
  ASSUME Before, Listed, NEW op \in {"LOGIN", "SEND", "READ", "DEL"}, NEW answer, NEW ok,
         Answer(op, answer, ok), stale' = stale,
         box' = box \/ \E m \in Mails : box' = Append(box, m)
  PROVE  Listed'
<1>1. /\ spc = "execute" /\ Line(message, 1) = <<op>>
      /\ UNCHANGED <<cpc, asked, table>>
  BY DEF Answer, client
<1>2. asked.op # "LIST"
  BY <1>1, Executing
<1>3. Told' = Told
  BY <1>1, <1>2 DEF Told
<1> QED BY <1>1, <1>3, SameTold

LEMMA ListCountListed == ASSUME Before, ListCount PROVE Listed'
<1> SUFFICES ASSUME TRUE PROVE Numbered(Told)'
  BY DEF Listed
<1>1. PICK s : s = Shown
  OBVIOUS
<1>2. PICK a : a = <<NumberText(Len(s)), NL>> \o ListOf(s)
  OBVIOUS
<1>3. /\ spc = "execute" /\ Line(message, 1) = <<"LIST">> /\ UNCHANGED <<asked, box>>
      /\ did' = Append(did, [text |-> message, answer |-> a, ok |-> TRUE])
  BY <1>1, <1>2 DEF ListCount, client, Shown, ListOf
<1>4. asked.op = "LIST" /\ did = <<>>
  BY <1>3, Executing DEF Underway
<1>5. did' # <<>> /\ did'[1].answer = a /\ did'[1].ok
  <2>1. PICK d : d = [text |-> message, answer |-> a, ok |-> TRUE]
    OBVIOUS
  <2>2. did' = <<d>>
    BY <1>3, <1>4, <2>1
  <2>3. did'[1] = d /\ did' # <<>>
    BY <2>2
  <2> QED BY <2>1, <2>3
<1>6. PICK u : u = Tail(Lines(a))
  OBVIOUS
<1>7. Told' = u
  BY <1>3, <1>4, <1>5, <1>6 DEF Told
<1>8. /\ Len(s) \in Numbers /\ Len(s) \in Nat
      /\ \A i \in 1..Len(s) : \E x \in Word : s[i] = <<x>>
  BY <1>1, ShownSubjects
<1>9. u \in Seq(Text) /\ Len(u) = Len(s) /\ \A i \in 1..Len(s) : u[i] = s[i]
  BY <1>2, <1>6, <1>8, TableText
<1>10. Len(s) <= Len(box) /\ \A i \in 1..Len(s) : s[i] = box[i].subject
  <2>1. CASE user
    BY <1>1, <2>1 DEF Shown, Subjects, Before, Stored
  <2>2. CASE ~ user
    <3>1. s = <<>> /\ Len(s) = 0 /\ Len(box) \in Nat
      BY <1>1, <2>2 DEF Shown, Before, Stored
    <3> QED BY <3>1
  <2> QED BY <2>1, <2>2
<1> QED BY <1>3, <1>7, <1>9, <1>10 DEF Numbered

LEMMA ShowListed ==
  ASSUME Before, Listed, NEW op, NEW next, Show(op, next),
         table' = IF op = "LIST" /\ Success THEN Tail(Lines(response)) ELSE table
  PROVE  Listed'
<1>1. /\ cpc = "got" /\ asked.op = op /\ did' = <<>> /\ UNCHANGED <<box, stale>>
  BY DEF Show
<1>2. did = <<[text |-> TextOf(asked), answer |-> response, ok |-> Success]>>
  BY <1>1, Complete DEF Done
<1>3. did # <<>> /\ did[1].answer = response /\ did[1].ok = Success
  BY <1>2
<1>4. Told' = table' /\ Told = table'
  BY <1>1, <1>3 DEF Told
<1> QED BY <1>1, <1>4, SameTold

LEMMA NextListed == ASSUME Orderly, Orderly', Listed, [Next]_vars PROVE Listed'
<1> SUFFICES ASSUME trouble' = {} PROVE Listed'
  BY DEF Listed
<1> USE DEF client, server, history
<1>1. Before
  BY TroubleStays DEF Before, Orderly
<1>2. CASE Type
  <2>1. PICK q \in Request : cpc = "menu" /\ Write(q)
    BY <1>2, TypeAsks
  <2>2. did = <<>> /\ UNCHANGED <<did, table, box, stale>>
    BY <1>1, <2>1 DEF Before, Phase, Write
  <2>3. Told' = Told
    BY <2>2 DEF Told
  <2> QED BY <1>1, <2>1, <2>2, <2>3, SameTold
<1>3. CASE ClientStep
  <2>1. CASE Read
    <3>1. UNCHANGED <<asked, did, table, box, stale>> /\ cpc = "wait"
      BY <2>1 DEF Read
    <3> QED BY <1>1, <3>1, SameTold DEF Told
  <2>2. CASE ReadEnd \/ ReadFails
    <3>1. UNCHANGED <<asked, did, table, box, stale>> /\ cpc = "wait"
      BY <2>2 DEF ReadEnd, ReadFails
    <3> QED BY <1>1, <3>1, SameTold DEF Told
  <2>3. ASSUME NEW op, NEW next, Show(op, next), op # "LIST", table' = table PROVE Listed'
    BY <1>1, <2>3, ShowListed
  <2>4. CASE ShowLogin \/ ShowSendOrDelete \/ ShowRead
    BY <2>3, <2>4 DEF ShowLogin, ShowSendOrDelete, ShowRead
  <2>5. CASE ShowList
    BY <1>1, <2>5, ShowListed DEF ShowList
  <2> QED BY <1>3, <2>1, <2>2, <2>4, <2>5 DEF ClientStep
<1>4. CASE ServerStep
  <2>1. CASE Login
    BY <1>1, <2>1, AnswerListed DEF Login
  <2>2. CASE Send
    <3>1. PICK ok, answer : Answer("SEND", answer, ok) /\ stale' = stale
      BY <2>2 DEF Send
    <3>2. box' = box \/ \E m \in Mails : box' = Append(box, m)
      BY <1>1, <2>2, SendMore
    <3> QED BY <1>1, <3>1, <3>2, AnswerListed
  <2>3. CASE ReadMail
    BY <1>1, <2>3, AnswerListed DEF ReadMail
  <2>4. CASE Delete
    <3>1. PICK ok : /\ ok = (user /\ Wanted <= Len(box)) /\ Answer("DEL", IF ok THEN OK ELSE ERR, ok)
                    /\ stale' = (stale \/ ok)
                    /\ box' = IF ok THEN RemoveAt(box, Wanted) ELSE box
      BY <2>4 DEF Delete
    <3>2. CASE stale'
      BY <3>2 DEF Listed
    <3>3. CASE ~ stale'
      <4>1. stale' = stale /\ box' = box
        BY <1>1, <3>1, <3>3 DEF Before, TypeOK
      <4> QED BY <1>1, <3>1, <4>1, AnswerListed
    <3> QED BY <3>2, <3>3
  <2>5. CASE ListCount
    BY <1>1, <2>5, ListCountListed
  <2>6. CASE Receive \/ ReceiveEnd \/ ListRest \/ Ignore \/ StoiThrows
    <3>1. UNCHANGED <<cpc, asked, did, table, box, stale>>
      BY <2>6 DEF Receive, ReceiveEnd, ListRest, Ignore, StoiThrows, Close
    <3> QED BY <1>1, <3>1, SameTold DEF Told
  <2> QED BY <1>4, <2>1, <2>2, <2>3, <2>4, <2>5, <2>6 DEF ServerStep, OwnStep
<1>5. CASE Stop
  <2>1. UNCHANGED <<cpc, asked, did, table, box, stale>>
    BY <1>5 DEF Stop, Close
  <2> QED BY <1>1, <2>1, SameTold DEF Told
<1>6. ASSUME NEW l \in Letter, OtherSends(l) PROVE Listed'
  <2>1. UNCHANGED <<cpc, asked, did, table, stale>> /\ box' = Append(box, Sent(l))
        /\ Sent(l) \in Mails
    BY <1>6, MailIsFromLetter DEF OtherSends
  <2> QED BY <1>1, <2>1, SameTold DEF Told
<1>7. ASSUME NEW i \in Index, OtherDeletes(i) PROVE Listed'
  BY <1>7 DEF OtherDeletes, Listed
<1>8. CASE UNCHANGED vars
  <2>1. UNCHANGED <<cpc, asked, did, table, box, stale>>
    BY <1>8 DEF vars
  <2> QED BY <1>1, <2>1, SameTold DEF Told
<1> QED BY <1>2, <1>3, <1>4, <1>5, <1>6, <1>7, <1>8 DEF Next

LEMMA InitListed == Init => Listed
<1> SUFFICES ASSUME Init PROVE Numbered(Told)
  BY DEF Listed
<1>1. Told = <<>>
  BY DEF Init, Told
<1>2. <<>> \in Seq(Text) /\ Len(<<>>) = 0 /\ Len(box) = 0
  BY EmptySeq DEF Init
<1> QED BY <1>1, <1>2 DEF Numbered

(***************************************************************************)
(* The numbers the user sees are those the server knows the mails by, as   *)
(* long as no mail has been deleted since, whatever has arrived.           *)
(***************************************************************************)
THEOREM NumbersKeep == Spec => []NumbersHold
<1>1. Orderly /\ Listed => NumbersHold
  <2> SUFFICES ASSUME Orderly, Listed, cpc = "menu", trouble = {}, ~ stale
               PROVE  IsPrefix(table, Subjects(box))
    BY DEF NumbersHold
  <2>1. Numbered(table)
    BY DEF Listed, Told, Orderly, Phase
  <2>2. PICK t \in Seq(Text) : t = table
    BY <2>1 DEF Numbered
  <2>3. Len(t) <= Len(box) /\ \A i \in 1..Len(t) : t[i] = box[i].subject
    BY <2>1, <2>2 DEF Numbered
  <2>4. Len(t) \in Nat /\ box \in Seq(Mails) /\ Len(box) \in Nat
    BY DEF Orderly, Stored
  <2>5. PICK b : b = Subjects(box)
    OBVIOUS
  <2>6. b \in Seq({box[i].subject : i \in 1..Len(box)}) /\ Len(b) = Len(box)
        /\ \A i \in 1..Len(box) : b[i] = box[i].subject
    BY <2>4, <2>5 DEF Subjects
  <2>7. PICK p : p = SubSeq(b, 1, Len(t))
    OBVIOUS
  <2>8. /\ p \in Seq({box[i].subject : i \in 1..Len(box)}) /\ Len(p) = Len(t)
        /\ \A i \in 1..Len(t) : p[i] = b[i]
    BY <2>3, <2>4, <2>6, <2>7
  <2>9. p = t
    <3>1. ASSUME NEW i \in 1..Len(t) PROVE p[i] = t[i]
      <4>1. i \in 1..Len(box)
        BY <2>3, <2>4
      <4> QED BY <2>3, <2>6, <2>8, <4>1
    <3>2. p = [i \in 1..Len(t) |-> p[i]] /\ t = [i \in 1..Len(t) |-> t[i]]
      BY <2>8
    <3> QED BY <3>1, <3>2
  <2>10. SubSeq(t, 1, Len(t)) = t
    BY SubSeqFull
  <2>11. IsPrefix(t, b)
    BY <2>3, <2>4, <2>6, <2>7, <2>9, <2>10 DEF IsPrefix
  <2> QED BY <2>2, <2>5, <2>11
<1>2. Spec => []Listed
  <2>1. Orderly /\ Orderly' /\ Listed /\ [Next]_vars => Listed'
    BY NextListed
  <2> QED BY InitListed, AlwaysOrderly, <2>1, PTL DEF Spec
<1> QED BY AlwaysOrderly, <1>1, <1>2, PTL
=============================================================================
