----------------------------- MODULE LoginProofs -----------------------------
(***************************************************************************)
(* Theorems about Login, for any number of connections, users, addresses   *)
(* and LOGINs, and any time a ban lasts: the type invariant, that bans end *)
(* with their time and hold for it, and that the third failure in a row of *)
(* a name, and no other, is answered with BLOCKED.                         *)
(***************************************************************************)
EXTENDS Login, SequenceTheorems, TLAPS

\* A list is open only while bans are appended to it.
Opened == \A s \in Session : handle[s] # "closed" => pc[s] \in {"rewrite", "ban"}

\* Three failures in a row are over when the third has been answered.
Counted == \A s \in Session :
  pc[s] \in {"idle", "load", "filter", "rewrite", "check"} => inarow[s].count < 3

TypeInv == TypeOK /\ Opened /\ Counted

\* The lists that Append and Tail make, and what is in them.
LEMMA ListFacts ==
  ASSUME NEW S, NEW list \in Seq(S)
  PROVE  /\ Len(list) \in Nat
         /\ \A i \in 1..Len(list) : list[i] \in S
         /\ list = <<>> <=> Len(list) = 0
         /\ list # <<>> =>
              /\ Head(list) = list[1] /\ Head(list) \in S
              /\ Tail(list) \in Seq(S)
              /\ Len(Tail(list)) = Len(list) - 1
              /\ \A i \in 1..Len(Tail(list)) : Tail(list)[i] = list[i + 1]
<1>1. list = <<>> <=> Len(list) = 0
  BY EmptySeq
<1>2. ASSUME list # <<>>
      PROVE  /\ Head(list) = list[1] /\ Head(list) \in S
             /\ Tail(list) \in Seq(S)
             /\ Len(Tail(list)) = Len(list) - 1
             /\ \A i \in 1..Len(Tail(list)) : Tail(list)[i] = list[i + 1]
  BY <1>2, HeadTailProperties
<1> QED BY <1>1, <1>2

LEMMA AppendFacts ==
  ASSUME NEW S, NEW list \in Seq(S), NEW b \in S
  PROVE  /\ Append(list, b) \in Seq(S)
         /\ Len(Append(list, b)) = Len(list) + 1
         /\ \A i \in 1..Len(list) : Append(list, b)[i] = list[i]
         /\ Append(list, b)[Len(list) + 1] = b
BY AppendProperties

LEMMA SingleFacts ==
  ASSUME NEW S, NEW b \in S
  PROVE  <<b>> \in Seq(S) /\ Len(<<b>>) = 1 /\ <<b>>[1] = b /\ <<b>> # <<>>
OBVIOUS

LEMMA AsReadFacts ==
  ASSUME NEW b \in Ban
  PROVE  /\ AsRead(b) \in Ban
         /\ AsRead(b).name = b.name /\ AsRead(b).address = b.address
         /\ AsRead(b).time = b.time + Shift
BY LoginAssumption DEF AsRead, Ban
-----------------------------------------------------------------------------
LEMMA InitType == Init => TypeInv
<1> SUFFICES ASSUME Init PROVE TypeInv
  OBVIOUS
<1>1. <<>> \in Seq(Ban) /\ NoFailure \in [name : User \cup {NoName}, count : 0..3]
      /\ NoFailure.count = 0
  BY DEF NoFailure
<1>2. /\ lines \in [Session -> Seq(Ban)] /\ todo \in [Session -> Seq(Ban)]
      /\ inarow \in [Session -> [name : User \cup {NoName}, count : 0..3]]
      /\ listed \in Seq(Ban) /\ bans \subseteq Ban
  BY <1>1 DEF Init
<1>3. /\ \A s \in Session : ~ Busy(s) /\ handle[s] = "closed"
      /\ handle \in [Session -> {"closed", "listed", "removed"}]
      /\ pc \in [Session -> {"idle", "load", "filter", "rewrite", "check", "count",
                             "ban", "assign", "reply"}]
      /\ result \in [Session -> {"none", "OK", "ERR", "BLOCKED"}]
  BY DEF Init, Busy
<1>4. /\ blocked \in [Session -> BOOLEAN] /\ disturbed \in BOOLEAN
      /\ tries \in Nat /\ now \in Nat /\ seen \subseteq Session /\ racing \subseteq Session
  BY DEF Init
<1>5. /\ at \in [Session -> Nat] /\ judged \in [Session -> Nat]
      /\ attempts \in [Session -> 0..2] /\ address \in [Session -> Address]
      /\ user \in [Session -> User \cup {NoName}] /\ name \in [Session -> User \cup {NoName}]
      /\ previous \in User \cup {NoName, Torn}
  BY DEF Init
<1>6. TypeOK
  BY <1>2, <1>3, <1>4, <1>5 DEF TypeOK
<1> QED BY <1>1, <1>3, <1>6 DEF Init, TypeInv, Opened, Counted

LEMMA ConnectType ==
  ASSUME TypeInv, NEW s \in Session, Connect(s)
  PROVE  TypeInv'
<1>1. NoFailure \in [name : User \cup {NoName}, count : 0..3] /\ NoFailure.count = 0
  BY DEF NoFailure
<1>2. TypeOK'
  BY <1>1 DEF Connect, TypeInv, TypeOK, Busy, session, thread
<1> QED BY <1>1, <1>2 DEF Connect, TypeInv, TypeOK, Opened, Counted, thread

LEMMA AttemptType ==
  ASSUME TypeInv, NEW s \in Session, NEW n \in User, Attempt(s, n)
  PROVE  TypeInv'
<1>1. tries' \in Nat /\ seen' \subseteq Session /\ disturbed' \in BOOLEAN
  BY DEF Attempt, TypeInv, TypeOK
<1>2. TypeOK'
  BY <1>1 DEF Attempt, TypeInv, TypeOK, Busy, session
<1>3. /\ pc[s] = "idle" /\ handle' = handle /\ inarow' = inarow /\ pc'[s] = "load"
      /\ \A t \in Session : t # s => pc'[t] = pc[t]
  BY DEF Attempt, TypeInv, TypeOK, Busy
<1> QED BY <1>2, <1>3 DEF TypeInv, Opened, Counted

LEMMA LoadType ==
  ASSUME TypeInv, NEW s \in Session, Load(s)
  PROVE  TypeInv'
<1>0. handle[s] = "closed"
  BY DEF Load, TypeInv, Opened
<1>1. <<>> \in Seq(Ban)
  OBVIOUS
<1>2. pc' \in [Session -> {"idle", "load", "filter", "rewrite", "check", "count",
                          "ban", "assign", "reply"}]
  BY DEF Load, TypeInv, TypeOK
<1>3. TypeOK'
  BY <1>0, <1>1, <1>2 DEF Load, TypeInv, TypeOK, Busy, session
<1> QED BY <1>0, <1>3 DEF Load, TypeInv, TypeOK, Opened, Counted

LEMMA FilterLineType ==
  ASSUME TypeInv, NEW s \in Session, FilterLine(s)
  PROVE  TypeInv'
<1>1. PICK ban : ban = AsRead(Head(lines[s]))
  OBVIOUS
<1>2. /\ lines[s] \in Seq(Ban) /\ lines[s] # <<>> /\ todo[s] \in Seq(Ban)
      /\ handle[s] = "closed"
  BY DEF FilterLine, TypeInv, TypeOK, Opened
<1>3. ban \in Ban /\ Tail(lines[s]) \in Seq(Ban)
  BY <1>1, <1>2, ListFacts, AsReadFacts
<1>4. Append(todo[s], ban) \in Seq(Ban)
  BY <1>2, <1>3, AppendFacts
<1>5. lines' \in [Session -> Seq(Ban)]
  BY <1>3 DEF FilterLine, TypeInv, TypeOK
<1>6. todo' \in [Session -> Seq(Ban)] /\ \A t \in Session : t # s => todo'[t] = todo[t]
  BY <1>1, <1>2, <1>4 DEF FilterLine, TypeInv, TypeOK
<1>7. judged' \in [Session -> Nat]
  BY DEF FilterLine, TypeInv, TypeOK
<1>8. TypeOK'
  BY <1>2, <1>5, <1>6, <1>7 DEF FilterLine, TypeInv, TypeOK, Busy, session
<1> QED BY <1>8 DEF FilterLine, TypeInv, TypeOK, Opened, Counted

LEMMA ClearBlacklistType ==
  ASSUME TypeInv, NEW s \in Session, ClearBlacklist(s)
  PROVE  TypeInv'
<1>1. <<>> \in Seq(Ban) /\ ContainsUser(todo[s], name[s], address[s]) \in BOOLEAN
  BY DEF ContainsUser
<1>2. /\ handle' \in [Session -> {"closed", "listed", "removed"}]
      /\ \A t \in Session : handle'[t] = "closed" <=> handle[t] = "closed"
  BY DEF ClearBlacklist, TypeInv, TypeOK
<1>3. blocked' \in [Session -> BOOLEAN]
  BY <1>1 DEF ClearBlacklist, TypeInv, TypeOK
<1>4. TypeOK'
  BY <1>1, <1>2, <1>3 DEF ClearBlacklist, TypeInv, TypeOK, Busy, session
<1> QED BY <1>2, <1>4 DEF ClearBlacklist, TypeInv, TypeOK, Opened, Counted

LEMMA AppendBanType ==
  ASSUME TypeInv, NEW s \in Session, AppendBan(s)
  PROVE  TypeInv'
<1>1. todo[s] \in Seq(Ban) /\ todo[s] # <<>> /\ listed \in Seq(Ban)
  BY DEF AppendBan, TypeInv, TypeOK
<1>2. Head(todo[s]) \in Ban /\ Tail(todo[s]) \in Seq(Ban)
  BY <1>1, ListFacts
<1>3. listed' \in Seq(Ban)
  BY <1>1, <1>2, AppendFacts DEF AppendBan
<1>4. TypeOK'
  BY <1>2, <1>3 DEF AppendBan, TypeInv, TypeOK, Busy, session
<1> QED BY <1>4 DEF AppendBan, TypeInv, TypeOK, Opened, Counted

LEMMA AcceptedType ==
  ASSUME TypeInv, NEW s \in Session, Accepted(s)
  PROVE  TypeInv'
<1>1. NoFailure \in [name : User \cup {NoName}, count : 0..3]
  BY DEF NoFailure
<1>2. handle[s] = "closed" /\ name[s] \in User
  BY DEF Accepted, TypeInv, TypeOK, Opened, Busy
<1>3. TypeOK'
  BY <1>1, <1>2 DEF Accepted, TypeInv, TypeOK, Busy
<1> QED BY <1>2, <1>3 DEF Accepted, TypeInv, TypeOK, Opened, Counted

LEMMA RefusedType ==
  ASSUME TypeInv, NEW s \in Session, Refused(s)
  PROVE  TypeInv'
<1>1. /\ inarow[s] \in [name : User \cup {NoName}, count : 0..3] /\ inarow[s].count < 3
      /\ name[s] \in User /\ handle[s] = "closed"
  BY DEF Refused, TypeInv, TypeOK, Opened, Counted, Busy
<1>2. PICK c : c = IF inarow[s].name = name[s] THEN inarow[s].count + 1 ELSE 1
  OBVIOUS
<1>3. c \in 0..3
  BY <1>1, <1>2
<1>4. inarow' = [inarow EXCEPT ![s] = [name |-> name[s], count |-> c]]
  BY <1>2 DEF Refused
<1>5. inarow' \in [Session -> [name : User \cup {NoName}, count : 0..3]]
  BY <1>1, <1>3, <1>4 DEF TypeInv, TypeOK
<1>6. TypeOK'
  BY <1>1, <1>5 DEF Refused, TypeInv, TypeOK, Busy, session
<1> QED BY <1>1, <1>4, <1>6 DEF Refused, TypeInv, TypeOK, Opened, Counted

LEMMA CountFailureType ==
  ASSUME TypeInv, NEW s \in Session, CountFailure(s)
  PROVE  TypeInv'
<1>1. attempts[s] \in 0..2 /\ handle[s] = "closed" /\ name[s] \in User
  BY DEF CountFailure, TypeInv, TypeOK, Opened, Busy
<1>2. PICK n \in 0..2 : attempts' = [attempts EXCEPT ![s] = n]
  <2>1. SameName(s) \subseteq BOOLEAN
    BY DEF SameName
  <2>2. PICK same \in BOOLEAN :
          /\ same => attempts[s] + 1 < 3
          /\ attempts' = [attempts EXCEPT ![s] = IF same THEN attempts[s] + 1 ELSE 1]
    BY <2>1 DEF CountFailure
  <2>3. CASE same
    <3>1. attempts[s] + 1 \in 0..2
      BY <1>1, <2>2, <2>3
    <3> QED BY <2>2, <2>3, <3>1
  <2>4. CASE ~ same
    BY <2>2, <2>4
  <2> QED BY <2>3, <2>4
<1>3. attempts' \in [Session -> 0..2] /\ racing' \subseteq Session
  BY <1>2 DEF CountFailure, TypeInv, TypeOK
<1>4. TypeOK'
  BY <1>1, <1>3 DEF CountFailure, TypeInv, TypeOK, Busy
<1> QED BY <1>1, <1>4 DEF CountFailure, TypeInv, TypeOK, Opened, Counted

LEMMA ThirdFailureType ==
  ASSUME TypeInv, NEW s \in Session, ThirdFailure(s)
  PROVE  TypeInv'
<1>1. PICK ban : ban = [name |-> name[s], address |-> address[s], time |-> now]
  OBVIOUS
<1>2. ban \in Ban /\ handle[s] = "closed"
  BY <1>1 DEF ThirdFailure, TypeInv, TypeOK, Opened, Busy, Ban
<1>3. <<ban>> \in Seq(Ban) /\ <<ban>> # <<>>
  BY <1>2, SingleFacts
<1>4. todo' = [todo EXCEPT ![s] = <<ban>>] /\ bans' = bans \cup {ban}
  BY <1>1 DEF ThirdFailure
<1>5. TypeOK'
  BY <1>2, <1>3, <1>4 DEF ThirdFailure, TypeInv, TypeOK, Busy
<1> QED BY <1>2, <1>5 DEF ThirdFailure, TypeInv, TypeOK, Opened, Counted

LEMMA ReplyType ==
  ASSUME TypeInv, NEW s \in Session, Reply(s)
  PROVE  TypeInv'
<1>1. NoFailure \in [name : User \cup {NoName}, count : 0..3] /\ NoFailure.count = 0
  BY DEF NoFailure
<1>2. inarow[s] \in [name : User \cup {NoName}, count : 0..3] /\ handle[s] = "closed"
  BY DEF Reply, TypeInv, TypeOK, Opened
<1>3. /\ inarow' \in [Session -> [name : User \cup {NoName}, count : 0..3]]
      /\ inarow'[s].count < 3
      /\ \A t \in Session : t # s => inarow'[t] = inarow[t]
  BY <1>1, <1>2 DEF Reply, TypeInv, TypeOK
<1>4. TypeOK'
  BY <1>2, <1>3 DEF Reply, TypeInv, TypeOK, Busy, session
<1> QED BY <1>2, <1>3, <1>4 DEF Reply, TypeInv, TypeOK, Opened, Counted

LEMMA StepType ==
  ASSUME TypeInv, NEW s \in Session, Step(s)
  PROVE  TypeInv'
<1>1. ASSUME OpenList(s) PROVE TypeInv'
  BY <1>1 DEF OpenList, TypeInv, TypeOK, Opened, Counted, Busy, session
<1>2. ASSUME Checked(s) PROVE TypeInv'
  BY <1>2 DEF Checked, TypeInv, TypeOK, Opened, Counted, Busy, session
<1>3. ASSUME Banned(s) PROVE TypeInv'
  BY <1>3 DEF Banned, TypeInv, TypeOK, Opened, Counted, Busy, session
<1>4. ASSUME Assign(s) PROVE TypeInv'
  BY <1>4 DEF Assign, TypeInv, TypeOK, Opened, Counted, Busy, session
<1> QED BY <1>1, <1>2, <1>3, <1>4, LoadType, FilterLineType, ClearBlacklistType, AppendBanType,
           AcceptedType, RefusedType, CountFailureType, ThirdFailureType, ReplyType DEF Step

LEMMA KilledType ==
  ASSUME TypeInv, Killed
  PROVE  TypeInv'
<1>1. <<>> \in Seq(Ban) /\ NoFailure \in [name : User \cup {NoName}, count : 0..3]
      /\ NoFailure.count = 0
  BY DEF NoFailure
<1>2. TypeOK'
  BY <1>1 DEF Killed, TypeInv, TypeOK, Busy
<1> QED BY <1>1, <1>2 DEF Killed, TypeInv, Opened, Counted

LEMMA NextType == TypeInv /\ [Next]_vars => TypeInv'
<1> SUFFICES ASSUME TypeInv, [Next]_vars PROVE TypeInv'
  OBVIOUS
<1>1. ASSUME Tick PROVE TypeInv'
  BY <1>1 DEF Tick, TypeInv, TypeOK, Opened, Counted, Busy, session, thread
<1>2. ASSUME UNCHANGED vars PROVE TypeInv'
  BY <1>2 DEF vars, TypeInv, TypeOK, Opened, Counted, Busy, session, thread
<1> QED BY <1>1, <1>2, ConnectType, AttemptType, StepType, KilledType DEF Next

LEMMA TypeInvariant == Spec => []TypeInv
BY InitType, NextType, PTL DEF Spec

(***************************************************************************)
(* Every variable stays in its type; in particular a thread that appends a *)
(* ban has one to append, and no count of failures goes beyond the second. *)
(***************************************************************************)
THEOREM TypeCorrect == Spec => []TypeOK
<1>1. TypeInv => TypeOK
  BY DEF TypeInv
<1> QED BY <1>1, TypeInvariant, PTL
-----------------------------------------------------------------------------
Among(list, set) == \A i \in 1..Len(list) : list[i] \in set

\* Every line of the list, and every line a thread has read of it, is a ban
\* that was imposed.
Imposed ==
  /\ \A b \in bans : b.time <= now
  /\ Among(listed, bans)
  /\ \A s \in Session : at[s] <= now /\ Among(lines[s], bans) /\ Among(todo[s], bans)

\* What a thread reads was imposed before it opened the list, and what it has
\* kept was in force by then.
Reading == \A s \in Session : pc[s] = "filter" =>
  /\ \A i \in 1..Len(lines[s]) : lines[s][i].time <= at[s]
  /\ \A i \in 1..Len(todo[s]) : todo[s][i].time <= at[s] /\ at[s] - todo[s][i].time < BanTime

Undecided == \A s \in Session : pc[s] \in {"idle", "load", "filter"} => ~ blocked[s]

EndsInv == Imposed /\ Reading /\ Undecided /\ BanEnds

LEMMA InitEnds == Init => EndsInv
BY EmptySeq DEF Init, EndsInv, Imposed, Reading, Undecided, BanEnds, Among

\* A thread whose LOGIN goes on as it was.
LEMMA SameLogin ==
  ASSUME TypeInv, EndsInv, bans \subseteq bans',
         NEW s \in Session,
         blocked'[s] = blocked[s], at'[s] = at[s], name'[s] = name[s],
         address'[s] = address[s] \/ ~ blocked[s]
  PROVE  blocked'[s] => \E b \in bans' : InForce(b, s, at[s])'
BY DEF EndsInv, BanEnds, InForce

LEMMA LoadEnds ==
  ASSUME TypeInv, EndsInv, NEW s \in Session, Load(s)
  PROVE  EndsInv'
<1>1. /\ lines'[s] = listed /\ todo'[s] = <<>> /\ at'[s] = now /\ ~ blocked[s]
      /\ pc'[s] \in {"filter", "check"}
      /\ \A t \in Session : t # s => /\ pc'[t] = pc[t] /\ lines'[t] = lines[t]
                                    /\ todo'[t] = todo[t] /\ at'[t] = at[t]
      /\ UNCHANGED <<now, listed, bans, blocked, name, address>>
  BY DEF Load, TypeInv, TypeOK, EndsInv, Undecided, session
<1>2. Imposed'
  <2>1. Among(<<>>, bans) /\ now <= now
    BY EmptySeq DEF Among, TypeInv, TypeOK
  <2> QED BY <1>1, <2>1 DEF EndsInv, Imposed, Among
<1>3. Reading'
  <2>1. \A i \in 1..Len(listed) : listed[i].time <= now
    BY DEF EndsInv, Imposed, Among
  <2>2. 1..Len(<<>>) = {}
    BY EmptySeq
  <2>3. ASSUME NEW t \in Session, t # s, pc'[t] = "filter"
        PROVE  /\ \A i \in 1..Len(lines'[t]) : lines'[t][i].time <= at'[t]
               /\ \A i \in 1..Len(todo'[t]) :
                    todo'[t][i].time <= at'[t] /\ at'[t] - todo'[t][i].time < BanTime
    BY <1>1, <2>3 DEF EndsInv, Reading
  <2> QED BY <1>1, <2>1, <2>2, <2>3 DEF Reading
<1>4. Undecided' /\ BanEnds'
  BY <1>1 DEF EndsInv, Undecided, BanEnds, InForce
<1> QED BY <1>2, <1>3, <1>4 DEF EndsInv

LEMMA FilterLineEnds ==
  ASSUME Shift = 0, TypeInv, EndsInv, NEW s \in Session, FilterLine(s)
  PROVE  EndsInv'
<1>1. PICK ban : ban = AsRead(Head(lines[s]))
  OBVIOUS
<1>2. /\ lines[s] \in Seq(Ban) /\ lines[s] # <<>> /\ todo[s] \in Seq(Ban)
      /\ pc[s] = "filter" /\ now \in Nat /\ at[s] \in Nat /\ at[s] <= now
  BY DEF FilterLine, TypeInv, TypeOK, EndsInv, Imposed
<1>3. Head(lines[s]) \in Ban /\ Head(lines[s]) = lines[s][1] /\ 1 \in 1..Len(lines[s])
  BY <1>2, ListFacts
<1>4. ban = Head(lines[s])
  BY <1>1, <1>3 DEF AsRead, Ban
<1>5. ban \in Ban /\ ban \in bans /\ ban.time <= at[s]
  BY <1>2, <1>3, <1>4 DEF EndsInv, Imposed, Reading, Among
<1>6. ~ Expired(ban) => at[s] - ban.time < BanTime
  BY <1>2, <1>5, LoginAssumption DEF Expired, Ban
<1>7. /\ lines'[s] = Tail(lines[s])
      /\ todo'[s] = IF Expired(ban) THEN todo[s] ELSE Append(todo[s], ban)
      /\ \A t \in Session : t # s => lines'[t] = lines[t] /\ todo'[t] = todo[t]
      /\ UNCHANGED <<now, bans, listed, at, pc, blocked, name, address>>
  BY <1>1 DEF FilterLine, TypeInv, TypeOK, session
<1>8. /\ Among(lines'[s], bans)
      /\ \A i \in 1..Len(lines'[s]) : lines'[s][i].time <= at[s]
  BY <1>2, <1>7, ListFacts DEF EndsInv, Imposed, Reading, Among
<1>9. /\ Among(todo'[s], bans)
      /\ \A i \in 1..Len(todo'[s]) :
           todo'[s][i].time <= at[s] /\ at[s] - todo'[s][i].time < BanTime
  <2>1. CASE Expired(ban)
    BY <1>2, <1>7, <2>1 DEF EndsInv, Imposed, Reading, Among
  <2>2. CASE ~ Expired(ban)
    BY <1>2, <1>5, <1>6, <1>7, <2>2, AppendFacts DEF EndsInv, Imposed, Reading, Among
  <2> QED BY <2>1, <2>2
<1>10. Imposed'
  BY <1>7, <1>8, <1>9 DEF EndsInv, Imposed, Among
<1>11. Reading'
  BY <1>7, <1>8, <1>9 DEF EndsInv, Reading
<1>12. Undecided' /\ BanEnds'
  BY <1>7 DEF EndsInv, Undecided, BanEnds, InForce
<1> QED BY <1>10, <1>11, <1>12 DEF EndsInv

LEMMA ClearBlacklistEnds ==
  ASSUME TypeInv, EndsInv, NEW s \in Session, ClearBlacklist(s)
  PROVE  EndsInv'
<1>1. /\ pc[s] = "filter" /\ pc'[s] = "rewrite" /\ listed' = <<>>
      /\ \A t \in Session : t # s => pc'[t] = pc[t] /\ blocked'[t] = blocked[t]
      /\ blocked'[s] = ContainsUser(todo[s], name[s], address[s])
      /\ UNCHANGED <<now, bans, lines, todo, at, name, address>>
  BY DEF ClearBlacklist, TypeInv, TypeOK, session
<1>2. Imposed'
  BY <1>1, EmptySeq DEF EndsInv, Imposed, Among
<1>3. Reading' /\ Undecided'
  BY <1>1 DEF EndsInv, Reading, Undecided
<1>4. blocked'[s] => \E b \in bans' : InForce(b, s, at[s])'
  <2> SUFFICES ASSUME blocked'[s] PROVE \E b \in bans : InForce(b, s, at[s])
    BY <1>1 DEF InForce
  <2>1. PICK i \in 1..Len(todo[s]) : todo[s][i].name = name[s] /\ todo[s][i].address = address[s]
    BY <1>1 DEF ContainsUser
  <2>2. todo[s][i] \in bans
    BY DEF EndsInv, Imposed, Among
  <2> QED BY <1>1, <2>1, <2>2 DEF EndsInv, Reading, InForce
<1>5. BanEnds'
  BY <1>1, <1>4 DEF EndsInv, BanEnds, InForce
<1> QED BY <1>2, <1>3, <1>5 DEF EndsInv

LEMMA AppendBanEnds ==
  ASSUME TypeInv, EndsInv, NEW s \in Session, AppendBan(s)
  PROVE  EndsInv'
<1>1. /\ todo[s] \in Seq(Ban) /\ todo[s] # <<>> /\ listed \in Seq(Ban)
      /\ pc[s] \in {"rewrite", "ban"}
  BY DEF AppendBan, TypeInv, TypeOK, Opened
<1>2. /\ todo'[s] = Tail(todo[s])
      /\ listed' = IF handle[s] = "listed" THEN Append(listed, Head(todo[s])) ELSE listed
      /\ \A t \in Session : t # s => todo'[t] = todo[t]
      /\ UNCHANGED <<now, bans, lines, pc, blocked, at, name, address>>
  BY DEF AppendBan, TypeInv, TypeOK, session
<1>3. Head(todo[s]) \in Ban /\ Head(todo[s]) = todo[s][1] /\ 1 \in 1..Len(todo[s])
  BY <1>1, ListFacts
<1>4. Head(todo[s]) \in bans /\ Among(todo'[s], bans)
  BY <1>1, <1>2, <1>3, ListFacts DEF EndsInv, Imposed, Among
<1>5. Among(listed', bans)
  <2>1. CASE handle[s] = "listed"
    BY <1>1, <1>2, <1>3, <1>4, <2>1, AppendFacts DEF EndsInv, Imposed, Among
  <2>2. CASE handle[s] # "listed"
    BY <1>2, <2>2 DEF EndsInv, Imposed, Among
  <2> QED BY <2>1, <2>2
<1>6. Imposed'
  BY <1>2, <1>4, <1>5 DEF EndsInv, Imposed, Among
<1>7. Reading' /\ Undecided' /\ BanEnds'
  BY <1>1, <1>2 DEF EndsInv, Reading, Undecided, BanEnds, InForce
<1> QED BY <1>6, <1>7 DEF EndsInv

LEMMA ThirdFailureEnds ==
  ASSUME TypeInv, EndsInv, NEW s \in Session, ThirdFailure(s)
  PROVE  EndsInv'
<1>1. PICK ban : ban = [name |-> name[s], address |-> address[s], time |-> now]
  OBVIOUS
<1>2. /\ pc[s] = "count" /\ pc'[s] = "ban" /\ todo'[s] = <<ban>> /\ bans' = bans \cup {ban}
      /\ \A t \in Session : t # s => todo'[t] = todo[t] /\ pc'[t] = pc[t]
      /\ UNCHANGED <<now, listed, lines, blocked, at, name, address>>
  BY <1>1 DEF ThirdFailure, TypeInv, TypeOK
<1>3. Imposed'
  <2>1. ban.time = now /\ now <= now
    BY <1>1 DEF TypeInv, TypeOK
  <2>2. Among(<<ban>>, bans')
    BY <1>2 DEF Among
  <2> QED BY <1>2, <2>1, <2>2 DEF EndsInv, Imposed, Among
<1>4. Reading' /\ Undecided'
  BY <1>2 DEF EndsInv, Reading, Undecided
<1>5. BanEnds'
  BY <1>2, SameLogin DEF BanEnds
<1> QED BY <1>3, <1>4, <1>5 DEF EndsInv

\* The steps that touch neither a list nor what was decided.
LEMMA OtherStepEnds ==
  ASSUME TypeInv, EndsInv, NEW s \in Session,
         OpenList(s) \/ Checked(s) \/ Accepted(s) \/ Refused(s) \/ CountFailure(s) \/ Banned(s) \/ Assign(s)
  PROVE  EndsInv'
<1>1. /\ UNCHANGED <<now, listed, lines, todo, bans, blocked, at, name, address>>
      /\ \A t \in Session : t # s => pc'[t] = pc[t]
      /\ pc'[s] \notin {"idle", "load", "filter"}
  BY DEF OpenList, Checked, Accepted, Refused, CountFailure, Banned, Assign, TypeInv, TypeOK, session
<1>2. Imposed' /\ Reading' /\ Undecided' /\ BanEnds'
  BY <1>1 DEF EndsInv, Imposed, Reading, Undecided, BanEnds, InForce
<1> QED BY <1>2 DEF EndsInv

LEMMA ReplyEnds ==
  ASSUME TypeInv, EndsInv, NEW s \in Session, Reply(s)
  PROVE  EndsInv'
<1>1. /\ UNCHANGED <<now, listed, lines, todo, bans, address>>
      /\ pc'[s] = "idle" /\ ~ blocked'[s] /\ at'[s] = 0
      /\ \A t \in Session : t # s => /\ pc'[t] = pc[t] /\ blocked'[t] = blocked[t]
                                    /\ at'[t] = at[t] /\ name'[t] = name[t]
  BY DEF Reply, TypeInv, TypeOK, session
<1>2. Imposed'
  <2>1. 0 <= now
    BY DEF TypeInv, TypeOK
  <2> QED BY <1>1, <2>1 DEF EndsInv, Imposed
<1>3. Reading' /\ Undecided' /\ BanEnds'
  BY <1>1 DEF EndsInv, Reading, Undecided, BanEnds, InForce
<1> QED BY <1>2, <1>3 DEF EndsInv

LEMMA NextEnds == Shift = 0 /\ TypeInv /\ EndsInv /\ [Next]_vars => EndsInv'
<1> SUFFICES ASSUME Shift = 0, TypeInv, EndsInv, [Next]_vars PROVE EndsInv'
  OBVIOUS
<1>1. ASSUME NEW s \in Session, Connect(s) PROVE EndsInv'
  <2>1. /\ UNCHANGED <<now, listed, lines, todo, bans, pc, blocked, at, name>>
        /\ ~ blocked[s]
        /\ \A t \in Session : t # s => address'[t] = address[t]
    BY <1>1 DEF Connect, TypeInv, TypeOK, thread, EndsInv, Undecided, Busy
  <2>2. Imposed' /\ Reading' /\ Undecided'
    BY <2>1 DEF EndsInv, Imposed, Reading, Undecided
  <2>3. BanEnds'
    BY <2>1, SameLogin DEF BanEnds
  <2> QED BY <2>2, <2>3 DEF EndsInv
<1>2. ASSUME NEW s \in Session, NEW n \in User, Attempt(s, n) PROVE EndsInv'
  <2>1. /\ UNCHANGED <<now, listed, lines, todo, bans, blocked, at, address>>
        /\ ~ blocked[s] /\ pc'[s] = "load"
        /\ \A t \in Session : t # s => name'[t] = name[t] /\ pc'[t] = pc[t]
    BY <1>2 DEF Attempt, TypeInv, TypeOK, session, EndsInv, Undecided, Busy
  <2>2. Imposed' /\ Reading' /\ Undecided' /\ BanEnds'
    BY <2>1 DEF EndsInv, Imposed, Reading, Undecided, BanEnds, InForce
  <2> QED BY <2>2 DEF EndsInv
<1>3. ASSUME Tick PROVE EndsInv'
  <2>1. /\ UNCHANGED <<listed, lines, todo, bans, pc, blocked, at, name, address>>
        /\ now \in Nat /\ now' = now + 1
    BY <1>3 DEF Tick, TypeInv, TypeOK, thread, session
  <2>2. Imposed'
    BY <2>1 DEF EndsInv, Imposed, TypeInv, TypeOK, Ban
  <2>3. Reading' /\ Undecided' /\ BanEnds'
    BY <2>1 DEF EndsInv, Reading, Undecided, BanEnds, InForce
  <2> QED BY <2>2, <2>3 DEF EndsInv
<1>4. ASSUME Killed PROVE EndsInv'
  <2>1. Imposed'
    BY <1>4, EmptySeq DEF Killed, EndsInv, Imposed, Among, TypeInv, TypeOK
  <2>2. Reading' /\ Undecided' /\ BanEnds'
    BY <1>4 DEF Killed, Reading, Undecided, BanEnds
  <2> QED BY <2>1, <2>2 DEF EndsInv
<1>5. ASSUME UNCHANGED vars PROVE EndsInv'
  BY <1>5 DEF vars, thread, session, EndsInv, Imposed, Reading, Undecided, BanEnds, InForce
<1> QED BY <1>1, <1>2, <1>3, <1>4, <1>5, LoadEnds, FilterLineEnds, ClearBlacklistEnds, AppendBanEnds,
           ThirdFailureEnds, OtherStepEnds, ReplyEnds DEF Next, Step

(***************************************************************************)
(* Where a time is read as it was written (Shift = 0, winter), no LOGIN is *)
(* blocked without a ban of its user and address that was still in force   *)
(* when CheckBlacklist opened the list: whatever threads overlap while     *)
(* they remove the list and write it again, and wherever the process ends. *)
(***************************************************************************)
THEOREM BansEnd == ASSUME Shift = 0 PROVE Spec => []BanEnds
<1>1. TypeInv /\ EndsInv /\ [Next]_vars => EndsInv'
  BY NextEnds
<1>2. EndsInv => BanEnds
  BY DEF EndsInv
<1> QED BY InitEnds, <1>1, <1>2, TypeInvariant, PTL DEF Spec
-----------------------------------------------------------------------------
Lasts(b, t) == t - b.time < BanTime

\* A line for the ban, or one that lasts longer.
Recorded(b, list) == \E i \in 1..Len(list) :
  list[i].name = b.name /\ list[i].address = b.address /\ list[i].time >= b.time

Alone == /\ \A s, t \in Session : Busy(s) /\ Busy(t) => s = t
         /\ \A s \in Session : handle[s] # "removed"

\* A ban that is not over is in the list, or about to be appended to it.
Written == \A b \in bans : Lasts(b, now) =>
  \/ Recorded(b, listed)
  \/ \E s \in Session : pc[s] \in {"rewrite", "ban"} /\ Recorded(b, todo[s])

\* A thread that reads the list has every ban that is not over.
Gathered == \A s \in Session : \A b \in bans :
  pc[s] = "filter" /\ Lasts(b, judged[s]) => Recorded(b, lines[s]) \/ Recorded(b, todo[s])

Passed(s) == \/ pc[s] = "rewrite" /\ ~ blocked[s]
             \/ pc[s] = "check"
             \/ pc[s] = "reply" /\ result[s] = "OK"

Cleared == \A s \in Session : Passed(s) => \A b \in bans : ~ InForce(b, s, judged[s])

Judged == \A s \in Session : judged[s] <= now

HoldsInv == Judged /\ (~ disturbed => Alone /\ Written /\ Gathered /\ Cleared)

LEMMA NotRecorded == \A b : ~ Recorded(b, <<>>)
BY EmptySeq DEF Recorded

LEMMA RecordedFacts ==
  ASSUME NEW list \in Seq(Ban), NEW b \in Ban
  PROVE  /\ Recorded(b, list) /\ list # <<>> =>
              \/ Recorded(b, Tail(list))
              \/ Head(list).name = b.name /\ Head(list).address = b.address
                 /\ Head(list).time >= b.time
         /\ \A c \in Ban : Recorded(b, list) => Recorded(b, Append(list, c))
         /\ \A c \in Ban : c.name = b.name /\ c.address = b.address /\ c.time >= b.time
                => Recorded(b, Append(list, c))
<1>1. ASSUME Recorded(b, list), list # <<>>, ~ Recorded(b, Tail(list))
      PROVE  Head(list).name = b.name /\ Head(list).address = b.address
             /\ Head(list).time >= b.time
  <2>1. PICK i \in 1..Len(list) :
          list[i].name = b.name /\ list[i].address = b.address /\ list[i].time >= b.time
    BY <1>1 DEF Recorded
  <2>2. CASE i = 1
    BY <1>1, <2>1, <2>2, ListFacts
  <2>3. CASE i # 1
    <3>1. Len(list) \in Nat /\ Len(Tail(list)) = Len(list) - 1
          /\ \A j \in 1..Len(Tail(list)) : Tail(list)[j] = list[j + 1]
      BY <1>1, ListFacts
    <3>2. i - 1 \in 1..Len(Tail(list)) /\ Tail(list)[i - 1] = list[i]
      BY <2>3, <3>1
    <3> QED BY <1>1, <2>1, <3>2 DEF Recorded
  <2> QED BY <2>2, <2>3
<1>2. ASSUME NEW c \in Ban, Recorded(b, list) PROVE Recorded(b, Append(list, c))
  <2>1. PICK i \in 1..Len(list) :
          list[i].name = b.name /\ list[i].address = b.address /\ list[i].time >= b.time
    BY <1>2 DEF Recorded
  <2>2. i \in 1..Len(Append(list, c)) /\ Append(list, c)[i] = list[i]
    BY AppendFacts, ListFacts
  <2> QED BY <2>1, <2>2 DEF Recorded
<1>3. ASSUME NEW c \in Ban, c.name = b.name, c.address = b.address, c.time >= b.time
      PROVE  Recorded(b, Append(list, c))
  <2>1. Len(list) + 1 \in 1..Len(Append(list, c)) /\ Append(list, c)[Len(list) + 1] = c
    BY AppendFacts, ListFacts
  <2> QED BY <1>3, <2>1 DEF Recorded
<1> QED BY <1>1, <1>2, <1>3

\* The clock starts at 0.
LEMMA Clock ==
  ASSUME TypeInv
  PROVE  now \in Nat /\ now <= now /\ 0 <= now
BY DEF TypeInv, TypeOK

LEMMA InitHolds == Init => HoldsInv
BY DEF Init, HoldsInv, Judged, Alone, Written, Gathered, Cleared, Passed, Busy

\* Only the thread of this LOGIN is in the middle of one.
LEMMA OthersIdle ==
  ASSUME TypeInv, HoldsInv, ~ disturbed, NEW s \in Session, Busy(s)
  PROVE  /\ \A t \in Session : t # s => pc[t] = "idle" /\ handle[t] = "closed"
         /\ handle[s] # "removed"
BY DEF HoldsInv, Alone, Busy, TypeInv, Opened

LEMMA LoadHolds ==
  ASSUME TypeInv, HoldsInv, NEW s \in Session, Load(s)
  PROVE  HoldsInv'
<1>1. /\ pc[s] = "load" /\ lines'[s] = listed /\ judged'[s] = now
      /\ pc'[s] = IF ListExists THEN "filter" ELSE "check"
      /\ \A t \in Session : t # s => pc'[t] = pc[t] /\ judged'[t] = judged[t]
      /\ UNCHANGED <<now, listed, bans, handle, disturbed>>
  BY DEF Load, TypeInv, TypeOK
<1>2. Judged'
  BY <1>1, Clock DEF HoldsInv, Judged
<1>3. SUFFICES ASSUME ~ disturbed PROVE Alone' /\ Written' /\ Gathered' /\ Cleared'
  BY <1>1, <1>2 DEF HoldsInv
<1>4. \A t \in Session : t # s => pc[t] = "idle" /\ handle[t] = "closed"
  BY <1>1, <1>3, OthersIdle DEF Busy
<1>5. \A b \in bans : Lasts(b, now) => Recorded(b, listed)
  BY <1>1, <1>3, <1>4 DEF HoldsInv, Written
<1>6. Alone' /\ Written' /\ Gathered'
  BY <1>1, <1>3, <1>4, <1>5 DEF HoldsInv, Alone, Written, Gathered, Busy
<1>7. ~ ListExists => \A b \in bans : ~ Lasts(b, now)
  BY <1>5, NotRecorded DEF ListExists
<1>8. Cleared'
  BY <1>1, <1>4, <1>7 DEF Cleared, Passed, InForce, Lasts
<1> QED BY <1>6, <1>8

LEMMA FilterLineHolds ==
  ASSUME TypeInv, HoldsInv, NEW s \in Session, FilterLine(s)
  PROVE  HoldsInv'
<1>1. PICK ban : ban = AsRead(Head(lines[s]))
  OBVIOUS
<1>2. /\ pc[s] = "filter" /\ lines[s] # <<>> /\ lines'[s] = Tail(lines[s]) /\ judged'[s] = now
      /\ todo'[s] = IF Expired(ban) THEN todo[s] ELSE Append(todo[s], ban)
      /\ \A t \in Session : t # s => judged'[t] = judged[t] /\ todo'[t] = todo[t]
      /\ UNCHANGED <<now, listed, bans, handle, disturbed, pc>>
  BY <1>1 DEF FilterLine, TypeInv, TypeOK
<1>3. Judged'
  BY <1>2, Clock DEF HoldsInv, Judged
<1>4. SUFFICES ASSUME ~ disturbed PROVE Alone' /\ Written' /\ Gathered' /\ Cleared'
  BY <1>2, <1>3 DEF HoldsInv
<1>5. \A t \in Session : t # s => pc[t] = "idle" /\ handle[t] = "closed"
  BY <1>2, <1>4, OthersIdle DEF Busy
<1>6. Alone' /\ Written'
  BY <1>2, <1>4, <1>5 DEF HoldsInv, Alone, Written, Busy
<1>7. Cleared'
  BY <1>2, <1>5 DEF Cleared, Passed
<1>8. ASSUME NEW b \in bans, Lasts(b, now)
      PROVE  Recorded(b, lines'[s]) \/ Recorded(b, todo'[s])
  <2>1. /\ lines[s] \in Seq(Ban) /\ todo[s] \in Seq(Ban) /\ b \in Ban
        /\ now \in Nat /\ judged[s] \in Nat /\ judged[s] <= now
    BY DEF HoldsInv, Judged, TypeInv, TypeOK
  <2>2. Lasts(b, judged[s])
    BY <1>8, <2>1, LoginAssumption DEF Lasts, Ban
  <2>3. Recorded(b, lines[s]) \/ Recorded(b, todo[s])
    BY <1>2, <1>4, <2>2 DEF HoldsInv, Gathered
  <2>4. Head(lines[s]) \in Ban /\ ban \in Ban
    BY <1>1, <1>2, <2>1, ListFacts, AsReadFacts
  <2>5. CASE Recorded(b, todo[s])
    BY <1>2, <2>1, <2>4, <2>5, RecordedFacts
  <2>6. CASE Recorded(b, Tail(lines[s]))
    BY <1>2, <2>6
  <2>7. CASE Recorded(b, lines[s]) /\ ~ Recorded(b, Tail(lines[s]))
    <3>1. /\ Head(lines[s]).name = b.name /\ Head(lines[s]).address = b.address
          /\ Head(lines[s]).time >= b.time
      BY <1>2, <2>1, <2>7, RecordedFacts
    <3>2. ban.name = b.name /\ ban.address = b.address /\ ban.time >= b.time
      <4>1. /\ ban.name = Head(lines[s]).name /\ ban.address = Head(lines[s]).address
            /\ ban.time = Head(lines[s]).time + Shift
        BY <1>1, <2>4, AsReadFacts
      <4>2. b.time \in Nat /\ Head(lines[s]).time \in Nat
        BY <2>1, <2>4 DEF Ban
      <4> QED BY <3>1, <4>1, <4>2, LoginAssumption
    <3>3. ~ Expired(ban)
      BY <1>8, <2>1, <2>4, <3>2, LoginAssumption DEF Expired, Lasts, Ban
    <3> QED BY <1>2, <2>1, <2>4, <3>2, <3>3, RecordedFacts
  <2> QED BY <2>3, <2>5, <2>6, <2>7
<1>9. Gathered'
  BY <1>2, <1>5, <1>8 DEF Gathered
<1> QED BY <1>6, <1>7, <1>9

LEMMA ClearBlacklistHolds ==
  ASSUME TypeInv, HoldsInv, NEW s \in Session, ClearBlacklist(s)
  PROVE  HoldsInv'
<1>1. /\ pc[s] = "filter" /\ pc'[s] = "rewrite" /\ listed' = <<>> /\ lines[s] = <<>>
      /\ blocked'[s] = ContainsUser(todo[s], name[s], address[s])
      /\ \A t \in Session : t # s => pc'[t] = pc[t] /\ blocked'[t] = blocked[t]
      /\ UNCHANGED <<now, bans, disturbed, todo, judged, name, address, at>>
  BY DEF ClearBlacklist, TypeInv, TypeOK, session
<1>2. Judged'
  BY <1>1 DEF HoldsInv, Judged
<1>3. SUFFICES ASSUME ~ disturbed PROVE Alone' /\ Written' /\ Gathered' /\ Cleared'
  BY <1>1, <1>2 DEF HoldsInv
<1>4. /\ \A t \in Session : t # s => pc[t] = "idle" /\ handle[t] = "closed"
      /\ handle[s] = "closed"
  BY <1>1, <1>3, OthersIdle DEF Busy, TypeInv, Opened
<1>5. Alone'
  BY <1>1, <1>3, <1>4 DEF ClearBlacklist, HoldsInv, Alone, Busy
<1>6. \A b \in bans : Lasts(b, judged[s]) => Recorded(b, todo[s])
  BY <1>1, <1>3, NotRecorded DEF HoldsInv, Gathered
<1>7. \A b \in bans : Lasts(b, now) => Lasts(b, judged[s])
  <2> TAKE b \in bans
  <2>1. b.time \in Nat /\ now \in Nat /\ judged[s] \in Nat /\ judged[s] <= now
    BY DEF HoldsInv, Judged, TypeInv, TypeOK, Ban
  <2> QED BY <2>1, LoginAssumption DEF Lasts
<1>8. Written' /\ Gathered'
  BY <1>1, <1>4, <1>6, <1>7 DEF Written, Gathered
<1>9. ~ blocked'[s] => \A b \in bans : ~ InForce(b, s, judged[s])
  BY <1>1, <1>6 DEF ContainsUser, Recorded, InForce, Lasts
<1>10. Cleared'
  BY <1>1, <1>4, <1>9 DEF Cleared, Passed, InForce
<1> QED BY <1>5, <1>8, <1>10

LEMMA AppendBanHolds ==
  ASSUME TypeInv, HoldsInv, NEW s \in Session, AppendBan(s)
  PROVE  HoldsInv'
<1>1. /\ todo[s] \in Seq(Ban) /\ todo[s] # <<>> /\ listed \in Seq(Ban)
      /\ pc[s] \in {"rewrite", "ban"}
  BY DEF AppendBan, TypeInv, TypeOK, Opened
<1>2. /\ todo'[s] = Tail(todo[s]) /\ handle[s] # "closed" /\ handle'[s] = "closed"
      /\ listed' = IF handle[s] = "listed" THEN Append(listed, Head(todo[s])) ELSE listed
      /\ \A t \in Session : t # s => todo'[t] = todo[t] /\ handle'[t] = handle[t]
      /\ UNCHANGED <<now, bans, lines, pc, blocked, at, judged, name, address, result, disturbed>>
  BY DEF AppendBan, TypeInv, TypeOK, session
<1>3. Judged'
  BY <1>2 DEF HoldsInv, Judged
<1>4. SUFFICES ASSUME ~ disturbed PROVE Alone' /\ Written' /\ Gathered' /\ Cleared'
  BY <1>2, <1>3 DEF HoldsInv
<1>5. /\ \A t \in Session : t # s => pc[t] = "idle"
      /\ handle[s] = "listed"
  BY <1>1, <1>2, <1>4, OthersIdle DEF Busy, TypeInv, TypeOK
<1>6. Alone' /\ Cleared'
  BY <1>2, <1>4, <1>5 DEF HoldsInv, Alone, Busy, Cleared, Passed, InForce
<1>7. Gathered'
  BY <1>1, <1>2, <1>5 DEF Gathered
<1>8. ASSUME NEW b \in bans, Lasts(b, now)
      PROVE  Recorded(b, listed') \/ Recorded(b, todo'[s])
  <2>1. b \in Ban /\ Head(todo[s]) \in Ban
    BY <1>1, ListFacts DEF TypeInv, TypeOK
  <2>2. Recorded(b, listed) \/ Recorded(b, todo[s])
    BY <1>4, <1>5, <1>8 DEF HoldsInv, Written
  <2> QED BY <1>1, <1>2, <1>5, <2>1, <2>2, RecordedFacts
<1>9. Written'
  BY <1>1, <1>2, <1>8 DEF Written
<1> QED BY <1>6, <1>7, <1>9

LEMMA ThirdFailureHolds ==
  ASSUME TypeInv, HoldsInv, NEW s \in Session, ThirdFailure(s)
  PROVE  HoldsInv'
<1>1. PICK ban : ban = [name |-> name[s], address |-> address[s], time |-> now]
  OBVIOUS
<1>2. /\ pc[s] = "count" /\ pc'[s] = "ban" /\ todo'[s] = <<ban>> /\ bans' = bans \cup {ban}
      /\ \A t \in Session : t # s => todo'[t] = todo[t] /\ pc'[t] = pc[t]
      /\ UNCHANGED <<now, listed, judged, handle, disturbed>>
  BY <1>1 DEF ThirdFailure, TypeInv, TypeOK
<1>3. Judged'
  BY <1>2 DEF HoldsInv, Judged
<1>4. SUFFICES ASSUME ~ disturbed PROVE Alone' /\ Written' /\ Gathered' /\ Cleared'
  BY <1>2, <1>3 DEF HoldsInv
<1>5. \A t \in Session : t # s => pc[t] = "idle"
  BY <1>2, <1>4, OthersIdle DEF Busy
<1>6. Alone' /\ Gathered' /\ Cleared'
  BY <1>2, <1>4, <1>5 DEF HoldsInv, Alone, Busy, Gathered, Cleared, Passed
<1>7. Recorded(ban, <<ban>>)
  <2>1. ban.time >= ban.time
    BY <1>1 DEF TypeInv, TypeOK
  <2> QED BY <2>1 DEF Recorded
<1>8. \A b \in bans : Lasts(b, now) => Recorded(b, listed)
  BY <1>2, <1>4, <1>5 DEF HoldsInv, Written
<1>9. Written'
  BY <1>2, <1>7, <1>8 DEF Written
<1> QED BY <1>6, <1>9

\* The steps that neither touch a list nor ask the clock.
LEMMA OtherStepHolds ==
  ASSUME TypeInv, HoldsInv, NEW s \in Session,
         \/ OpenList(s) \/ Checked(s) \/ Accepted(s) \/ Refused(s)
         \/ CountFailure(s) \/ Banned(s) \/ Assign(s) \/ Reply(s)
  PROVE  HoldsInv'
<1>1. /\ UNCHANGED <<now, listed, lines, todo, bans, address, disturbed>>
      /\ \A t \in Session : t # s => /\ pc'[t] = pc[t] /\ handle'[t] = handle[t]
                                    /\ judged'[t] = judged[t]
      /\ Busy(s) /\ pc'[s] # "filter" /\ pc'[s] # "load"
      /\ judged'[s] \in {judged[s], 0} /\ handle'[s] \in {handle[s], "listed"}
      /\ pc[s] \in {"rewrite", "ban"} => pc'[s] = pc[s] \/ todo[s] = <<>>
      /\ Passed(s)' => Passed(s) /\ UNCHANGED <<judged, name, at>>
  BY DEF OpenList, Checked, Accepted, Refused, CountFailure, Banned, Assign, Reply,
         TypeInv, TypeOK, session, Busy, Passed
<1>2. Judged'
  BY <1>1, Clock DEF HoldsInv, Judged
<1>3. SUFFICES ASSUME ~ disturbed PROVE Alone' /\ Written' /\ Gathered' /\ Cleared'
  BY <1>1, <1>2 DEF HoldsInv
<1>4. \A t \in Session : t # s => pc[t] = "idle"
  BY <1>1, <1>3, OthersIdle
<1>5. Alone' /\ Gathered'
  BY <1>1, <1>3, <1>4 DEF HoldsInv, Alone, Gathered, Busy
<1>6. Written'
  BY <1>1, <1>3, <1>4, NotRecorded DEF HoldsInv, Written
<1>7. Cleared'
  <2>1. \A t \in Session : t # s => ~ Passed(t)'
    BY <1>1, <1>4 DEF Passed
  <2> QED BY <1>1, <1>3, <2>1 DEF HoldsInv, Cleared, InForce
<1> QED BY <1>5, <1>6, <1>7

LEMMA NextHolds == TypeInv /\ HoldsInv /\ [Next]_vars => HoldsInv'
<1> SUFFICES ASSUME TypeInv, HoldsInv, [Next]_vars PROVE HoldsInv'
  OBVIOUS
<1>1. ASSUME NEW s \in Session, Connect(s) PROVE HoldsInv'
  <2>1. /\ UNCHANGED <<now, listed, lines, todo, bans, pc, blocked, handle, result,
                       at, judged, name, disturbed>>
        /\ pc[s] = "idle"
        /\ \A t \in Session : t # s => address'[t] = address[t]
    BY <1>1 DEF Connect, TypeInv, TypeOK, thread, Busy
  <2> QED BY <2>1 DEF HoldsInv, Judged, Alone, Written, Gathered, Cleared, Passed, InForce, Busy
<1>2. ASSUME NEW s \in Session, NEW n \in User, Attempt(s, n) PROVE HoldsInv'
  <2>1. /\ UNCHANGED <<now, listed, lines, todo, bans, blocked, handle, result,
                       at, judged, address>>
        /\ pc[s] = "idle" /\ pc'[s] = "load"
        /\ \A t \in Session : t # s => name'[t] = name[t] /\ pc'[t] = pc[t]
        /\ ~ disturbed' => ~ disturbed /\ \A t \in Session : ~ Busy(t)
    BY <1>2 DEF Attempt, TypeInv, TypeOK, session, Busy
  <2>2. Judged'
    BY <2>1 DEF HoldsInv, Judged
  <2>3. ~ disturbed' => Alone' /\ Written' /\ Gathered' /\ Cleared'
    BY <2>1 DEF HoldsInv, Alone, Written, Gathered, Cleared, Passed, InForce, Busy
  <2> QED BY <2>2, <2>3 DEF HoldsInv
<1>3. ASSUME Tick PROVE HoldsInv'
  <2>1. /\ UNCHANGED <<listed, lines, todo, bans, pc, blocked, handle, result,
                       at, judged, name, address, disturbed>>
        /\ now \in Nat /\ now' = now + 1 /\ bans \subseteq Ban
    BY <1>3 DEF Tick, TypeInv, TypeOK, thread, session
  <2>2. Judged'
    BY <2>1 DEF HoldsInv, Judged, TypeInv, TypeOK
  <2>3. \A b \in bans : Lasts(b, now)' => Lasts(b, now)
    BY <2>1, LoginAssumption DEF Lasts, Ban
  <2>4. ~ disturbed => Written'
    BY <2>1, <2>3 DEF HoldsInv, Written
  <2>5. ~ disturbed => Alone' /\ Gathered' /\ Cleared'
    BY <2>1 DEF HoldsInv, Alone, Gathered, Cleared, Passed, InForce, Busy, Lasts
  <2> QED BY <2>1, <2>2, <2>4, <2>5 DEF HoldsInv
<1>4. ASSUME Killed PROVE HoldsInv'
  <2>1. /\ UNCHANGED <<now, listed, bans>>
        /\ \A s \in Session : pc'[s] = "idle" /\ handle'[s] = "closed" /\ judged'[s] = 0
        /\ ~ disturbed' => ~ disturbed /\ \A s \in Session : ~ Busy(s)
    BY <1>4 DEF Killed
  <2>2. Judged' /\ Alone' /\ Gathered' /\ Cleared'
    BY <2>1 DEF Judged, Alone, Gathered, Cleared, Passed, Busy, TypeInv, TypeOK
  <2>3. ~ disturbed' => Written'
    BY <2>1 DEF HoldsInv, Written, Busy
  <2> QED BY <2>2, <2>3 DEF HoldsInv
<1>5. ASSUME UNCHANGED vars PROVE HoldsInv'
  BY <1>5 DEF vars, thread, session, HoldsInv, Judged, Alone, Written, Gathered, Cleared, Passed,
              InForce, Busy
<1> QED BY <1>1, <1>2, <1>3, <1>4, <1>5, LoadHolds, FilterLineHolds, ClearBlacklistHolds,
           AppendBanHolds, ThirdFailureHolds, OtherStepHolds DEF Next, Step

(***************************************************************************)
(* As long as no LOGIN overlapped another and none was cut off, none is    *)
(* accepted that a ban in force covers, for any number of rewritings of    *)
(* the list, and with any conversion of times that moves them forward.     *)
(***************************************************************************)
THEOREM BansHold == Spec => []BanHolds
<1>1. HoldsInv => BanHolds
  BY DEF HoldsInv, Cleared, Passed, BanHolds
<1> QED BY InitHolds, NextHolds, <1>1, TypeInvariant, PTL DEF Spec
-----------------------------------------------------------------------------
\* A connection that sent no LOGIN since the process started.
Fresh == \A s \in Session : s \notin seen => pc[s] = "idle" /\ attempts[s] = 0 /\ inarow[s] = NoFailure

Raced == \A s \in racing : \E r \in seen : r # s

Named == \A s \in Session : inarow[s].count = 0 => inarow[s].name = NoName

\* The code's two variables say what the last failures in a row were.
Even(s) == /\ attempts[s] = inarow[s].count
           /\ inarow[s].count > 0 => previous = inarow[s].name

Counting(s) ==
  /\ pc[s] \in {"idle", "load", "filter", "rewrite", "check"} => Even(s)
  /\ pc[s] = "count" =>
       /\ inarow[s].name = name[s]
       /\ inarow[s].count = IF previous = name[s] THEN attempts[s] + 1 ELSE 1
  /\ pc[s] = "assign" =>
       inarow[s].name = name[s] /\ attempts[s] = inarow[s].count /\ inarow[s].count < 3
  /\ pc[s] = "ban" => inarow[s].count = 3 /\ attempts[s] = 0
  /\ pc[s] = "reply" => IF inarow[s].count = 3 THEN attempts[s] = 0 ELSE Even(s)
  /\ pc[s] = "reply" /\ ~ blocked[s] => (result[s] = "BLOCKED" <=> inarow[s].count = 3)

StrikesInv == Fresh /\ Raced /\ Named /\ \A s \in Session : seen = {s} => Counting(s)

LEMMA InitStrikes == Init => StrikesInv
BY DEF Init, StrikesInv, Fresh, Raced, Named, Counting, Even, NoFailure

\* A step of a thread changes no other connection's count.
LEMMA StepOfOne ==
  ASSUME TypeInv, StrikesInv, NEW s \in Session, s \in seen, seen' = seen,
         \A t \in Session : t # s =>
            pc'[t] = pc[t] /\ attempts'[t] = attempts[t] /\ inarow'[t] = inarow[t],
         \A t \in racing' : t \in racing \/ (\E r \in seen : r # t),
         inarow'[s].count = 0 => inarow'[s].name = NoName,
         seen = {s} => Counting(s)'
  PROVE  StrikesInv'
<1>1. Fresh'
  BY DEF StrikesInv, Fresh
<1>2. Raced' /\ Named'
  BY DEF StrikesInv, Raced, Named
<1> QED BY <1>1, <1>2 DEF StrikesInv

LEMMA SeenWhileBusy ==
  ASSUME StrikesInv, NEW s \in Session, pc[s] # "idle"
  PROVE  s \in seen
BY DEF StrikesInv, Fresh

\* While only one connection has tried, no assignment to previousLoginName
\* overlaps another, and the comparison sees the string as it is.
LEMMA NoRace ==
  ASSUME StrikesInv, NEW s \in Session, seen = {s}
  PROVE  s \notin racing /\ (pc[s] # "assign" => SameName(s) = {previous = name[s]})
BY DEF StrikesInv, Fresh, Raced, SameName

LEMMA RefusedStrikes ==
  ASSUME TypeInv, StrikesInv, NEW s \in Session, Refused(s)
  PROVE  StrikesInv'
<1>1. PICK c : c = IF inarow[s].name = name[s] THEN inarow[s].count + 1 ELSE 1
  OBVIOUS
<1>2. /\ pc[s] = "check" /\ pc'[s] = "count"
      /\ inarow'[s] = [name |-> name[s], count |-> c]
      /\ \A t \in Session : t # s => pc'[t] = pc[t] /\ inarow'[t] = inarow[t]
      /\ UNCHANGED <<attempts, previous, name, seen, racing>>
  BY <1>1 DEF Refused, TypeInv, TypeOK, session
<1>3. inarow[s].count \in 0..2 /\ name[s] \in User /\ s \in seen
  BY <1>2, SeenWhileBusy DEF TypeInv, TypeOK, Counted, Busy
<1>4. inarow[s].name = name[s] => inarow[s].count > 0
  BY <1>3, LoginAssumption DEF StrikesInv, Named
<1>5. seen = {s} => Counting(s)'
  <2> SUFFICES ASSUME seen = {s} PROVE Counting(s)'
    OBVIOUS
  <2>1. Even(s)
    BY <1>2 DEF StrikesInv, Counting
  <2>2. c = IF previous = name[s] THEN attempts[s] + 1 ELSE 1
    BY <1>1, <1>3, <1>4, <2>1 DEF Even
  <2> QED BY <1>2, <2>2 DEF Counting
<1>6. c # 0
  BY <1>1, <1>3
<1> QED BY <1>2, <1>3, <1>5, <1>6, StepOfOne

LEMMA CountFailureStrikes ==
  ASSUME TypeInv, StrikesInv, NEW s \in Session, CountFailure(s)
  PROVE  StrikesInv'
<1>1. PICK same \in SameName(s) :
        /\ same => attempts[s] + 1 < 3
        /\ attempts' = [attempts EXCEPT ![s] = IF same THEN attempts[s] + 1 ELSE 1]
  BY DEF CountFailure
<1>2. /\ pc[s] = "count" /\ pc'[s] = "assign" /\ attempts[s] \in 0..2
      /\ attempts'[s] = IF same THEN attempts[s] + 1 ELSE 1
      /\ \A t \in Session : t # s => pc'[t] = pc[t] /\ attempts'[t] = attempts[t]
      /\ UNCHANGED <<inarow, previous, name, seen>>
  BY <1>1 DEF CountFailure, TypeInv, TypeOK
<1>3. s \in seen
  BY <1>2, SeenWhileBusy
<1>4. \A t \in racing' : t \in racing \/ (\E r \in seen : r # t)
  BY <1>2, <1>3, SeenWhileBusy DEF CountFailure
<1>5. seen = {s} => Counting(s)'
  <2> SUFFICES ASSUME seen = {s} PROVE Counting(s)'
    OBVIOUS
  <2>1. same <=> previous = name[s]
    <3>1. pc[s] # "assign"
      BY <1>2
    <3>2. same \in {previous = name[s]}
      BY <1>1, <3>1, NoRace
    <3>3. same = (previous = name[s])
      BY <3>2
    <3> QED BY <3>3
  <2>2. /\ inarow[s].name = name[s]
        /\ inarow[s].count = IF previous = name[s] THEN attempts[s] + 1 ELSE 1
    BY <1>2 DEF StrikesInv, Counting
  <2>3. attempts'[s] = inarow[s].count /\ inarow[s].count < 3
    BY <1>1, <1>2, <2>1, <2>2
  <2> QED BY <1>2, <2>2, <2>3 DEF Counting
<1>6. inarow'[s].count = 0 => inarow'[s].name = NoName
  BY <1>2 DEF StrikesInv, Named
<1> QED BY <1>2, <1>3, <1>4, <1>5, <1>6, StepOfOne

LEMMA ThirdFailureStrikes ==
  ASSUME TypeInv, StrikesInv, NEW s \in Session, ThirdFailure(s)
  PROVE  StrikesInv'
<1>1. /\ pc[s] = "count" /\ pc'[s] = "ban" /\ attempts[s] \in 0..2 /\ attempts[s] + 1 >= 3
      /\ attempts'[s] = 0 /\ TRUE \in SameName(s)
      /\ \A t \in Session : t # s => pc'[t] = pc[t] /\ attempts'[t] = attempts[t]
      /\ UNCHANGED <<inarow, seen, racing>>
  BY DEF ThirdFailure, TypeInv, TypeOK
<1>2. s \in seen
  BY <1>1, SeenWhileBusy
<1>3. seen = {s} => Counting(s)'
  <2> SUFFICES ASSUME seen = {s} PROVE Counting(s)'
    OBVIOUS
  <2>1. previous = name[s]
    BY <1>1, NoRace
  <2>2. inarow[s].count = 3
    BY <1>1, <2>1 DEF StrikesInv, Counting
  <2> QED BY <1>1, <2>2 DEF Counting
<1>4. inarow'[s].count = 0 => inarow'[s].name = NoName
  BY <1>1 DEF StrikesInv, Named
<1> QED BY <1>1, <1>2, <1>3, <1>4, StepOfOne

LEMMA AssignStrikes ==
  ASSUME TypeInv, StrikesInv, NEW s \in Session, Assign(s)
  PROVE  StrikesInv'
<1>1. /\ pc[s] = "assign" /\ pc'[s] = "reply" /\ result'[s] = "ERR"
      /\ \A t \in Session : t # s => pc'[t] = pc[t]
      /\ racing' \subseteq racing
      /\ s \notin racing => previous' = name[s]
      /\ UNCHANGED <<attempts, inarow, name, blocked, seen>>
  BY DEF Assign, TypeInv, TypeOK, session
<1>2. s \in seen
  BY <1>1, SeenWhileBusy
<1>3. seen = {s} => Counting(s)'
  BY <1>1, NoRace DEF StrikesInv, Counting, Even
<1>4. inarow'[s].count = 0 => inarow'[s].name = NoName
  BY <1>1 DEF StrikesInv, Named
<1> QED BY <1>1, <1>2, <1>3, <1>4, StepOfOne

LEMMA AcceptedStrikes ==
  ASSUME TypeInv, StrikesInv, NEW s \in Session, Accepted(s)
  PROVE  StrikesInv'
<1>1. /\ pc[s] = "check" /\ pc'[s] = "reply" /\ result'[s] = "OK"
      /\ attempts'[s] = 0 /\ inarow'[s].count = 0 /\ inarow'[s].name = NoName
      /\ \A t \in Session : t # s =>
           pc'[t] = pc[t] /\ attempts'[t] = attempts[t] /\ inarow'[t] = inarow[t]
      /\ UNCHANGED <<racing, seen>>
  BY DEF Accepted, TypeInv, TypeOK, NoFailure
<1>2. s \in seen
  BY <1>1, SeenWhileBusy
<1>3. seen = {s} => Counting(s)'
  BY <1>1 DEF Counting, Even
<1> QED BY <1>1, <1>2, <1>3, StepOfOne

LEMMA ReplyStrikes ==
  ASSUME TypeInv, StrikesInv, NEW s \in Session, Reply(s)
  PROVE  StrikesInv'
<1>1. /\ pc[s] = "reply" /\ pc'[s] = "idle"
      /\ inarow'[s] = IF inarow[s].count = 3 THEN NoFailure ELSE inarow[s]
      /\ \A t \in Session : t # s => pc'[t] = pc[t] /\ inarow'[t] = inarow[t]
      /\ UNCHANGED <<attempts, previous, racing, seen>>
  BY DEF Reply, TypeInv, TypeOK, session
<1>2. s \in seen
  BY <1>1, SeenWhileBusy
<1>3. seen = {s} => Counting(s)'
  BY <1>1 DEF StrikesInv, Counting, Even, NoFailure
<1>4. inarow'[s].count = 0 => inarow'[s].name = NoName
  BY <1>1 DEF StrikesInv, Named, NoFailure
<1> QED BY <1>1, <1>2, <1>3, <1>4, StepOfOne

\* The list of bans decides nothing about the counts.
LEMMA ListStepStrikes ==
  ASSUME TypeInv, StrikesInv, NEW s \in Session,
         \/ Load(s) \/ FilterLine(s) \/ ClearBlacklist(s) \/ OpenList(s) \/ AppendBan(s)
         \/ Checked(s) \/ Banned(s)
  PROVE  StrikesInv'
<1>1. /\ \A t \in Session : t # s => pc'[t] = pc[t]
      /\ pc[s] \in {"load", "filter", "rewrite", "ban"}
      /\ UNCHANGED <<attempts, inarow, previous, racing, seen>>
      /\ pc[s] # "ban" =>
           \/ pc'[s] \in {"load", "filter", "rewrite", "check"}
           \/ pc'[s] = "reply" /\ blocked'[s]
      /\ pc[s] = "ban" => pc'[s] = "ban" \/ (pc'[s] = "reply" /\ result'[s] = "BLOCKED")
  BY DEF Load, FilterLine, ClearBlacklist, OpenList, AppendBan, Checked, Banned,
         TypeInv, TypeOK, Opened, session
<1>2. s \in seen
  BY <1>1, SeenWhileBusy
<1>3. pc[s] # "ban" => inarow[s].count < 3
  BY <1>1 DEF TypeInv, Counted
<1>4. seen = {s} => Counting(s)'
  BY <1>1, <1>3 DEF StrikesInv, Counting, Even
<1>5. inarow'[s].count = 0 => inarow'[s].name = NoName
  BY <1>1 DEF StrikesInv, Named
<1> QED BY <1>1, <1>2, <1>4, <1>5, StepOfOne

LEMMA NextStrikes == TypeInv /\ StrikesInv /\ [Next]_vars => StrikesInv'
<1> SUFFICES ASSUME TypeInv, StrikesInv, [Next]_vars PROVE StrikesInv'
  OBVIOUS
<1>1. ASSUME NEW s \in Session, Connect(s) PROVE StrikesInv'
  <2>1. /\ pc[s] = "idle" /\ attempts'[s] = 0 /\ inarow'[s] = NoFailure
        /\ \A t \in Session : t # s => attempts'[t] = attempts[t] /\ inarow'[t] = inarow[t]
        /\ UNCHANGED <<pc, previous, name, blocked, result, racing, seen>>
    BY <1>1 DEF Connect, TypeInv, TypeOK, thread, Busy
  <2> QED BY <2>1 DEF StrikesInv, Fresh, Raced, Named, Counting, Even, NoFailure
<1>2. ASSUME NEW s \in Session, NEW n \in User, Attempt(s, n) PROVE StrikesInv'
  <2>1. /\ pc[s] = "idle" /\ pc'[s] = "load" /\ seen' = seen \cup {s}
        /\ \A t \in Session : t # s => pc'[t] = pc[t]
        /\ UNCHANGED <<attempts, inarow, previous, racing>>
    BY <1>2 DEF Attempt, TypeInv, TypeOK, session, Busy
  <2>2. Fresh' /\ Raced' /\ Named'
    BY <2>1 DEF StrikesInv, Fresh, Raced, Named
  <2>3. Even(s) \/ seen' # {s}
    <3>1. CASE s \in seen
      BY <2>1, <3>1 DEF StrikesInv, Counting
    <3>2. CASE s \notin seen
      BY <3>2 DEF StrikesInv, Fresh, Even, NoFailure
    <3> QED BY <3>1, <3>2
  <2>4. ASSUME NEW t \in Session, seen' = {t} PROVE Counting(t)'
    <3>1. t = s
      BY <2>1, <2>4
    <3> QED BY <2>1, <2>3, <2>4, <3>1 DEF Counting, Even
  <2> QED BY <2>2, <2>4 DEF StrikesInv
<1>3. ASSUME Killed PROVE StrikesInv'
  BY <1>3 DEF Killed, StrikesInv, Fresh, Raced, Named, NoFailure
<1>4. ASSUME Tick \/ UNCHANGED vars PROVE StrikesInv'
  BY <1>4 DEF Tick, vars, thread, session, StrikesInv, Fresh, Raced, Named, Counting, Even
<1> QED BY <1>1, <1>2, <1>3, <1>4, RefusedStrikes, CountFailureStrikes, ThirdFailureStrikes,
           AssignStrikes, AcceptedStrikes, ReplyStrikes, ListStepStrikes DEF Next, Step

(***************************************************************************)
(* As long as no other connection has tried to log in, the third failure   *)
(* in a row of one name, and no other, is answered with BLOCKED, for any   *)
(* number of names tried on the connection.                                *)
(***************************************************************************)
THEOREM ThreeStrikesOnly == Spec => []ThreeStrikes
<1>1. StrikesInv => ThreeStrikes
  BY DEF StrikesInv, Counting, ThreeStrikes
<1> QED BY InitStrikes, NextStrikes, <1>1, TypeInvariant, PTL DEF Spec
=============================================================================
