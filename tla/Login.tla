-------------------------------- MODULE Login --------------------------------
(***************************************************************************)
(* The LOGIN command and the list of blocked users                         *)
(* (tw-mailer/src/server/Command.cpp: Login, CheckBlacklist, BlacklistUser,*)
(* ClearBlacklist, ContainsUser, CheckLoginData).                          *)
(*                                                                         *)
(* Every LOGIN reads the file BLACKLIST line by line, removes it, and      *)
(* appends the bans that had not expired one by one.  Three failures in a  *)
(* row append a new ban.  No lock is held over any of this, and the name   *)
(* the last failure was about is one static string for all threads.        *)
(***************************************************************************)
EXTENDS Integers, Sequences

CONSTANTS
  Session,   \* the connections, each with a thread of its own
  User,      \* the names clients log in with
  Address,   \* the addresses clients connect from
  NoName,    \* the empty string
  Torn,      \* what two assignments of a string at once may leave
  BanTime,   \* how long a ban lasts: the 60 seconds of the code
  Shift,     \* how far a time moves when it is written and read again:
             \* std::mktime takes local time for winter time
  MaxTime,   \* a bound on the clock
  MaxTries,  \* a bound on the LOGINs of all sessions together
  Fault      \* "kill" when the process may end at any time

ASSUME LoginAssumption ==
  /\ NoName \notin User /\ Torn \notin User /\ NoName # Torn
  /\ BanTime \in Nat \ {0}
  /\ Shift \in Nat /\ MaxTime \in Nat /\ MaxTries \in Nat
  /\ Fault \subseteq {"kill"}

VARIABLES
  now,       \* std::time(nullptr)
  listed,    \* the lines of BLACKLIST; a file that is not there has none
  previous,  \* previousLoginName
  pc,        \* what the thread of a session does next
  address,   \* mSessionData.second
  user,      \* mSessionData.first
  attempts,  \* mFailedAttempts
  name,      \* the user name of the LOGIN being executed
  blocked,   \* does the list that was read name the user and the address
  lines,     \* the lines of the file that are not read yet
  todo,      \* the bans still to be appended to the file
  handle,    \* is the file open for the next of them, and still the one listed
  result     \* what Login returns

\* What happened, for the properties to refer to; the code has none of it.
VARIABLES
  tries,     \* how many LOGINs there were, for the bound MaxTries only
  seen,      \* the connections that sent a LOGIN since the process started
  bans,      \* every ban that was ever imposed
  at,        \* when the thread opened the list
  judged,    \* when it last asked the clock whether a ban is over
  inarow,    \* the last name that failed on the connection, and how often
  racing,    \* the threads whose assignments to previousLoginName overlap
  disturbed  \* did two LOGINs ever overlap, or a crash ever interrupt one

session == <<address, user, attempts>>
thread  == <<pc, name, blocked, lines, todo, handle, result>>
vars    == <<now, listed, previous, session, thread,
             tries, seen, bans, at, judged, inarow, racing, disturbed>>

Ban == [name : User, address : Address, time : Nat]

Busy(s) == pc[s] # "idle"

\* A ban as it is read back: written with localtime, read with mktime.
AsRead(b) == [b EXCEPT !.time = @ + Shift]

\* Broken: a ban ends one unit early, or one late.
ExpiredEarly(b) == now - b.time >= BanTime - 1
ExpiredLate(b) == now - b.time > BanTime

Expired(b) == now - b.time >= BanTime

\* The file may be there and empty while a thread is about to append to it.
ListExists == listed # <<>> \/ \E t \in Session : handle[t] = "listed"

ContainsUser(list, n, a) ==
  \E i \in 1..Len(list) : list[i].name = n /\ list[i].address = a

NoFailure == [name |-> NoName, count |-> 0]

Init ==
  /\ now = 0
  /\ listed = <<>>
  /\ previous = NoName
  /\ pc = [s \in Session |-> "idle"]
  /\ address \in [Session -> Address]
  /\ user = [s \in Session |-> NoName]
  /\ attempts = [s \in Session |-> 0]
  /\ name = [s \in Session |-> NoName]
  /\ blocked = [s \in Session |-> FALSE]
  /\ lines = [s \in Session |-> <<>>]
  /\ todo = [s \in Session |-> <<>>]
  /\ handle = [s \in Session |-> "closed"]
  /\ result = [s \in Session |-> "none"]
  /\ tries = 0
  /\ seen = {}
  /\ bans = {}
  /\ at = [s \in Session |-> 0]
  /\ judged = [s \in Session |-> 0]
  /\ inarow = [s \in Session |-> NoFailure]
  /\ racing = {}
  /\ disturbed = FALSE
-----------------------------------------------------------------------------
\* A new connection in place of an old one: a new Command object.
Connect(s) ==
  /\ ~ Busy(s)
  /\ attempts[s] # 0 \/ user[s] # NoName
  /\ attempts' = [attempts EXCEPT ![s] = 0]
  /\ user' = [user EXCEPT ![s] = NoName]
  /\ \E a \in Address : address' = [address EXCEPT ![s] = a]
  /\ inarow' = [inarow EXCEPT ![s] = NoFailure]
  /\ UNCHANGED <<now, listed, previous, thread, tries, seen, bans, at, judged, racing, disturbed>>

Attempt(s, n) ==
  /\ ~ Busy(s)
  /\ tries < MaxTries
  /\ tries' = tries + 1
  /\ seen' = seen \cup {s}
  /\ pc' = [pc EXCEPT ![s] = "load"]
  /\ name' = [name EXCEPT ![s] = n]
  /\ disturbed' = (disturbed \/ \E t \in Session : Busy(t))
  /\ UNCHANGED <<now, listed, previous, session, blocked, lines, todo, handle, result,
                 bans, at, judged, inarow, racing>>

\* CheckBlacklist opens the list, which fits into the buffer of the stream.
\* A list that is not there is not written again either.
Load(s) ==
  /\ pc[s] = "load"
  /\ lines' = [lines EXCEPT ![s] = listed]
  /\ todo' = [todo EXCEPT ![s] = <<>>]
  /\ pc' = [pc EXCEPT ![s] = IF ListExists THEN "filter" ELSE "check"]
  /\ at' = [at EXCEPT ![s] = now]
  /\ judged' = [judged EXCEPT ![s] = now]
  /\ UNCHANGED <<now, listed, previous, session, name, blocked, handle, result,
                 tries, seen, bans, inarow, racing, disturbed>>

\* One line: the clock is asked again for each of them.
FilterLine(s) ==
  LET ban == AsRead(Head(lines[s]))
  IN /\ pc[s] = "filter"
     /\ lines[s] # <<>>
     /\ lines' = [lines EXCEPT ![s] = Tail(@)]
     /\ todo' = [todo EXCEPT ![s] = IF Expired(ban) THEN @ ELSE Append(@, ban)]
     /\ judged' = [judged EXCEPT ![s] = now]
     /\ UNCHANGED <<now, listed, previous, session, pc, name, blocked, handle, result,
                    tries, seen, bans, at, inarow, racing, disturbed>>

\* What a thread has open by now is no longer the listed file.  The bans that
\* were kept decide; the code looks at them when they are back in the file.
ClearBlacklist(s) ==
  /\ pc[s] = "filter"
  /\ lines[s] = <<>>
  /\ listed' = <<>>
  /\ handle' = [t \in Session |-> IF handle[t] = "listed" THEN "removed" ELSE handle[t]]
  /\ blocked' = [blocked EXCEPT ![s] = ContainsUser(todo[s], name[s], address[s])]
  /\ pc' = [pc EXCEPT ![s] = "rewrite"]
  /\ UNCHANGED <<now, previous, session, name, lines, todo, result,
                 tries, seen, bans, at, judged, inarow, racing, disturbed>>

\* BlacklistUser, from CheckBlacklist or from Login: open with std::ios::app.
OpenList(s) ==
  /\ pc[s] \in {"rewrite", "ban"}
  /\ todo[s] # <<>>
  /\ handle[s] = "closed"
  /\ handle' = [handle EXCEPT ![s] = "listed"]
  /\ UNCHANGED <<now, listed, previous, session, pc, name, blocked, lines, todo, result,
                 tries, seen, bans, at, judged, inarow, racing, disturbed>>

\* The line is written when the file is closed.
AppendBan(s) ==
  /\ handle[s] # "closed"
  /\ listed' = IF handle[s] = "listed" THEN Append(listed, Head(todo[s])) ELSE listed
  /\ todo' = [todo EXCEPT ![s] = Tail(@)]
  /\ handle' = [handle EXCEPT ![s] = "closed"]
  /\ UNCHANGED <<now, previous, session, pc, name, blocked, lines, result,
                 tries, seen, bans, at, judged, inarow, racing, disturbed>>

\* The end of CheckBlacklist.
Checked(s) ==
  /\ pc[s] = "rewrite"
  /\ todo[s] = <<>>
  /\ pc' = [pc EXCEPT ![s] = IF blocked[s] THEN "reply" ELSE "check"]
  /\ result' = [result EXCEPT ![s] = IF blocked[s] THEN "BLOCKED" ELSE @]
  /\ UNCHANGED <<now, listed, previous, session, name, blocked, lines, todo, handle,
                 tries, seen, bans, at, judged, inarow, racing, disturbed>>

\* Broken: a success leaves the failures counted.
AcceptedWithoutReset(s) ==
  /\ pc[s] = "check"
  /\ user' = [user EXCEPT ![s] = name[s]]
  /\ result' = [result EXCEPT ![s] = "OK"]
  /\ pc' = [pc EXCEPT ![s] = "reply"]
  /\ inarow' = [inarow EXCEPT ![s] = NoFailure]
  /\ UNCHANGED <<now, listed, previous, address, attempts, name, blocked, lines, todo, handle,
                 tries, seen, bans, at, judged, racing, disturbed>>

\* The directory accepts the name and the password.
Accepted(s) ==
  /\ pc[s] = "check"
  /\ attempts' = [attempts EXCEPT ![s] = 0]
  /\ user' = [user EXCEPT ![s] = name[s]]
  /\ result' = [result EXCEPT ![s] = "OK"]
  /\ pc' = [pc EXCEPT ![s] = "reply"]
  /\ inarow' = [inarow EXCEPT ![s] = NoFailure]
  /\ UNCHANGED <<now, listed, previous, address, name, blocked, lines, todo, handle,
                 tries, seen, bans, at, judged, racing, disturbed>>

\* The directory refuses them, or cannot be asked.
Refused(s) ==
  /\ pc[s] = "check"
  /\ pc' = [pc EXCEPT ![s] = "count"]
  /\ inarow' = [inarow EXCEPT ![s] =
       [name |-> name[s], count |-> IF @.name = name[s] THEN @.count + 1 ELSE 1]]
  /\ UNCHANGED <<now, listed, previous, session, name, blocked, lines, todo, handle, result,
                 tries, seen, bans, at, judged, racing, disturbed>>

\* previousLoginName == username; nobody knows the outcome while another
\* thread assigns to the string.
SameName(s) ==
  IF \E t \in Session : pc[t] = "assign" THEN BOOLEAN ELSE {previous = name[s]}

\* Broken: failures are counted beyond the third.
CountWithoutLimit(s) ==
  /\ pc[s] = "count"
  /\ \E same \in SameName(s) :
       attempts' = [attempts EXCEPT ![s] = IF same THEN @ + 1 ELSE 1]
  /\ pc' = [pc EXCEPT ![s] = "assign"]
  /\ racing' = racing \cup {t \in Session : pc[t] = "assign"}
                      \cup {t \in {s} : \E r \in Session : pc[r] = "assign"}
  /\ UNCHANGED <<now, listed, previous, address, user, name, blocked, lines, todo, handle, result,
                 tries, seen, bans, at, judged, inarow, disturbed>>

\* A failure that is not the third of its name.
CountFailure(s) ==
  /\ pc[s] = "count"
  /\ \E same \in SameName(s) :
       LET n == IF same THEN attempts[s] + 1 ELSE 1
       IN /\ same => n < 3
          /\ attempts' = [attempts EXCEPT ![s] = n]
  /\ pc' = [pc EXCEPT ![s] = "assign"]
  /\ racing' = racing \cup {t \in Session : pc[t] = "assign"}
                      \cup {t \in {s} : \E r \in Session : pc[r] = "assign"}
  /\ UNCHANGED <<now, listed, previous, address, user, name, blocked, lines, todo, handle, result,
                 tries, seen, bans, at, judged, inarow, disturbed>>

\* The third failure imposes a ban, and previousLoginName stays.
ThirdFailure(s) ==
  LET ban == [name |-> name[s], address |-> address[s], time |-> now]
  IN /\ pc[s] = "count"
     /\ TRUE \in SameName(s)
     /\ attempts[s] + 1 >= 3
     /\ attempts' = [attempts EXCEPT ![s] = 0]
     /\ todo' = [todo EXCEPT ![s] = <<ban>>]
     /\ bans' = bans \cup {ban}
     /\ pc' = [pc EXCEPT ![s] = "ban"]
     /\ UNCHANGED <<now, listed, previous, address, user, name, blocked, lines, handle, result,
                    tries, seen, at, judged, inarow, racing, disturbed>>

Banned(s) ==
  /\ pc[s] = "ban"
  /\ todo[s] = <<>>
  /\ result' = [result EXCEPT ![s] = "BLOCKED"]
  /\ pc' = [pc EXCEPT ![s] = "reply"]
  /\ UNCHANGED <<now, listed, previous, session, name, blocked, lines, todo, handle,
                 tries, seen, bans, at, judged, inarow, racing, disturbed>>

\* previousLoginName = username
Assign(s) ==
  /\ pc[s] = "assign"
  /\ \E n \in IF s \in racing THEN User \cup {Torn} ELSE {name[s]} : previous' = n
  /\ racing' = racing \ {s}
  /\ result' = [result EXCEPT ![s] = "ERR"]
  /\ pc' = [pc EXCEPT ![s] = "reply"]
  /\ UNCHANGED <<now, listed, session, name, blocked, lines, todo, handle,
                 tries, seen, bans, at, judged, inarow, disturbed>>

Reply(s) ==
  /\ pc[s] = "reply"
  /\ pc' = [pc EXCEPT ![s] = "idle"]
  /\ name' = [name EXCEPT ![s] = NoName]
  /\ blocked' = [blocked EXCEPT ![s] = FALSE]
  /\ result' = [result EXCEPT ![s] = "none"]
  /\ at' = [at EXCEPT ![s] = 0]
  /\ judged' = [judged EXCEPT ![s] = 0]
  /\ inarow' = [inarow EXCEPT ![s] = IF @.count = 3 THEN NoFailure ELSE @]
  /\ UNCHANGED <<now, listed, previous, session, lines, todo, handle,
                 tries, seen, bans, racing, disturbed>>
-----------------------------------------------------------------------------
Tick ==
  /\ now < MaxTime
  /\ now' = now + 1
  /\ UNCHANGED <<listed, previous, session, thread,
                 tries, seen, bans, at, judged, inarow, racing, disturbed>>

\* The process ends and is started again; only the file is left.
Killed ==
  /\ "kill" \in Fault
  /\ disturbed' = (disturbed \/ \E s \in Session : Busy(s))
  /\ seen' = {}
  /\ previous' = NoName
  /\ pc' = [s \in Session |-> "idle"]
  /\ address' \in [Session -> Address]
  /\ user' = [s \in Session |-> NoName]
  /\ attempts' = [s \in Session |-> 0]
  /\ name' = [s \in Session |-> NoName]
  /\ blocked' = [s \in Session |-> FALSE]
  /\ lines' = [s \in Session |-> <<>>]
  /\ todo' = [s \in Session |-> <<>>]
  /\ handle' = [s \in Session |-> "closed"]
  /\ result' = [s \in Session |-> "none"]
  /\ at' = [s \in Session |-> 0]
  /\ judged' = [s \in Session |-> 0]
  /\ inarow' = [s \in Session |-> NoFailure]
  /\ racing' = {}
  /\ UNCHANGED <<now, listed, tries, bans>>

Step(s) ==
  \/ Load(s)
  \/ FilterLine(s)
  \/ ClearBlacklist(s)
  \/ OpenList(s)
  \/ AppendBan(s)
  \/ Checked(s)
  \/ Accepted(s)
  \/ Refused(s)
  \/ CountFailure(s)
  \/ ThirdFailure(s)
  \/ Banned(s)
  \/ Assign(s)
  \/ Reply(s)

Next ==
  \/ \E s \in Session : Connect(s) \/ (\E n \in User : Attempt(s, n)) \/ Step(s)
  \/ Tick
  \/ Killed

Spec == Init /\ [][Next]_vars
-----------------------------------------------------------------------------
TypeOK ==
  /\ now \in Nat
  /\ listed \in Seq(Ban)
  /\ previous \in User \cup {NoName, Torn}
  /\ pc \in [Session -> {"idle", "load", "filter", "rewrite", "check", "count",
                         "ban", "assign", "reply"}]
  /\ address \in [Session -> Address]
  /\ user \in [Session -> User \cup {NoName}]
  /\ attempts \in [Session -> 0..2]
  /\ name \in [Session -> User \cup {NoName}]
  /\ \A s \in Session : Busy(s) => name[s] \in User
  /\ blocked \in [Session -> BOOLEAN]
  /\ lines \in [Session -> Seq(Ban)]
  /\ todo \in [Session -> Seq(Ban)]
  /\ handle \in [Session -> {"closed", "listed", "removed"}]
  /\ \A s \in Session : handle[s] # "closed" => todo[s] # <<>>
  /\ result \in [Session -> {"none", "OK", "ERR", "BLOCKED"}]
  /\ tries \in Nat
  /\ seen \subseteq Session
  /\ bans \subseteq Ban
  /\ at \in [Session -> Nat]
  /\ judged \in [Session -> Nat]
  /\ inarow \in [Session -> [name : User \cup {NoName}, count : 0..3]]
  /\ racing \subseteq Session
  /\ disturbed \in BOOLEAN

\* The ban b, imposed before the session opened the list, covers its LOGIN and
\* is in force at the time t.
InForce(b, s, t) ==
  /\ b.name = name[s] /\ b.address = address[s]
  /\ b.time <= at[s] /\ t - b.time < BanTime

(***************************************************************************)
(* A ban holds until its time is over: a LOGIN it covers is not accepted   *)
(* as long as it was in force when CheckBlacklist last asked the clock,    *)
(* through all the rewriting of the list by LOGINs of any user in between, *)
(* unless LOGINs ever overlapped or were cut off.                          *)
(***************************************************************************)
BanHolds ==
  \A s \in Session :
    pc[s] = "reply" /\ result[s] = "OK" /\ ~ disturbed =>
      \A b \in bans : ~ InForce(b, s, judged[s])

(***************************************************************************)
(* A LOGIN is blocked only by a ban of its user and address that was       *)
(* imposed earlier, and less than the time of a ban before CheckBlacklist  *)
(* opened the list, however often the list has been rewritten and whatever *)
(* overlapped.                                                             *)
(***************************************************************************)
BanEnds ==
  \A s \in Session :
    blocked[s] => \E b \in bans : InForce(b, s, at[s])

(***************************************************************************)
(* The third failure in a row of the same name on a connection, and no     *)
(* other, is answered with BLOCKED, as long as no other connection has     *)
(* tried to log in: mFailedAttempts belongs to the connection, but         *)
(* previousLoginName to all of them.                                       *)
(***************************************************************************)
ThreeStrikes ==
  \A s \in Session :
    pc[s] = "reply" /\ seen = {s} /\ ~ blocked[s] =>
      (result[s] = "BLOCKED" <=> inarow[s].count = 3)
=============================================================================
