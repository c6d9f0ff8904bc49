----------------------------- MODULE ServerProofs -----------------------------
(***************************************************************************)
(* The safety invariants of Server, for any connections and any number of  *)
(* descriptors: every variable keeps its type, LOGINs alone leave          *)
(* descriptors open, and a stray close harms nobody but the thread it hits. *)
(*                                                                         *)
(* IInv adds to them who is where: a connection waits, is accepted, or has *)
(* a thread, but never two of these; the descriptor of a connection or of  *)
(* a file is the number its thread knows.                                  *)
(***************************************************************************)
EXTENDS Server, FiniteSetTheorems, TLAPS

\* A connection that has a descriptor, or had one when nobody took it away.
Served(c) == pc[c] \in Working \/ (main = "spawn" /\ c = accepted)

\* The connections that wait are different ones, and known to nobody.
Waiting ==
  \A i \in 1..Len(queue) :
    /\ pc[queue[i]] = "none" /\ queue[i] # accepted /\ peer[queue[i]] # "none"
    /\ \A j \in 1..Len(queue) : i # j => queue[i] # queue[j]

\* Who has not connected is known to nobody either.
Absent == \A c \in Conn : peer[c] = "none" => pc[c] = "none" /\ c # accepted

\* The connection that has been accepted gets its thread next.
Handed ==
  /\ main # "spawn" => accepted = NoConn
  /\ main = "spawn" => pc[accepted] = "none" /\ mClientAddress = accepted

\* There is no thread while the server is not accepting.
Down ==
  main \notin {"accept", "spawn"} =>
    /\ queue = <<>>
    /\ \A c \in Conn : pc[c] \in {"none", "done"} /\ socket[c] = 0 /\ held[c] = 0

\* No thread takes the listening socket for its own.
Listens ==
  /\ main \in {"bind", "options", "listen", "accept", "spawn"} => \E n \in Fd : owner[n] = Listening
  /\ \A n \in Fd, c \in Conn : owner[n] = Listening => socket[c] # n /\ held[c] # n

\* A thread knows the number of whatever is its own.
Owned ==
  \A n \in Fd, c \in Conn :
    /\ owner[n] = Connection(c) => socket[c] = n /\ Served(c)
    /\ owner[n] = File(c) => held[c] = n /\ pc[c] = "file"

\* The numbers a thread works with are numbers of descriptors.
Numbered ==
  \A c \in Conn :
    /\ Served(c) \/ pc[c] = "again" => socket[c] \in Fd
    /\ IF pc[c] \in {"file", "ldap"} THEN held[c] \in Fd ELSE held[c] = 0

\* What a thread takes for its own is its own, unless it was taken away.
Intact ==
  \A c \in Conn \ victims :
    /\ Served(c) => owner[socket[c]] = Connection(c)
    /\ pc[c] = "file" => owner[held[c]] = File(c)
    /\ pc[c] = "ldap" => owner[held[c]] = Directory(c)
    /\ c \notin strangers \cup lost

\* A LOGIN leaves one connection to the directory open, or none.
Counted == \A c \in Conn : Cardinality(LeftOpen(c)) <= found[c]

\* The address is right, or will be when it is copied.
Addressed ==
  \A c \in Conn \ hurried :
    /\ pc[c] = "start" => mClientAddress = c
    /\ pc[c] \in (Working \ {"start"}) \cup {"again"} => address[c] = c

IInv ==
  /\ TypeOK /\ Waiting /\ Absent /\ Handed /\ Down
  /\ Listens /\ Owned /\ Numbered /\ Intact /\ Counted /\ Addressed
-----------------------------------------------------------------------------
\* The objects of different kinds, or of different connections, are different.
LEMMA ObjectsDiffer ==
  /\ Free \in Object /\ Listening \in Object /\ Free # Listening
  /\ \A c \in Conn :
       /\ Connection(c) \in Object /\ File(c) \in Object /\ Directory(c) \in Object
       /\ Free \notin {Connection(c), File(c), Directory(c)}
       /\ Listening \notin {Connection(c), File(c), Directory(c)}
       /\ \A d \in Conn : /\ Connection(c) \notin {File(d), Directory(d)}
                          /\ File(c) # Directory(d)
                          /\ Connection(c) = Connection(d) => c = d
                          /\ File(c) = File(d) => c = d
                          /\ Directory(c) = Directory(d) => c = d
BY DEF Free, Listening, Connection, File, Directory, Object

LEMMA LeftOpenFinite ==
  \A c \in Conn : IsFiniteSet(LeftOpen(c)) /\ Cardinality(LeftOpen(c)) \in Nat
<1>1. IsFiniteSet(Fd)
  BY FS_Interval, ServerAssumption DEF Fd
<1>2. \A c \in Conn : LeftOpen(c) \subseteq Fd
  BY DEF LeftOpen
<1> QED BY <1>1, <1>2, FS_Subset, FS_CardinalityType

\* A step that leaves no connection to the directory behind.
LEMMA CountedFrame ==
  ASSUME IInv, found' = found,
         \A m \in Fd, c \in Conn : owner'[m] = Directory(c) /\ m # held'[c]
                                  => owner[m] = Directory(c) /\ m # held[c]
  PROVE  Counted'
<1> SUFFICES ASSUME NEW c \in Conn PROVE Cardinality(LeftOpen(c)') <= found[c]
  BY DEF Counted
<1>1. LeftOpen(c)' \subseteq LeftOpen(c)
  BY DEF LeftOpen
<1>2. IsFiniteSet(LeftOpen(c)) /\ Cardinality(LeftOpen(c)) \in Nat
  BY LeftOpenFinite
<1>3. Cardinality(LeftOpen(c)') <= Cardinality(LeftOpen(c)) /\ Cardinality(LeftOpen(c)') \in Nat
  BY <1>1, <1>2, FS_Subset, FS_CardinalityType
<1>4. Cardinality(LeftOpen(c)) <= found[c] /\ found[c] \in Nat
  BY DEF IInv, Counted, TypeOK
<1> QED BY <1>2, <1>3, <1>4

LEMMA InitKeeps == Init => IInv
<1> SUFFICES ASSUME Init PROVE IInv
  OBVIOUS
<1>1. TypeOK
  BY ServerAssumption, ObjectsDiffer DEF Init, TypeOK
<1>2. Waiting /\ Absent /\ Handed /\ Down
  BY ServerAssumption DEF Init, Waiting, Absent, Handed, Down
<1>3. Listens /\ Owned
  BY ObjectsDiffer DEF Init, Listens, Owned
<1>4. Numbered /\ Intact /\ Addressed
  BY DEF Init, Numbered, Intact, Addressed, Served, Working
<1>5. Counted
  <2> SUFFICES ASSUME NEW c \in Conn PROVE Cardinality(LeftOpen(c)) <= found[c]
    BY DEF Counted
  <2>1. LeftOpen(c) = {} /\ found[c] = 0
    BY ObjectsDiffer DEF Init, LeftOpen
  <2> QED BY <2>1, FS_EmptySet
<1> QED BY <1>1, <1>2, <1>3, <1>4, <1>5 DEF IInv

\* When the process ends nothing is left.
LEMMA ExitKeeps == IInv /\ Exit => IInv'
<1> SUFFICES ASSUME IInv, Exit PROVE IInv'
  OBVIOUS
<1>1. TypeOK'
  BY ServerAssumption, ObjectsDiffer DEF IInv, Exit, TypeOK
<1>2. \A c \in Conn : pc'[c] \in {"none", "done"} /\ owner' = [n \in Fd |-> Free]
  BY DEF Exit
<1>3. (Waiting /\ Absent /\ Handed /\ Down)'
  BY ServerAssumption DEF Exit, Waiting, Absent, Handed, Down
<1>4. (Listens /\ Owned)'
  BY <1>2, ObjectsDiffer DEF Exit, Listens, Owned
<1>5. (Numbered /\ Intact /\ Addressed)'
  BY <1>2 DEF Exit, Numbered, Intact, Addressed, Served, Working
<1>6. Counted'
  <2> SUFFICES ASSUME NEW c \in Conn PROVE Cardinality(LeftOpen(c)') <= found'[c]
    BY DEF Counted
  <2>1. LeftOpen(c)' = {}
    BY <1>2, ObjectsDiffer DEF LeftOpen
  <2>2. found'[c] = 0
    BY DEF Exit
  <2> QED BY <2>1, <2>2, FS_EmptySet
<1> QED BY <1>1, <1>3, <1>4, <1>5, <1>6 DEF IInv
-----------------------------------------------------------------------------
(* The main thread.                                                        *)

LEMMA CreateSocketKeeps == IInv /\ CreateSocket => IInv'
<1> SUFFICES ASSUME IInv, CreateSocket PROVE IInv'
  OBVIOUS
<1>1. PICK n \in Fd : Open(n, Listening)
  BY DEF CreateSocket
<1>2. owner \in [Fd -> Object] /\ owner' = [owner EXCEPT ![n] = Listening]
  BY <1>1 DEF Open, IInv, TypeOK
<1>3. \A c \in Conn : pc[c] \in {"none", "done"} /\ socket[c] = 0 /\ held[c] = 0
  BY DEF CreateSocket, IInv, Down
<1>4. TypeOK'
  <2>1. owner' \in [Fd -> Object]
    BY <1>2, ObjectsDiffer
  <2> QED BY <2>1 DEF IInv, TypeOK, CreateSocket, thread, clients, history
<1>5. (Waiting /\ Absent /\ Handed /\ Down)'
  BY DEF IInv, CreateSocket, Waiting, Absent, Handed, Down, thread, clients
<1>6. Listens'
  BY <1>2, <1>3 DEF IInv, CreateSocket, Listens, Fd, thread
<1>7. Owned'
  BY <1>2, <1>3, ObjectsDiffer DEF IInv, CreateSocket, Owned, Served, Working, thread
<1>8. (Numbered /\ Intact /\ Addressed)'
  BY <1>3 DEF IInv, CreateSocket, Numbered, Intact, Addressed, Served, Working, thread, history
<1>9. Counted'
  BY <1>2, ObjectsDiffer, CountedFrame DEF CreateSocket, thread, history
<1> QED BY <1>4, <1>5, <1>6, <1>7, <1>8, <1>9 DEF IInv

LEMMA SetUpKeeps ==
  ASSUME IInv, NEW from \in {"bind", "options", "listen"},
         NEW to \in {"options", "listen", "accept"}, SetUp(from, to)
  PROVE  IInv'
<1> USE DEF SetUp, thread, clients, history
<1>1. TypeOK'
  BY DEF IInv, TypeOK
<1>2. \A c \in Conn : pc[c] \in {"none", "done"}
  BY DEF IInv, Down
<1>3. (Waiting /\ Absent /\ Handed /\ Down /\ Listens)'
  BY DEF IInv, Waiting, Absent, Handed, Down, Listens
<1>4. (Owned /\ Numbered /\ Intact /\ Addressed)'
  BY <1>2 DEF IInv, Owned, Numbered, Intact, Addressed, Served, Working
<1>5. Counted'
  BY CountedFrame
<1> QED BY <1>1, <1>3, <1>4, <1>5 DEF IInv

LEMMA AcceptKeeps == IInv /\ Accept => IInv'
<1> SUFFICES ASSUME IInv, Accept PROVE IInv'
  OBVIOUS
<1>0. PICK h \in Conn : h = Head(queue)
  BY DEF Accept, IInv, TypeOK
<1>1. PICK n \in Fd : Open(n, Connection(h)) /\ socket' = [socket EXCEPT ![h] = n]
  BY <1>0 DEF Accept
<1>2. /\ main = "accept" /\ main' = "spawn"
      /\ accepted = NoConn /\ accepted' = h /\ mClientAddress' = h
      /\ UNCHANGED <<pc, asks, held, address, peer, request, victims, strangers, lost, found>>
  BY <1>0 DEF Accept, IInv, Handed, clients
<1>3. /\ queue \in Seq(Conn) /\ queue # <<>> /\ h = queue[1]
      /\ queue' = Tail(queue) /\ queue' \in Seq(Conn)
      /\ Len(queue') = Len(queue) - 1
      /\ \A i \in 1..Len(queue') : queue'[i] = queue[i + 1] /\ i + 1 \in 1..Len(queue)
  BY <1>0 DEF Accept, IInv, TypeOK
<1>4. pc[h] = "none" /\ peer[h] # "none" /\ \A i \in 1..Len(queue') : queue'[i] # h
  BY <1>3 DEF IInv, Waiting
<1>5. owner[n] = Free /\ owner \in [Fd -> Object] /\ owner' = [owner EXCEPT ![n] = Connection(h)]
  BY <1>1 DEF Open, IInv, TypeOK
<1>6. \A m \in Fd : owner[m] # Connection(h) /\ owner[m] # File(h)
  BY <1>2, <1>3, <1>4, ServerAssumption DEF IInv, Owned, Served, Working
<1>7. TypeOK'
  BY <1>1, <1>2, <1>3, <1>5, ObjectsDiffer DEF IInv, TypeOK, Accept, Fd
<1>8. (Waiting /\ Absent /\ Handed /\ Down)'
  BY <1>2, <1>3, <1>4 DEF IInv, Waiting, Absent, Handed, Down
<1>9. Listens'
  BY <1>1, <1>2, <1>3, <1>5, ObjectsDiffer DEF IInv, Listens, TypeOK
<1>10. \A c \in Conn \ {h} : Served(c)' <=> Served(c)
  BY <1>2, <1>3, ServerAssumption DEF Served
<1>11. \A c \in Conn \ {h} : socket'[c] = socket[c]
  BY <1>1 DEF IInv, TypeOK
<1>12. Served(h)' /\ socket'[h] = n /\ owner'[n] = Connection(h)
  <2>1. socket \in [Conn -> 0..MaxFd]
    BY DEF IInv, TypeOK
  <2>2. Served(h)'
    BY <1>2 DEF Served
  <2> QED BY <1>1, <1>3, <1>5, <2>1, <2>2
<1>13. Owned'
  <2> SUFFICES ASSUME NEW m \in Fd, NEW c \in Conn
               PROVE  /\ owner'[m] = Connection(c) => socket'[c] = m /\ Served(c)'
                      /\ owner'[m] = File(c) => held[c] = m /\ pc[c] = "file"
    BY <1>2 DEF Owned
  <2>1. CASE m = n
    BY <1>3, <1>5, <1>12, <2>1, ObjectsDiffer
  <2>2. CASE m # n
    <3>1. owner'[m] = owner[m]
      BY <1>5, <2>2
    <3> QED BY <1>6, <1>10, <1>11, <3>1 DEF IInv, Owned
  <2> QED BY <2>1, <2>2
<1>14. Numbered'
  BY <1>2, <1>3, <1>4, <1>10, <1>11, <1>12 DEF IInv, Numbered
<1>15. \A m \in Fd : owner[m] # Free => owner'[m] = owner[m]
  BY <1>5
<1>16. Intact'
  <2> SUFFICES ASSUME NEW c \in Conn, c \notin victims
               PROVE  /\ Served(c)' => owner'[socket'[c]] = Connection(c)
                      /\ pc[c] = "file" => owner'[held[c]] = File(c)
                      /\ pc[c] = "ldap" => owner'[held[c]] = Directory(c)
                      /\ c \notin strangers \cup lost
    BY <1>2 DEF Intact
  <2>1. Served(c) => owner[socket[c]] = Connection(c) /\ socket[c] \in Fd
    BY DEF IInv, Intact, Numbered
  <2>2. /\ pc[c] = "file" => owner[held[c]] = File(c) /\ held[c] \in Fd
        /\ pc[c] = "ldap" => owner[held[c]] = Directory(c) /\ held[c] \in Fd
    BY DEF IInv, Intact, Numbered
  <2>3. c \notin strangers \cup lost
    BY DEF IInv, Intact
  <2> QED BY <1>10, <1>11, <1>12, <1>15, <2>1, <2>2, <2>3, ObjectsDiffer
<1>17. Addressed'
  <2>1. hurried' = hurried \cup {c \in Conn : pc[c] = "start"}
    BY DEF Accept
  <2> QED BY <1>2, <2>1 DEF IInv, Addressed
<1>18. Counted'
  BY <1>2, <1>3, <1>5, ObjectsDiffer, CountedFrame
<1> QED BY <1>7, <1>8, <1>9, <1>13, <1>14, <1>16, <1>17, <1>18 DEF IInv

LEMMA SpawnKeeps == IInv /\ Spawn => IInv'
<1> SUFFICES ASSUME IInv, Spawn PROVE IInv'
  OBVIOUS
<1>1. /\ main = "spawn" /\ main' = "accept" /\ accepted' = NoConn /\ accepted \in Conn
      /\ pc \in [Conn -> {"none", "start", "recv", "open", "file", "login", "ldap", "answer",
                          "close", "again", "done"}]
      /\ pc[accepted] = "none" /\ mClientAddress = accepted
      /\ pc' = [pc EXCEPT ![accepted] = "start"]
      /\ UNCHANGED <<owner, queue, mClientAddress, asks, socket, held, address, peer, request,
                     victims, hurried, strangers, lost, found>>
  BY DEF Spawn, IInv, TypeOK, Handed, clients, history
<1>2. TypeOK'
  BY <1>1 DEF IInv, TypeOK
<1>3. \A c \in Conn : Served(c)' <=> Served(c)
  BY <1>1 DEF Served, Working
<1>4. \A c \in Conn \ {accepted} : pc'[c] = pc[c]
  BY <1>1
<1>5. pc'[accepted] = "start"
  BY <1>1
<1>6. (Waiting /\ Absent)'
  <2>1. \A i \in 1..Len(queue) : queue[i] \in Conn
    BY DEF IInv, TypeOK
  <2> QED BY <1>1, <1>4, <2>1, ServerAssumption DEF IInv, Waiting, Absent
<1>7. (Handed /\ Down /\ Listens)'
  BY <1>1 DEF IInv, Handed, Down, Listens
<1>8. (Owned /\ Numbered /\ Intact)'
  BY <1>1, <1>3, <1>4, <1>5 DEF IInv, Owned, Numbered, Intact
<1>9. Addressed'
  BY <1>1, <1>4, <1>5 DEF IInv, Addressed
<1>10. Counted'
  BY <1>1, CountedFrame
<1> QED BY <1>2, <1>6, <1>7, <1>8, <1>9, <1>10 DEF IInv
-----------------------------------------------------------------------------
(* The threads.                                                            *)

\* A step of a thread: who waits, who is absent and what main does stay.
LEMMA ThreadFrame ==
  ASSUME IInv, NEW c \in Conn, pc[c] \notin {"none", "done"}, NEW step, step # "none",
         Goto(c, step), UNCHANGED <<main, queue, accepted, mClientAddress, peer>>
  PROVE  /\ (Waiting /\ Absent /\ Handed /\ Down)'
         /\ main \in {"accept", "spawn"}
         /\ main = "spawn" => c # accepted
         /\ pc'[c] = step /\ \A d \in Conn \ {c} : pc'[d] = pc[d]
<1>1. pc \in [Conn -> {"none", "start", "recv", "open", "file", "login", "ldap", "answer",
                      "close", "again", "done"}] /\ queue \in Seq(Conn)
  BY DEF IInv, TypeOK
<1>2. pc'[c] = step /\ \A d \in Conn \ {c} : pc'[d] = pc[d]
  BY <1>1 DEF Goto
<1>3. main \in {"accept", "spawn"}
  BY DEF IInv, Down
<1>4. main = "spawn" => c # accepted
  BY DEF IInv, Handed
<1>5. \A i \in 1..Len(queue) : queue[i] \in Conn /\ queue[i] # c
  BY <1>1 DEF IInv, Waiting
<1>6. (Waiting /\ Absent)'
  BY <1>2, <1>5 DEF IInv, Waiting, Absent
<1>7. Handed'
  <2>1. main = "spawn" => accepted \in Conn
    BY DEF IInv, TypeOK
  <2> QED BY <1>2, <1>4, <2>1 DEF IInv, Handed
<1>8. Down'
  BY <1>3 DEF Down
<1> QED BY <1>2, <1>3, <1>4, <1>6, <1>7, <1>8

\* A step that neither opens nor closes anything.
LEMMA MoveKeeps ==
  ASSUME IInv, NEW c \in Conn, pc[c] \in {"recv", "open", "login", "answer"},
         NEW step \in {"recv", "open", "login", "answer", "close"}, Goto(c, step),
         UNCHANGED <<main, owner, queue, accepted, mClientAddress, socket, held, address, peer,
                     victims, hurried, lost, found>>,
         asks' \subseteq Conn,
         request' \in [Conn -> {"none", "command", "login", "quit", "taken"}],
         strangers' \subseteq Conn, strangers' \subseteq strangers \cup victims
  PROVE  IInv'
<1>1. /\ (Waiting /\ Absent /\ Handed /\ Down)'
      /\ pc'[c] = step /\ \A d \in Conn \ {c} : pc'[d] = pc[d]
  BY ThreadFrame
<1>2. TypeOK'
  BY DEF IInv, TypeOK, Goto
<1>3. \A d \in Conn : /\ Served(d)' <=> Served(d)
                      /\ pc'[d] = "file" <=> pc[d] = "file"
                      /\ pc'[d] = "ldap" <=> pc[d] = "ldap"
                      /\ pc'[d] = "again" <=> pc[d] = "again"
                      /\ pc'[d] = "start" <=> pc[d] = "start"
                      /\ pc'[d] \in Working <=> pc[d] \in Working
  BY <1>1 DEF Served, Working
<1>4. (Listens /\ Owned /\ Numbered)'
  BY <1>3 DEF IInv, Listens, Owned, Numbered
<1>5. (Intact /\ Addressed)'
  BY <1>3 DEF IInv, Intact, Addressed
<1>6. Counted'
  BY CountedFrame
<1> QED BY <1>1, <1>2, <1>4, <1>5, <1>6 DEF IInv

LEMMA RecordKeeps == \A c \in Conn : IInv /\ Record(c) => IInv'
<1> SUFFICES ASSUME NEW c \in Conn, IInv, Record(c) PROVE IInv'
  OBVIOUS
<1>1. /\ pc[c] = "start" /\ Goto(c, "recv") /\ address' = [address EXCEPT ![c] = mClientAddress]
      /\ UNCHANGED <<main, owner, queue, accepted, mClientAddress, asks, socket, held, peer, request,
                     victims, hurried, strangers, lost, found>>
  BY DEF Record, clients, history
<1>2. /\ (Waiting /\ Absent /\ Handed /\ Down)'
      /\ pc'[c] = "recv" /\ \A d \in Conn \ {c} : pc'[d] = pc[d]
  BY <1>1, ThreadFrame
<1>3. TypeOK'
  BY <1>1 DEF IInv, TypeOK, Goto
<1>4. \A d \in Conn : /\ Served(d)' <=> Served(d)
                      /\ pc'[d] = "file" <=> pc[d] = "file"
                      /\ pc'[d] = "ldap" <=> pc[d] = "ldap"
                      /\ pc'[d] = "again" <=> pc[d] = "again"
  BY <1>1, <1>2 DEF Served, Working
<1>5. (Listens /\ Owned /\ Numbered /\ Intact)'
  BY <1>1, <1>4 DEF IInv, Listens, Owned, Numbered, Intact
<1>6. Addressed'
  <2>1. address \in [Conn -> Conn \cup {NoConn}]
    BY DEF IInv, TypeOK
  <2>2. address'[c] = mClientAddress /\ \A d \in Conn \ {c} : address'[d] = address[d]
    BY <1>1, <2>1
  <2> QED BY <1>1, <1>2, <2>2 DEF IInv, Addressed
<1>7. Counted'
  BY <1>1, CountedFrame
<1> QED BY <1>2, <1>3, <1>5, <1>6, <1>7 DEF IInv

LEMMA ReceiveKeeps == \A c \in Conn : IInv /\ (Receive(c) \/ ReceiveEnd(c)) => IInv'
<1> SUFFICES ASSUME NEW c \in Conn, IInv, Receive(c) \/ ReceiveEnd(c) PROVE IInv'
  OBVIOUS
<1>1. /\ request \in [Conn -> {"none", "command", "login", "quit", "taken"}]
      /\ strangers \subseteq Conn /\ asks \subseteq Conn
  BY DEF IInv, TypeOK
<1>2. CASE Receive(c)
  <2>1. PICK d \in Conn :
          /\ Goto(c, IF request[d] = "quit" THEN "close" ELSE "open")
          /\ asks' = asks \cup {t \in {c} : request[d] = "login"}
          /\ request' = [request EXCEPT ![d] = IF @ = "quit" THEN "none" ELSE "taken"]
    BY <1>2 DEF Receive
  <2>2. /\ request' \in [Conn -> {"none", "command", "login", "quit", "taken"}]
        /\ asks' \subseteq Conn
    BY <1>1, <2>1
  <2>3. /\ pc[c] = "recv"
        /\ UNCHANGED <<main, owner, queue, accepted, mClientAddress, socket, held, address, peer,
                       victims, hurried, strangers, lost, found>>
    BY <1>2 DEF Receive, history
  <2>4. CASE request[d] = "quit"
    BY <1>1, <2>1, <2>2, <2>3, <2>4, MoveKeeps
  <2>5. CASE request[d] # "quit"
    BY <1>1, <2>1, <2>2, <2>3, <2>5, MoveKeeps
  <2> QED BY <2>4, <2>5
<1>3. CASE ReceiveEnd(c)
  BY <1>1, <1>3, MoveKeeps DEF ReceiveEnd, clients, history
<1> QED BY <1>2, <1>3

\* Who answers the client of another connection has been hit by a stray close.
LEMMA AnswerKeeps == \A c \in Conn : IInv /\ Answer(c) => IInv'
<1> SUFFICES ASSUME NEW c \in Conn, IInv, Answer(c) PROVE IInv'
  OBVIOUS
<1>1. /\ pc[c] = "answer" /\ Goto(c, "recv")
      /\ UNCHANGED <<main, owner, queue, accepted, mClientAddress, asks, socket, held, address, peer,
                     victims, hurried, lost, found>>
  BY DEF Answer
<1>2. /\ request \in [Conn -> {"none", "command", "login", "quit", "taken"}]
      /\ strangers \subseteq Conn /\ asks \subseteq Conn
  BY DEF IInv, TypeOK
<1>3. c \notin victims => owner[socket[c]] = Connection(c)
  BY <1>1 DEF IInv, Intact, Served, Working
<1>4. CASE \E d \in Conn :
             /\ owner[socket[c]] = Connection(d)
             /\ request' = [request EXCEPT ![d] = IF @ = "taken" THEN "none" ELSE @]
             /\ strangers' = strangers \cup ({c} \ {d})
  <2>1. PICK d \in Conn :
             /\ owner[socket[c]] = Connection(d)
             /\ request' = [request EXCEPT ![d] = IF @ = "taken" THEN "none" ELSE @]
             /\ strangers' = strangers \cup ({c} \ {d})
    BY <1>4
  <2>2. request' \in [Conn -> {"none", "command", "login", "quit", "taken"}]
    BY <1>2, <2>1
  <2>3. c \notin victims => c = d
    BY <1>3, <2>1, ObjectsDiffer
  <2>4. strangers' \subseteq Conn /\ strangers' \subseteq strangers \cup victims
    BY <1>2, <2>1, <2>3
  <2> QED BY <1>1, <1>2, <2>2, <2>4, MoveKeeps
<1>5. CASE /\ owner[socket[c]].kind = "directory"
           /\ strangers' = strangers \cup {c}
           /\ UNCHANGED request
  <2>1. c \in victims
    BY <1>3, <1>5 DEF Connection
  <2>2. strangers' \subseteq Conn /\ strangers' \subseteq strangers \cup victims
    BY <1>2, <1>5, <2>1
  <2> QED BY <1>1, <1>2, <1>5, <2>2, MoveKeeps
<1> QED BY <1>4, <1>5 DEF Answer

\* A thread opens a file, or a connection to the directory.
LEMMA OpenKeeps ==
  ASSUME IInv, NEW c \in Conn, pc[c] \in {"open", "login"}, NEW n \in Fd,
         NEW object, NEW step,
         \/ object = File(c) /\ step = "file"
         \/ object = Directory(c) /\ step = "ldap",
         Open(n, object), held' = [held EXCEPT ![c] = n], Goto(c, step),
         asks' \subseteq Conn,
         UNCHANGED <<main, queue, accepted, mClientAddress, socket, address, peer, request,
                     victims, hurried, strangers, lost, found>>
  PROVE  IInv'
<1>1. /\ (Waiting /\ Absent /\ Handed /\ Down)'
      /\ pc'[c] = step /\ \A d \in Conn \ {c} : pc'[d] = pc[d]
  BY ThreadFrame
<1>2. /\ owner \in [Fd -> Object] /\ owner[n] = Free
      /\ owner' = [owner EXCEPT ![n] = object] /\ held \in [Conn -> 0..MaxFd]
  BY DEF Open, IInv, TypeOK
<1>3. /\ owner'[n] = object /\ \A m \in Fd \ {n} : owner'[m] = owner[m]
      /\ held'[c] = n /\ \A d \in Conn \ {c} : held'[d] = held[d]
  BY <1>2
<1>4. TypeOK'
  <2>1. owner' \in [Fd -> Object] /\ held' \in [Conn -> 0..MaxFd]
    BY <1>2, ObjectsDiffer DEF Fd
  <2> QED BY <2>1 DEF IInv, TypeOK, Goto
<1>5. \A d \in Conn : /\ Served(d)' <=> Served(d)
                      /\ pc'[d] = "again" <=> pc[d] = "again"
                      /\ pc'[d] = "start" <=> pc[d] = "start"
                      /\ pc'[d] \in Working <=> pc[d] \in Working
  BY <1>1 DEF Served, Working
<1>6. Listens'
  BY <1>2, <1>3, ObjectsDiffer DEF IInv, Listens
<1>7. Owned'
  BY <1>1, <1>2, <1>3, <1>5, ObjectsDiffer DEF IInv, Owned
<1>8. Numbered'
  BY <1>1, <1>3, <1>5 DEF IInv, Numbered
<1>9. Intact'
  <2>1. \A m \in Fd : owner[m] # Free => owner'[m] = owner[m]
    BY <1>2, <1>3
  <2> QED BY <1>1, <1>3, <1>5, <2>1, ObjectsDiffer DEF IInv, Intact, Numbered
<1>10. Addressed'
  BY <1>5 DEF IInv, Addressed
<1>11. Counted'
  <2>1. held[c] = 0 /\ 0 \notin Fd
    BY DEF IInv, Numbered, Fd
  <2> QED BY <1>3, <2>1, ObjectsDiffer, CountedFrame
<1> QED BY <1>1, <1>4, <1>6, <1>7, <1>8, <1>9, <1>10, <1>11 DEF IInv

LEMMA OpenFileKeeps == \A c \in Conn : IInv /\ OpenFile(c) => IInv'
<1> SUFFICES ASSUME NEW c \in Conn, IInv, OpenFile(c) PROVE IInv'
  OBVIOUS
<1>1. /\ pc[c] = "open" /\ asks' \subseteq Conn
      /\ UNCHANGED <<main, queue, accepted, mClientAddress, socket, address, peer, request,
                     victims, hurried, strangers, lost, found>>
  BY DEF OpenFile, clients, history, IInv, TypeOK
<1>2. CASE Goto(c, AfterFile(c)) /\ UNCHANGED <<owner, held>>
  <2>1. AfterFile(c) \in {"recv", "open", "login", "answer", "close"}
    BY DEF AfterFile
  <2> QED BY <1>1, <1>2, <2>1, MoveKeeps DEF IInv, TypeOK
<1>3. ASSUME NEW n \in Fd, Open(n, File(c)), held' = [held EXCEPT ![c] = n], Goto(c, "file")
      PROVE  IInv'
  <2>1. PICK object : object = File(c)
    OBVIOUS
  <2>2. PICK step : step = "file"
    OBVIOUS
  <2>3. Open(n, object) /\ Goto(c, step)
    BY <1>3, <2>1, <2>2
  <2>4. /\ pc[c] \in {"open", "login"}
        /\ \/ object = File(c) /\ step = "file"
           \/ object = Directory(c) /\ step = "ldap"
    BY <1>1, <2>1, <2>2
  <2> QED BY <1>1, <1>3, <2>3, <2>4, OpenKeeps
<1> QED BY <1>2, <1>3 DEF OpenFile

LEMMA AskDirectoryKeeps == \A c \in Conn : IInv /\ AskDirectory(c) => IInv'
<1> SUFFICES ASSUME NEW c \in Conn, IInv, AskDirectory(c) PROVE IInv'
  OBVIOUS
<1>1. /\ pc[c] = "login" /\ asks' \subseteq Conn
      /\ UNCHANGED <<main, queue, accepted, mClientAddress, socket, address, peer, request,
                     victims, hurried, strangers, lost, found>>
  BY DEF AskDirectory, clients, history, IInv, TypeOK
<1>2. CASE Goto(c, "open") /\ UNCHANGED <<owner, held>>
  BY <1>1, <1>2, MoveKeeps DEF IInv, TypeOK
<1>3. ASSUME NEW n \in Fd, Open(n, Directory(c)), held' = [held EXCEPT ![c] = n], Goto(c, "ldap")
      PROVE  IInv'
  <2>1. PICK object : object = Directory(c)
    OBVIOUS
  <2>2. PICK step : step = "ldap"
    OBVIOUS
  <2>3. Open(n, object) /\ Goto(c, step)
    BY <1>3, <2>1, <2>2
  <2>4. /\ pc[c] \in {"open", "login"}
        /\ \/ object = File(c) /\ step = "file"
           \/ object = Directory(c) /\ step = "ldap"
    BY <1>1, <2>1, <2>2
  <2> QED BY <1>1, <1>3, <2>3, <2>4, OpenKeeps
<1> QED BY <1>2, <1>3 DEF AskDirectory

\* What the close of the number n by the thread c makes of the descriptors: who
\* has lost one, and is not c, is a victim.
LEMMA Closed ==
  ASSUME IInv, NEW c \in Conn, NEW n \in Fd, owner' = [owner EXCEPT ![n] = Free]
  PROVE  /\ owner' \in [Fd -> Object]
         /\ owner'[n] = Free /\ \A m \in Fd \ {n} : owner'[m] = owner[m]
         /\ \A m \in Fd : owner'[m] # Free => owner'[m] = owner[m]
         /\ \A d \in Conn \ {c} : d \notin victims \cup Strays(c, n) =>
              /\ Served(d) => owner'[socket[d]] = Connection(d)
              /\ pc[d] = "file" => owner'[held[d]] = File(d)
              /\ pc[d] = "ldap" => owner'[held[d]] = Directory(d)
<1>1. owner \in [Fd -> Object]
  BY DEF IInv, TypeOK
<1>2. /\ owner' \in [Fd -> Object]
      /\ owner'[n] = Free /\ \A m \in Fd \ {n} : owner'[m] = owner[m]
  BY <1>1, ObjectsDiffer
<1>3. ASSUME NEW d \in Conn, d # c, d \notin victims \cup Strays(c, n)
      PROVE  /\ Served(d) => owner'[socket[d]] = Connection(d)
             /\ pc[d] = "file" => owner'[held[d]] = File(d)
             /\ pc[d] = "ldap" => owner'[held[d]] = Directory(d)
  <2>1. /\ owner[n] # Connection(d) /\ owner[n] # File(d)
        /\ ~ (owner[n] = Directory(d) /\ held[d] = n)
    BY <1>3 DEF Strays
  <2>2. /\ Served(d) => owner[socket[d]] = Connection(d) /\ socket[d] \in Fd
        /\ pc[d] = "file" => owner[held[d]] = File(d) /\ held[d] \in Fd
        /\ pc[d] = "ldap" => owner[held[d]] = Directory(d) /\ held[d] \in Fd
    BY <1>3 DEF IInv, Intact, Numbered
  <2> QED BY <1>2, <2>1, <2>2
<1> QED BY <1>2, <1>3

\* A thread closes its file, or its connection to the directory.
LEMMA CloseHeldKeeps ==
  ASSUME IInv, NEW c \in Conn, pc[c] \in {"file", "ldap"},
         NEW step \in {"open", "login", "answer"}, Goto(c, step),
         owner' = [owner EXCEPT ![held[c]] = Free],
         victims' = victims \cup Strays(c, held[c]), held' = [held EXCEPT ![c] = 0],
         asks' \subseteq Conn, lost' \subseteq Conn, lost' \subseteq lost \cup victims,
         UNCHANGED <<main, queue, accepted, mClientAddress, socket, address, peer, request,
                     hurried, strangers, found>>
  PROVE  IInv'
<1>1. PICK n \in Fd : n = held[c]
  BY DEF IInv, Numbered
<1>2. /\ owner' \in [Fd -> Object]
      /\ owner'[n] = Free /\ \A m \in Fd \ {n} : owner'[m] = owner[m]
      /\ \A m \in Fd : owner'[m] # Free => owner'[m] = owner[m]
      /\ \A d \in Conn \ {c} : d \notin victims' =>
           /\ Served(d) => owner'[socket[d]] = Connection(d)
           /\ pc[d] = "file" => owner'[held[d]] = File(d)
           /\ pc[d] = "ldap" => owner'[held[d]] = Directory(d)
  <2>1. owner' = [owner EXCEPT ![n] = Free]
    BY <1>1
  <2>2. victims' = victims \cup Strays(c, n)
    BY <1>1
  <2>3. /\ owner' \in [Fd -> Object]
        /\ owner'[n] = Free /\ \A m \in Fd \ {n} : owner'[m] = owner[m]
        /\ \A m \in Fd : owner'[m] # Free => owner'[m] = owner[m]
        /\ \A d \in Conn \ {c} : d \notin victims \cup Strays(c, n) =>
             /\ Served(d) => owner'[socket[d]] = Connection(d)
             /\ pc[d] = "file" => owner'[held[d]] = File(d)
             /\ pc[d] = "ldap" => owner'[held[d]] = Directory(d)
    BY <2>1, Closed
  <2> QED BY <2>2, <2>3
<1>3. /\ (Waiting /\ Absent /\ Handed /\ Down)'
      /\ pc'[c] = step /\ \A d \in Conn \ {c} : pc'[d] = pc[d]
      /\ main \in {"accept", "spawn"}
  BY ThreadFrame
<1>4. held'[c] = 0 /\ \A d \in Conn \ {c} : held'[d] = held[d]
  BY DEF IInv, TypeOK
<1>5. TypeOK'
  <2>1. victims' \subseteq Conn /\ held' \in [Conn -> 0..MaxFd]
    BY ServerAssumption DEF IInv, TypeOK, Strays
  <2> QED BY <1>2, <2>1 DEF IInv, TypeOK, Goto
<1>6. \A d \in Conn : /\ Served(d)' <=> Served(d)
                      /\ pc'[d] = "again" <=> pc[d] = "again"
                      /\ pc'[d] = "start" <=> pc[d] = "start"
                      /\ pc'[d] \in Working <=> pc[d] \in Working
  BY <1>3 DEF Served, Working
<1>7. Listens'
  <2>1. owner[n] # Listening
    BY <1>1 DEF IInv, Listens
  <2> QED BY <1>2, <1>3, <1>4, <2>1, ObjectsDiffer DEF IInv, Listens, Fd
<1>8. Owned'
  <2> SUFFICES ASSUME NEW m \in Fd, NEW d \in Conn
               PROVE  /\ owner'[m] = Connection(d) => socket[d] = m /\ Served(d)'
                      /\ owner'[m] = File(d) => held'[d] = m /\ pc'[d] = "file"
    BY DEF Owned
  <2>1. CASE m = n
    BY <1>2, <2>1, ObjectsDiffer
  <2>2. CASE m # n
    BY <1>1, <1>2, <1>3, <1>4, <1>6, <2>2 DEF IInv, Owned
  <2> QED BY <2>1, <2>2
<1>9. Numbered'
  BY <1>3, <1>4, <1>6 DEF IInv, Numbered
<1>10. Intact'
  <2> SUFFICES ASSUME NEW d \in Conn, d \notin victims'
               PROVE  /\ Served(d)' => owner'[socket[d]] = Connection(d)
                      /\ pc'[d] = "file" => owner'[held'[d]] = File(d)
                      /\ pc'[d] = "ldap" => owner'[held'[d]] = Directory(d)
                      /\ d \notin strangers \cup lost'
    BY DEF Intact
  <2>1. d \notin victims /\ d \notin strangers \cup lost'
    BY DEF IInv, Intact
  <2>2. CASE d = c
    <3>1. /\ owner[n] \in {File(c), Directory(c)}
          /\ Served(c) /\ owner[socket[c]] = Connection(c) /\ socket[c] \in Fd
      BY <1>1, <2>1, <2>2 DEF IInv, Intact, Numbered, Served, Working
    <3>2. socket[c] # n
      BY <3>1, ObjectsDiffer
    <3> QED BY <1>1, <1>2, <1>3, <2>1, <2>2, <3>1, <3>2
  <2>3. CASE d # c
    BY <1>2, <1>3, <1>4, <1>6, <2>1, <2>3
  <2> QED BY <2>2, <2>3
<1>11. Addressed'
  BY <1>6 DEF IInv, Addressed
<1>12. Counted'
  BY <1>1, <1>2, <1>4, ObjectsDiffer, CountedFrame
<1> QED BY <1>3, <1>5, <1>7, <1>8, <1>9, <1>10, <1>11, <1>12 DEF IInv

LEMMA CloseFileKeeps == \A c \in Conn : IInv /\ CloseFile(c) => IInv'
<1> SUFFICES ASSUME NEW c \in Conn, IInv, CloseFile(c) PROVE IInv'
  OBVIOUS
<1>1. /\ pc[c] = "file" /\ held' = [held EXCEPT ![c] = 0]
      /\ lost' = lost \cup {d \in {c} : owner[held[c]] # File(c)}
      /\ owner' = [owner EXCEPT ![held[c]] = Free]
      /\ victims' = victims \cup Strays(c, held[c])
      /\ UNCHANGED <<main, queue, accepted, mClientAddress, socket, address, peer, request,
                     hurried, strangers, found>>
  BY DEF CloseFile, CloseNumber, clients
<1>2. PICK step \in {"open", "login", "answer"} : Goto(c, step)
  BY DEF CloseFile, AfterFile
<1>3. asks' \subseteq Conn
  BY DEF CloseFile, IInv, TypeOK
<1>4. lost' \subseteq Conn /\ lost' \subseteq lost \cup victims
  BY <1>1 DEF IInv, TypeOK, Intact
<1> QED BY <1>1, <1>2, <1>3, <1>4, CloseHeldKeeps

LEMMA DirectoryRefusesKeeps == \A c \in Conn : IInv /\ DirectoryRefuses(c) => IInv'
<1> SUFFICES ASSUME NEW c \in Conn, IInv, DirectoryRefuses(c) PROVE IInv'
  OBVIOUS
<1>1. lost \subseteq Conn /\ asks \subseteq Conn
  BY DEF IInv, TypeOK
<1> QED BY <1>1, CloseHeldKeeps DEF DirectoryRefuses, CloseNumber, clients

LEMMA DirectoryEndsKeeps == \A c \in Conn : IInv /\ DirectoryEnds(c) => IInv'
<1> SUFFICES ASSUME NEW c \in Conn, IInv, DirectoryEnds(c) PROVE IInv'
  OBVIOUS
<1>1. /\ request \in [Conn -> {"none", "command", "login", "quit", "taken"}]
      /\ strangers \subseteq Conn /\ asks \subseteq Conn
  BY DEF IInv, TypeOK
<1> QED BY <1>1, MoveKeeps DEF DirectoryEnds, clients, history

\* The LOGIN forgets its connection to the directory.
LEMMA SearchAnsweredKeeps == \A c \in Conn : IInv /\ SearchAnswered(c) => IInv'
<1> SUFFICES ASSUME NEW c \in Conn, IInv, SearchAnswered(c) PROVE IInv'
  OBVIOUS
<1>1. /\ pc[c] = "ldap" /\ held' = [held EXCEPT ![c] = 0]
      /\ found' = [found EXCEPT ![c] = @ + 1]
      /\ UNCHANGED <<main, owner, queue, accepted, mClientAddress, asks, socket, address, peer,
                     request, victims, hurried, strangers, lost>>
  BY DEF SearchAnswered, clients
<1>2. PICK step \in {"open", "answer"} : Goto(c, step)
  BY DEF SearchAnswered
<1>3. /\ (Waiting /\ Absent /\ Handed /\ Down)'
      /\ pc'[c] = step /\ \A d \in Conn \ {c} : pc'[d] = pc[d]
  BY <1>1, <1>2, ThreadFrame
<1>4. /\ held'[c] = 0 /\ \A d \in Conn \ {c} : held'[d] = held[d]
      /\ found'[c] = found[c] + 1 /\ \A d \in Conn \ {c} : found'[d] = found[d]
      /\ found \in [Conn -> Nat]
  BY <1>1 DEF IInv, TypeOK
<1>5. TypeOK'
  <2>1. held' \in [Conn -> 0..MaxFd] /\ found' \in [Conn -> Nat]
    BY <1>1, ServerAssumption DEF IInv, TypeOK
  <2> QED BY <1>1, <1>2, <2>1 DEF IInv, TypeOK, Goto
<1>6. \A d \in Conn : /\ Served(d)' <=> Served(d)
                      /\ pc'[d] = "file" <=> pc[d] = "file"
                      /\ pc'[d] = "again" <=> pc[d] = "again"
                      /\ pc'[d] = "start" <=> pc[d] = "start"
                      /\ pc'[d] \in Working <=> pc[d] \in Working
  BY <1>1, <1>3 DEF Served, Working
<1>7. Listens'
  BY <1>1, <1>4 DEF IInv, Listens, Fd
<1>8. Owned'
  BY <1>1, <1>4, <1>6 DEF IInv, Owned
<1>9. Numbered'
  BY <1>1, <1>3, <1>4, <1>6 DEF IInv, Numbered
<1>10. Intact'
  BY <1>1, <1>3, <1>4, <1>6 DEF IInv, Intact
<1>11. Addressed'
  BY <1>1, <1>6 DEF IInv, Addressed
<1>12. Counted'
  <2> SUFFICES ASSUME NEW d \in Conn PROVE Cardinality(LeftOpen(d)') <= found'[d]
    BY DEF Counted
  <2>1. /\ IsFiniteSet(LeftOpen(d)) /\ Cardinality(LeftOpen(d)) \in Nat
        /\ Cardinality(LeftOpen(d)) <= found[d] /\ found[d] \in Nat
    BY <1>4, LeftOpenFinite DEF IInv, Counted
  <2>2. CASE d = c
    <3>1. PICK n \in Fd : n = held[c]
      BY <1>1 DEF IInv, Numbered
    <3>2. LeftOpen(c)' \subseteq LeftOpen(c) \cup {n} /\ n \notin LeftOpen(c)
      BY <1>1, <3>1 DEF LeftOpen
    <3>3. /\ IsFiniteSet(LeftOpen(c) \cup {n})
          /\ Cardinality(LeftOpen(c) \cup {n}) = Cardinality(LeftOpen(c)) + 1
      BY <2>1, <2>2, <3>2, FS_AddElement
    <3>4. /\ Cardinality(LeftOpen(c)') <= Cardinality(LeftOpen(c) \cup {n})
          /\ Cardinality(LeftOpen(c)') \in Nat
      BY <3>2, <3>3, FS_Subset, FS_CardinalityType
    <3> QED BY <1>4, <2>1, <2>2, <3>3, <3>4
  <2>3. CASE d # c
    <3>1. LeftOpen(d)' = LeftOpen(d)
      BY <1>1, <1>4, <2>3 DEF LeftOpen
    <3> QED BY <1>4, <2>1, <2>3, <3>1
  <2> QED BY <2>2, <2>3
<1> QED BY <1>3, <1>5, <1>7, <1>8, <1>9, <1>10, <1>11, <1>12 DEF IInv

LEMMA CloseKeeps == \A c \in Conn : IInv /\ Close(c) => IInv'
<1> SUFFICES ASSUME NEW c \in Conn, IInv, Close(c) PROVE IInv'
  OBVIOUS
<1>1. /\ pc[c] = "close" /\ Goto(c, "again")
      /\ owner' = [owner EXCEPT ![socket[c]] = Free]
      /\ victims' = victims \cup Strays(c, socket[c])
      /\ UNCHANGED <<main, queue, accepted, mClientAddress, asks, socket, held, address, peer,
                     request, hurried, strangers, lost, found>>
  BY DEF Close, CloseNumber, clients
<1>2. PICK n \in Fd : n = socket[c]
  BY <1>1 DEF IInv, Numbered, Served, Working
<1>3. /\ owner' \in [Fd -> Object]
      /\ owner'[n] = Free /\ \A m \in Fd \ {n} : owner'[m] = owner[m]
      /\ \A m \in Fd : owner'[m] # Free => owner'[m] = owner[m]
      /\ \A d \in Conn \ {c} : d \notin victims' =>
           /\ Served(d) => owner'[socket[d]] = Connection(d)
           /\ pc[d] = "file" => owner'[held[d]] = File(d)
           /\ pc[d] = "ldap" => owner'[held[d]] = Directory(d)
  <2>1. owner' = [owner EXCEPT ![n] = Free] /\ victims' = victims \cup Strays(c, n)
    BY <1>1, <1>2
  <2> QED BY <2>1, Closed
<1>4. /\ (Waiting /\ Absent /\ Handed /\ Down)'
      /\ pc'[c] = "again" /\ \A d \in Conn \ {c} : pc'[d] = pc[d]
      /\ main \in {"accept", "spawn"} /\ (main = "spawn" => c # accepted)
  BY <1>1, ThreadFrame
<1>5. TypeOK'
  <2>1. victims' \subseteq Conn
    BY <1>1 DEF IInv, TypeOK, Strays
  <2> QED BY <1>1, <1>3, <2>1 DEF IInv, TypeOK, Goto
<1>6. ~ Served(c)' /\ \A d \in Conn \ {c} : Served(d)' <=> Served(d)
  BY <1>1, <1>4 DEF Served, Working
<1>7. Listens'
  <2>1. owner[n] # Listening
    BY <1>2 DEF IInv, Listens
  <2> QED BY <1>1, <1>3, <1>4, <2>1, ObjectsDiffer DEF IInv, Listens
<1>8. Owned'
  <2> SUFFICES ASSUME NEW m \in Fd, NEW d \in Conn
               PROVE  /\ owner'[m] = Connection(d) => socket[d] = m /\ Served(d)'
                      /\ owner'[m] = File(d) => held[d] = m /\ pc'[d] = "file"
    BY <1>1 DEF Owned
  <2>1. CASE m = n
    BY <1>3, <2>1, ObjectsDiffer
  <2>2. CASE m # n
    BY <1>1, <1>2, <1>3, <1>4, <1>6, <2>2 DEF IInv, Owned
  <2> QED BY <2>1, <2>2
<1>9. Numbered'
  BY <1>1, <1>2, <1>4, <1>6 DEF IInv, Numbered
<1>10. Intact'
  BY <1>1, <1>3, <1>4, <1>6 DEF IInv, Intact
<1>11. Addressed'
  BY <1>1, <1>4 DEF IInv, Addressed, Working
<1>12. Counted'
  BY <1>1, <1>3, ObjectsDiffer, CountedFrame
<1> QED BY <1>4, <1>5, <1>7, <1>8, <1>9, <1>10, <1>11, <1>12 DEF IInv

LEMMA CloseAgainKeeps == \A c \in Conn : IInv /\ CloseAgain(c) => IInv'
<1> SUFFICES ASSUME NEW c \in Conn, IInv, CloseAgain(c) PROVE IInv'
  OBVIOUS
<1>1. /\ pc[c] = "again" /\ Goto(c, "done")
      /\ owner' = [owner EXCEPT ![socket[c]] = Free]
      /\ socket' = [socket EXCEPT ![c] = 0] /\ address' = [address EXCEPT ![c] = NoConn]
      /\ victims' = (victims \cup Strays(c, socket[c])) \ {c}
      /\ hurried' = hurried \ {c} /\ strangers' = strangers \ {c} /\ lost' = lost \ {c}
      /\ UNCHANGED <<main, queue, accepted, mClientAddress, asks, held, peer, request, found>>
  BY DEF CloseAgain, clients
<1>2. PICK n \in Fd : n = socket[c]
  BY <1>1 DEF IInv, Numbered
<1>3. /\ owner' \in [Fd -> Object]
      /\ owner'[n] = Free /\ \A m \in Fd \ {n} : owner'[m] = owner[m]
      /\ \A m \in Fd : owner'[m] # Free => owner'[m] = owner[m]
      /\ \A d \in Conn \ {c} : d \notin victims \cup Strays(c, n) =>
           /\ Served(d) => owner'[socket[d]] = Connection(d)
           /\ pc[d] = "file" => owner'[held[d]] = File(d)
           /\ pc[d] = "ldap" => owner'[held[d]] = Directory(d)
  <2>1. owner' = [owner EXCEPT ![n] = Free]
    BY <1>1, <1>2
  <2> QED BY <2>1, Closed
<1>4. /\ (Waiting /\ Absent /\ Handed /\ Down)'
      /\ pc'[c] = "done" /\ \A d \in Conn \ {c} : pc'[d] = pc[d]
      /\ main \in {"accept", "spawn"} /\ (main = "spawn" => c # accepted)
  BY <1>1, ThreadFrame
<1>5. socket'[c] = 0 /\ \A d \in Conn \ {c} : socket'[d] = socket[d] /\ address'[d] = address[d]
  BY <1>1 DEF IInv, TypeOK
<1>6. TypeOK'
  <2>1. /\ victims' \subseteq Conn /\ hurried' \subseteq Conn
        /\ strangers' \subseteq Conn /\ lost' \subseteq Conn
    BY <1>1 DEF IInv, TypeOK, Strays
  <2>2. socket' \in [Conn -> 0..MaxFd] /\ address' \in [Conn -> Conn \cup {NoConn}]
    BY <1>1, ServerAssumption DEF IInv, TypeOK
  <2> QED BY <1>1, <1>3, <2>1, <2>2 DEF IInv, TypeOK, Goto
<1>7. ~ Served(c) /\ ~ Served(c)' /\ \A d \in Conn \ {c} : Served(d)' <=> Served(d)
  BY <1>1, <1>4 DEF Served, Working
<1>8. Listens'
  <2>1. owner[n] # Listening
    BY <1>2 DEF IInv, Listens
  <2> QED BY <1>1, <1>3, <1>4, <1>5, <2>1, ObjectsDiffer DEF IInv, Listens, Fd
<1>9. Owned'
  <2> SUFFICES ASSUME NEW m \in Fd, NEW d \in Conn
               PROVE  /\ owner'[m] = Connection(d) => socket'[d] = m /\ Served(d)'
                      /\ owner'[m] = File(d) => held[d] = m /\ pc'[d] = "file"
    BY <1>1 DEF Owned
  <2>1. CASE m = n
    BY <1>3, <2>1, ObjectsDiffer
  <2>2. CASE m # n
    BY <1>1, <1>3, <1>4, <1>5, <1>7, <2>2 DEF IInv, Owned
  <2> QED BY <2>1, <2>2
<1>10. Numbered'
  BY <1>1, <1>4, <1>5, <1>7 DEF IInv, Numbered
<1>11. Intact'
  <2> SUFFICES ASSUME NEW d \in Conn, d \notin victims'
               PROVE  /\ Served(d)' => owner'[socket'[d]] = Connection(d)
                      /\ pc'[d] = "file" => owner'[held[d]] = File(d)
                      /\ pc'[d] = "ldap" => owner'[held[d]] = Directory(d)
                      /\ d \notin strangers' \cup lost'
    BY <1>1 DEF Intact
  <2>1. CASE d = c
    BY <1>1, <1>4, <1>7, <2>1
  <2>2. CASE d # c
    BY <1>1, <1>2, <1>3, <1>4, <1>5, <1>7, <2>2 DEF IInv, Intact
  <2> QED BY <2>1, <2>2
<1>12. Addressed'
  BY <1>1, <1>4, <1>5 DEF IInv, Addressed, Working
<1>13. Counted'
  BY <1>1, <1>3, ObjectsDiffer, CountedFrame
<1> QED BY <1>4, <1>6, <1>8, <1>9, <1>10, <1>11, <1>12, <1>13 DEF IInv
-----------------------------------------------------------------------------
(* The clients.                                                            *)

LEMMA ConnectKeeps == \A c \in Conn : IInv /\ Connect(c) => IInv'
<1> SUFFICES ASSUME NEW c \in Conn, IInv, Connect(c) PROVE IInv'
  OBVIOUS
<1>1. /\ main \in {"accept", "spawn"} /\ peer[c] = "none"
      /\ peer' = [peer EXCEPT ![c] = "open"] /\ queue' = Append(queue, c)
      /\ UNCHANGED <<main, owner, accepted, mClientAddress, pc, asks, socket, held, address, request,
                     victims, hurried, strangers, lost, found>>
  BY DEF Connect, thread, history
<1>2. /\ queue \in Seq(Conn) /\ queue' \in Seq(Conn) /\ Len(queue') = Len(queue) + 1
      /\ queue'[Len(queue) + 1] = c /\ Len(queue) \in Nat
      /\ \A i \in 1..Len(queue) : queue'[i] = queue[i] /\ queue[i] \in Conn
  BY <1>1 DEF IInv, TypeOK
<1>3. peer'[c] = "open" /\ \A d \in Conn \ {c} : peer'[d] = peer[d]
  BY <1>1 DEF IInv, TypeOK
<1>4. TypeOK'
  BY <1>1, <1>2 DEF IInv, TypeOK
<1>5. Waiting'
  <2>1. pc[c] = "none" /\ c # accepted
    BY <1>1 DEF IInv, Absent
  <2>2. \A i \in 1..Len(queue) : queue[i] # c
    BY <1>1 DEF IInv, Waiting
  <2>3. \A i \in 1..Len(queue') : i \in 1..Len(queue) \/ i = Len(queue) + 1
    BY <1>2
  <2> QED BY <1>1, <1>2, <1>3, <2>1, <2>2, <2>3 DEF IInv, Waiting
<1>6. (Absent /\ Handed /\ Down)'
  BY <1>1, <1>3 DEF IInv, Absent, Handed, Down
<1>7. (Listens /\ Owned /\ Numbered /\ Intact /\ Addressed)'
  BY <1>1 DEF IInv, Listens, Owned, Numbered, Intact, Addressed, Served
<1>8. Counted'
  BY <1>1, CountedFrame
<1> QED BY <1>4, <1>5, <1>6, <1>7, <1>8 DEF IInv

LEMMA ClientKeeps ==
  \A c \in Conn, what \in {"command", "login", "quit"} : IInv /\ (Ask(c, what) \/ Leave(c)) => IInv'
<1> SUFFICES ASSUME NEW c \in Conn, NEW what \in {"command", "login", "quit"}, IInv,
                    Ask(c, what) \/ Leave(c)
             PROVE  IInv'
  OBVIOUS
<1>1. /\ request' \in [Conn -> {"none", "command", "login", "quit", "taken"}]
      /\ peer' \in [Conn -> {"none", "open", "closed"}]
      /\ \A d \in Conn : peer'[d] = "none" <=> peer[d] = "none"
      /\ UNCHANGED <<main, owner, queue, accepted, mClientAddress, pc, asks, socket, held, address,
                     victims, hurried, strangers, lost, found>>
  <2>1. /\ request \in [Conn -> {"none", "command", "login", "quit", "taken"}]
        /\ peer \in [Conn -> {"none", "open", "closed"}]
    BY DEF IInv, TypeOK
  <2>2. CASE Ask(c, what)
    BY <2>1, <2>2 DEF Ask, thread, history
  <2>3. CASE Leave(c)
    BY <2>1, <2>3 DEF Leave, thread, history
  <2> QED BY <2>2, <2>3
<1>2. TypeOK'
  BY <1>1 DEF IInv, TypeOK
<1>3. Waiting'
  <2>1. \A i \in 1..Len(queue) : queue[i] \in Conn
    BY DEF IInv, TypeOK
  <2> QED BY <1>1, <2>1 DEF IInv, Waiting
<1>4. (Absent /\ Handed /\ Down)'
  BY <1>1 DEF IInv, Absent, Handed, Down
<1>5. (Listens /\ Owned /\ Numbered /\ Intact /\ Addressed)'
  BY <1>1 DEF IInv, Listens, Owned, Numbered, Intact, Addressed, Served
<1>6. Counted'
  BY <1>1, CountedFrame
<1> QED BY <1>2, <1>3, <1>4, <1>5, <1>6 DEF IInv
-----------------------------------------------------------------------------
LEMMA NextKeeps == IInv /\ [Next]_vars => IInv'
<1> SUFFICES ASSUME IInv, [Next]_vars PROVE IInv'
  OBVIOUS
<1>1. CASE Main
  <2>1. CASE CreateSocket
    BY <2>1, CreateSocketKeeps
  <2>2. CASE Bind \/ SetOptions \/ StartListening
    BY <2>2, SetUpKeeps DEF Bind, SetOptions, StartListening
  <2>3. CASE Accept
    BY <2>3, AcceptKeeps
  <2>4. CASE AcceptFails
    BY <2>4, ExitKeeps DEF AcceptFails
  <2>5. CASE Spawn
    BY <2>5, SpawnKeeps
  <2> QED BY <1>1, <2>1, <2>2, <2>3, <2>4, <2>5 DEF Main
<1>2. CASE Failure
  BY <1>2, ExitKeeps DEF Failure, StartFails, AcceptAborted, SpawnFails
<1>3. CASE Restart
  <2>1. /\ main = "ended" /\ main' = "socket"
        /\ UNCHANGED <<owner, queue, accepted, mClientAddress, pc, asks, socket, held, address, peer,
                       request, victims, hurried, strangers, lost, found>>
    BY <1>3 DEF Restart, thread, clients, history
  <2>2. (TypeOK /\ Waiting /\ Absent /\ Handed /\ Down)'
    BY <2>1 DEF IInv, TypeOK, Waiting, Absent, Handed, Down
  <2>3. (Listens /\ Owned /\ Numbered /\ Intact /\ Addressed)'
    BY <2>1 DEF IInv, Listens, Owned, Numbered, Intact, Addressed, Served
  <2>4. Counted'
    BY <2>1, CountedFrame
  <2> QED BY <2>2, <2>3, <2>4 DEF IInv
<1>4. ASSUME NEW c \in Conn, Thread(c)
      PROVE  IInv'
  <2>1. CASE Record(c)
    BY <2>1, RecordKeeps
  <2>2. CASE Receive(c) \/ ReceiveEnd(c)
    BY <2>2, ReceiveKeeps
  <2>3. CASE OpenFile(c) \/ AskDirectory(c)
    BY <2>3, OpenFileKeeps, AskDirectoryKeeps
  <2>4. CASE CloseFile(c)
    BY <2>4, CloseFileKeeps
  <2>5. CASE Answer(c)
    BY <2>5, AnswerKeeps
  <2>6. CASE AnswerFails(c)
    BY <2>6, ExitKeeps DEF AnswerFails
  <2>7. CASE Close(c)
    BY <2>7, CloseKeeps
  <2>8. CASE CloseAgain(c)
    BY <2>8, CloseAgainKeeps
  <2> QED BY <1>4, <2>1, <2>2, <2>3, <2>4, <2>5, <2>6, <2>7, <2>8 DEF Thread
<1>5. ASSUME NEW c \in Conn, FromDirectory(c)
      PROVE  IInv'
  BY <1>5, SearchAnsweredKeeps, DirectoryRefusesKeeps, DirectoryEndsKeeps DEF FromDirectory
<1>6. ASSUME NEW c \in Conn, Client(c)
      PROVE  IInv'
  BY <1>6, ConnectKeeps, ClientKeeps DEF Client
<1>7. CASE UNCHANGED vars
  <2> USE <1>7 DEF vars, thread, clients, history
  <2>1. (TypeOK /\ Waiting /\ Absent /\ Handed /\ Down)'
    BY DEF IInv, TypeOK, Waiting, Absent, Handed, Down
  <2>2. (Listens /\ Owned /\ Numbered /\ Intact /\ Addressed)'
    BY DEF IInv, Listens, Owned, Numbered, Intact, Addressed, Served
  <2>3. Counted'
    BY CountedFrame
  <2> QED BY <2>1, <2>2, <2>3 DEF IInv
<1> QED BY <1>1, <1>2, <1>3, <1>4, <1>6, <1>7, <1>5 DEF Next

\* The relation between descriptors, threads and history is an invariant.
THEOREM ServerInvariant == Spec => []IInv
<1> QED BY InitKeeps, NextKeeps, PTL DEF Spec

(***************************************************************************)
(* Every variable of Server keeps its type.                                *)
(***************************************************************************)
THEOREM ServerTypes == Spec => []TypeOK
<1>1. IInv => TypeOK
  BY DEF IInv
<1> QED BY <1>1, ServerInvariant, PTL

(***************************************************************************)
(* A thread that no stray close has hit works on its own connection and    *)
(* its own file (Server::Run, ClientCommunication).                        *)
(***************************************************************************)
THEOREM DescriptorsAreOwn == Spec => []OwnDescriptors
<1>1. IInv => OwnDescriptors
  BY DEF IInv, Intact, OwnDescriptors, Served
<1> QED BY <1>1, ServerInvariant, PTL

(***************************************************************************)
(* Threads and commands close what they open, but for the connections to   *)
(* the directory, of which every LOGIN that got its search answered leaves *)
(* at most one; and the listening socket stays open as long as the server  *)
(* accepts (Server::Run, ClientCommunication, Command::CheckLoginData).    *)
(***************************************************************************)
THEOREM OnlyLoginsLeak == Spec => []NoLeak
<1>1. IInv => NoLeak
  BY DEF IInv, Owned, Listens, Counted, NoLeak, Served
<1> QED BY <1>1, ServerInvariant, PTL

(***************************************************************************)
(* A session has the address of its own client, unless the next one was    *)
(* accepted too soon (Server::Run, ServerCommunication).                   *)
(***************************************************************************)
THEOREM AddressesAreRight == Spec => []AddressRight
<1>1. IInv => AddressRight
  BY DEF IInv, Addressed, AddressRight
<1> QED BY <1>1, ServerInvariant, PTL
=============================================================================
