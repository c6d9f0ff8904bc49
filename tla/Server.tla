-------------------------------- MODULE Server --------------------------------
(***************************************************************************)
(* The listening server, its detached threads, and the descriptors of the  *)
(* process (tw-mailer/src/server: Server.cpp, main.cpp, and the start and  *)
(* the end of a connection in ServerCommunication.cpp).                    *)
(*                                                                         *)
(* A thread knows its connection by the number of a descriptor.  A number  *)
(* that is closed is given to whatever is opened next, be it a connection, *)
(* a file, or the connection of a LOGIN to the LDAP directory, and         *)
(* every thread closes its number twice: at the end of ClientCommunication *)
(* and once more in Server::Run.  A LOGIN whose search the directory has   *)
(* answered never closes its connection to the directory.                  *)
(***************************************************************************)
EXTENDS Integers, Sequences, FiniteSets

CONSTANTS
  Conn,     \* the connections clients make; each comes from an address of its own
  NoConn,   \* none of them
  MaxFd,    \* how many descriptors the process may have, the standard ones aside
  Backlog,  \* how many connections may wait: MAX_WAITING_CONNECTIONS
  MaxFound, \* a bound: how many LOGINs of one thread the directory answers
  Fault     \* "start", "abort" and "thread" when a call that sets the server
            \* up, that accepts, or that starts a thread may fail

ASSUME ServerAssumption ==
  /\ NoConn \notin Conn
  /\ MaxFd \in Nat \ {0}
  /\ Backlog \in Nat \ {0}
  /\ MaxFound \in Nat
  /\ Fault \subseteq {"start", "abort", "thread"}

Fd == 1..MaxFd

\* What a descriptor may stand for.  A file belongs to the thread of a connection,
\* and so does a connection to the directory.
Object == [kind : {"free", "listen", "connection", "file", "directory"},
           of : Conn \cup {NoConn}]
Free          == [kind |-> "free", of |-> NoConn]
Listening     == [kind |-> "listen", of |-> NoConn]
Connection(c) == [kind |-> "connection", of |-> c]
File(c)       == [kind |-> "file", of |-> c]
Directory(c)  == [kind |-> "directory", of |-> c]

VARIABLES
  main,           \* what Run does next
  owner,          \* what every descriptor stands for
  queue,          \* the connections not yet accepted
  accepted,       \* the connection a thread is about to be started for
  mClientAddress, \* the connection whose address accept wrote last
  pc,             \* what the thread of a connection does next
  asks,           \* the threads whose LOGIN has not asked the directory yet
  socket,         \* its mSocket and communicationSocket
  held,           \* the descriptor of the file, or of the directory, it works on
  address,        \* the address of its session, by connection
  peer,           \* the client of a connection: not there, open, or closed
  request         \* what the client has sent and waits for

\* What happened, for the properties to refer to; the code has none of it.
VARIABLES
  victims,   \* the connections somebody else's close took a descriptor from
  hurried,   \* those still without an address when the next one was accepted
  strangers, \* the threads that answered a client of another connection
  lost,      \* the threads whose mails did not go into their file
  found      \* how many LOGINs of a thread had their search answered

thread  == <<pc, asks, socket, held, address>>
clients == <<peer, request>>
history == <<victims, hurried, strangers, lost, found>>
vars    == <<main, owner, queue, accepted, mClientAddress, thread, clients, history>>

Init ==
  /\ main = "socket"
  /\ owner = [n \in Fd |-> Free]
  /\ queue = <<>>
  /\ accepted = NoConn
  /\ mClientAddress = NoConn
  /\ pc = [c \in Conn |-> "none"]
  /\ asks = {}
  /\ socket = [c \in Conn |-> 0]
  /\ held = [c \in Conn |-> 0]
  /\ address = [c \in Conn |-> NoConn]
  /\ peer = [c \in Conn |-> "none"]
  /\ request = [c \in Conn |-> "none"]
  /\ victims = {} /\ hurried = {} /\ strangers = {} /\ lost = {}
  /\ found = [c \in Conn |-> 0]

\* The kernel gives the object a free number: the lowest one when the call began,
\* which for an accept that had to wait may be long ago.
Open(n, object) ==
  /\ owner[n] = Free
  /\ owner' = [owner EXCEPT ![n] = object]

NoneFree == \A n \in Fd : owner[n] # Free

\* The connections whose threads lose a descriptor they work on when the thread c
\* closes the number n.
Strays(c, n) ==
  {d \in Conn \ {c} : \/ owner[n] \in {Connection(d), File(d)}
                      \/ owner[n] = Directory(d) /\ held[d] = n}

CloseNumber(c, n) ==
  /\ owner' = [owner EXCEPT ![n] = Free]
  /\ victims' = victims \cup Strays(c, n)
-----------------------------------------------------------------------------
(* The main thread.                                                        *)

\* The process ends, and with it its memory and all connections.
Exit ==
  /\ main' = "ended"
  /\ owner' = [n \in Fd |-> Free]
  /\ queue' = <<>>
  /\ accepted' = NoConn
  /\ mClientAddress' = NoConn
  /\ pc' = [c \in Conn |-> IF peer[c] = "none" THEN "none" ELSE "done"]
  /\ asks' = {}
  /\ socket' = [c \in Conn |-> 0]
  /\ held' = [c \in Conn |-> 0]
  /\ address' = [c \in Conn |-> NoConn]
  /\ peer' = [c \in Conn |-> IF peer[c] = "none" THEN "none" ELSE "closed"]
  /\ request' = [c \in Conn |-> "none"]
  /\ victims' = {} /\ hurried' = {} /\ strangers' = {} /\ lost' = {}
  /\ found' = [c \in Conn |-> 0]

CreateSocket ==
  /\ main = "socket"
  /\ main' = "bind"
  /\ \E n \in Fd : Open(n, Listening)
  /\ UNCHANGED <<queue, accepted, mClientAddress, thread, clients, history>>

\* Bind, SetOptions and StartListening, in this order.
SetUp(from, to) ==
  /\ main = from
  /\ main' = to
  /\ UNCHANGED <<owner, queue, accepted, mClientAddress, thread, clients, history>>

Bind           == SetUp("bind", "options")
SetOptions     == SetUp("options", "listen")
StartListening == SetUp("listen", "accept")

\* The port may be taken, also by connections of a server that has just ended.
StartFails ==
  /\ "start" \in Fault
  /\ main \in {"socket", "bind", "options", "listen"}
  /\ Exit

\* Broken: the address of the client is not asked for.
AcceptOnly ==
  /\ main = "accept"
  /\ queue # <<>>
  /\ \E n \in Fd : /\ Open(n, Connection(Head(queue)))
                   /\ socket' = [socket EXCEPT ![Head(queue)] = n]
  /\ accepted' = Head(queue)
  /\ queue' = Tail(queue)
  /\ hurried' = hurried \cup {c \in Conn : pc[c] = "start"}
  /\ main' = "spawn"
  /\ UNCHANGED <<mClientAddress, pc, asks, held, address, clients, victims, strangers, lost, found>>

\* accept writes the address into a member of the server all threads read.
Accept ==
  /\ main = "accept"
  /\ queue # <<>>
  /\ \E n \in Fd : /\ Open(n, Connection(Head(queue)))
                   /\ socket' = [socket EXCEPT ![Head(queue)] = n]
  /\ accepted' = Head(queue)
  /\ queue' = Tail(queue)
  /\ mClientAddress' = Head(queue)
  /\ hurried' = hurried \cup {c \in Conn : pc[c] = "start"}
  /\ main' = "spawn"
  /\ UNCHANGED <<pc, asks, held, address, clients, victims, strangers, lost, found>>

\* Broken: the server tries again, and again.
AcceptRetries ==
  /\ main = "accept"
  /\ NoneFree
  /\ UNCHANGED vars

\* Broken: Run does not look at what Accept returns.
AcceptUnchecked ==
  /\ main = "accept"
  /\ NoneFree
  /\ main' = "spawn"
  /\ UNCHANGED <<owner, queue, accepted, mClientAddress, thread, clients, history>>

\* No descriptor is left, whether or not a connection waits: the loop ends, and
\* so does main.
AcceptFails ==
  /\ main = "accept"
  /\ NoneFree
  /\ Exit

\* So it does when accept fails for another reason, as for a connection that was
\* aborted before it could be accepted.
AcceptAborted ==
  /\ "abort" \in Fault
  /\ main = "accept"
  /\ Exit

\* The thread is started and detached.
Spawn ==
  /\ main = "spawn"
  /\ pc' = [pc EXCEPT ![accepted] = "start"]
  /\ accepted' = NoConn
  /\ main' = "accept"
  /\ UNCHANGED <<owner, queue, mClientAddress, asks, socket, held, address, clients, history>>

\* std::thread throws, and nothing catches it.
SpawnFails ==
  /\ "thread" \in Fault
  /\ main = "spawn"
  /\ Exit

Restart ==
  /\ main = "ended"
  /\ main' = "socket"
  /\ UNCHANGED <<owner, queue, accepted, mClientAddress, thread, clients, history>>

Main ==
  \/ CreateSocket
  \/ Bind
  \/ SetOptions
  \/ StartListening
  \/ Accept
  \/ AcceptFails
  \/ Spawn

Failure ==
  \/ StartFails
  \/ AcceptAborted
  \/ SpawnFails
-----------------------------------------------------------------------------
(* The thread of a connection.                                             *)

Goto(c, step) == pc' = [pc EXCEPT ![c] = step]

\* A number that stands for neither a client nor the directory.
Dead(n) == owner[n].kind \notin {"connection", "directory"}

\* Broken: handleClient captures communicationSocket by reference.
RecordByReference(c) ==
  /\ pc[c] = "start"
  /\ Goto(c, "recv")
  /\ address' = [address EXCEPT ![c] = mClientAddress]
  /\ socket' = [socket EXCEPT ![c] = socket[mClientAddress]]
  /\ UNCHANGED <<main, owner, queue, accepted, mClientAddress, asks, held, clients, history>>

\* The session gets its address from what accept wrote last.
Record(c) ==
  /\ pc[c] = "start"
  /\ Goto(c, "recv")
  /\ address' = [address EXCEPT ![c] = mClientAddress]
  /\ UNCHANGED <<main, owner, queue, accepted, mClientAddress, asks, socket, held, clients, history>>

\* A request arrives on the connection the number stands for.
Receive(c) ==
  /\ pc[c] = "recv"
  /\ \E d \in Conn :
       /\ owner[socket[c]] = Connection(d)
       /\ request[d] \in {"command", "login", "quit"}
       /\ Goto(c, IF request[d] = "quit" THEN "close" ELSE "open")
       /\ asks' = asks \cup {t \in {c} : request[d] = "login"}
       /\ request' = [request EXCEPT ![d] = IF @ = "quit" THEN "none" ELSE "taken"]
  /\ UNCHANGED <<main, owner, queue, accepted, mClientAddress, socket, held, address, peer, history>>

\* Broken: only an error ends the loop.
ReceiveError(c) ==
  /\ pc[c] = "recv"
  /\ Dead(socket[c])
  /\ Goto(c, "close")
  /\ UNCHANGED <<main, owner, queue, accepted, mClientAddress, asks, socket, held, address,
                 clients, history>>

\* recv returns 0, or an error, as the number stands for no connection.
ReceiveEnd(c) ==
  /\ pc[c] = "recv"
  /\ \/ Dead(socket[c])
     \/ \E d \in Conn : /\ owner[socket[c]] = Connection(d)
                        /\ peer[d] = "closed"
                        /\ request[d] \in {"none", "taken"}
  /\ Goto(c, "close")
  /\ UNCHANGED <<main, owner, queue, accepted, mClientAddress, asks, socket, held, address,
                 clients, history>>

\* After its file a LOGIN asks the directory, unless it has; a command is answered.
AfterFile(c) == IF c \in asks THEN "login" ELSE "answer"

\* The command opens a mailbox or the list of bans, which the process may have no
\* descriptor left for; or it is refused before.
OpenFile(c) ==
  /\ pc[c] = "open"
  /\ \/ \E n \in Fd : /\ Open(n, File(c))
                      /\ held' = [held EXCEPT ![c] = n]
                      /\ Goto(c, "file")
     \/ Goto(c, AfterFile(c)) /\ UNCHANGED <<owner, held>>
  /\ UNCHANGED <<main, queue, accepted, mClientAddress, asks, socket, address, clients, history>>

\* What has been written goes wherever the number leads by now, and the number
\* is closed; nobody looks at the result.  A LOGIN may find a ban in the list.
CloseFile(c) ==
  /\ pc[c] = "file"
  /\ \/ Goto(c, AfterFile(c)) /\ UNCHANGED asks
     \/ Goto(c, "answer") /\ asks' = asks \ {c}
  /\ lost' = lost \cup {d \in {c} : owner[held[c]] # File(c)}
  /\ CloseNumber(c, held[c])
  /\ held' = [held EXCEPT ![c] = 0]
  /\ UNCHANGED <<main, queue, accepted, mClientAddress, socket, address, clients,
                 hurried, strangers, found>>

\* ldap_start_tls_s connects to the directory, or fails for want of a descriptor
\* or of the directory.  A LOGIN that has failed may write a ban.
AskDirectory(c) ==
  /\ pc[c] = "login"
  /\ \/ \E n \in Fd : /\ Open(n, Directory(c))
                      /\ held' = [held EXCEPT ![c] = n]
                      /\ Goto(c, "ldap")
     \/ Goto(c, "open") /\ UNCHANGED <<owner, held>>
  /\ asks' = asks \ {c}
  /\ UNCHANGED <<main, queue, accepted, mClientAddress, socket, address, clients, history>>

\* The answer goes to the client of the connection the number stands for, or to
\* the directory.
Answer(c) ==
  /\ pc[c] = "answer"
  /\ \/ \E d \in Conn :
          /\ owner[socket[c]] = Connection(d)
          /\ request' = [request EXCEPT ![d] = IF @ = "taken" THEN "none" ELSE @]
          /\ strangers' = strangers \cup ({c} \ {d})
     \/ /\ owner[socket[c]].kind = "directory"
        /\ strangers' = strangers \cup {c}
        /\ UNCHANGED request
  /\ Goto(c, "recv")
  /\ UNCHANGED <<main, owner, queue, accepted, mClientAddress, asks, socket, held, address, peer,
                 victims, hurried, lost, found>>

\* send fails: the number stands for no connection, or the other end has gone.
AnswerFails(c) ==
  /\ pc[c] = "answer"
  /\ \/ owner[socket[c]].kind # "connection"
     \/ \E d \in Conn : owner[socket[c]] = Connection(d) /\ peer[d] = "closed"
  /\ Exit

\* The end of ClientCommunication.
Close(c) ==
  /\ pc[c] = "close"
  /\ Goto(c, "again")
  /\ CloseNumber(c, socket[c])
  /\ UNCHANGED <<main, queue, accepted, mClientAddress, asks, socket, held, address, clients,
                 hurried, strangers, lost, found>>

\* The end of handleClient.  The thread is no longer, nor what is known of it.
CloseAgain(c) ==
  /\ pc[c] = "again"
  /\ Goto(c, "done")
  /\ owner' = [owner EXCEPT ![socket[c]] = Free]
  /\ socket' = [socket EXCEPT ![c] = 0]
  /\ address' = [address EXCEPT ![c] = NoConn]
  /\ victims' = (victims \cup Strays(c, socket[c])) \ {c}
  /\ hurried' = hurried \ {c}
  /\ strangers' = strangers \ {c}
  /\ lost' = lost \ {c}
  /\ UNCHANGED <<main, queue, accepted, mClientAddress, asks, held, clients, found>>

Thread(c) ==
  \/ Record(c)
  \/ Receive(c)
  \/ ReceiveEnd(c)
  \/ OpenFile(c)
  \/ CloseFile(c)
  \/ AskDirectory(c)
  \/ Answer(c)
  \/ AnswerFails(c)
  \/ Close(c)
  \/ CloseAgain(c)
-----------------------------------------------------------------------------
(* The directory, which answers when it likes: no call to it has a timeout. *)

\* The search has been answered, with a user or with none.  CheckLoginData
\* returns, and nothing is left that knows of the connection.
SearchAnswered(c) ==
  /\ pc[c] = "ldap"
  /\ owner[held[c]] = Directory(c)
  /\ found[c] < MaxFound
  /\ found' = [found EXCEPT ![c] = @ + 1]
  /\ held' = [held EXCEPT ![c] = 0]
  /\ \E step \in {"open", "answer"} : Goto(c, step)
  /\ UNCHANGED <<main, owner, queue, accepted, mClientAddress, asks, socket, address, clients,
                 victims, hurried, strangers, lost>>

\* Broken: a refused LOGIN does not unbind either.
RefusedNotUnbound(c) ==
  /\ pc[c] = "ldap"
  /\ held' = [held EXCEPT ![c] = 0]
  /\ Goto(c, "open")
  /\ UNCHANGED <<main, owner, queue, accepted, mClientAddress, asks, socket, address, clients,
                 history>>

\* TLS, the bind or the search fails, as they do when the number leads somewhere
\* else by now: ldap_unbind_ext_s closes it.
DirectoryRefuses(c) ==
  /\ pc[c] = "ldap"
  /\ CloseNumber(c, held[c])
  /\ held' = [held EXCEPT ![c] = 0]
  /\ Goto(c, "open")
  /\ UNCHANGED <<main, queue, accepted, mClientAddress, asks, socket, address, clients,
                 hurried, strangers, lost, found>>

\* The directory ends a connection a thread takes for its client's.
DirectoryEnds(c) ==
  /\ pc[c] = "recv"
  /\ owner[socket[c]].kind = "directory"
  /\ Goto(c, "close")
  /\ UNCHANGED <<main, owner, queue, accepted, mClientAddress, asks, socket, held, address,
                 clients, history>>

FromDirectory(c) ==
  \/ SearchAnswered(c)
  \/ DirectoryRefuses(c)
  \/ DirectoryEnds(c)
-----------------------------------------------------------------------------
(* The clients.                                                            *)

\* The kernel completes the connection before the server accepts it.
Connect(c) ==
  /\ main \in {"accept", "spawn"}
  /\ peer[c] = "none"
  /\ Len(queue) < Backlog
  /\ peer' = [peer EXCEPT ![c] = "open"]
  /\ queue' = Append(queue, c)
  /\ UNCHANGED <<main, owner, accepted, mClientAddress, thread, request, history>>

Ask(c, what) ==
  /\ peer[c] = "open"
  /\ request[c] = "none"
  /\ request' = [request EXCEPT ![c] = what]
  /\ peer' = [peer EXCEPT ![c] = IF what = "quit" THEN "closed" ELSE "open"]
  /\ UNCHANGED <<main, owner, queue, accepted, mClientAddress, thread, history>>

\* The client is closed, or dies, without QUIT.
Leave(c) ==
  /\ peer[c] = "open"
  /\ peer' = [peer EXCEPT ![c] = "closed"]
  /\ UNCHANGED <<main, owner, queue, accepted, mClientAddress, thread, request, history>>

Client(c) ==
  \/ Connect(c)
  \/ \E what \in {"command", "login", "quit"} : Ask(c, what)
  \/ Leave(c)

Next ==
  \/ Main
  \/ Failure
  \/ Restart
  \/ \E c \in Conn : Thread(c) \/ FromDirectory(c) \/ Client(c)

Spec == Init /\ [][Next]_vars

\* The scheduler runs every thread.  Nothing has to fail, and the directory need
\* not answer.
FairSpec == Spec /\ WF_vars(Main) /\ \A c \in Conn : WF_vars(Thread(c))
-----------------------------------------------------------------------------
TypeOK ==
  /\ main \in {"socket", "bind", "options", "listen", "accept", "spawn", "ended"}
  /\ owner \in [Fd -> Object]
  /\ queue \in Seq(Conn)
  /\ accepted \in Conn \cup {NoConn}
  /\ main = "spawn" => accepted \in Conn
  /\ mClientAddress \in Conn \cup {NoConn}
  /\ pc \in [Conn -> {"none", "start", "recv", "open", "file", "login", "ldap", "answer",
                      "close", "again", "done"}]
  /\ asks \subseteq Conn
  /\ socket \in [Conn -> 0..MaxFd]
  /\ held \in [Conn -> 0..MaxFd]
  /\ address \in [Conn -> Conn \cup {NoConn}]
  /\ peer \in [Conn -> {"none", "open", "closed"}]
  /\ request \in [Conn -> {"none", "command", "login", "quit", "taken"}]
  /\ victims \subseteq Conn /\ hurried \subseteq Conn
  /\ strangers \subseteq Conn /\ lost \subseteq Conn
  /\ found \in [Conn -> Nat]

Working == {"start", "recv", "open", "file", "login", "ldap", "answer", "close"}

(***************************************************************************)
(* A thread from which no close has taken a descriptor reads and answers   *)
(* its own client, writes its own file and asks the directory on its own   *)
(* connection, whatever numbers other threads close, twice or not          *)
(* (handleClient, ClientCommunication, CheckLoginData).                    *)
(***************************************************************************)
OwnDescriptors ==
  \A c \in Conn \ victims :
    /\ pc[c] \in Working => owner[socket[c]] = Connection(c)
    /\ pc[c] = "file" => owner[held[c]] = File(c)
    /\ pc[c] = "ldap" => owner[held[c]] = Directory(c)
    /\ c \notin strangers \cup lost

\* The connections to the directory that LOGINs of the thread c left behind.
LeftOpen(c) == {n \in Fd : owner[n] = Directory(c)} \ {held[c]}

(***************************************************************************)
(* Nothing but a LOGIN leaks a descriptor, and each at most one: what a    *)
(* descriptor stands for belongs to a thread that still has its close      *)
(* before it, or it is a connection to the directory and a LOGIN of its    *)
(* own, which the directory has answered, left it open.  No stray close    *)
(* ever takes the listening socket.                                        *)
(***************************************************************************)
NoLeak ==
  /\ \A n \in Fd, c \in Conn :
       /\ owner[n] = Connection(c) => c = accepted \/ pc[c] \in Working
       /\ owner[n] = File(c) => pc[c] = "file"
  /\ \A c \in Conn : Cardinality(LeftOpen(c)) <= found[c]
  /\ main \in {"accept", "spawn"} => \E n \in Fd : owner[n] = Listening

(***************************************************************************)
(* A session has the address of its own client, which a ban will be about, *)
(* unless the next connection was accepted before the thread had copied it.*)
(***************************************************************************)
AddressRight ==
  \A c \in Conn \ hurried :
    pc[c] \in (Working \ {"start"}) \cup {"again"} => address[c] = c

(***************************************************************************)
(* No connection waits for ever: the server accepts it, or ends.  Conn is  *)
(* finite, so the queue would get empty for good.                          *)
(***************************************************************************)
AcceptedInTheEnd == queue # <<>> ~> queue = <<>>

\* A thread that still runs for a client that has gone, and does not wait for the
\* directory.
LeftBehind ==
  \E c \in Conn \ victims : peer[c] = "closed" /\ pc[c] \in Working \ {"ldap"}

(***************************************************************************)
(* The thread of a client that has gone ends, and its descriptor with it,  *)
(* unless the descriptor was taken from it, or it is a LOGIN for which the *)
(* directory has no answer: nothing limits the time of these calls.        *)
(***************************************************************************)
Released == LeftBehind ~> ~ LeftBehind
=============================================================================
