------------------------------- MODULE MyFind -------------------------------
(***************************************************************************)
(* myfind searches a directory for several file names at once              *)
(* (myfind/main.cpp).  It forks a child for every name; the children send  *)
(* what they found through a System V message queue, and the parent prints *)
(* one line for every name.                                                *)
(*                                                                         *)
(* The key of the queue is a constant, so all instances of the program on  *)
(* a machine share one queue, and a queue outlives the processes that use  *)
(* it until one of them destroys it.                                       *)
(***************************************************************************)
EXTENDS Integers, Sequences, FiniteSets

CONSTANTS
  Run,       \* the instances of the program that are started
  Command,   \* the command lines they are started with
  Name,      \* file names
  Fold,      \* a file name in lower case, as strcasecmp compares them
  Tree,      \* the entries of the directory and of those below it
  NotFound,  \* the path a child sends when it found nothing
  Capacity,  \* how many messages fit into the queue (msg_qbytes)
  Fault      \* which of "queue", "fork", "walk", "child" and "kill" may happen

ASSUME MyFindAssumption ==
  /\ IsFiniteSet(Run)
  /\ Fold \in [Name -> Name]
  /\ Tree \subseteq [name : Name, path : Nat, dir : BOOLEAN, below : BOOLEAN]
  /\ NotFound \notin Nat
  /\ Command \subseteq [opts : Seq({"R", "i", "?"}), exists : BOOLEAN, names : Seq(Name)]
  /\ Capacity \in Nat \ {0}
  /\ Fault \subseteq {"queue", "fork", "walk", "child", "kill"}

VARIABLES
  cmd,      \* the command line of an instance
  main,     \* what the parent does
  msg_id,   \* the queue it has got: 0 is none yet
  forked,   \* how many turns of the loop that forks are over
  child,    \* what the children do, one for every name
  found,    \* the path a child found
  messages, \* the messages the parent has received
  live,     \* the queue the key stands for at the moment: 0 is none
  queue,    \* the messages in it
  created   \* how many queues there have been

kernel == <<live, queue, created>>
vars   == <<cmd, main, msg_id, forked, child, found, messages, kernel>>

Names(r) == cmd[r].names
Children(r) == 1..Len(Names(r))

\* The options getopt accepts: each at most once, and no others.
OptionsValid(opts) ==
  /\ \A i \in 1..Len(opts) : opts[i] # "?"
  /\ \A i, j \in 1..Len(opts) : opts[i] = opts[j] => i = j

Option(r, o) == \E i \in 1..Len(cmd[r].opts) : cmd[r].opts[i] = o

\* checkFilename: with the flag set the comparison ignores the case.
Matches(entry, filename, caseSensitive) ==
  /\ ~ entry.dir
  /\ \/ ~ caseSensitive /\ entry.name = filename
     \/ caseSensitive /\ Fold[entry.name] = Fold[filename]

Hits(r, i) == {entry \in Tree : /\ entry.below => Option(r, "R")
                                /\ Matches(entry, Names(r)[i], Option(r, "i"))}

\* What searchForFilename may return: the last hit, and the iterator promises
\* no order.  An error of the file system ends the search with what there is.
Results(r, i) ==
  {entry.path : entry \in Hits(r, i)}
  \cup {p \in {NotFound} : Hits(r, i) = {} \/ "walk" \in Fault}

Init ==
  /\ cmd \in [Run -> Command]
  /\ main = [r \in Run |-> "start"]
  /\ msg_id = [r \in Run |-> 0]
  /\ forked = [r \in Run |-> 0]
  /\ child = [r \in Run |-> [i \in Children(r) |-> "none"]]
  /\ found = [r \in Run |-> [i \in Children(r) |-> NotFound]]
  /\ messages = [r \in Run |-> <<>>]
  /\ live = 0
  /\ queue = <<>>
  /\ created = 0
-----------------------------------------------------------------------------
(* The parent.                                                             *)

Give(r, state) == main' = [main EXCEPT ![r] = state]

\* print_usage, or a search path that is missing or does not exist.
Usage(r) ==
  /\ main[r] = "start"
  /\ ~ OptionsValid(cmd[r].opts) \/ ~ cmd[r].exists
  /\ Give(r, "failed")
  /\ UNCHANGED <<cmd, msg_id, forked, child, found, messages, kernel>>

\* msgget with IPC_CREAT takes the queue that is there, or makes one.
GetQueue(r) ==
  /\ main[r] = "start"
  /\ OptionsValid(cmd[r].opts)
  /\ cmd[r].exists
  /\ IF live # 0 THEN UNCHANGED kernel
     ELSE /\ created' = created + 1
          /\ live' = created'
          /\ queue' = <<>>
  /\ msg_id' = [msg_id EXCEPT ![r] = live']
  /\ Give(r, "running")
  /\ UNCHANGED <<cmd, forked, child, found, messages>>

NoQueue(r) ==
  /\ "queue" \in Fault
  /\ main[r] = "start"
  /\ OptionsValid(cmd[r].opts)
  /\ cmd[r].exists
  /\ Give(r, "failed")
  /\ UNCHANGED <<cmd, msg_id, forked, child, found, messages, kernel>>

\* Broken: one child more than there are names.
ForkingTooOften(r) == main[r] = "running" /\ forked[r] <= Len(Names(r))

Forking(r) == main[r] = "running" /\ forked[r] < Len(Names(r))

Fork(r) ==
  /\ Forking(r)
  /\ forked' = [forked EXCEPT ![r] = @ + 1]
  /\ child' = [child EXCEPT ![r][forked[r] + 1] = "search"]
  /\ UNCHANGED <<cmd, main, msg_id, found, messages, kernel>>

\* The loop reports the failure and goes on.
ForkFails(r) ==
  /\ "fork" \in Fault
  /\ Forking(r)
  /\ forked' = [forked EXCEPT ![r] = @ + 1]
  /\ UNCHANGED <<cmd, main, msg_id, child, found, messages, kernel>>

\* The parent still wants a message; msgrcv blocks while there is none.
Waiting(r) ==
  /\ main[r] = "running"
  /\ forked[r] = Len(Names(r))
  /\ Len(messages[r]) < Len(Names(r))

\* Broken: the message stays in the queue.
Peek(r) ==
  /\ Waiting(r)
  /\ msg_id[r] = live
  /\ queue # <<>>
  /\ messages' = [messages EXCEPT ![r] = Append(@, Head(queue))]
  /\ UNCHANGED <<cmd, main, msg_id, forked, child, found, kernel>>

Receive(r) ==
  /\ Waiting(r)
  /\ msg_id[r] = live
  /\ queue # <<>>
  /\ messages' = [messages EXCEPT ![r] = Append(@, Head(queue))]
  /\ queue' = Tail(queue)
  /\ UNCHANGED <<cmd, main, msg_id, forked, child, found, live, created>>

\* Broken: an error of msgrcv is no reason to stop.
ReceiveRetries(r) ==
  /\ Waiting(r)
  /\ msg_id[r] # live
  /\ UNCHANGED vars

\* The queue has been destroyed: EIDRM, or EINVAL.
ReceiveFails(r) ==
  /\ Waiting(r)
  /\ msg_id[r] # live
  /\ Give(r, "failed")
  /\ UNCHANGED <<cmd, msg_id, forked, child, found, messages, kernel>>

\* Broken: nobody destroys the queue.
FinishOnly(r) ==
  /\ main[r] = "running"
  /\ forked[r] = Len(Names(r))
  /\ Len(messages[r]) >= Len(Names(r))
  /\ Give(r, "done")
  /\ UNCHANGED <<cmd, msg_id, forked, child, found, messages, kernel>>

\* IPC_RMID, and the lines are printed.  That the queue is gone already does
\* not matter.
Finish(r) ==
  /\ main[r] = "running"
  /\ forked[r] = Len(Names(r))
  /\ Len(messages[r]) >= Len(Names(r))
  /\ IF msg_id[r] = live THEN live' = 0 /\ queue' = <<>> ELSE UNCHANGED <<live, queue>>
  /\ Give(r, "done")
  /\ UNCHANGED <<cmd, msg_id, forked, child, found, messages, created>>
-----------------------------------------------------------------------------
(* The children.                                                           *)

Search(r, i) ==
  /\ child[r][i] = "search"
  /\ \E path \in Results(r, i) : found' = [found EXCEPT ![r][i] = path]
  /\ child' = [child EXCEPT ![r][i] = "send"]
  /\ UNCHANGED <<cmd, main, msg_id, forked, messages, kernel>>

\* msgsnd blocks while the queue is full.
SendMessage(r, i) ==
  /\ child[r][i] = "send"
  /\ msg_id[r] = live
  /\ Len(queue) < Capacity
  /\ queue' = Append(queue, [mId |-> <<r, i>>, filename |-> Names(r)[i], path |-> found[r][i]])
  /\ child' = [child EXCEPT ![r][i] = "sent"]
  /\ UNCHANGED <<cmd, main, msg_id, forked, found, messages, live, created>>

SendFails(r, i) ==
  /\ child[r][i] = "send"
  /\ msg_id[r] # live
  /\ child' = [child EXCEPT ![r][i] = "failed"]
  /\ UNCHANGED <<cmd, main, msg_id, forked, found, messages, kernel>>
-----------------------------------------------------------------------------
\* A child ends by a signal, or by what the iterator throws beside
\* filesystem_error.
ChildDies(r, i) ==
  /\ "child" \in Fault
  /\ child[r][i] \in {"search", "send"}
  /\ child' = [child EXCEPT ![r][i] = "dead"]
  /\ UNCHANGED <<cmd, main, msg_id, forked, found, messages, kernel>>

\* The parent is interrupted.  Neither the children nor the queue go with it.
Killed(r) ==
  /\ "kill" \in Fault
  /\ main[r] = "running"
  /\ Give(r, "killed")
  /\ UNCHANGED <<cmd, msg_id, forked, child, found, messages, kernel>>

Parent(r) == GetQueue(r) \/ Usage(r) \/ Fork(r) \/ Receive(r) \/ ReceiveFails(r) \/ Finish(r)

Child(r, i) == Search(r, i) \/ SendMessage(r, i) \/ SendFails(r, i)

Next ==
  \E r \in Run :
    \/ Parent(r)
    \/ NoQueue(r)
    \/ ForkFails(r)
    \/ Killed(r)
    \/ \E i \in Children(r) : Child(r, i) \/ ChildDies(r, i)

Spec == Init /\ [][Next]_vars

(***************************************************************************)
(* Every process runs on.  The kernel serves those that wait for the queue *)
(* in the order they came, so none of them is passed over for ever.        *)
(***************************************************************************)
FairSpec ==
  /\ Spec
  /\ \A r \in Run : WF_vars(Parent(r))
  /\ \A r \in Run : WF_vars(\E i \in Children(r) : Child(r, i))
-----------------------------------------------------------------------------
Message == [mId : Run \X Nat, filename : Name, path : Nat \cup {NotFound}]

TypeOK ==
  /\ cmd \in [Run -> Command]
  /\ main \in [Run -> {"start", "running", "done", "failed", "killed"}]
  /\ msg_id \in [Run -> Nat]
  /\ \A r \in Run : forked[r] \in 0..Len(Names(r))
  /\ \A r \in Run : child[r] \in [Children(r) -> {"none", "search", "send", "sent", "failed", "dead"}]
  /\ \A r \in Run : found[r] \in [Children(r) -> Nat \cup {NotFound}]
  /\ messages \in [Run -> Seq(Message)]
  /\ live \in 0..created
  /\ queue \in Seq(Message)
  /\ created \in Nat

\* How often the instance r prints what the i-th child of q found.
Prints(r, q, i) == Cardinality({k \in 1..Len(messages[r]) : messages[r][k].mId = <<q, i>>})

\* The instances that used the same queue as r, r among them.
Sharing(r) == {q \in Run : msg_id[q] = msg_id[r]}

(***************************************************************************)
(* When every instance that used a queue ends well, they have printed the  *)
(* answer of each of their children once between them: no answer is lost   *)
(* or printed twice, though any of them takes any message and the first to *)
(* end destroys the queue.  An instance that had its queue for itself has  *)
(* printed exactly its own answers.                                        *)
(***************************************************************************)
AnswersShared ==
  \A r \in Run :
    msg_id[r] # 0 /\ (\A q \in Sharing(r) : main[q] = "done") =>
      \A i \in Children(r) :
        \E q \in Sharing(r) :
          /\ Prints(q, r, i) = 1
          /\ \A p \in Sharing(r) \ {q} : Prints(p, r, i) = 0

(***************************************************************************)
(* Once no instance runs any more, the queue is gone, unless one was       *)
(* killed: no run leaves a queue whose messages the next one would take    *)
(* for its own.                                                            *)
(***************************************************************************)
NoQueueLeft ==
  (\A r \in Run : main[r] \in {"start", "done", "failed"}) => live = 0

(***************************************************************************)
(* Every instance ends, unless one was killed or a child of one could not  *)
(* be forked or died: also with more children than messages fit into the   *)
(* queue, and with other instances that take the messages and destroy the  *)
(* queue.                                                                  *)
(***************************************************************************)
Trouble ==
  \E r \in Run : \/ main[r] = "killed"
                 \/ \E i \in 1..forked[r] : child[r][i] \in {"none", "dead"}

Finishes == \A r \in Run : <>(main[r] \in {"done", "failed"} \/ Trouble)

(***************************************************************************)
(* "wait for every child process to send a message": an instance that ends *)
(* well has heard from every child of its own.                             *)
(***************************************************************************)
EveryChildHeard ==
  \A r \in Run :
    main[r] = "done" => \A i \in Children(r) : Prints(r, r, i) = 1
=============================================================================
