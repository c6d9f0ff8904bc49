----------------------------- MODULE MyFindProofs -----------------------------
(***************************************************************************)
(* Theorems about MyFind, for any number of instances, command lines,      *)
(* directories and sizes of the queue, and with every fault: its types,    *)
(* that no queue is left behind, and that the instances that shared a      *)
(* queue print every answer once between them.                             *)
(***************************************************************************)
EXTENDS MyFind, SequenceTheorems, FiniteSetTheorems, FunctionTheorems, TLAPS

ChildState == {"none", "search", "send", "sent", "failed", "dead"}

TypeInv == /\ TypeOK
           /\ DOMAIN forked = Run /\ DOMAIN child = Run /\ DOMAIN found = Run

LEMMA NamesType ==
  ASSUME cmd \in [Run -> Command], NEW r \in Run
  PROVE  /\ Names(r) \in Seq(Name) /\ Len(Names(r)) \in Nat
         /\ \A i \in Children(r) : i \in Nat /\ Names(r)[i] \in Name
<1>1. cmd[r] \in [opts : Seq({"R", "i", "?"}), exists : BOOLEAN, names : Seq(Name)]
  BY MyFindAssumption
<1>2. Names(r) \in Seq(Name)
  BY <1>1 DEF Names
<1> QED BY <1>2 DEF Children

\* The first of a queue, and what is left of it.
LEMMA HeadFacts ==
  ASSUME NEW S, NEW list \in Seq(S), list # <<>>
  PROVE  /\ Len(list) \in Nat /\ Head(list) = list[1] /\ Head(list) \in S /\ 1 \in 1..Len(list)
         /\ Tail(list) \in Seq(S) /\ Len(Tail(list)) = Len(list) - 1
         /\ \A i \in 1..Len(Tail(list)) : i + 1 \in 1..Len(list) /\ Tail(list)[i] = list[i + 1]
BY HeadTailProperties, EmptySeq

LEMMA AppendFacts ==
  ASSUME NEW S, NEW list \in Seq(S), NEW m \in S
  PROVE  /\ Append(list, m) \in Seq(S) /\ Len(list) \in Nat
         /\ Len(Append(list, m)) = Len(list) + 1
         /\ \A i \in 1..Len(list) : Append(list, m)[i] = list[i]
         /\ Append(list, m)[Len(list) + 1] = m
BY AppendProperties

Becomes(r, i, state) == child' = [child EXCEPT ![r][i] = state]

\* What a step of a child changes.
LEMMA ChildStep ==
  ASSUME TypeInv, NEW r \in Run, NEW i \in Children(r), NEW state \in ChildState,
         Becomes(r, i, state), cmd' = cmd
  PROVE  /\ DOMAIN child' = Run /\ child'[r][i] = state
         /\ \A q \in Run : child'[q] \in [Children(q)' -> ChildState]
         /\ \A q \in Run : \A j \in Children(q) :
              q # r \/ j # i => child'[q][j] = child[q][j]
<1>1. child' = [child EXCEPT ![r] = [child[r] EXCEPT ![i] = state]]
  BY DEF Becomes
<1>2. \A q \in Run : child[q] \in [Children(q) -> ChildState]
  BY DEF TypeInv, TypeOK, ChildState
<1>3. \A q \in Run : Children(q)' = Children(q)
  BY DEF Children, Names
<1>4. child'[r] = [child[r] EXCEPT ![i] = state]
  BY <1>1 DEF TypeInv
<1>5. \A q \in Run : q # r => child'[q] = child[q]
  BY <1>1 DEF TypeInv
<1>6. child'[r] \in [Children(r) -> ChildState] /\ child'[r][i] = state
      /\ \A j \in Children(r) : j # i => child'[r][j] = child[r][j]
  BY <1>2, <1>4
<1> QED BY <1>1, <1>2, <1>3, <1>5, <1>6 DEF TypeInv

LEMMA ResultsType ==
  ASSUME NEW r \in Run, NEW i \in Children(r)
  PROVE  Results(r, i) \subseteq Nat \cup {NotFound}
BY MyFindAssumption DEF Results, Hits

LEMMA InitType == Init => TypeInv
<1> SUFFICES ASSUME Init PROVE TypeInv
  OBVIOUS
<1>1. ASSUME NEW r \in Run PROVE Len(Names(r)) \in Nat
  BY <1>1, NamesType DEF Init
<1>2. \A r \in Run : /\ child[r] \in [Children(r) -> ChildState]
                     /\ found[r] \in [Children(r) -> Nat \cup {NotFound}]
                     /\ forked[r] \in 0..Len(Names(r))
  BY <1>1 DEF Init, ChildState
<1>3. /\ messages \in [Run -> Seq(Message)] /\ queue \in Seq(Message)
      /\ live \in 0..created /\ created \in Nat
  BY EmptySeq DEF Init
<1>4. /\ main \in [Run -> {"start", "running", "done", "failed", "killed"}]
      /\ msg_id \in [Run -> Nat] /\ cmd \in [Run -> Command]
  BY DEF Init
<1>5. DOMAIN forked = Run /\ DOMAIN child = Run /\ DOMAIN found = Run
  BY DEF Init
<1> QED BY <1>2, <1>3, <1>4, <1>5 DEF TypeInv, TypeOK, ChildState

\* A step that leaves the command lines and what the children are about alone.
LEMMA ParentType ==
  ASSUME TypeInv, UNCHANGED <<cmd, child, found>>,
         main' \in [Run -> {"start", "running", "done", "failed", "killed"}],
         msg_id' \in [Run -> Nat],
         DOMAIN forked' = Run, \A r \in Run : forked'[r] \in 0..Len(Names(r)),
         messages' \in [Run -> Seq(Message)],
         queue' \in Seq(Message), created' \in Nat, live' \in 0..created'
  PROVE  TypeInv'
BY DEF TypeInv, TypeOK, Names, Children

LEMMA GetQueueType ==
  ASSUME TypeInv, NEW r \in Run, GetQueue(r)
  PROVE  TypeInv'
<1>1. queue' \in Seq(Message) /\ created' \in Nat /\ live' \in 0..created'
  <2>1. <<>> \in Seq(Message)
    BY EmptySeq
  <2>2. CASE live # 0
    BY <2>2 DEF GetQueue, TypeInv, TypeOK, kernel
  <2>3. CASE live = 0
    BY <2>1, <2>3 DEF GetQueue, TypeInv, TypeOK
  <2> QED BY <2>2, <2>3
<1>2. /\ main' \in [Run -> {"start", "running", "done", "failed", "killed"}]
      /\ msg_id' \in [Run -> Nat]
  BY <1>1 DEF GetQueue, Give, TypeInv, TypeOK
<1> QED BY <1>1, <1>2, ParentType DEF GetQueue, TypeInv, TypeOK

Turn(r) == Forking(r) /\ forked' = [forked EXCEPT ![r] = @ + 1]

LEMMA ForkedType ==
  ASSUME TypeInv, NEW r \in Run, Turn(r)
  PROVE  /\ DOMAIN forked' = Run /\ forked[r] + 1 \in Children(r)
         /\ forked'[r] = forked[r] + 1
         /\ \A q \in Run : q # r => forked'[q] = forked[q]
         /\ \A q \in Run : forked'[q] \in 0..Len(Names(q))
<1>1. Len(Names(r)) \in Nat /\ forked[r] \in 0..Len(Names(r)) /\ forked[r] < Len(Names(r))
  BY NamesType DEF Turn, Forking, TypeInv, TypeOK
<1>2. /\ DOMAIN forked' = Run /\ forked'[r] = forked[r] + 1
      /\ \A q \in Run : q # r => forked'[q] = forked[q]
  BY DEF Turn, TypeInv
<1>3. forked[r] + 1 \in 0..Len(Names(r)) /\ forked[r] + 1 \in Children(r)
  BY <1>1 DEF Children
<1> QED BY <1>2, <1>3 DEF TypeInv, TypeOK

LEMMA ForkType ==
  ASSUME TypeInv, NEW r \in Run, Fork(r)
  PROVE  TypeInv'
<1>1. /\ DOMAIN forked' = Run /\ forked[r] + 1 \in Children(r)
      /\ \A q \in Run : forked'[q] \in 0..Len(Names(q))
  BY ForkedType DEF Fork, Turn
<1>2. DOMAIN child' = Run /\ \A q \in Run : child'[q] \in [Children(q)' -> ChildState]
  <2>1. "search" \in ChildState /\ cmd' = cmd
        /\ Becomes(r, forked[r] + 1, "search")
    BY DEF Fork, Becomes, ChildState
  <2> QED BY <1>1, <2>1, ChildStep
<1> QED BY <1>1, <1>2 DEF Fork, TypeInv, TypeOK, ChildState, Children, Names, kernel

LEMMA ReceiveType ==
  ASSUME TypeInv, NEW r \in Run, Receive(r)
  PROVE  TypeInv'
<1>1. queue \in Seq(Message) /\ queue # <<>> /\ messages[r] \in Seq(Message)
  BY DEF Receive, TypeInv, TypeOK
<1>2. Head(queue) \in Message /\ queue' \in Seq(Message)
  BY <1>1, HeadFacts DEF Receive
<1>3. Append(messages[r], Head(queue)) \in Seq(Message)
  BY <1>1, <1>2, AppendFacts
<1>4. messages' \in [Run -> Seq(Message)]
  BY <1>3 DEF Receive, TypeInv, TypeOK
<1> QED BY <1>2, <1>4, ParentType DEF Receive, TypeInv, TypeOK

LEMMA FinishType ==
  ASSUME TypeInv, NEW r \in Run, Finish(r)
  PROVE  TypeInv'
<1>1. queue' \in Seq(Message) /\ live' \in 0..created /\ created' = created
  <2>1. <<>> \in Seq(Message)
    BY EmptySeq
  <2>2. created' = created /\ queue' \in {queue, <<>>} /\ live' \in {live, 0}
    BY DEF Finish
  <2>3. created \in Nat /\ live \in 0..created /\ queue \in Seq(Message)
    BY DEF TypeInv, TypeOK
  <2>4. queue' \in Seq(Message)
    BY <2>1, <2>2, <2>3
  <2>5. live' \in 0..created
    BY <2>2, <2>3
  <2> QED BY <2>2, <2>4, <2>5
<1>2. main' \in [Run -> {"start", "running", "done", "failed", "killed"}]
  BY DEF Finish, Give, TypeInv, TypeOK
<1> QED BY <1>1, <1>2, ParentType DEF Finish, TypeInv, TypeOK

\* The steps of the parent that only change what it does next.
LEMMA GiveType ==
  ASSUME TypeInv, NEW r \in Run, NEW state \in {"failed", "killed"}, Give(r, state),
         UNCHANGED <<cmd, msg_id, forked, child, found, messages, kernel>>
  PROVE  TypeInv'
<1>1. main' \in [Run -> {"start", "running", "done", "failed", "killed"}]
  BY DEF Give, TypeInv, TypeOK
<1> QED BY <1>1, ParentType DEF TypeInv, TypeOK, kernel

LEMMA SearchType ==
  ASSUME TypeInv, NEW r \in Run, NEW i \in Children(r), Search(r, i)
  PROVE  TypeInv'
<1>1. DOMAIN child' = Run /\ \A q \in Run : child'[q] \in [Children(q)' -> ChildState]
  <2>1. "send" \in ChildState /\ cmd' = cmd /\ Becomes(r, i, "send")
    BY DEF Search, Becomes, ChildState
  <2> QED BY <2>1, ChildStep
<1>2. PICK path \in Nat \cup {NotFound} : found' = [found EXCEPT ![r] = [found[r] EXCEPT ![i] = path]]
  BY ResultsType DEF Search
<1>3. DOMAIN found' = Run /\ \A q \in Run : found'[q] \in [Children(q) -> Nat \cup {NotFound}]
  BY <1>2 DEF TypeInv, TypeOK
<1> QED BY <1>1, <1>3 DEF Search, TypeInv, TypeOK, ChildState, Children, Names, kernel

LEMMA SendMessageType ==
  ASSUME TypeInv, NEW r \in Run, NEW i \in Children(r), SendMessage(r, i)
  PROVE  TypeInv'
<1>1. DOMAIN child' = Run /\ \A q \in Run : child'[q] \in [Children(q)' -> ChildState]
  <2>1. "sent" \in ChildState /\ cmd' = cmd /\ Becomes(r, i, "sent")
    BY DEF SendMessage, Becomes, ChildState
  <2> QED BY <2>1, ChildStep
<1>2. [mId |-> <<r, i>>, filename |-> Names(r)[i], path |-> found[r][i]] \in Message
  <2>1. i \in Nat /\ Names(r)[i] \in Name
    BY NamesType DEF TypeInv, TypeOK
  <2>2. found[r][i] \in Nat \cup {NotFound}
    BY DEF TypeInv, TypeOK
  <2> QED BY <2>1, <2>2 DEF Message
<1>3. queue' \in Seq(Message)
  BY <1>2, AppendFacts DEF SendMessage, TypeInv, TypeOK
<1> QED BY <1>1, <1>3 DEF SendMessage, TypeInv, TypeOK, ChildState, Children, Names

\* The ends of a child other than a message.
LEMMA ChildEndType ==
  ASSUME TypeInv, NEW r \in Run, NEW i \in Children(r), SendFails(r, i) \/ ChildDies(r, i)
  PROVE  TypeInv'
<1>1. PICK state \in ChildState : Becomes(r, i, state)
  BY DEF SendFails, ChildDies, Becomes, ChildState
<1>2. DOMAIN child' = Run /\ \A q \in Run : child'[q] \in [Children(q)' -> ChildState]
  <2>1. cmd' = cmd
    BY DEF SendFails, ChildDies
  <2> QED BY <1>1, <2>1, ChildStep
<1> QED BY <1>2 DEF SendFails, ChildDies, TypeInv, TypeOK, ChildState, Children, Names, kernel

LEMMA NextType == TypeInv /\ [Next]_vars => TypeInv'
<1> SUFFICES ASSUME TypeInv, [Next]_vars PROVE TypeInv'
  OBVIOUS
<1>1. ASSUME NEW r \in Run, Usage(r) \/ NoQueue(r) \/ ReceiveFails(r) \/ Killed(r) PROVE TypeInv'
  BY <1>1, GiveType DEF Usage, NoQueue, ReceiveFails, Killed
<1>2. ASSUME NEW r \in Run, ForkFails(r) PROVE TypeInv'
  BY <1>2, ForkedType, ParentType DEF ForkFails, Turn, TypeInv, TypeOK, kernel
<1>3. ASSUME UNCHANGED vars PROVE TypeInv'
  BY <1>3 DEF vars, kernel, TypeInv, TypeOK, Children, Names
<1> QED BY <1>1, <1>2, <1>3, GetQueueType, ForkType, ReceiveType, FinishType, SearchType,
           SendMessageType, ChildEndType DEF Next, Parent, Child

LEMMA TypeInvariant == Spec => []TypeInv
BY InitType, NextType, PTL DEF Spec

(***************************************************************************)
(* Every variable stays in its type; in particular every message names an  *)
(* instance, and no instance forks more children than it has names.        *)
(***************************************************************************)
THEOREM TypeCorrect == Spec => []TypeOK
<1>1. TypeInv => TypeOK
  BY DEF TypeInv
<1> QED BY <1>1, TypeInvariant, PTL
-----------------------------------------------------------------------------
\* The queue there is belongs to an instance that will destroy it, or was
\* killed.
Owned == live # 0 => \E r \in Run : msg_id[r] = live /\ main[r] \in {"running", "killed"}

(***************************************************************************)
(* Once no instance runs any more, the queue is gone, unless one was       *)
(* killed; whatever failed on the way.                                     *)
(***************************************************************************)
THEOREM QueueIsGone == Spec => []NoQueueLeft
<1>1. Init => Owned
  BY DEF Init, Owned
<1>2. TypeInv /\ Owned /\ [Next]_vars => Owned'
  <2> SUFFICES ASSUME TypeInv, Owned, [Next]_vars PROVE Owned'
    OBVIOUS
  <2>1. ASSUME NEW r \in Run, GetQueue(r) PROVE Owned'
    <3>1. msg_id'[r] = live' /\ main'[r] = "running"
      BY <2>1 DEF GetQueue, Give, TypeInv, TypeOK
    <3> QED BY <3>1 DEF Owned
  <2>2. ASSUME NEW r \in Run, Finish(r) PROVE Owned'
    <3>1. CASE msg_id[r] = live
      BY <2>2, <3>1 DEF Finish, Owned
    <3>2. CASE msg_id[r] # live
      BY <2>2, <3>2 DEF Finish, Give, Owned, TypeInv, TypeOK
    <3> QED BY <3>1, <3>2
  <2>3. ASSUME NEW r \in Run, Usage(r) \/ NoQueue(r) PROVE Owned'
    BY <2>3 DEF Usage, NoQueue, Give, kernel, Owned, TypeInv, TypeOK
  <2>4. ASSUME NEW r \in Run, ReceiveFails(r) PROVE Owned'
    BY <2>4 DEF ReceiveFails, Give, kernel, Owned, TypeInv, TypeOK
  <2>5. ASSUME NEW r \in Run, Killed(r) PROVE Owned'
    BY <2>5 DEF Killed, Give, kernel, Owned, TypeInv, TypeOK
  <2>6. ASSUME NEW r \in Run, Fork(r) \/ ForkFails(r) \/ Receive(r) PROVE Owned'
    BY <2>6 DEF Fork, ForkFails, Receive, kernel, Owned
  <2>7. ASSUME NEW r \in Run, NEW i \in Children(r), Child(r, i) \/ ChildDies(r, i) PROVE Owned'
    BY <2>7 DEF Child, Search, SendMessage, SendFails, ChildDies, kernel, Owned
  <2>8. ASSUME UNCHANGED vars PROVE Owned'
    BY <2>8 DEF vars, kernel, Owned
  <2> QED BY <2>1, <2>2, <2>3, <2>4, <2>5, <2>6, <2>7, <2>8 DEF Next, Parent
<1>3. Owned => NoQueueLeft
  BY DEF Owned, NoQueueLeft
<1> QED BY <1>1, <1>2, <1>3, TypeInvariant, PTL DEF Spec
-----------------------------------------------------------------------------
Stages == \A r \in Run :
  /\ main[r] = "start" => msg_id[r] = 0
  /\ main[r] \in {"running", "done"} => msg_id[r] # 0
  /\ main[r] = "done" => Len(messages[r]) = Len(Names(r))
  /\ Len(messages[r]) <= Len(Names(r))
  /\ msg_id[r] <= created
  /\ msg_id[r] = 0 => messages[r] = <<>> /\ forked[r] = 0
  /\ \A i \in Children(r) : i > forked[r] => child[r][i] = "none"

\* The message m was sent to the queue n, by a child of an instance that uses
\* this queue.
SentThrough(m, n) ==
  \E r \in Run : \E i \in Children(r) : m.mId = <<r, i>> /\ msg_id[r] = n /\ child[r][i] = "sent"

Traced ==
  /\ \A q \in Run : \A k \in 1..Len(messages[q]) : SentThrough(messages[q][k], msg_id[q])
  /\ \A k \in 1..Len(queue) : SentThrough(queue[k], live)

\* No message is in two places.
Once ==
  /\ \A p, q \in Run : \A k \in 1..Len(messages[p]) : \A l \in 1..Len(messages[q]) :
       messages[p][k].mId = messages[q][l].mId => p = q /\ k = l
  /\ \A k, l \in 1..Len(queue) : queue[k].mId = queue[l].mId => k = l
  /\ \A q \in Run : \A k \in 1..Len(messages[q]) : \A l \in 1..Len(queue) :
       messages[q][k].mId # queue[l].mId

Answers == Stages /\ Traced /\ Once

LEMMA InitAnswers == Init => Answers
<1> SUFFICES ASSUME Init PROVE Answers
  OBVIOUS
<1>1. \A r \in Run : Len(Names(r)) \in Nat
  BY NamesType DEF Init
<1>2. Len(<<>>) = 0 /\ 1..Len(<<>>) = {}
  BY EmptySeq
<1>3. Stages
  BY <1>1, <1>2 DEF Init, Stages
<1>4. Traced /\ Once
  BY <1>2 DEF Init, Traced, Once
<1> QED BY <1>3, <1>4 DEF Answers

\* A step that moves no message.
LEMMA QuietStep ==
  ASSUME TypeInv, Answers, UNCHANGED <<cmd, msg_id, messages, kernel>>, Stages',
         \A r \in Run : \A i \in Children(r) : child[r][i] = "sent" => child'[r][i] = "sent"
  PROVE  Answers'
<1>1. \A r \in Run : Children(r)' = Children(r)
  BY DEF Children, Names
<1>2. \A m, n : SentThrough(m, n) => SentThrough(m, n)'
  BY <1>1 DEF SentThrough
<1>3. Traced'
  BY <1>2 DEF Answers, Traced, kernel
<1>4. Once'
  BY DEF Answers, Once, kernel
<1> QED BY <1>3, <1>4 DEF Answers

LEMMA GetQueueAnswers ==
  ASSUME TypeInv, Answers, NEW r \in Run, GetQueue(r)
  PROVE  Answers'
<1>1. /\ main[r] = "start" /\ main'[r] = "running" /\ msg_id'[r] = live'
      /\ \A q \in Run : q # r => main'[q] = main[q] /\ msg_id'[q] = msg_id[q]
      /\ UNCHANGED <<cmd, forked, child, found, messages>>
  BY DEF GetQueue, Give, TypeInv, TypeOK
<1>2. /\ created \in Nat /\ created' \in {created, created + 1}
      /\ live' # 0 /\ live' <= created'
      /\ (live' = live /\ queue' = queue) \/ queue' = <<>>
  BY DEF GetQueue, TypeInv, TypeOK, kernel
<1>3. /\ msg_id[r] = 0 /\ messages[r] = <<>>
      /\ \A i \in Children(r) : child[r][i] = "none"
  <2>1. msg_id[r] = 0 /\ messages[r] = <<>> /\ forked[r] = 0
    BY <1>1 DEF Answers, Stages
  <2> QED BY <2>1 DEF Answers, Stages, Children
<1>4. \A q \in Run : Children(q)' = Children(q) /\ Names(q)' = Names(q) /\ msg_id[q] \in Nat
  BY <1>1 DEF Children, Names, TypeInv, TypeOK
<1>5. Stages'
  <2>1. ASSUME NEW q \in Run PROVE msg_id'[q] <= created'
    <3>1. msg_id[q] <= created /\ created' \in Nat
      BY <1>2 DEF Answers, Stages
    <3> QED BY <1>1, <1>2, <1>4, <3>1
  <2> QED BY <1>1, <1>2, <1>3, <1>4, <2>1 DEF Answers, Stages
<1>6. \A m, n : SentThrough(m, n) => SentThrough(m, n)'
  BY <1>1, <1>3, <1>4 DEF SentThrough
<1>7. Traced' /\ Once'
  <2>1. 1..Len(<<>>) = {}
    BY EmptySeq
  <2>2. \A q \in Run : \A k \in 1..Len(messages'[q]) : SentThrough(messages'[q][k], msg_id'[q])
    BY <1>1, <1>3, <2>1 DEF Answers, Traced
  <2>3. \A k \in 1..Len(queue') : SentThrough(queue'[k], live')
    BY <1>2, <2>1 DEF Answers, Traced
  <2>4. Once'
    BY <1>1, <1>2, <2>1 DEF Answers, Once
  <2> QED BY <1>6, <2>2, <2>3, <2>4 DEF Traced
<1> QED BY <1>5, <1>7 DEF Answers

LEMMA ForkAnswers ==
  ASSUME TypeInv, Answers, NEW r \in Run, Fork(r) \/ ForkFails(r)
  PROVE  Answers'
<1>1. /\ Turn(r) /\ main[r] = "running"
      /\ UNCHANGED <<cmd, main, msg_id, messages, kernel>>
  BY DEF Fork, ForkFails, Forking, Turn
<1>2. /\ forked[r] + 1 \in Children(r) /\ forked'[r] = forked[r] + 1 /\ forked[r] \in Nat
      /\ \A q \in Run : q # r => forked'[q] = forked[q]
  <2>1. Len(Names(r)) \in Nat /\ forked[r] \in 0..Len(Names(r))
    BY NamesType DEF TypeInv, TypeOK
  <2>2. forked[r] \in Nat
    BY <2>1
  <2> QED BY <1>1, <2>2, ForkedType
<1>3. \A q \in Run : \A i \in Children(q) :
        child'[q][i] = child[q][i] \/ (q = r /\ i = forked[r] + 1 /\ child[q][i] = "none")
  <2>1. CASE Fork(r)
    <3>1. "search" \in ChildState /\ Becomes(r, forked[r] + 1, "search")
      BY <2>1 DEF Fork, Becomes, ChildState
    <3>2. child[r][forked[r] + 1] = "none"
      BY <1>2 DEF Answers, Stages
    <3> QED BY <1>1, <1>2, <3>1, <3>2, ChildStep
  <2>2. CASE ForkFails(r)
    BY <2>2 DEF ForkFails
  <2> QED BY <2>1, <2>2
<1>4. \A q \in Run : Children(q)' = Children(q) /\ Names(q)' = Names(q)
  BY <1>1 DEF Children, Names
<1>5. msg_id[r] # 0
  BY <1>1 DEF Answers, Stages
<1>6. Stages'
  <2> SUFFICES ASSUME NEW q \in Run PROVE
        /\ msg_id[q] = 0 => forked'[q] = 0
        /\ \A i \in Children(q) : i > forked'[q] => child'[q][i] = "none"
    BY <1>1, <1>4 DEF Answers, Stages, kernel
  <2>1. forked'[q] = IF q = r THEN forked[q] + 1 ELSE forked[q]
    BY <1>2
  <2>2. ASSUME NEW i \in Children(q), i > forked'[q] PROVE child'[q][i] = "none"
    <3>1. i \in Nat /\ i > forked[q]
      BY <1>2, <2>1, <2>2, NamesType DEF TypeInv, TypeOK
    <3>2. child[q][i] = "none"
      BY <3>1 DEF Answers, Stages
    <3>3. ~ (q = r /\ i = forked[r] + 1)
      BY <1>2, <2>1, <2>2, <3>1
    <3> QED BY <1>3, <3>2, <3>3
  <2> QED BY <1>5, <2>1, <2>2 DEF Answers, Stages
<1> QED BY <1>1, <1>3, <1>6, QuietStep

LEMMA ReceiveAnswers ==
  ASSUME TypeInv, Answers, NEW r \in Run, Receive(r)
  PROVE  Answers'
<1>1. /\ queue \in Seq(Message) /\ queue # <<>> /\ messages[r] \in Seq(Message)
      /\ Len(messages[r]) < Len(Names(r)) /\ main[r] = "running" /\ msg_id[r] = live
  BY DEF Receive, Waiting, TypeInv, TypeOK
<1>2. PICK m \in Message : m = Head(queue) /\ m = queue[1]
  BY <1>1, HeadFacts
<1>3. /\ queue' = Tail(queue) /\ messages'[r] = Append(messages[r], m)
      /\ \A q \in Run : q # r => messages'[q] = messages[q]
      /\ UNCHANGED <<cmd, main, msg_id, forked, child, live, created>>
  BY <1>2 DEF Receive, TypeInv, TypeOK
<1>4. /\ Len(queue') = Len(queue) - 1 /\ 1 \in 1..Len(queue) /\ Len(queue) \in Nat
      /\ \A k \in 1..Len(queue') : k \in Nat /\ k + 1 \in 1..Len(queue) /\ queue'[k] = queue[k + 1]
  BY <1>1, <1>3, HeadFacts
<1>5. /\ Len(messages[r]) \in Nat /\ Len(messages'[r]) = Len(messages[r]) + 1
      /\ \A k \in 1..Len(messages'[r]) :
           IF k <= Len(messages[r])
             THEN k \in 1..Len(messages[r]) /\ messages'[r][k] = messages[r][k]
             ELSE k = Len(messages[r]) + 1 /\ messages'[r][k] = m
  BY <1>1, <1>3, AppendFacts
<1>6. \A q \in Run : Children(q)' = Children(q) /\ Names(q)' = Names(q) /\ Len(Names(q)) \in Nat
  BY <1>3, NamesType DEF Children, Names, TypeInv, TypeOK
<1>7. Stages'
  BY <1>1, <1>3, <1>5, <1>6 DEF Answers, Stages
<1>8. \A x, n : SentThrough(x, n)' <=> SentThrough(x, n)
  BY <1>3, <1>6 DEF SentThrough
<1>9. Traced'
  <2>1. SentThrough(m, msg_id[r])
    BY <1>1, <1>2, <1>4 DEF Answers, Traced
  <2>2. \A k \in 1..Len(messages'[r]) : SentThrough(messages'[r][k], msg_id[r])
    BY <1>5, <2>1 DEF Answers, Traced
  <2>3. \A k \in 1..Len(queue') : SentThrough(queue'[k], live)
    BY <1>4 DEF Answers, Traced
  <2> QED BY <1>3, <1>8, <2>2, <2>3 DEF Answers, Traced
\* Every message there is now was there before, at a place of its own.
<1>10. \A q \in Run : \A k \in 1..Len(messages'[q]) :
         \/ k \in 1..Len(messages[q]) /\ messages'[q][k] = messages[q][k]
         \/ q = r /\ k = Len(messages[r]) + 1 /\ messages'[q][k] = queue[1]
  BY <1>2, <1>3, <1>5
<1>11. Once'
  <2>1. ASSUME NEW p \in Run, NEW q \in Run,
               NEW k \in 1..Len(messages'[p]), NEW l \in 1..Len(messages'[q]),
               messages'[p][k].mId = messages'[q][l].mId
        PROVE  p = q /\ k = l
    <3>1. CASE k \in 1..Len(messages[p]) /\ l \in 1..Len(messages[q])
               /\ messages'[p][k] = messages[p][k] /\ messages'[q][l] = messages[q][l]
      BY <2>1, <3>1 DEF Answers, Once
    <3>2. CASE k \in 1..Len(messages[p]) /\ messages'[p][k] = messages[p][k]
               /\ messages'[q][l] = queue[1]
      BY <1>4, <2>1, <3>2 DEF Answers, Once
    <3>3. CASE l \in 1..Len(messages[q]) /\ messages'[q][l] = messages[q][l]
               /\ messages'[p][k] = queue[1]
      BY <1>4, <2>1, <3>3 DEF Answers, Once
    <3> QED BY <1>10, <3>1, <3>2, <3>3
  <2>2. ASSUME NEW k \in 1..Len(queue'), NEW l \in 1..Len(queue'), queue'[k].mId = queue'[l].mId
        PROVE  k = l
    <3>1. k + 1 = l + 1
      BY <1>4, <2>2, SMTT(30) DEF Answers, Once
    <3> QED BY <1>4, <3>1
  <2>3. ASSUME NEW q \in Run, NEW k \in 1..Len(messages'[q]), NEW l \in 1..Len(queue')
        PROVE  messages'[q][k].mId # queue'[l].mId
    <3>1. queue'[l] = queue[l + 1] /\ l + 1 \in 1..Len(queue) /\ l + 1 # 1
      BY <1>4
    <3>2. CASE k \in 1..Len(messages[q]) /\ messages'[q][k] = messages[q][k]
      BY <3>1, <3>2 DEF Answers, Once
    <3>3. CASE messages'[q][k] = queue[1]
      BY <1>4, <3>1, <3>3 DEF Answers, Once
    <3> QED BY <1>10, <3>2, <3>3
  <2> QED BY <2>1, <2>2, <2>3 DEF Once
<1> QED BY <1>7, <1>9, <1>11 DEF Answers

LEMMA FinishAnswers ==
  ASSUME TypeInv, Answers, NEW r \in Run, Finish(r)
  PROVE  Answers'
<1>1. /\ main[r] = "running" /\ main'[r] = "done" /\ Len(messages[r]) >= Len(Names(r))
      /\ \A q \in Run : q # r => main'[q] = main[q]
      /\ UNCHANGED <<cmd, msg_id, forked, child, messages, created>>
      /\ UNCHANGED <<live, queue>> \/ queue' = <<>>
  BY DEF Finish, Give, TypeInv, TypeOK
<1>2. \A q \in Run : Children(q)' = Children(q) /\ Names(q)' = Names(q) /\ Len(Names(q)) \in Nat
  BY <1>1, NamesType DEF Children, Names, TypeInv, TypeOK
<1>3. Len(messages[r]) = Len(Names(r)) /\ msg_id[r] # 0
  <2>1. Len(messages[r]) \in Nat /\ Len(messages[r]) <= Len(Names(r))
    BY DEF Answers, Stages, TypeInv, TypeOK
  <2> QED BY <1>1, <1>2, <2>1 DEF Answers, Stages
<1>4. Stages'
  BY <1>1, <1>2, <1>3 DEF Answers, Stages
<1>5. \A m, n : SentThrough(m, n)' <=> SentThrough(m, n)
  BY <1>1, <1>2 DEF SentThrough
<1>6. 1..Len(<<>>) = {}
  BY EmptySeq
<1>7. Traced'
  BY <1>1, <1>5, <1>6 DEF Answers, Traced
<1>8. Once'
  BY <1>1, <1>6 DEF Answers, Once
<1> QED BY <1>4, <1>7, <1>8 DEF Answers

LEMMA SendMessageAnswers ==
  ASSUME TypeInv, Answers, NEW r \in Run, NEW i \in Children(r), SendMessage(r, i)
  PROVE  Answers'
<1>1. PICK m : m = [mId |-> <<r, i>>, filename |-> Names(r)[i], path |-> found[r][i]]
  OBVIOUS
<1>2. /\ child[r][i] = "send" /\ msg_id[r] = live /\ queue' = Append(queue, m)
      /\ m.mId = <<r, i>>
      /\ child' = [child EXCEPT ![r][i] = "sent"]
      /\ UNCHANGED <<cmd, main, msg_id, forked, messages, live, created>>
  BY <1>1 DEF SendMessage
<1>3. /\ child'[r][i] = "sent"
      /\ \A q \in Run : \A j \in Children(q) : q # r \/ j # i => child'[q][j] = child[q][j]
  <2>1. "sent" \in ChildState /\ cmd' = cmd /\ Becomes(r, i, "sent")
    BY <1>2 DEF Becomes, ChildState
  <2> QED BY <2>1, ChildStep
<1>4. /\ Len(queue) \in Nat /\ Len(queue') = Len(queue) + 1
      /\ \A k \in 1..Len(queue') :
           IF k <= Len(queue) THEN k \in 1..Len(queue) /\ queue'[k] = queue[k]
                              ELSE k = Len(queue) + 1 /\ queue'[k] = m
  <2>1. m \in Message
    <3>1. i \in Nat /\ Names(r)[i] \in Name
      BY NamesType DEF TypeInv, TypeOK
    <3>2. found[r][i] \in Nat \cup {NotFound}
      BY DEF TypeInv, TypeOK
    <3> QED BY <1>1, <3>1, <3>2 DEF Message
  <2> QED BY <1>2, <2>1, AppendFacts DEF TypeInv, TypeOK
<1>5. \A q \in Run : Children(q)' = Children(q) /\ Names(q)' = Names(q)
  BY <1>2 DEF Children, Names
<1>6. Stages'
  BY <1>2, <1>3, <1>5 DEF Answers, Stages
<1>7. \A x, n : SentThrough(x, n) => SentThrough(x, n)'
  BY <1>2, <1>3, <1>5 DEF SentThrough
<1>8. Traced'
  <2>1. SentThrough(m, live)'
    BY <1>2, <1>3, <1>5 DEF SentThrough
  <2> QED BY <1>2, <1>4, <1>7, <2>1 DEF Answers, Traced
<1>9. \A x, n : SentThrough(x, n) => x.mId # <<r, i>>
  BY <1>2 DEF SentThrough
<1>10. Once'
  <2>1. \A k \in 1..Len(queue) : queue[k].mId # m.mId
    BY <1>2, <1>9 DEF Answers, Traced
  <2>2. \A q \in Run : \A k \in 1..Len(messages[q]) : messages[q][k].mId # m.mId
    BY <1>2, <1>9 DEF Answers, Traced
  <2>3. ASSUME NEW k \in 1..Len(queue'), NEW l \in 1..Len(queue'), queue'[k].mId = queue'[l].mId
        PROVE  k = l
    BY <1>4, <2>1, <2>3 DEF Answers, Once
  <2>4. ASSUME NEW q \in Run, NEW k \in 1..Len(messages[q]), NEW l \in 1..Len(queue')
        PROVE  messages[q][k].mId # queue'[l].mId
    BY <1>4, <2>2, SMTT(30) DEF Answers, Once
  <2> QED BY <1>2, <2>3, <2>4 DEF Answers, Once
<1> QED BY <1>6, <1>8, <1>10 DEF Answers

\* The other steps of a child.
LEMMA ChildAnswers ==
  ASSUME TypeInv, Answers, NEW r \in Run, NEW i \in Children(r),
         Search(r, i) \/ SendFails(r, i) \/ ChildDies(r, i)
  PROVE  Answers'
<1>1. /\ child[r][i] \in {"search", "send"}
      /\ \E state \in ChildState : Becomes(r, i, state)
      /\ UNCHANGED <<cmd, main, msg_id, forked, messages, kernel>>
  BY DEF Search, SendFails, ChildDies, Becomes, ChildState
<1>2. \A q \in Run : \A j \in Children(q) :
        child'[q][j] = child[q][j] \/ child[q][j] \in {"search", "send"}
  BY <1>1, ChildStep
<1>3. \A q \in Run : Children(q)' = Children(q) /\ Names(q)' = Names(q)
  BY <1>1 DEF Children, Names
<1>4. Stages'
  BY <1>1, <1>2, <1>3 DEF Answers, Stages, kernel
<1> QED BY <1>1, <1>2, <1>4, QuietStep

LEMMA NextAnswers == TypeInv /\ Answers /\ [Next]_vars => Answers'
<1> SUFFICES ASSUME TypeInv, Answers, [Next]_vars PROVE Answers'
  OBVIOUS
<1>1. ASSUME NEW r \in Run, Usage(r) \/ NoQueue(r) \/ ReceiveFails(r) \/ Killed(r) PROVE Answers'
  <2>1. /\ main'[r] \in {"failed", "killed"} /\ \A q \in Run : q # r => main'[q] = main[q]
        /\ UNCHANGED <<cmd, msg_id, forked, child, messages, kernel>>
    BY <1>1 DEF Usage, NoQueue, ReceiveFails, Killed, Give, TypeInv, TypeOK
  <2>2. Stages'
    BY <2>1 DEF Answers, Stages, Children, Names, kernel
  <2> QED BY <2>1, <2>2, QuietStep
<1>2. ASSUME UNCHANGED vars PROVE Answers'
  <2>1. Stages'
    BY <1>2 DEF vars, kernel, Answers, Stages, Children, Names
  <2> QED BY <1>2, <2>1, QuietStep DEF vars, kernel
<1> QED BY <1>1, <1>2, GetQueueAnswers, ForkAnswers, ReceiveAnswers, FinishAnswers,
           SendMessageAnswers, ChildAnswers DEF Next, Parent, Child
-----------------------------------------------------------------------------
\* The children of a set of instances.
ChildrenOf(R) == {c \in R \X Nat : c[2] \in Children(c[1])}

LEMMA ChildrenAreFinite ==
  ASSUME TypeInv, NEW R \in SUBSET Run
  PROVE  IsFiniteSet(ChildrenOf(R))
<1>1. IsFiniteSet(R)
  BY MyFindAssumption, FS_Subset
<1>2. PICK f : f = [r \in R |-> {r} \X Children(r)]
  OBVIOUS
<1>3. f \in [R -> {f[r] : r \in R}]
  BY <1>2
<1>4. f \in Surjection(R, {f[r] : r \in R})
  BY <1>3, Fun_IsSurj
<1>5. IsFiniteSet({f[r] : r \in R})
  BY <1>1, <1>4, FS_Surjection
<1>6. \A r \in R : IsFiniteSet(f[r])
  <2> TAKE r \in R
  <2>1. Len(Names(r)) \in Nat
    BY NamesType DEF TypeInv, TypeOK
  <2>2. IsFiniteSet(Children(r)) /\ IsFiniteSet({r})
    BY <2>1, FS_Interval, FS_Singleton, 1 \in Int, Len(Names(r)) \in Int DEF Children
  <2> QED BY <1>2, <2>2, FS_Product
<1>7. IsFiniteSet(UNION {f[r] : r \in R})
  BY <1>5, <1>6, FS_UNION
<1>8. ChildrenOf(R) \subseteq UNION {f[r] : r \in R}
  BY <1>2 DEF ChildrenOf
<1> QED BY <1>7, <1>8, FS_Subset

\* As many messages as children, and none of them twice: every child was heard.
LEMMA EveryChildAnswered ==
  ASSUME TypeInv, Answers, NEW R \in SUBSET Run, NEW n \in Nat,
         R = {q \in Run : msg_id[q] = n}, \A q \in R : main[q] = "done",
         NEW c \in ChildrenOf(R)
  PROVE  \E q \in R : \E k \in 1..Len(messages[q]) : messages[q][k].mId = c
<1>1. PICK f : f = [d \in ChildrenOf(R) |-> messages[d[1]][d[2]].mId]
  OBVIOUS
<1>2. ASSUME NEW d \in ChildrenOf(R)
      PROVE  d[1] \in R /\ d[2] \in 1..Len(messages[d[1]]) /\ d = <<d[1], d[2]>>
  BY DEF ChildrenOf, Children, Answers, Stages
<1>3. f \in [ChildrenOf(R) -> ChildrenOf(R)]
  <2> SUFFICES ASSUME NEW d \in ChildrenOf(R) PROVE messages[d[1]][d[2]].mId \in ChildrenOf(R)
    BY <1>1
  <2>1. SentThrough(messages[d[1]][d[2]], n)
    BY <1>2 DEF Answers, Traced
  <2>2. PICK r \in R : \E i \in Children(r) : messages[d[1]][d[2]].mId = <<r, i>>
    BY <2>1 DEF SentThrough
  <2> QED BY <2>2, NamesType DEF ChildrenOf, TypeInv, TypeOK
<1>4. \A d, e \in ChildrenOf(R) : f[d] = f[e] => d = e
  BY <1>1, <1>2 DEF Answers, Once
<1>5. f \in Injection(ChildrenOf(R), ChildrenOf(R))
  BY <1>3, <1>4, Fun_IsInj
<1>6. f \in Surjection(ChildrenOf(R), ChildrenOf(R))
  BY <1>5, ChildrenAreFinite, FS_Injection
<1>7. PICK d \in ChildrenOf(R) : f[d] = c
  BY <1>6, Fun_SurjectionProperties
<1> QED BY <1>1, <1>2, <1>7

(***************************************************************************)
(* When every instance that used a queue ends well, they have printed the  *)
(* answer of each of their children exactly once between them: each took   *)
(* as many messages as it has names, no message was taken twice, and so    *)
(* none is left over.                                                      *)
(***************************************************************************)
THEOREM EveryAnswerPrintedOnce == Spec => []AnswersShared
<1>1. TypeInv /\ Answers => AnswersShared
  <2> SUFFICES ASSUME TypeInv, Answers, NEW r \in Run, \A q \in Sharing(r) : main[q] = "done",
                      NEW i \in Children(r)
               PROVE  \E q \in Sharing(r) :
                        /\ Prints(q, r, i) = 1
                        /\ \A p \in Sharing(r) \ {q} : Prints(p, r, i) = 0
    BY DEF AnswersShared
  <2>1. r \in Sharing(r) /\ Sharing(r) \in SUBSET Run /\ msg_id[r] \in Nat
    BY DEF Sharing, TypeInv, TypeOK
  <2>2. <<r, i>> \in ChildrenOf(Sharing(r))
    BY <2>1, NamesType DEF ChildrenOf, TypeInv, TypeOK
  <2>3. PICK q \in Sharing(r) : \E k \in 1..Len(messages[q]) : messages[q][k].mId = <<r, i>>
    BY <2>1, <2>2, EveryChildAnswered DEF Sharing
  <2>4. PICK k \in 1..Len(messages[q]) : messages[q][k].mId = <<r, i>>
    BY <2>3
  <2>5. Prints(q, r, i) = 1
    <3>1. \A l \in 1..Len(messages[q]) : messages[q][l].mId = <<r, i>> => l = k
      <4> SUFFICES ASSUME NEW l \in 1..Len(messages[q]), messages[q][l].mId = <<r, i>> PROVE l = k
        OBVIOUS
      <4>1. q \in Run /\ messages[q][l].mId = messages[q][k].mId
        BY <2>1, <2>4
      <4> QED BY <4>1 DEF Answers, Once
    <3>2. {l \in 1..Len(messages[q]) : messages[q][l].mId = <<r, i>>} = {k}
      BY <2>4, <3>1
    <3> QED BY <3>2, FS_Singleton DEF Prints
  <2>6. ASSUME NEW p \in Sharing(r) \ {q} PROVE Prints(p, r, i) = 0
    <3>1. \A l \in 1..Len(messages[p]) : messages[p][l].mId # <<r, i>>
      <4> SUFFICES ASSUME NEW l \in 1..Len(messages[p]), messages[p][l].mId = <<r, i>> PROVE FALSE
        OBVIOUS
      <4>1. q \in Run /\ p \in Run /\ p # q /\ messages[p][l].mId = messages[q][k].mId
        BY <2>1, <2>4
      <4> QED BY <4>1 DEF Answers, Once
    <3>2. {l \in 1..Len(messages[p]) : messages[p][l].mId = <<r, i>>} = {}
      BY <3>1
    <3> QED BY <3>2, FS_EmptySet DEF Prints
  <2> QED BY <2>5, <2>6
<1> QED BY InitAnswers, NextAnswers, <1>1, TypeInvariant, PTL DEF Spec
=============================================================================
