----------------------------- MODULE IPCIntQueue -----------------------------
(***************************************************************************)
(* IPCIntQueue: processes that meet at a named message queue of the        *)
(* operating system.  A parent makes the queue, in two steps, and removes  *)
(* the name when it is destroyed; a child opens it.  A queue lives on,     *)
(* without its name, for those who have it open.  Processes may crash,     *)
(* which runs no destructor, and be started again.                         *)
(***************************************************************************)
EXTENDS Naturals, Sequences, FiniteSets

CONSTANTS Parents, Children,  \* the processes
          None,
          Size,               \* the queue's capacity
          MaxQueues,          \* bound on the queues ever made
          MaxSent             \* bound on the messages ever sent

ASSUME Assumption ==
  /\ Parents \cap Children = {} /\ None \notin Parents \cup Children
  /\ Size \in Nat \ {0} /\ MaxQueues \in Nat /\ MaxSent \in Nat

Processes == Parents \cup Children
Queues == 1..MaxQueues

VARIABLES
  name,     \* the queue of this name, 0 if there is none
  made,     \* by whom each queue was made, None if it was not yet
  content,  \* what is in each queue: messages are numbered as they are sent
  m_queue,  \* the queue each process has open, 0 if it has none
  pc,       \* "none", "constructing" (a parent that has removed the name), "open"
  sent,     \* how many messages were sent
  born      \* how many messages were sent when the process opened its queue

queueVars == <<name, made, content, m_queue, pc, sent, born>>

QueueTypeOK ==
  /\ name \in 0..MaxQueues
  /\ made \in [Queues -> Parents \cup {None}]
  /\ content \in [Queues -> Seq(Nat)]
  /\ m_queue \in [Processes -> 0..MaxQueues]
  /\ pc \in [Processes -> {"none", "constructing", "open"}]
  /\ sent \in Nat
  /\ born \in [Processes -> Nat]

QueueInit ==
  /\ name = 0
  /\ made = [q \in Queues |-> None]
  /\ content = [q \in Queues |-> <<>>]
  /\ m_queue = [p \in Processes |-> 0]
  /\ pc = [p \in Processes |-> "none"]
  /\ sent = 0
  /\ born = [p \in Processes |-> 0]

-----------------------------------------------------------------------------
(* A mutant of the next definition: a name that is there is left there.    *)
RemoveNot(p) ==
  /\ p \in Parents /\ pc[p] = "none"
  /\ pc' = [pc EXCEPT ![p] = "constructing"]
  /\ UNCHANGED <<name, made, content, m_queue, sent, born>>

(* The parent's constructor removes the name ...                           *)
Remove(p) ==
  /\ p \in Parents /\ pc[p] = "none"
  /\ pc' = [pc EXCEPT ![p] = "constructing"]
  /\ name' = 0
  /\ UNCHANGED <<made, content, m_queue, sent, born>>

Opened(p, q) ==
  /\ pc' = [pc EXCEPT ![p] = "open"]
  /\ m_queue' = [m_queue EXCEPT ![p] = q]
  /\ born' = [born EXCEPT ![p] = sent]

(* A mutant of the next definition: open_or_create.                        *)
CreateOrOpen(p) ==
  /\ pc[p] = "constructing"
  /\ \E q \in Queues :
       /\ q = name \/ (name = 0 /\ made[q] = None)
       /\ made' = IF name = 0 THEN [made EXCEPT ![q] = p] ELSE made
       /\ name' = q
       /\ Opened(p, q)
  /\ UNCHANGED <<content, sent>>

(* ... and makes the queue, create_only ...                                *)
Create(p) ==
  /\ pc[p] = "constructing" /\ name = 0
  /\ \E q \in Queues :
       /\ made[q] = None /\ \A r \in 1..(q - 1) : made[r] # None
       /\ made' = [made EXCEPT ![q] = p]
       /\ name' = q
       /\ Opened(p, q)
  /\ UNCHANGED <<content, sent>>

(* ... which throws if the name is there: no object, no destructor.        *)
CreateThrows(p) ==
  /\ pc[p] = "constructing" /\ name # 0
  /\ pc' = [pc EXCEPT ![p] = "none"]
  /\ UNCHANGED <<name, made, content, m_queue, sent, born>>

(* The child's constructor, open_only: it throws if there is no name.      *)
Open(p) ==
  /\ p \in Children /\ pc[p] = "none" /\ name # 0
  /\ Opened(p, name)
  /\ UNCHANGED <<name, made, content, sent>>

Leave(p) ==
  /\ pc' = [pc EXCEPT ![p] = "none"]
  /\ m_queue' = [m_queue EXCEPT ![p] = 0]
  /\ UNCHANGED <<made, content, sent, born>>

(* A parent's destructor removes the name, whosever queue it is.           *)
Destructor(p) ==
  /\ pc[p] = "open"
  /\ name' = IF p \in Parents THEN 0 ELSE name
  /\ Leave(p)

Crash(p) ==
  /\ pc[p] # "none"
  /\ UNCHANGED name
  /\ Leave(p)

(* try_send and try_receive return false on a full and an empty queue.     *)
TrySend(p) ==
  /\ pc[p] = "open" /\ sent < MaxSent
  /\ Len(content[m_queue[p]]) < Size
  /\ sent' = sent + 1
  /\ content' = [content EXCEPT ![m_queue[p]] = Append(@, sent')]
  /\ UNCHANGED <<name, made, m_queue, pc, born>>

TryReceive(p) ==
  /\ pc[p] = "open" /\ content[m_queue[p]] # <<>>
  /\ content' = [content EXCEPT ![m_queue[p]] = Tail(@)]
  /\ UNCHANGED <<name, made, m_queue, pc, sent, born>>

QueueNext ==
  \E p \in Processes :
    \/ Remove(p) \/ Create(p) \/ CreateThrows(p) \/ Open(p)
    \/ Destructor(p) \/ Crash(p)
    \/ TrySend(p) \/ TryReceive(p)

QueueSpec == QueueInit /\ [][QueueNext]_queueVars

-----------------------------------------------------------------------------
(* A parent starts afresh, whoever crashed before: it shares its queue     *)
(* with no other parent, and finds in it only what was sent since it was   *)
(* constructed, oldest first (IntQueue.cpp:9-12).                          *)
Fresh ==
  \A p \in Parents : pc[p] = "open" =>
    /\ \A r \in Parents \ {p} : m_queue[r] # m_queue[p]
    /\ \A i \in DOMAIN content[m_queue[p]] :
         LET msg == content[m_queue[p]]
         IN msg[i] > born[p] /\ \A j \in 1..(i - 1) : msg[j] < msg[i]

(* What a crashed parent left behind does not keep it from starting again: *)
(* its constructor throws only because of a queue that another parent made *)
(* in between (IntQueue.cpp:10-11).                                        *)
StartsAgain ==
  [][\A p \in Parents : CreateThrows(p) => made[name] # p]_queueVars
=============================================================================
