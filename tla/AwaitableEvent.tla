--------------------------- MODULE AwaitableEvent ---------------------------
(***************************************************************************)
(* AwaitableEvent: a one-shot event that coroutines of a strand wait for   *)
(* and that any thread may set.  A mutex guards m_set and the intrusive    *)
(* list of pending operations; a finished operation posts its coroutine's  *)
(* handler on the strand.  The lambda in the coroutine's cancellation slot *)
(* keeps both the operation and the event alive.                           *)
(*                                                                         *)
(* A waiter is one call of co_wait(), a setter one call of set().  The     *)
(* list is kept as a set: the order in which set() empties it only decides *)
(* the order of the posts.                                                 *)
(***************************************************************************)
EXTENDS Naturals, Sequences

CONSTANTS Setters,   \* calls of set(), each on a thread of its own
          Waiters,   \* calls of co_wait(), all on the event's strand
          NoOne      \* "the mutex is free"

ASSUME ActorsAssumption ==
  /\ Setters \cap Waiters = {}
  /\ NoOne \notin Setters \cup Waiters

VARIABLES
  m_set,         \* the event is set
  m_operations,  \* the waiters whose TOperation is linked in the list
  m_finalizing,  \* per waiter: finalize() has run for its TOperation
  mutex,         \* who holds m_mutex
  slot,          \* per waiter: the lambda sits in its cancellation slot
  strand,        \* handlers posted on m_executor, oldest first
  setter,        \* where each set() is: "idle", "disposing", "done"
  waiter,        \* where each co_wait() is:
                 \*   "idle", "check", "link", "waiting", "done"
  result,        \* what each co_wait() returned
  held,          \* the user still holds a shared_ptr to the event
  alive          \* ~AwaitableEvent has not run

vars == <<m_set, m_operations, m_finalizing, mutex, slot, strand, setter,
          waiter, result, held, alive>>

Codes == {"ok", "canceled"}
Handler == [op : Waiters, ec : Codes]

TypeOK ==
  /\ m_set \in BOOLEAN
  /\ m_operations \subseteq Waiters
  /\ m_finalizing \in [Waiters -> BOOLEAN]
  /\ mutex \in Setters \cup Waiters \cup {NoOne}
  /\ slot \in [Waiters -> BOOLEAN]
  /\ strand \in Seq(Handler)
  /\ setter \in [Setters -> {"idle", "disposing", "done"}]
  /\ waiter \in [Waiters -> {"idle", "check", "link", "waiting", "done"}]
  /\ result \in [Waiters -> Codes \cup {"none"}]
  /\ held \in BOOLEAN
  /\ alive \in BOOLEAN

Init ==
  /\ m_set = FALSE
  /\ m_operations = {}
  /\ m_finalizing = [w \in Waiters |-> FALSE]
  /\ mutex = NoOne
  /\ slot = [w \in Waiters |-> FALSE]
  /\ strand = <<>>
  /\ setter = [s \in Setters |-> "idle"]
  /\ waiter = [w \in Waiters |-> "idle"]
  /\ result = [w \in Waiters |-> "none"]
  /\ held = TRUE
  /\ alive = TRUE

-----------------------------------------------------------------------------
(* The strand runs one handler at a time; a waiter inside the initiation   *)
(* of co_wait() occupies it.                                               *)
StrandFree == \A w \in Waiters : waiter[w] \notin {"check", "link"}

(* A mutant of the next definition.                                        *)
FinalizeTwice(w, ec) ==     \* no test of m_finalizing
  /\ m_operations' = m_operations \ {w}
  /\ m_finalizing' = [m_finalizing EXCEPT ![w] = TRUE]
  /\ strand' = Append(strand, [op |-> w, ec |-> ec])

(* TOperation::finalize: unlink the operation and post its handler, once.  *)
Finalize(w, ec) ==
  \/ /\ m_finalizing[w]
     /\ UNCHANGED <<m_operations, m_finalizing, strand>>
  \/ /\ ~m_finalizing[w]
     /\ m_operations' = m_operations \ {w}
     /\ m_finalizing' = [m_finalizing EXCEPT ![w] = TRUE]
     /\ strand' = Append(strand, [op |-> w, ec |-> ec])

-----------------------------------------------------------------------------
(* set(): lock, raise the flag ...                                         *)
SetLock(s) ==
  /\ setter[s] = "idle"
  /\ held
  /\ mutex = NoOne
  /\ mutex' = s
  /\ m_set' = TRUE
  /\ setter' = [setter EXCEPT ![s] = "disposing"]
  /\ UNCHANGED <<m_operations, m_finalizing, slot, strand, waiter, result,
                 held, alive>>

(* ... finalize every linked operation ...                                 *)
SetDispose(s) ==
  /\ setter[s] = "disposing"
  /\ \E w \in m_operations : Finalize(w, "ok")
  /\ UNCHANGED <<m_set, mutex, slot, setter, waiter, result, held, alive>>

SetUnlockEarly(s) ==        \* releases the lock before the list is empty
  /\ setter[s] = "disposing"
  /\ mutex' = NoOne
  /\ setter' = [setter EXCEPT ![s] = "done"]
  /\ UNCHANGED <<m_set, m_operations, m_finalizing, slot, strand, waiter,
                 result, held, alive>>

(* ... and unlock.                                                         *)
SetUnlock(s) ==
  /\ setter[s] = "disposing"
  /\ m_operations = {}
  /\ mutex' = NoOne
  /\ setter' = [setter EXCEPT ![s] = "done"]
  /\ UNCHANGED <<m_set, m_operations, m_finalizing, slot, strand, waiter,
                 result, held, alive>>

-----------------------------------------------------------------------------
WaitLockless(w) ==          \* initiation without the lock_guard
  /\ waiter[w] = "idle"
  /\ held
  /\ StrandFree
  /\ waiter' = [waiter EXCEPT ![w] = "check"]
  /\ UNCHANGED <<m_set, m_operations, m_finalizing, mutex, slot, strand,
                 setter, result, held, alive>>

(* co_wait(), on the strand: lock, create the operation ...                *)
WaitLock(w) ==
  /\ waiter[w] = "idle"
  /\ held
  /\ StrandFree
  /\ mutex = NoOne
  /\ mutex' = w
  /\ waiter' = [waiter EXCEPT ![w] = "check"]
  /\ UNCHANGED <<m_set, m_operations, m_finalizing, slot, strand, setter,
                 result, held, alive>>

(* ... if the event is set, finish at once ...                             *)
WaitAlreadySet(w) ==
  /\ waiter[w] = "check"
  /\ m_set
  /\ Finalize(w, "ok")
  /\ mutex' = NoOne
  /\ waiter' = [waiter EXCEPT ![w] = "waiting"]
  /\ UNCHANGED <<m_set, slot, setter, result, held, alive>>

WaitNotSet(w) ==
  /\ waiter[w] = "check"
  /\ ~m_set
  /\ waiter' = [waiter EXCEPT ![w] = "link"]
  /\ UNCHANGED <<m_set, m_operations, m_finalizing, mutex, slot, strand,
                 setter, result, held, alive>>

WaitLinkNoSelf(w) ==        \* the slot's lambda does not capture self
  /\ waiter[w] = "link"
  /\ m_operations' = m_operations \cup {w}
  /\ mutex' = NoOne
  /\ waiter' = [waiter EXCEPT ![w] = "waiting"]
  /\ UNCHANGED <<m_set, m_finalizing, slot, strand, setter, result, held,
                 alive>>

(* ... otherwise link it and install the cancellation lambda.              *)
WaitLink(w) ==
  /\ waiter[w] = "link"
  /\ m_operations' = m_operations \cup {w}
  /\ slot' = [slot EXCEPT ![w] = TRUE]
  /\ mutex' = NoOne
  /\ waiter' = [waiter EXCEPT ![w] = "waiting"]
  /\ UNCHANGED <<m_set, m_finalizing, strand, setter, result, held, alive>>

(* The coroutine's cancellation signal is emitted, on its strand, while    *)
(* the lambda is installed; it may be emitted any number of times.         *)
Cancel(w) ==
  /\ slot[w]
  /\ StrandFree
  /\ mutex = NoOne
  /\ Finalize(w, "canceled")
  /\ UNCHANGED <<m_set, mutex, slot, setter, waiter, result, held, alive>>

RunHandlerKeepSlot ==       \* resumes the coroutine, leaves the lambda in place
  /\ StrandFree
  /\ strand # <<>>
  /\ waiter' = [waiter EXCEPT ![Head(strand).op] = "done"]
  /\ result' = [result EXCEPT ![Head(strand).op] = Head(strand).ec]
  /\ strand' = Tail(strand)
  /\ UNCHANGED <<m_set, m_operations, m_finalizing, mutex, slot, setter, held,
                 alive>>

(* The strand runs a posted handler: the coroutine's handler clears the    *)
(* cancellation slot and resumes the coroutine with the error code.        *)
RunHandler ==
  /\ StrandFree
  /\ strand # <<>>
  /\ slot' = [slot EXCEPT ![Head(strand).op] = FALSE]
  /\ waiter' = [waiter EXCEPT ![Head(strand).op] = "done"]
  /\ result' = [result EXCEPT ![Head(strand).op] = Head(strand).ec]
  /\ strand' = Tail(strand)
  /\ UNCHANGED <<m_set, m_operations, m_finalizing, mutex, setter, held, alive>>

-----------------------------------------------------------------------------
(* Ownership.  The user drops its shared_ptr only outside of a call ...    *)
Release ==
  /\ held
  /\ StrandFree
  /\ \A s \in Setters : setter[s] # "disposing"
  /\ held' = FALSE
  /\ UNCHANGED <<m_set, m_operations, m_finalizing, mutex, slot, strand, setter,
                 waiter, result, alive>>

(* ... and the event dies with the last owner: the user, or a lambda that  *)
(* still sits in a cancellation slot.                                      *)
Destroy ==
  /\ alive
  /\ ~held
  /\ \A w \in Waiters : ~slot[w]
  /\ mutex = NoOne
  /\ alive' = FALSE
  /\ UNCHANGED <<m_set, m_operations, m_finalizing, mutex, slot, strand, setter,
                 waiter, result, held>>

-----------------------------------------------------------------------------
SetStep(s) == SetLock(s) \/ SetDispose(s) \/ SetUnlock(s)
WaitStep(w) == WaitLock(w) \/ WaitAlreadySet(w) \/ WaitNotSet(w) \/ WaitLink(w)

Next ==
  \/ \E s \in Setters : SetStep(s)
  \/ \E w \in Waiters : WaitStep(w) \/ Cancel(w)
  \/ RunHandler
  \/ Release
  \/ Destroy

(* A thread inside set() or inside the initiation goes on, the strand runs *)
(* what is posted, and the last owner's release runs the destructor.       *)
(* Nobody has to call set(), co_wait() or to cancel.                       *)
Fairness ==
  /\ \A s \in Setters : WF_vars(SetDispose(s) \/ SetUnlock(s))
  /\ \A w \in Waiters :
       WF_vars(WaitAlreadySet(w) \/ WaitNotSet(w) \/ WaitLink(w))
  /\ WF_vars(RunHandler)
  /\ WF_vars(Destroy)

Spec == Init /\ [][Next]_vars
FairSpec == Spec /\ Fairness

-----------------------------------------------------------------------------
(* No coroutine is resumed twice: of one waiter at most one handler is     *)
(* ever posted, whatever set() and cancellation do to its operation        *)
(* (AwaitableEvent.cpp:60-72).                                             *)
ResumedOnce ==
  \A i \in 1..Len(strand) :
    /\ result[strand[i].op] = "none"
    /\ \A j \in 1..Len(strand) : strand[i].op = strand[j].op => i = j

(* No lost wakeup: once set() has returned no operation is left in the     *)
(* list, even when co_wait() looked at m_set just before                   *)
(* (AwaitableEvent.cpp:21-46).                                             *)
NoLostWakeup ==
  m_set /\ mutex = NoOne => m_operations = {}

(* ~AwaitableEvent's assertion that no operation is pending holds, because *)
(* every linked operation's slot owns the event (AwaitableEvent.cpp:12-19).*)
DestructorAssert ==
  ~alive => m_operations = {}

(* Every coroutine that waits on a set event is resumed, unless it is not  *)
(* inside co_wait() (AwaitableEvent.cpp:21-48).                            *)
Wakeup ==
  \A w \in Waiters :
    (m_set /\ waiter[w] \in {"check", "link", "waiting"}) ~> waiter[w] = "done"

(* The cycle event - slot - operation is always undone: an event that was  *)
(* set and released is destroyed (AwaitableEvent.cpp:40-44).               *)
NoLeak ==
  (m_set /\ ~held) ~> ~alive

-----------------------------------------------------------------------------
(* The event as its users see it.                                          *)
Promise == INSTANCE ManualResetEvent WITH isSet <- m_set, outcome <- result

(* AwaitableEvent implements ManualResetEvent: co_wait() returns once, and *)
(* with success only after set() (AwaitableEvent.cpp:21-72).               *)
PromiseSpec == Promise!Spec
=============================================================================
