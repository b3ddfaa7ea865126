------------------------ MODULE EventAndQueueProofs -------------------------
(*************************************************************************)
(* Machine-checked proofs about AwaitableEvent, for any calls of set() and *)
(* co_wait(), and about IPCIntQueue, for any parents, children and bounds. *)
(*************************************************************************)
EXTENDS AwaitableEvent, IPCIntQueue, TLAPS

-----------------------------------------------------------------------------
(* The inductive invariant.                                                *)

(* The mutex is held exactly by the call that is between lock and unlock,  *)
(* and a call inside the lock has an owner of the event behind it.         *)
MutexInv ==
  /\ \A s \in Setters : setter[s] = "disposing" <=> mutex = s
  /\ \A w \in Waiters : waiter[w] \in {"check", "link"} <=> mutex = w
  /\ \A w \in Waiters : waiter[w] = "link" => ~m_set
  /\ mutex # NoOne => held
  /\ held => alive

(* A linked operation is pending and its slot is armed; a set event has    *)
(* linked operations only while set() is emptying the list.                *)
ListInv ==
  /\ \A w \in m_operations :
       slot[w] /\ ~m_finalizing[w] /\ waiter[w] = "waiting"
  /\ m_set => m_operations = {} \/ mutex \in Setters
  /\ mutex \in Setters => m_set
  /\ \A w \in Waiters : slot[w] => alive /\ waiter[w] = "waiting"

(* Before finalize() nothing is posted for an operation and after it the   *)
(* coroutine is in co_wait() until its only handler runs.                  *)
HandlerInv ==
  /\ \A w \in Waiters : waiter[w] \in {"idle", "check", "link"} =>
       ~m_finalizing[w] /\ result[w] = "none"
  /\ \A w \in Waiters : waiter[w] = "waiting" => result[w] = "none"
  /\ \A i \in 1..Len(strand) :
       /\ m_finalizing[strand[i].op]
       /\ waiter[strand[i].op] = "waiting"
       /\ strand[i].ec = "ok" => m_set
  /\ \A i, j \in 1..Len(strand) : strand[i].op = strand[j].op => i = j

IInv == TypeOK /\ MutexInv /\ ListInv /\ HandlerInv

-----------------------------------------------------------------------------
(* Type correctness.                                                       *)

(* The next state of the list, the flags and the strand has its type after *)
(* finalize() (AwaitableEvent.cpp:60-72).                                  *)
LEMMA FinalizeType ==
  ASSUME TypeOK, NEW w \in Waiters, NEW ec \in Codes, Finalize(w, ec)
  PROVE  /\ m_operations' \subseteq Waiters
         /\ m_finalizing' \in [Waiters -> BOOLEAN]
         /\ strand' \in Seq(Handler)
<1>1. [op |-> w, ec |-> ec] \in Handler
  BY DEF Handler
<1>2. CASE m_finalizing[w]
  BY <1>2 DEF Finalize, TypeOK
<1>3. CASE ~m_finalizing[w]
  <2>1. strand' = Append(strand, [op |-> w, ec |-> ec])
    BY <1>3 DEF Finalize
  <2>2. strand' \in Seq(Handler)
    BY <1>1, <2>1 DEF TypeOK
  <2>3. m_operations' \subseteq Waiters /\ m_finalizing' \in [Waiters -> BOOLEAN]
    BY <1>3 DEF Finalize, TypeOK
  <2>4. QED
    BY <2>2, <2>3
<1>4. QED
  BY <1>2, <1>3

(* Every step of the event keeps the variables in their types              *)
(* (AwaitableEvent.cpp:8-72).                                              *)
LEMMA TypeStep == TypeOK /\ [Next]_vars => TypeOK'
<1> SUFFICES ASSUME TypeOK, [Next]_vars PROVE TypeOK'
  OBVIOUS
<1>1. ASSUME NEW s \in Setters, SetLock(s) PROVE TypeOK'
  BY <1>1 DEF TypeOK, SetLock
<1>2. ASSUME NEW s \in Setters, SetDispose(s) PROVE TypeOK'
  <2>1. PICK w \in m_operations : Finalize(w, "ok")
    BY <1>2 DEF SetDispose
  <2>2. w \in Waiters /\ "ok" \in Codes
    BY DEF TypeOK, Codes
  <2>3. QED
    BY <1>2, <2>1, <2>2, FinalizeType DEF TypeOK, SetDispose
<1>3. ASSUME NEW s \in Setters, SetUnlock(s) PROVE TypeOK'
  BY <1>3 DEF TypeOK, SetUnlock
<1>4. ASSUME NEW w \in Waiters, WaitLock(w) PROVE TypeOK'
  BY <1>4 DEF TypeOK, WaitLock
<1>5. ASSUME NEW w \in Waiters, WaitAlreadySet(w) PROVE TypeOK'
  <2>1. "ok" \in Codes
    BY DEF Codes
  <2>2. Finalize(w, "ok")
    BY <1>5 DEF WaitAlreadySet
  <2>3. QED
    BY <1>5, <2>1, <2>2, FinalizeType DEF TypeOK, WaitAlreadySet
<1>6. ASSUME NEW w \in Waiters, WaitNotSet(w) PROVE TypeOK'
  BY <1>6 DEF TypeOK, WaitNotSet
<1>7. ASSUME NEW w \in Waiters, WaitLink(w) PROVE TypeOK'
  BY <1>7 DEF TypeOK, WaitLink
<1>8. ASSUME NEW w \in Waiters, Cancel(w) PROVE TypeOK'
  <2>1. "canceled" \in Codes
    BY DEF Codes
  <2>2. Finalize(w, "canceled")
    BY <1>8 DEF Cancel
  <2>3. QED
    BY <1>8, <2>1, <2>2, FinalizeType DEF TypeOK, Cancel
<1>9. ASSUME RunHandler PROVE TypeOK'
  <2>1. /\ Head(strand) \in Handler
        /\ Tail(strand) \in Seq(Handler)
    BY <1>9 DEF TypeOK, RunHandler
  <2>2. Head(strand).op \in Waiters /\ Head(strand).ec \in Codes
    BY <2>1 DEF Handler
  <2>3. QED
    BY <1>9, <2>1, <2>2 DEF TypeOK, RunHandler
<1>10. ASSUME Release PROVE TypeOK'
  BY <1>10 DEF TypeOK, Release
<1>11. ASSUME Destroy PROVE TypeOK'
  BY <1>11 DEF TypeOK, Destroy
<1>12. CASE UNCHANGED vars
  BY <1>12 DEF TypeOK, vars
<1>13. QED
  BY <1>1, <1>2, <1>3, <1>4, <1>5, <1>6, <1>7, <1>8, <1>9, <1>10, <1>11, <1>12
     DEF Next, SetStep, WaitStep

(* The initial state satisfies the inductive invariant                     *)
(* (AwaitableEvent.cpp:8-10).                                              *)
LEMMA InitIInv == Init => IInv
<1> SUFFICES ASSUME Init PROVE IInv
  OBVIOUS
<1>1. TypeOK
  <2>1. strand \in Seq(Handler)
    BY DEF Init
  <2>2. result \in [Waiters -> Codes \cup {"none"}]
    BY DEF Init
  <2>3. QED
    BY <2>1, <2>2 DEF Init, TypeOK
<1>2. MutexInv
  BY ActorsAssumption DEF Init, MutexInv
<1>3. ListInv
  BY ActorsAssumption DEF Init, ListInv
<1>4. HandlerInv
  BY DEF Init, HandlerInv
<1>5. QED
  BY <1>1, <1>2, <1>3, <1>4 DEF IInv

(* The variables of the event always have their types, whatever set(),     *)
(* co_wait() and cancellation do (AwaitableEvent.cpp:8-72).                *)
THEOREM TypeCorrect == Spec => []TypeOK
<1>1. Init => TypeOK
  BY InitIInv DEF IInv
<1>2. QED
  BY <1>1, TypeStep, PTL DEF Spec

-----------------------------------------------------------------------------
(* The inductive step.                                                     *)

(* A posted handler names a waiter and an error code                       *)
(* (AwaitableEvent.cpp:69-71).                                             *)
LEMMA HandlerFields ==
  ASSUME TypeOK
  PROVE  \A i \in 1..Len(strand) :
           strand[i].op \in Waiters /\ strand[i].ec \in Codes
<1> SUFFICES ASSUME NEW i \in 1..Len(strand)
             PROVE  strand[i].op \in Waiters /\ strand[i].ec \in Codes
  OBVIOUS
<1>1. strand[i] \in Handler
  BY DEF TypeOK
<1>2. QED
  BY <1>1 DEF Handler

(* finalize() of a waiting operation posts at most one handler for it, and *)
(* a successful one only for a set event (AwaitableEvent.cpp:60-72).       *)
LEMMA FinalizeHandler ==
  ASSUME TypeOK, HandlerInv, NEW w \in Waiters, NEW ec \in Codes,
         Finalize(w, ec), ec = "ok" => m_set,
         waiter' = [waiter EXCEPT ![w] = "waiting"],
         waiter[w] \in {"check", "waiting"},
         UNCHANGED <<m_set, result>>
  PROVE  HandlerInv'
<1>1. CASE m_finalizing[w]
  <2>1. UNCHANGED <<m_operations, m_finalizing, strand>>
    BY <1>1 DEF Finalize
  <2>2. waiter[w] = "waiting"
    BY <1>1 DEF HandlerInv
  <2>3. waiter' = waiter
    BY <2>2 DEF TypeOK
  <2>4. QED
    BY <2>1, <2>3 DEF HandlerInv
<1>2. CASE ~m_finalizing[w]
  <2>1. /\ m_finalizing' = [m_finalizing EXCEPT ![w] = TRUE]
        /\ strand' = Append(strand, [op |-> w, ec |-> ec])
    BY <1>2 DEF Finalize
  <2>2. \A i \in 1..Len(strand) : strand[i].op \in Waiters
    BY HandlerFields
  <2>3. /\ Len(strand') = Len(strand) + 1
        /\ Len(strand) \in Nat
        /\ \A i \in 1..Len(strand) : strand'[i] = strand[i]
        /\ strand'[Len(strand) + 1] = [op |-> w, ec |-> ec]
    BY <2>1 DEF TypeOK
  <2>4. \A i \in 1..Len(strand) : strand[i].op # w
    BY <1>2 DEF HandlerInv
  <2>5. \A v \in Waiters : waiter'[v] \in {"idle", "check", "link"} =>
          ~m_finalizing'[v] /\ result'[v] = "none"
    BY <2>1 DEF HandlerInv, TypeOK
  <2>6. \A v \in Waiters : waiter'[v] = "waiting" => result'[v] = "none"
    BY DEF HandlerInv, TypeOK
  <2>7. ASSUME NEW i \in 1..Len(strand')
        PROVE  /\ m_finalizing'[strand'[i].op]
               /\ waiter'[strand'[i].op] = "waiting"
               /\ strand'[i].ec = "ok" => m_set'
    <3>1. CASE i \in 1..Len(strand)
      <4>1. strand'[i] = strand[i] /\ strand[i].op \in Waiters
        BY <3>1, <2>2, <2>3
      <4>2. m_finalizing[strand[i].op] /\ waiter[strand[i].op] = "waiting"
        BY <3>1 DEF HandlerInv
      <4>3. strand[i].ec = "ok" => m_set
        BY <3>1 DEF HandlerInv
      <4>4. QED
        BY <4>1, <4>2, <4>3, <2>1 DEF TypeOK
    <3>2. CASE i = Len(strand) + 1
      <4>1. strand'[i] = [op |-> w, ec |-> ec]
        BY <3>2, <2>3
      <4>2. m_finalizing'[w] /\ waiter'[w] = "waiting"
        BY <2>1 DEF TypeOK
      <4>3. QED
        BY <4>1, <4>2
    <3>3. QED
      BY <2>3, <3>1, <3>2
  <2>8. ASSUME NEW i \in 1..Len(strand'), NEW j \in 1..Len(strand'),
               strand'[i].op = strand'[j].op
        PROVE  i = j
    <3>1. CASE i \in 1..Len(strand) /\ j \in 1..Len(strand)
      BY <3>1, <2>3, <2>8 DEF HandlerInv
    <3>2. CASE i = Len(strand) + 1 \/ j = Len(strand) + 1
      BY <3>2, <2>3, <2>4, <2>8
    <3>3. QED
      BY <2>3, <3>1, <3>2
  <2>9. QED
    BY <2>5, <2>6, <2>7, <2>8 DEF HandlerInv
<1>3. QED
  BY <1>1, <1>2

(* Every step of the event keeps the inductive invariant                   *)
(* (AwaitableEvent.cpp:12-72).                                             *)
LEMMA StepIInv == IInv /\ [Next]_vars => IInv'
<1> SUFFICES ASSUME IInv, [Next]_vars PROVE IInv'
  OBVIOUS
<1> USE DEF IInv
<1>0. TypeOK'
  BY TypeStep
<1>1. ASSUME NEW s \in Setters, SetLock(s) PROVE IInv'
  <2>1. MutexInv'
    BY <1>1, ActorsAssumption DEF MutexInv, TypeOK, SetLock
  <2>2. ListInv'
    BY <1>1 DEF ListInv, TypeOK, SetLock
  <2>3. HandlerInv'
    BY <1>1 DEF HandlerInv, SetLock
  <2>4. QED
    BY <1>0, <2>1, <2>2, <2>3
<1>2. ASSUME NEW s \in Setters, SetDispose(s) PROVE IInv'
  <2>1. PICK w \in m_operations : Finalize(w, "ok")
    BY <1>2 DEF SetDispose
  <2>2. w \in Waiters /\ waiter[w] = "waiting" /\ ~m_finalizing[w]
    BY <2>1 DEF TypeOK, ListInv
  <2>3. m_set
    BY <1>2 DEF SetDispose, ListInv, MutexInv
  <2>4. MutexInv'
    BY <1>2 DEF MutexInv, SetDispose
  <2>5. ListInv'
    BY <1>2, <2>1, <2>2 DEF ListInv, MutexInv, TypeOK, SetDispose, Finalize
  <2>6. HandlerInv'
    <3>1. waiter' = [waiter EXCEPT ![w] = "waiting"]
      BY <1>2, <2>2 DEF SetDispose, TypeOK
    <3>2. QED
      BY <1>2, <2>1, <2>2, <2>3, <3>1, FinalizeHandler DEF SetDispose, Codes
  <2>7. QED
    BY <1>0, <2>4, <2>5, <2>6
<1>3. ASSUME NEW s \in Setters, SetUnlock(s) PROVE IInv'
  <2>1. MutexInv'
    BY <1>3, ActorsAssumption DEF MutexInv, TypeOK, SetUnlock
  <2>2. ListInv'
    BY <1>3, ActorsAssumption DEF ListInv, SetUnlock
  <2>3. HandlerInv'
    BY <1>3 DEF HandlerInv, SetUnlock
  <2>4. QED
    BY <1>0, <2>1, <2>2, <2>3
<1>4. ASSUME NEW w \in Waiters, WaitLock(w) PROVE IInv'
  <2>1. MutexInv'
    BY <1>4, ActorsAssumption DEF MutexInv, TypeOK, WaitLock, StrandFree
  <2>2. ListInv'
    BY <1>4, ActorsAssumption DEF ListInv, TypeOK, WaitLock
  <2>3. HandlerInv'
    BY <1>4, HandlerFields DEF HandlerInv, TypeOK, WaitLock
  <2>4. QED
    BY <1>0, <2>1, <2>2, <2>3
<1>5. ASSUME NEW w \in Waiters, WaitAlreadySet(w) PROVE IInv'
  <2>1. /\ Finalize(w, "ok") /\ m_set /\ waiter[w] = "check"
        /\ ~m_finalizing[w] /\ mutex = w /\ w \notin m_operations
    BY <1>5 DEF WaitAlreadySet, HandlerInv, MutexInv, ListInv
  <2>2. MutexInv'
    BY <1>5, <2>1, ActorsAssumption DEF MutexInv, TypeOK, WaitAlreadySet
  <2>3. ListInv'
    BY <1>5, <2>1, ActorsAssumption DEF ListInv, TypeOK, WaitAlreadySet, Finalize
  <2>4. HandlerInv'
    BY <1>5, <2>1, FinalizeHandler DEF WaitAlreadySet, Codes
  <2>5. QED
    BY <1>0, <2>2, <2>3, <2>4
<1>6. ASSUME NEW w \in Waiters, WaitNotSet(w) PROVE IInv'
  <2>1. MutexInv'
    BY <1>6, ActorsAssumption DEF MutexInv, TypeOK, WaitNotSet
  <2>2. ListInv'
    BY <1>6 DEF ListInv, TypeOK, WaitNotSet
  <2>3. HandlerInv'
    BY <1>6, HandlerFields DEF HandlerInv, TypeOK, WaitNotSet
  <2>4. QED
    BY <1>0, <2>1, <2>2, <2>3
<1>7. ASSUME NEW w \in Waiters, WaitLink(w) PROVE IInv'
  <2>1. ~m_set /\ mutex = w /\ alive /\ ~m_finalizing[w]
    BY <1>7, ActorsAssumption DEF MutexInv, HandlerInv, WaitLink
  <2>2. MutexInv'
    BY <1>7, <2>1, ActorsAssumption DEF MutexInv, TypeOK, WaitLink
  <2>3. ListInv'
    BY <1>7, <2>1, ActorsAssumption DEF ListInv, TypeOK, WaitLink
  <2>4. HandlerInv'
    BY <1>7, HandlerFields DEF HandlerInv, TypeOK, WaitLink
  <2>5. QED
    BY <1>0, <2>2, <2>3, <2>4
<1>8. ASSUME NEW w \in Waiters, Cancel(w) PROVE IInv'
  <2>1. slot[w] /\ Finalize(w, "canceled")
    BY <1>8 DEF Cancel
  <2>2. waiter[w] = "waiting"
    BY <2>1 DEF ListInv
  <2>3. MutexInv'
    BY <1>8 DEF MutexInv, Cancel
  <2>4. ListInv'
    BY <1>8, <2>1 DEF ListInv, TypeOK, Cancel, Finalize
  <2>5. HandlerInv'
    <3>1. waiter' = [waiter EXCEPT ![w] = "waiting"]
      BY <1>8, <2>2 DEF Cancel, TypeOK
    <3>2. QED
      BY <1>8, <2>1, <2>2, <3>1, FinalizeHandler DEF Cancel, Codes
  <2>6. QED
    BY <1>0, <2>3, <2>4, <2>5
<1>9. ASSUME RunHandler PROVE IInv'
  <2> DEFINE w == Head(strand).op
  <2>1. /\ Head(strand) = strand[1] /\ 1 \in 1..Len(strand)
        /\ Len(strand) \in Nat /\ Len(strand') = Len(strand) - 1
        /\ \A i \in 1..Len(strand') : strand'[i] = strand[i + 1]
    BY <1>9 DEF RunHandler, TypeOK
  <2>2. w \in Waiters /\ m_finalizing[w] /\ waiter[w] = "waiting"
    BY <2>1, HandlerFields DEF HandlerInv
  <2>3. MutexInv'
    BY <1>9, <2>2 DEF MutexInv, TypeOK, RunHandler
  <2>4. ListInv'
    BY <1>9, <2>2 DEF ListInv, TypeOK, RunHandler
  <2>5. HandlerInv'
    <3>1. \A v \in Waiters : waiter'[v] \in {"idle", "check", "link"} =>
            ~m_finalizing'[v] /\ result'[v] = "none"
      BY <1>9, <2>2 DEF HandlerInv, TypeOK, RunHandler
    <3>2. \A v \in Waiters : waiter'[v] = "waiting" => result'[v] = "none"
      BY <1>9, <2>2 DEF HandlerInv, TypeOK, RunHandler
    <3>3. ASSUME NEW i \in 1..Len(strand')
          PROVE  /\ m_finalizing'[strand'[i].op]
                 /\ waiter'[strand'[i].op] = "waiting"
                 /\ strand'[i].ec = "ok" => m_set'
      <4>1. i + 1 \in 1..Len(strand) /\ strand'[i] = strand[i + 1]
        BY <2>1
      <4>2. strand[i + 1].op # w
        BY <2>1, <4>1 DEF HandlerInv
      <4>3. /\ m_finalizing[strand[i + 1].op]
            /\ waiter[strand[i + 1].op] = "waiting"
            /\ strand[i + 1].ec = "ok" => m_set
        BY <4>1 DEF HandlerInv
      <4>4. strand[i + 1].op \in Waiters
        BY <4>1, HandlerFields
      <4>5. QED
        BY <1>9, <4>1, <4>2, <4>3, <4>4 DEF RunHandler, TypeOK
    <3>4. \A i, j \in 1..Len(strand') : strand'[i].op = strand'[j].op => i = j
      BY <2>1 DEF HandlerInv
    <3>5. QED
      BY <3>1, <3>2, <3>3, <3>4 DEF HandlerInv
  <2>6. QED
    BY <1>0, <2>3, <2>4, <2>5
<1>10. ASSUME Release PROVE IInv'
  <2>1. mutex = NoOne
    BY <1>10 DEF Release, StrandFree, MutexInv, TypeOK
  <2>2. MutexInv'
    BY <1>10, <2>1 DEF Release, MutexInv
  <2>3. ListInv' /\ HandlerInv'
    BY <1>10 DEF Release, ListInv, HandlerInv
  <2>4. QED
    BY <1>0, <2>2, <2>3
<1>11. ASSUME Destroy PROVE IInv'
  <2>1. MutexInv'
    BY <1>11 DEF Destroy, MutexInv
  <2>2. ListInv'
    BY <1>11 DEF Destroy, ListInv
  <2>3. HandlerInv'
    BY <1>11 DEF Destroy, HandlerInv
  <2>4. QED
    BY <1>0, <2>1, <2>2, <2>3
<1>12. CASE UNCHANGED vars
  BY <1>0, <1>12 DEF MutexInv, ListInv, HandlerInv, vars
<1>13. QED
  BY <1>1, <1>2, <1>3, <1>4, <1>5, <1>6, <1>7, <1>8, <1>9, <1>10, <1>11, <1>12
     DEF Next, SetStep, WaitStep

(* The inductive invariant holds in every reachable state                  *)
(* (AwaitableEvent.cpp:12-72).                                             *)
THEOREM Inductive == Spec => []IInv
  BY InitIInv, StepIInv, PTL DEF Spec

-----------------------------------------------------------------------------
(* The safety properties.                                                  *)

(* No coroutine is resumed twice by set(), by cancellation or by both      *)
(* (AwaitableEvent.cpp:60-72).                                             *)
THEOREM ResumedOnceHolds == Spec => []ResumedOnce
<1>1. IInv => ResumedOnce
  <2> SUFFICES ASSUME IInv, NEW i \in 1..Len(strand)
               PROVE  /\ result[strand[i].op] = "none"
                      /\ \A j \in 1..Len(strand) : strand[i].op = strand[j].op => i = j
    BY DEF ResumedOnce
  <2>1. strand[i].op \in Waiters
    BY HandlerFields DEF IInv
  <2>2. QED
    BY <2>1 DEF IInv, HandlerInv
<1>2. QED
  BY <1>1, Inductive, PTL

(* No operation outlives set() in the list (AwaitableEvent.cpp:21-46).     *)
THEOREM NoLostWakeupHolds == Spec => []NoLostWakeup
<1>1. IInv => NoLostWakeup
  BY ActorsAssumption DEF IInv, ListInv, NoLostWakeup
<1>2. QED
  BY <1>1, Inductive, PTL

(* The assertion of ~AwaitableEvent never fires                            *)
(* (AwaitableEvent.cpp:12-19).                                             *)
THEOREM DestructorAssertHolds == Spec => []DestructorAssert
<1>1. IInv => DestructorAssert
  BY DEF IInv, TypeOK, ListInv, DestructorAssert
<1>2. QED
  BY <1>1, Inductive, PTL

-----------------------------------------------------------------------------
(* Refinement.                                                             *)

(* AwaitableEvent implements ManualResetEvent: set() is Set, the handler   *)
(* posted by finalize() is Succeed or Abort, everything else is invisible  *)
(* (AwaitableEvent.cpp:21-72).                                             *)
THEOREM ImplementsPromise == Spec => PromiseSpec
<1>1. Init => Promise!Init
  BY DEF Init, Promise!Init
<1>2. IInv /\ [Next]_vars => [Promise!Next]_<<m_set, result>>
  <2> SUFFICES ASSUME IInv, [Next]_vars
               PROVE  Promise!Next \/ UNCHANGED <<m_set, result>>
    OBVIOUS
  <2>1. ASSUME NEW s \in Setters, SetStep(s)
        PROVE  Promise!Next \/ UNCHANGED <<m_set, result>>
    BY <2>1 DEF SetStep, SetLock, SetDispose, SetUnlock, Promise!Next, Promise!Set
  <2>2. ASSUME NEW w \in Waiters, WaitStep(w) \/ Cancel(w)
        PROVE  UNCHANGED <<m_set, result>>
    BY <2>2 DEF WaitStep, WaitLock, WaitAlreadySet, WaitNotSet, WaitLink, Cancel
  <2>3. ASSUME RunHandler PROVE Promise!Next
    <3> DEFINE w == strand[1].op
               ec == strand[1].ec
    <3>1. 1 \in 1..Len(strand) /\ Head(strand) = strand[1]
      BY <2>3 DEF RunHandler, IInv, TypeOK
    <3>2. w \in Waiters /\ ec \in Codes
      BY <3>1, HandlerFields DEF IInv
    <3>3. result[w] = "none" /\ (ec = "ok" => m_set)
      BY <3>1, <3>2 DEF IInv, HandlerInv
    <3>4. result' = [result EXCEPT ![w] = ec] /\ UNCHANGED m_set
      BY <2>3, <3>1 DEF RunHandler
    <3>5. CASE ec = "ok"
      BY <3>2, <3>3, <3>4, <3>5 DEF Promise!Next, Promise!Succeed
    <3>6. CASE ec = "canceled"
      BY <3>2, <3>3, <3>4, <3>6 DEF Promise!Next, Promise!Abort
    <3>7. QED
      BY <3>2, <3>5, <3>6 DEF Codes
  <2>4. ASSUME Release \/ Destroy \/ UNCHANGED vars
        PROVE  UNCHANGED <<m_set, result>>
    BY <2>4 DEF Release, Destroy, vars
  <2>5. QED
    BY <2>1, <2>2, <2>3, <2>4 DEF Next
<1>3. QED
  BY <1>1, <1>2, Inductive, PTL DEF Spec, PromiseSpec, Promise!Spec

-----------------------------------------------------------------------------
(* IPCIntQueue: a named message queue that processes share.                *)
(* Messages in the order in which they were sent.                          *)
Ordered(s) == \A i, j \in 1..Len(s) : j < i => s[j] < s[i]

(* Who has a queue open, and what it has of its maker.                     *)
Owners ==
  /\ \A p \in Processes : pc[p] = "open" => m_queue[p] \in Queues
  /\ \A p \in Processes : pc[p] = "constructing" => p \in Parents
  /\ \A p \in Parents : pc[p] = "open" => made[m_queue[p]] = p
  /\ \A p \in Parents : pc[p] # "open" => m_queue[p] = 0

(* The name is never that of a queue that its constructing parent made.    *)
Named ==
  \A p \in Parents : pc[p] = "constructing" /\ name # 0 => made[name] # p

Contents ==
  /\ \A p \in Processes : born[p] <= sent
  /\ \A q \in Queues : made[q] = None => content[q] = <<>>
  /\ \A q \in Queues : Ordered(content[q])
  /\ \A q \in Queues : \A i \in 1..Len(content[q]) : content[q][i] <= sent
  /\ \A p \in Parents : pc[p] = "open" =>
       \A i \in 1..Len(content[m_queue[p]]) : content[m_queue[p]][i] > born[p]
  /\ \A p \in Processes : pc[p] = "open" => made[m_queue[p]] # None
  /\ name # 0 => made[name] # None

QueueInv == QueueTypeOK /\ Owners /\ Named /\ Contents

(* What a message sent does to the order.                                  *)
LEMMA OrderedAppend ==
  ASSUME NEW s \in Seq(Nat), NEW n \in Nat, Ordered(s),
         \A i \in 1..Len(s) : s[i] <= n
  PROVE  /\ Append(s, n + 1) \in Seq(Nat)
         /\ Ordered(Append(s, n + 1))
         /\ \A i \in 1..Len(Append(s, n + 1)) : Append(s, n + 1)[i] <= n + 1
         /\ \A i \in 1..Len(Append(s, n + 1)) :
              \/ i \in 1..Len(s) /\ Append(s, n + 1)[i] = s[i]
              \/ Append(s, n + 1)[i] = n + 1
  <1> DEFINE t == Append(s, n + 1)
  <1>1. /\ t \in Seq(Nat) /\ Len(s) \in Nat /\ Len(t) = Len(s) + 1
        /\ \A i \in 1..Len(s) : t[i] = s[i] /\ s[i] \in Nat
        /\ t[Len(s) + 1] = n + 1
    OBVIOUS
  <1> HIDE DEF t
  <1>2. \A i \in 1..Len(t) : i \in 1..Len(s) \/ i = Len(s) + 1
    BY <1>1
  <1>3. \A i \in 1..Len(t) : \/ i \in 1..Len(s) /\ t[i] = s[i]
                            \/ t[i] = n + 1
    BY <1>1, <1>2
  <1>4. \A i \in 1..Len(t) : t[i] <= n + 1
    BY <1>1, <1>3
  <1>5. Ordered(t)
    <2> SUFFICES ASSUME NEW i \in 1..Len(t), NEW j \in 1..Len(t), j < i
                 PROVE  t[j] < t[i]
      BY DEF Ordered
    <2>1. j \in 1..Len(s)
      BY <1>1
    <2>2. CASE i \in 1..Len(s)
      BY <2>1, <2>2, <1>1 DEF Ordered
    <2>3. CASE i = Len(s) + 1
      <3>1. t[j] = s[j] /\ s[j] \in Nat /\ s[j] <= n
        BY <2>1, <1>1
      <3>2. t[i] = n + 1
        BY <2>3, <1>1
      <3> QED
        BY <3>1, <3>2
    <2> QED
      BY <1>2, <2>2, <2>3
  <1> QED
    BY <1>1, <1>3, <1>4, <1>5 DEF t

LEMMA OrderedTail ==
  ASSUME NEW s \in Seq(Nat), s # <<>>, Ordered(s)
  PROVE  /\ Tail(s) \in Seq(Nat)
         /\ Ordered(Tail(s))
         /\ \A i \in 1..Len(Tail(s)) : i + 1 \in 1..Len(s) /\ Tail(s)[i] = s[i + 1]
  BY DEF Ordered

LEMMA QueueInitInv == QueueInit => QueueInv
  BY Assumption DEF QueueInit, QueueInv, QueueTypeOK, Owners, Named, Contents,
                    Ordered, Processes, Queues

LEMMA RemoveInv == ASSUME QueueInv, NEW p \in Processes, Remove(p) PROVE QueueInv'
  <1> USE DEF Remove, QueueInv, Processes, Queues
  <1>1. QueueTypeOK'
    BY Assumption DEF QueueTypeOK
  <1>2. Owners' /\ Named'
    BY DEF QueueTypeOK, Owners, Named
  <1>3. Contents'
    BY DEF QueueTypeOK, Contents
  <1> QED
    BY <1>1, <1>2, <1>3

LEMMA CreateInv == ASSUME QueueInv, NEW p \in Processes, Create(p) PROVE QueueInv'
  <1> USE DEF Create, Opened, QueueInv, Processes, Queues
  <1>1. p \in Parents /\ p # None
    BY Assumption DEF QueueTypeOK, Owners
  <1>2. PICK q \in Queues :
          /\ made[q] = None
          /\ made' = [made EXCEPT ![q] = p]
          /\ name' = q
    OBVIOUS
  <1>3. m_queue' = [m_queue EXCEPT ![p] = q]
    BY <1>2
  <1>4. QueueTypeOK'
    BY <1>1, <1>2, <1>3 DEF QueueTypeOK
  <1>5. Owners'
    <2>1. \A r \in Processes : (pc[r] = "open" => m_queue[r] \in Queues)'
      BY <1>2, <1>3 DEF QueueTypeOK, Owners
    <2>2. \A r \in Processes : (pc[r] = "constructing" => r \in Parents)'
      BY DEF QueueTypeOK, Owners
    <2>3. ASSUME NEW r \in Parents
          PROVE  /\ (pc[r] = "open" => made[m_queue[r]] = r)'
                 /\ (pc[r] # "open" => m_queue[r] = 0)'
      <3>1. CASE r = p
        BY <3>1, <1>1, <1>2, <1>3 DEF QueueTypeOK
      <3>2. CASE r # p
        <4>1. pc'[r] = pc[r] /\ m_queue'[r] = m_queue[r]
          BY <3>2, <1>3 DEF QueueTypeOK
        <4>2. pc[r] = "open" => m_queue[r] \in Queues /\ m_queue[r] # q
          BY <1>2, Assumption DEF Owners
        <4> QED
          BY <4>1, <4>2, <1>2 DEF QueueTypeOK, Owners
      <3> QED
        BY <3>1, <3>2
    <2> QED
      BY <2>1, <2>2, <2>3 DEF Owners
  <1>6. Named'
    BY <1>1, <1>2, <1>3 DEF QueueTypeOK, Named
  <1>7. Contents'
    BY <1>1, <1>2, <1>3 DEF QueueTypeOK, Owners, Contents, Ordered
  <1> QED
    BY <1>4, <1>5, <1>6, <1>7

LEMMA CreateThrowsInv ==
  ASSUME QueueInv, NEW p \in Processes, CreateThrows(p)
  PROVE  QueueInv'
  <1> USE DEF CreateThrows, QueueInv, Processes, Queues
  <1>1. QueueTypeOK'
    BY Assumption DEF QueueTypeOK
  <1>2. Owners' /\ Named'
    BY DEF QueueTypeOK, Owners, Named
  <1>3. Contents'
    BY DEF QueueTypeOK, Contents
  <1> QED
    BY <1>1, <1>2, <1>3

LEMMA OpenInv == ASSUME QueueInv, NEW p \in Processes, Open(p) PROVE QueueInv'
  <1> USE DEF Open, Opened, QueueInv, Processes, Queues
  <1>1. p \notin Parents
    BY Assumption
  <1>2. name \in Queues
    BY DEF QueueTypeOK
  <1>3. QueueTypeOK'
    BY <1>2 DEF QueueTypeOK
  <1>4. Owners' /\ Named'
    BY <1>1, <1>2 DEF QueueTypeOK, Owners, Named
  <1>5. Contents'
    BY <1>1, <1>2 DEF QueueTypeOK, Contents
  <1> QED
    BY <1>3, <1>4, <1>5

LEMMA LeaveInv ==
  ASSUME QueueInv, NEW p \in Processes, Leave(p), name' \in {0, name}, pc[p] # "none"
  PROVE  QueueInv'
  <1> USE DEF Leave, QueueInv, Processes, Queues
  <1>1. QueueTypeOK'
    BY Assumption DEF QueueTypeOK
  <1>2. Owners' /\ Named'
    BY DEF QueueTypeOK, Owners, Named
  <1>3. Contents'
    BY DEF QueueTypeOK, Contents
  <1> QED
    BY <1>1, <1>2, <1>3

LEMMA TrySendInv == ASSUME QueueInv, NEW p \in Processes, TrySend(p) PROVE QueueInv'
  <1> USE DEF TrySend, QueueInv, Processes, Queues
  <1> DEFINE q == m_queue[p]
  <1>1. q \in Queues /\ content[q] \in Seq(Nat) /\ sent \in Nat
    BY DEF QueueTypeOK, Owners
  <1>2. content' = [content EXCEPT ![q] = Append(content[q], sent + 1)]
    OBVIOUS
  <1>3. /\ content'[q] \in Seq(Nat)
        /\ Ordered(content'[q])
        /\ \A i \in 1..Len(content'[q]) : content'[q][i] <= sent + 1
        /\ \A i \in 1..Len(content'[q]) :
             \/ i \in 1..Len(content[q]) /\ content'[q][i] = content[q][i]
             \/ content'[q][i] = sent + 1
    <2>1. content'[q] = Append(content[q], sent + 1)
      BY <1>1, <1>2 DEF QueueTypeOK
    <2>2. Ordered(content[q]) /\ \A i \in 1..Len(content[q]) : content[q][i] <= sent
      BY <1>1 DEF Contents
    <2> HIDE DEF q
    <2> QED
      BY <1>1, <2>1, <2>2, OrderedAppend, ZenonT(30)
  <1>4. \A r \in Queues \ {q} : content'[r] = content[r]
    BY <1>2 DEF QueueTypeOK
  <1> HIDE DEF q
  <1>5. QueueTypeOK'
    BY <1>1, <1>2, <1>3 DEF QueueTypeOK
  <1>6. Owners' /\ Named'
    BY DEF Owners, Named
  <1>7. Contents'
    <2>1. \A r \in Processes : (born[r] <= sent)'
      BY DEF Contents, QueueTypeOK
    <2>2. \A r \in Queues : (made[r] = None => content[r] = <<>>)'
      BY <1>1, <1>4 DEF Contents, q
    <2>3. \A r \in Queues : Ordered(content'[r])
      BY <1>3, <1>4 DEF Contents
    <2>4. \A r \in Queues : \A i \in 1..Len(content'[r]) : content'[r][i] <= sent'
      <3> TAKE r \in Queues
      <3>1. CASE r = q
        BY <3>1, <1>3
      <3>2. CASE r # q
        <4> SUFFICES ASSUME NEW i \in 1..Len(content'[r]) PROVE content'[r][i] <= sent'
          OBVIOUS
        <4>1. content'[r] = content[r] /\ content[r] \in Seq(Nat)
          BY <3>2, <1>4 DEF QueueTypeOK
        <4> HIDE DEF TrySend, QueueInv
        <4>2. i \in 1..Len(content[r]) /\ content[r][i] \in Nat
          BY <4>1
        <4>3. \A t \in Queues : \A k \in 1..Len(content[t]) : content[t][k] <= sent
          BY DEF Contents, QueueInv
        <4>4. content[r][i] <= sent
          BY <4>2, <4>3
        <4> QED
          BY <4>1, <4>2, <4>4, <1>1 DEF TrySend
      <3> QED
        BY <3>1, <3>2
    <2>5. \A r \in Parents : pc[r] = "open" =>
            \A i \in 1..Len(content'[m_queue[r]]) : content'[m_queue[r]][i] > born[r]
      <3> SUFFICES ASSUME NEW r \in Parents, pc[r] = "open",
                          NEW i \in 1..Len(content'[m_queue[r]])
                   PROVE  content'[m_queue[r]][i] > born[r]
        OBVIOUS
      <3>1. born[r] <= sent /\ born[r] \in Nat /\ m_queue[r] \in Queues
        BY DEF Contents, Owners, QueueTypeOK
      <3>2. CASE m_queue[r] = q
        BY <3>1, <3>2, <1>1, <1>3, SMTT(30) DEF Contents
      <3>3. CASE m_queue[r] # q
        BY <3>1, <3>3, <1>4 DEF Contents
      <3> QED
        BY <3>2, <3>3
    <2>6. /\ \A r \in Processes : (pc[r] = "open" => made[m_queue[r]] # None)'
          /\ (name # 0 => made[name] # None)'
      BY DEF Contents
    <2> QED
      BY <2>1, <2>2, <2>3, <2>4, <2>5, <2>6 DEF Contents
  <1> QED
    BY <1>5, <1>6, <1>7

LEMMA TryReceiveInv ==
  ASSUME QueueInv, NEW p \in Processes, TryReceive(p)
  PROVE  QueueInv'
  <1> USE DEF TryReceive, QueueInv, Processes, Queues
  <1> DEFINE q == m_queue[p]
  <1>1. q \in Queues /\ content[q] \in Seq(Nat) /\ content[q] # <<>> /\ sent \in Nat
    BY DEF QueueTypeOK, Owners
  <1>2. content' = [content EXCEPT ![q] = Tail(content[q])]
    OBVIOUS
  <1>3. /\ content'[q] \in Seq(Nat)
        /\ Ordered(content'[q])
        /\ \A i \in 1..Len(content'[q]) :
             i + 1 \in 1..Len(content[q]) /\ content'[q][i] = content[q][i + 1]
    BY <1>1, <1>2, OrderedTail DEF Contents, QueueTypeOK
  <1>4. \A r \in Queues \ {q} : content'[r] = content[r]
    BY <1>2 DEF QueueTypeOK
  <1> HIDE DEF q
  <1>5. QueueTypeOK'
    BY <1>1, <1>2, <1>3 DEF QueueTypeOK
  <1>6. Owners' /\ Named'
    BY DEF Owners, Named
  <1>7. Contents'
    <2>1. \A r \in Queues : (made[r] = None => content[r] = <<>>)'
      BY <1>1, <1>4 DEF Contents
    <2>2. \A r \in Queues : Ordered(content'[r])
      BY <1>3, <1>4 DEF Contents
    <2>3. \A r \in Queues : \A i \in 1..Len(content'[r]) : content'[r][i] <= sent'
      <3> TAKE r \in Queues
      <3>1. CASE r = q
        BY <3>1, <1>1, <1>3 DEF Contents
      <3>2. CASE r # q
        BY <3>2, <1>4 DEF Contents
      <3> QED
        BY <3>1, <3>2
    <2>4. \A r \in Parents : pc[r] = "open" =>
            \A i \in 1..Len(content'[m_queue[r]]) : content'[m_queue[r]][i] > born[r]
      <3> SUFFICES ASSUME NEW r \in Parents, pc[r] = "open",
                          NEW i \in 1..Len(content'[m_queue[r]])
                   PROVE  content'[m_queue[r]][i] > born[r]
        OBVIOUS
      <3>1. m_queue[r] \in Queues
        BY DEF Owners
      <3>2. CASE m_queue[r] = q
        <4>1. i + 1 \in 1..Len(content[q]) /\ content'[q][i] = content[q][i + 1]
          BY <3>2, <1>3
        <4> QED
          BY <3>2, <4>1 DEF Contents
      <3>3. CASE m_queue[r] # q
        BY <3>1, <3>3, <1>4 DEF Contents
      <3> QED
        BY <3>2, <3>3
    <2> QED
      BY <2>1, <2>2, <2>3, <2>4 DEF Contents
  <1> QED
    BY <1>5, <1>6, <1>7

LEMMA QueueStepInv == QueueInv /\ [QueueNext]_queueVars => QueueInv'
  <1> SUFFICES ASSUME QueueInv, [QueueNext]_queueVars PROVE QueueInv'
    OBVIOUS
  <1>1. CASE UNCHANGED queueVars
    BY <1>1 DEF queueVars, QueueInv, QueueTypeOK, Owners, Named, Contents, Ordered,
                Processes, Queues
  <1>2. ASSUME NEW p \in Processes,
               \/ Remove(p) \/ Create(p) \/ CreateThrows(p) \/ Open(p)
               \/ Destructor(p) \/ Crash(p) \/ TrySend(p) \/ TryReceive(p)
        PROVE  QueueInv'
    <2>1. CASE Remove(p)
      BY <2>1, RemoveInv
    <2>2. CASE Create(p)
      BY <2>2, CreateInv
    <2>3. CASE CreateThrows(p)
      BY <2>3, CreateThrowsInv
    <2>4. CASE Open(p)
      BY <2>4, OpenInv
    <2>5. CASE Destructor(p)
      BY <2>5, LeaveInv DEF Destructor
    <2>6. CASE Crash(p)
      BY <2>6, LeaveInv DEF Crash
    <2>7. CASE TrySend(p)
      BY <2>7, TrySendInv
    <2>8. CASE TryReceive(p)
      BY <2>8, TryReceiveInv
    <2> QED
      BY <1>2, <2>1, <2>2, <2>3, <2>4, <2>5, <2>6, <2>7, <2>8
  <1> QED
    BY <1>1, <1>2 DEF QueueNext

(* The invariant is one of the specification.                              *)
THEOREM QueueInductive == QueueSpec => []QueueInv
  BY QueueInitInv, QueueStepInv, PTL DEF QueueSpec

(* Each variable keeps its type.                                           *)
THEOREM QueueTypeCorrect == QueueSpec => []QueueTypeOK
  <1>1. QueueInv => QueueTypeOK
    BY DEF QueueInv
  <1> QED
    BY <1>1, QueueInductive, PTL

(* A parent's queue is its own, and has no message from before it was      *)
(* constructed (IntQueue.cpp:9-12).                                        *)
THEOREM FreshHolds == QueueSpec => []Fresh
  <1>1. QueueInv => Fresh
    <2> SUFFICES ASSUME QueueInv, NEW p \in Parents, pc[p] = "open"
                 PROVE  /\ \A r \in Parents \ {p} : m_queue[r] # m_queue[p]
                        /\ \A i \in DOMAIN content[m_queue[p]] :
                             /\ content[m_queue[p]][i] > born[p]
                             /\ \A j \in 1..(i - 1) :
                                  content[m_queue[p]][j] < content[m_queue[p]][i]
      BY DEF Fresh
    <2>1. m_queue[p] \in Queues /\ made[m_queue[p]] = p
      BY DEF QueueInv, Owners, Processes
    <2>2. \A r \in Parents \ {p} : m_queue[r] # m_queue[p]
      BY <2>1 DEF QueueInv, Owners, Queues
    <2>3. content[m_queue[p]] \in Seq(Nat)
      BY <2>1 DEF QueueInv, QueueTypeOK
    <2>4. DOMAIN content[m_queue[p]] = 1..Len(content[m_queue[p]])
      BY <2>3
    <2>5. Ordered(content[m_queue[p]])
      BY <2>1 DEF QueueInv, Contents
    <2>6. Len(content[m_queue[p]]) \in Nat
      BY <2>3
    <2> QED
      BY <2>2, <2>4, <2>5, <2>6 DEF QueueInv, Contents, Ordered
  <1> QED
    BY <1>1, QueueInductive, PTL

(* What a parent left behind does not make its next constructor throw      *)
(* (IntQueue.cpp:10-11).                                                   *)
THEOREM StartsAgainHolds == QueueSpec => StartsAgain
  <1>1. QueueInv => \A p \in Parents : CreateThrows(p) => made[name] # p
    BY DEF QueueInv, Named, CreateThrows
  <1>2. QueueInv /\ [QueueNext]_queueVars =>
          [\A p \in Parents : CreateThrows(p) => made[name] # p]_queueVars
    BY <1>1
  <1> QED
    BY <1>2, QueueInductive, PTL DEF QueueSpec, StartsAgain
=============================================================================
