----------------------- MODULE ProxyDataSessionProofs -----------------------
(***************************************************************************)
(* Machine-checked proofs about ProxyDataSession: type correctness, that   *)
(* no socket is closed under a pump, and that when nothing is queued no    *)
(* start, stop or cancellation has been lost, for queues of any length.    *)
(***************************************************************************)
EXTENDS ProxyDataSession, TLAPS

Queues == [Sides -> Seq(Handlers)]

Has(q, h) == \E i \in 1..Len(q) : q[i] = h

Told(q) == Has(q, "doneREAD") \/ Has(q, "doneWRITE")

(* A session that has begun is not INITIAL, so it does not begin again.    *)
BegunInv == \A s \in Sides : pc[s] # "idle" => task[s] # "INITIAL"

(* A session is told that the other one is done only after that one ended. *)
DoneInv ==
  \A s \in Sides : m_otherDone[s] \/ Told(strand[s]) => pc[Other(s)] = "over"

(* A socket is closed only after both sessions have ended.                 *)
CloseInv ==
  \A s \in Sides :
    sock[s] = "CLOSED" \/ Has(strand[s], "close") => pc[1] = "over" /\ pc[2] = "over"

IInv == TypeOK /\ BegunInv /\ DoneInv /\ CloseInv

-----------------------------------------------------------------------------
(* The queues.                                                             *)

(* Each session has exactly one other (Proxy.cpp:45-48).                   *)
LEMMA SidesFacts ==
  /\ 1 \in Sides /\ 2 \in Sides
  /\ \A s \in Sides : Other(s) \in Sides /\ Other(Other(s)) = s /\ Other(s) # s
  /\ \A s, t \in Sides : t = s \/ t = Other(s)
BY DEF Sides, Other

(* Posting a handler keeps the queues well formed and adds that handler to *)
(* one queue (StrandHolder.hpp:18-26).                                     *)
LEMMA PostFacts ==
  ASSUME NEW q \in Queues, NEW s \in Sides, NEW h \in Handlers
  PROVE  /\ Post(q, s, h) \in Queues
         /\ \A t \in Sides : \A x : Has(Post(q, s, h)[t], x) =>
              Has(q[t], x) \/ (t = s /\ x = h)
<1>1. q[s] \in Seq(Handlers)
  BY DEF Queues
<1>2. Append(q[s], h) \in Seq(Handlers)
  BY <1>1
<1>3. \A x : Has(Append(q[s], h), x) => Has(q[s], x) \/ x = h
  <2>1. /\ Len(Append(q[s], h)) = Len(q[s]) + 1
        /\ Len(q[s]) \in Nat
        /\ \A i \in 1..Len(q[s]) : Append(q[s], h)[i] = q[s][i]
        /\ Append(q[s], h)[Len(q[s]) + 1] = h
    BY <1>1
  <2>2. QED
    BY <2>1 DEF Has
<1>4. \A t \in Sides : Post(q, s, h)[t] = IF t = s THEN Append(q[s], h) ELSE q[t]
  BY DEF Post, Queues
<1>5. Post(q, s, h) \in Queues
  BY <1>2 DEF Post, Queues
<1>6. QED
  BY <1>3, <1>4, <1>5

(* Taking the oldest handler keeps the queues well formed and adds none.   *)
LEMMA PoppedFacts ==
  ASSUME strand \in Queues, NEW s \in Sides, strand[s] # <<>>
  PROVE  /\ Popped(s) \in Queues
         /\ \A t \in Sides : \A x : Has(Popped(s)[t], x) => Has(strand[t], x)
<1>1. strand[s] \in Seq(Handlers)
  BY DEF Queues
<1>2. Tail(strand[s]) \in Seq(Handlers)
  BY <1>1
<1>3. \A x : Has(Tail(strand[s]), x) => Has(strand[s], x)
  <2>1. /\ Len(Tail(strand[s])) = Len(strand[s]) - 1
        /\ Len(strand[s]) \in Nat
        /\ \A i \in 1..Len(Tail(strand[s])) : Tail(strand[s])[i] = strand[s][i + 1]
    BY <1>1
  <2>2. QED
    BY <2>1 DEF Has
<1>4. \A t \in Sides : Popped(s)[t] = IF t = s THEN Tail(strand[s]) ELSE strand[t]
  BY DEF Popped, Queues
<1>5. Popped(s) \in Queues
  BY <1>2 DEF Popped, Queues
<1>6. QED
  BY <1>3, <1>4, <1>5

(* The handler whose turn it is was in the queue.                          *)
LEMMA TurnFacts ==
  ASSUME strand \in Queues, NEW s \in Sides, NEW h, Turn(s, h)
  PROVE  strand[s] # <<>> /\ Has(strand[s], h)
<1>1. strand[s] \in Seq(Handlers) /\ strand[s] # <<>>
  BY DEF Queues, Turn
<1>2. 1 \in 1..Len(strand[s]) /\ strand[s][1] = h
  BY <1>1 DEF Turn
<1>3. QED
  BY <1>1, <1>2 DEF Has

(* q gains nothing over the strands that tells a session anything: neither *)
(* a notice that the other is done nor a request to close.                 *)
Quiet(q) ==
  /\ q \in Queues
  /\ \A t \in Sides, x \in {"doneREAD", "doneWRITE", "close"} :
       Has(q[t], x) => Has(strand[t], x)

(* Taking a handler tells nobody anything (StrandHolder.hpp:18-26).        *)
LEMMA QuietPopped ==
  ASSUME strand \in Queues, NEW s \in Sides, strand[s] # <<>>
  PROVE  Quiet(Popped(s))
BY PoppedFacts DEF Quiet

(* Nor does posting any handler but a notice or a close                    *)
(* (ProxyDataSession.cpp:40-60, Session.cpp:87-97).                       *)
LEMMA QuietPost ==
  ASSUME NEW q, Quiet(q), NEW s \in Sides,
         NEW h \in Handlers \ {"doneREAD", "doneWRITE", "close"}
  PROVE  Quiet(Post(q, s, h))
<1>1. q \in Queues
  BY DEF Quiet
<1>2. QED
  BY <1>1, PostFacts DEF Quiet

(* Nor does leaving the strands alone (StrandHolder.hpp:18-26).            *)
LEMMA QuietStrand ==
  ASSUME strand \in Queues
  PROVE  Quiet(strand)
BY DEF Quiet

-----------------------------------------------------------------------------
(* The parts of the handlers.                                              *)

(* A stop, with what onStop() and the signal post, tells nobody that a     *)
(* session is done (CoroutineTask.hpp:34-52, ProxyDataSession.cpp:29-38).  *)
LEMMA SignalFacts ==
  ASSUME TypeOK, NEW s \in Sides, NEW q, Quiet(q), Signal(s, q)
  PROVE  /\ Quiet(strand')
         /\ canceled' \in [Sides -> BOOLEAN]
         /\ pending' \in [Sides -> BOOLEAN]
<1>1. Quiet(Post(q, s, "canceled"))
  BY QuietPost DEF Handlers
<1>2. QED
  BY <1>1 DEF Signal, TypeOK

(* onStop() only posts a stop (ProxyDataSession.cpp:29-38).               *)
LEMMA OnStopFacts ==
  ASSUME NEW s \in Sides, NEW q, Quiet(q)
  PROVE  Quiet(OnStop(s, q))
<1>1. Quiet(Post(q, Other(s), "stop"))
  BY QuietPost, SidesFacts DEF Handlers
<1>2. QED
  BY <1>1 DEF OnStop

LEMMA StopInlineFacts ==
  ASSUME TypeOK, BegunInv, NEW s \in Sides, NEW q, Quiet(q), StopInline(s, q)
  PROVE  /\ Quiet(strand')
         /\ canceled' \in [Sides -> BOOLEAN]
         /\ pending' \in [Sides -> BOOLEAN]
         /\ task' \in [Sides -> {"INITIAL", "RUNNING", "DONE", "STOPPED"}]
         /\ \A t \in Sides : task[t] # "INITIAL" => task'[t] # "INITIAL"
<1>1. CASE task[s] = "STOPPED"
  BY <1>1 DEF StopInline, TypeOK
<1>2. CASE task[s] # "STOPPED"
  <2>1. Quiet(OnStop(s, q))
    BY OnStopFacts
  <2>2. Signal(s, OnStop(s, q)) /\ task' = [task EXCEPT ![s] = "STOPPED"]
    BY <1>2 DEF StopInline
  <2>3. QED
    BY <2>1, <2>2, SignalFacts DEF TypeOK
<1>3. QED
  BY <1>1, <1>2

(* The end of run() leaves the queues as Leave made them, up to a stop of  *)
(* the other session (CoroutineTask.hpp:71-107).                           *)
LEMMA EndFacts ==
  ASSUME TypeOK, NEW s \in Sides, NEW ec, NEW q, End(s, ec, q)
  PROVE  /\ strand' = q \/ strand' = Post(q, Other(s), "stop")
         /\ pc' = [pc EXCEPT ![s] = "over"]
         /\ task' \in [Sides -> {"INITIAL", "RUNNING", "DONE", "STOPPED"}]
         /\ task'[s] # "INITIAL"
         /\ \A t \in Sides : task[t] # "INITIAL" => task'[t] # "INITIAL"
<1>1. strand' = q \/ strand' = Post(q, Other(s), "stop")
  BY DEF End, OnStop
<1>2. pc' = [pc EXCEPT ![s] = "over"]
  BY DEF End
<1>3. CASE task' = [task EXCEPT ![s] = IF @ = "STOPPED" THEN @ ELSE "DONE"]
  BY <1>1, <1>2, <1>3 DEF TypeOK
<1>4. CASE task' = [task EXCEPT ![s] = "STOPPED"]
  BY <1>1, <1>2, <1>4 DEF TypeOK
<1>5. QED
  BY <1>3, <1>4 DEF End

(* A step that tells nobody anything, lets no ended session go on and      *)
(* leaves m_otherDone and the sockets alone preserves the invariants.      *)
LEMMA QuietStep ==
  ASSUME IInv, Quiet(strand'), m_otherDone' = m_otherDone, sock' = sock,
         \A s \in Sides : pc[s] = "over" => pc'[s] = "over"
  PROVE  DoneInv' /\ CloseInv'
<1>1. \A s \in Sides, x \in {"doneREAD", "doneWRITE", "close"} :
        Has(strand'[s], x) => Has(strand[s], x)
  BY DEF Quiet
<1>2. ASSUME NEW s \in Sides, m_otherDone'[s] \/ Told(strand'[s])
      PROVE  pc'[Other(s)] = "over"
  BY <1>1, <1>2, SidesFacts DEF IInv, DoneInv, Told
<1>3. ASSUME NEW s \in Sides, sock'[s] = "CLOSED" \/ Has(strand'[s], "close")
      PROVE  pc'[1] = "over" /\ pc'[2] = "over"
  BY <1>1, <1>3, SidesFacts DEF IInv, CloseInv
<1>4. QED
  BY <1>2, <1>3 DEF DoneInv, CloseInv

-----------------------------------------------------------------------------
(* The actions.                                                            *)

(* The constructors establish the invariant (ProxyDataSession.cpp:9-19).   *)
LEMMA InitInv == Init => IInv
<1>1. \A x : ~Has(<<>>, x)
  BY DEF Has
<1>2. <<>> \in Seq(Handlers)
  OBVIOUS
<1>3. ASSUME Init PROVE TypeOK
  BY <1>2, <1>3 DEF Init, TypeOK
<1>4. ASSUME Init
      PROVE  \A s \in Sides : /\ pc[s] = "idle" /\ m_otherDone[s] = FALSE
                             /\ sock[s] = "STARTED" /\ strand[s] = <<>>
  BY <1>4 DEF Init
<1>5. QED
  BY <1>1, <1>3, <1>4 DEF IInv, BegunInv, DoneInv, CloseInv, Told

(* The Proxy only posts starts and a signal (Proxy.cpp:33-50).             *)
LEMMA ProxyInv ==
  ASSUME IInv,
         ProxyStep \/ ProxyCancel \/ \E r \in {"ok", "error"} : SetupComplete(r)
  PROVE  IInv'
<1> USE DEF ProxyStep, SetupComplete, SetupNext, SetupFails, StartFirst, AwaitSecond,
            AwaitSecondThrows, ProxyCancel, ProxyEnd, data
<1>0. TypeOK /\ strand \in Queues
  BY DEF IInv, TypeOK, Queues
<1>1. \A t \in Sides : /\ Quiet(Post(strand, t, "start"))
                       /\ Quiet(Post(strand, t, "emit"))
  BY <1>0, QuietStrand, QuietPost DEF Handlers
<1>2. Quiet(strand')
  BY <1>0, <1>1, QuietStrand, SidesFacts
<1>3. /\ proxy' \in {"get", "start1", "start2", "first", "awaiting", "over"}
      /\ setup' \in {"pending", "ok", "error"}
      /\ proxyCanceled' \in BOOLEAN
  BY <1>0 DEF TypeOK
<1>4. UNCHANGED data
  OBVIOUS
<1>5. TypeOK'
  BY <1>0, <1>2, <1>3, <1>4 DEF TypeOK, Quiet, Queues
<1>6. QED
  BY <1>2, <1>4, <1>5, QuietStep DEF IInv, BegunInv

(* The network tells no session that the other one is done                *)
(* (ProxyDataSession.cpp:83-90).                                           *)
LEMMA CompleteInv ==
  ASSUME IInv, NEW s \in Sides, NEW ec \in {"ok", "error"}, Complete(s, ec)
  PROVE  IInv'
<1>0. TypeOK /\ strand \in Queues
  BY DEF IInv, TypeOK, Queues
<1>1. Quiet(strand')
  BY <1>0, QuietStrand, QuietPost DEF Complete, Handlers
<1>2. TypeOK'
  BY <1>0, <1>1 DEF TypeOK, Quiet, Queues, Complete
<1>3. UNCHANGED <<task, pc, m_otherDone, sock>>
  BY DEF Complete
<1>4. QED
  BY <1>1, <1>2, <1>3, QuietStep DEF IInv, BegunInv

(* A session that has ended is not started again: work() refuses           *)
(* (CoroutineTask.hpp:75-77).                                              *)
LEMMA CoStartInv ==
  ASSUME IInv, NEW s \in Sides, CoStart(s)
  PROVE  IInv'
<1>0. TypeOK /\ strand \in Queues
  BY DEF IInv, TypeOK, Queues
<1>1. Quiet(strand')
  BY <1>0, QuietPopped, TurnFacts DEF CoStart
<1>2. CASE task[s] = "INITIAL" /\ task' = [task EXCEPT ![s] = "RUNNING"]
           /\ pc' = [pc EXCEPT ![s] = "start"] /\ pending' = [pending EXCEPT ![s] = TRUE]
  <2>1. TypeOK'
    BY <1>0, <1>1, <1>2 DEF TypeOK, Quiet, Queues, CoStart
  <2>2. pc[s] = "idle"
    BY <1>2 DEF IInv, BegunInv
  <2>3. (\A t \in Sides : pc[t] = "over" => pc'[t] = "over") /\ BegunInv'
    BY <1>0, <1>2, <2>2 DEF IInv, BegunInv, TypeOK
  <2>4. QED
    BY <1>1, <2>1, <2>3, QuietStep DEF IInv, CoStart
<1>3. CASE task[s] # "INITIAL" /\ pc' = [pc EXCEPT ![s] = "over"]
           /\ UNCHANGED <<task, pending>>
  <2>1. TypeOK'
    BY <1>0, <1>1, <1>3 DEF TypeOK, Quiet, Queues, CoStart
  <2>2. (\A t \in Sides : pc[t] = "over" => pc'[t] = "over") /\ BegunInv'
    BY <1>0, <1>3 DEF IInv, BegunInv, TypeOK
  <2>3. QED
    BY <1>1, <2>1, <2>2, QuietStep DEF IInv, CoStart
<1>4. QED
  BY <1>2, <1>3 DEF CoStart

(* A stop or a signal tells nobody that a session is done                  *)
(* (CoroutineTask.hpp:34-52).                                              *)
LEMMA SignalsInv ==
  ASSUME IInv, NEW s \in Sides, CoStop(s) \/ Emit(s)
  PROVE  IInv'
<1>0. TypeOK /\ BegunInv /\ strand \in Queues
  BY DEF IInv, TypeOK, Queues
<1>1. Quiet(Popped(s))
  BY <1>0, QuietPopped, TurnFacts DEF CoStop, Emit
<1>2. /\ Quiet(strand')
      /\ canceled' \in [Sides -> BOOLEAN]
      /\ pending' \in [Sides -> BOOLEAN]
      /\ task' \in [Sides -> {"INITIAL", "RUNNING", "DONE", "STOPPED"}]
      /\ \A t \in Sides : task[t] # "INITIAL" => task'[t] # "INITIAL"
  <2>1. CASE CoStop(s)
    BY <1>0, <1>1, <2>1, StopInlineFacts DEF CoStop
  <2>2. CASE Emit(s)
    <3>1. Signal(s, Popped(s)) /\ task' = task
      BY <2>2 DEF Emit
    <3>2. QED
      BY <1>0, <1>1, <3>1, SignalFacts DEF TypeOK
  <2>3. QED
    BY <2>1, <2>2
<1>3. UNCHANGED <<proxy, setup, proxyCanceled, pc, m_state, m_otherDone, sock,
                  broken>>
  BY DEF CoStop, Emit
<1>4. TypeOK' /\ BegunInv'
  BY <1>0, <1>2, <1>3 DEF TypeOK, BegunInv, Quiet, Queues
<1>5. QED
  BY <1>2, <1>3, <1>4, QuietStep DEF IInv

(* m_otherDone is set only when the other session has ended                *)
(* (ProxyDataSession.cpp:40-60).                                           *)
LEMMA OtherDoneInv ==
  ASSUME IInv, NEW s \in Sides, OtherDone(s)
  PROVE  IInv'
<1>0. TypeOK /\ BegunInv /\ strand \in Queues
  BY DEF IInv, TypeOK, Queues
<1>1. strand[s] # <<>> /\ Told(strand[s])
  BY <1>0, TurnFacts DEF OtherDone, Told
<1>2. Quiet(Popped(s))
  BY <1>0, <1>1, QuietPopped
<1>3. /\ Quiet(strand')
      /\ canceled' \in [Sides -> BOOLEAN]
      /\ pending' \in [Sides -> BOOLEAN]
      /\ task' \in [Sides -> {"INITIAL", "RUNNING", "DONE", "STOPPED"}]
      /\ \A t \in Sides : task[t] # "INITIAL" => task'[t] # "INITIAL"
  <2>1. CASE StopInline(s, Popped(s))
    BY <1>0, <1>2, <2>1, StopInlineFacts
  <2>2. CASE strand' = Popped(s) /\ UNCHANGED <<task, canceled, pending>>
    BY <1>0, <1>2, <2>2 DEF TypeOK
  <2>3. QED
    BY <2>1, <2>2 DEF OtherDone
<1>4. UNCHANGED <<proxy, setup, proxyCanceled, pc, m_state, sock, broken>>
  BY DEF OtherDone
<1>5. m_otherDone' = [m_otherDone EXCEPT ![s] = TRUE]
  BY DEF OtherDone
<1>6. TypeOK' /\ BegunInv'
  BY <1>0, <1>3, <1>4, <1>5 DEF TypeOK, BegunInv, Quiet, Queues
<1>7. pc[Other(s)] = "over"
  BY <1>1 DEF IInv, DoneInv
<1>8. ASSUME NEW t \in Sides, m_otherDone'[t] \/ Told(strand'[t])
      PROVE  pc'[Other(t)] = "over"
  <2>1. CASE t = s
    BY <1>4, <1>7, <2>1
  <2>2. CASE t # s
    <3>1. m_otherDone[t] \/ Told(strand[t])
      BY <1>0, <1>3, <1>5, <1>8, <2>2 DEF TypeOK, Quiet, Told
    <3>2. QED
      BY <1>4, <3>1 DEF IInv, DoneInv
  <2>3. QED
    BY <2>1, <2>2
<1>9. CloseInv'
  BY <1>3, <1>4 DEF IInv, CloseInv, Quiet
<1>10. QED
  BY <1>6, <1>8, <1>9 DEF IInv, DoneInv

(* A socket is closed on request, so when both sessions have ended         *)
(* (Session.cpp:87-97).                                                   *)
LEMMA CloseSocketInv ==
  ASSUME IInv, NEW s \in Sides, CloseSocket(s)
  PROVE  IInv'
<1>0. TypeOK /\ strand \in Queues
  BY DEF IInv, TypeOK, Queues
<1>1. strand[s] # <<>> /\ Has(strand[s], "close")
  BY <1>0, TurnFacts DEF CloseSocket
<1>2. Quiet(strand')
  BY <1>0, <1>1, QuietPopped DEF CloseSocket
<1>3. UNCHANGED <<proxy, setup, proxyCanceled, task, canceled, pc, pending,
                  m_state,
                  m_otherDone, broken>>
  BY DEF CloseSocket
<1>4. TypeOK' /\ BegunInv'
  BY <1>0, <1>2, <1>3 DEF TypeOK, IInv, BegunInv, Quiet, Queues, CloseSocket
<1>5. DoneInv'
  BY <1>2, <1>3 DEF IInv, DoneInv, Quiet, Told
<1>6. pc'[1] = "over" /\ pc'[2] = "over"
  BY <1>1, <1>3 DEF IInv, CloseInv
<1>7. QED
  BY <1>4, <1>5, <1>6 DEF IInv, CloseInv

(* A session that ends without a word to the other one: it has not entered *)
(* work() (Session.cpp:66-85).                                             *)
LEMMA QuietEndInv ==
  ASSUME IInv, NEW s \in Sides, NEW ec, End(s, ec, Popped(s)), strand[s] # <<>>,
         UNCHANGED <<proxy, setup, proxyCanceled, canceled, pending, m_state,
                     m_otherDone, sock, broken>>
  PROVE  IInv'
<1>0. TypeOK /\ strand \in Queues
  BY DEF IInv, TypeOK, Queues
<1>1. Quiet(Popped(s)) /\ Quiet(Post(Popped(s), Other(s), "stop"))
  BY <1>0, QuietPopped, QuietPost, SidesFacts DEF Handlers
<1>2. /\ Quiet(strand')
      /\ pc' = [pc EXCEPT ![s] = "over"]
      /\ task' \in [Sides -> {"INITIAL", "RUNNING", "DONE", "STOPPED"}]
      /\ task'[s] # "INITIAL"
      /\ \A t \in Sides : task[t] # "INITIAL" => task'[t] # "INITIAL"
  BY <1>0, <1>1, EndFacts
<1>3. TypeOK' /\ BegunInv'
  BY <1>0, <1>2 DEF TypeOK, IInv, BegunInv, Quiet, Queues
<1>4. \A t \in Sides : pc[t] = "over" => pc'[t] = "over"
  BY <1>0, <1>2 DEF TypeOK
<1>5. QED
  BY <1>2, <1>3, <1>4, QuietStep DEF IInv

(* A session that goes on with a read or a write                           *)
(* (ProxyDataSession.cpp:83-90).                                           *)
LEMMA AwaitInv ==
  ASSUME IInv, NEW s \in Sides, NEW op \in {"read", "write"}, Await(s, op),
         pc[s] \in {"start", "read", "write"}, strand[s] # <<>>,
         UNCHANGED <<proxy, setup, proxyCanceled, canceled, m_otherDone,
                     broken>>
  PROVE  IInv'
<1>0. TypeOK /\ strand \in Queues
  BY DEF IInv, TypeOK, Queues
<1>1. Quiet(strand')
  BY <1>0, QuietPopped DEF Await
<1>2. TypeOK'
  BY <1>0, <1>1 DEF TypeOK, Quiet, Queues, Await
<1>3. BegunInv' /\ \A t \in Sides : pc[t] = "over" => pc'[t] = "over"
  BY <1>0 DEF TypeOK, IInv, BegunInv, Await
<1>4. QED
  BY <1>1, <1>2, <1>3, QuietStep DEF IInv, Await

(* A posted stop is neither a notice nor a close                           *)
(* (ProxyDataSession.cpp:29-38).                                           *)
LEMMA PostStopFacts ==
  ASSUME NEW q \in Queues, NEW s \in Sides
  PROVE  /\ Post(q, s, "stop") \in Queues
         /\ \A t \in Sides : \A x : Has(Post(q, s, "stop")[t], x) =>
              Has(q[t], x) \/ x = "stop"
<1>1. "stop" \in Handlers
  BY DEF Handlers
<1>2. QED
  BY <1>1, PostFacts

(* The end of work(): the session that knows that the other one has ended  *)
(* closes the sockets, the one that does not tells the other               *)
(* (ProxyDataSession.cpp:68-81).                                           *)
LEMMA LeaveInv ==
  ASSUME IInv, NEW s \in Sides, NEW ec, NEW lastState \in {"READ", "WRITE"},
         Leave(s, ec, lastState), strand[s] # <<>>,
         UNCHANGED <<proxy, setup, proxyCanceled, canceled, m_otherDone,
                     broken>>
  PROVE  IInv'
<1>0. TypeOK /\ strand \in Queues /\ Other(s) \in Sides
  BY SidesFacts DEF IInv, TypeOK, Queues
<1> DEFINE h == IF m_otherDone[s] THEN "close"
                ELSE IF lastState = "READ" THEN "doneREAD" ELSE "doneWRITE"
           q == Post(Popped(s), Other(s), h)
<1>1. End(s, ec, q)
  BY DEF Leave
<1>2. h \in Handlers
  BY DEF Handlers
<1> HIDE DEF h
<1>3. /\ q \in Queues
      /\ \A t \in Sides : \A x : Has(q[t], x) => Has(strand[t], x) \/ (t = Other(s) /\ x = h)
  <2>1. Popped(s) \in Queues
    BY <1>0, PoppedFacts
  <2>2. QED
    BY <1>0, <1>2, <2>1, PoppedFacts, PostFacts
<1>4. /\ Post(q, Other(s), "stop") \in Queues
      /\ \A t \in Sides : \A x : Has(Post(q, Other(s), "stop")[t], x) =>
           Has(q[t], x) \/ x = "stop"
  BY <1>0, <1>3, PostStopFacts
<1> HIDE DEF q
<1>5. /\ strand' = q \/ strand' = Post(q, Other(s), "stop")
      /\ pc' = [pc EXCEPT ![s] = "over"]
      /\ task' \in [Sides -> {"INITIAL", "RUNNING", "DONE", "STOPPED"}]
      /\ task'[s] # "INITIAL"
      /\ \A t \in Sides : task[t] # "INITIAL" => task'[t] # "INITIAL"
  BY <1>0, <1>1, EndFacts
<1>6. /\ strand' \in Queues
      /\ \A t \in Sides, x \in {"doneREAD", "doneWRITE", "close"} :
           Has(strand'[t], x) => Has(strand[t], x) \/ (t = Other(s) /\ x = h)
  BY <1>3, <1>4, <1>5
<1>7. TypeOK' /\ BegunInv'
  BY <1>0, <1>5, <1>6 DEF TypeOK, IInv, BegunInv, Queues, Leave
<1>8. \A t \in Sides : pc'[t] = IF t = s THEN "over" ELSE pc[t]
  BY <1>0, <1>5 DEF TypeOK
<1>9. CASE m_otherDone[s]
  <2>1. pc[Other(s)] = "over"
    BY <1>9 DEF IInv, DoneInv
  <2>2. \A t \in Sides : pc'[t] = "over"
    BY <1>8, <2>1, SidesFacts
  <2>3. DoneInv' /\ CloseInv'
    BY <2>2, SidesFacts DEF DoneInv, CloseInv
  <2>4. QED
    BY <1>7, <2>3 DEF IInv
<1>10. CASE ~m_otherDone[s]
  <2>1. h # "close" /\ sock' = sock
    BY <1>10 DEF h, Leave
  <2>2. ASSUME NEW t \in Sides, m_otherDone'[t] \/ Told(strand'[t])
        PROVE  pc'[Other(t)] = "over"
    <3>1. CASE t = Other(s)
      BY <1>8, <3>1, SidesFacts
    <3>2. CASE t # Other(s)
      <4>1. m_otherDone[t] \/ Told(strand[t])
        BY <1>6, <2>2, <3>2 DEF Told
      <4>2. QED
        BY <1>8, <4>1, SidesFacts DEF IInv, DoneInv
    <3>3. QED
      BY <3>1, <3>2
  <2>3. ASSUME NEW t \in Sides, sock'[t] = "CLOSED" \/ Has(strand'[t], "close")
        PROVE  pc'[1] = "over" /\ pc'[2] = "over"
    <3>1. sock[t] = "CLOSED" \/ Has(strand[t], "close")
      BY <1>6, <2>1, <2>3
    <3>2. QED
      BY <1>8, <3>1, SidesFacts DEF IInv, CloseInv
  <2>4. QED
    BY <1>7, <2>2, <2>3 DEF IInv, DoneInv, CloseInv
<1>11. QED
  BY <1>9, <1>10

(* The coroutine goes on to its next suspension (Session.cpp:66-85,        *)
(* ProxyDataSession.cpp:60-93).                                            *)
LEMMA ResumeInv ==
  ASSUME IInv, NEW s \in Sides, Resume(s)
  PROVE  IInv'
<1>0. TypeOK /\ strand \in Queues /\ m_state[s] \in {"READ", "WRITE"}
  BY DEF IInv, TypeOK, Queues
<1>1. UNCHANGED <<proxy, setup, proxyCanceled, canceled, m_otherDone, broken>>
  BY DEF Resume
<1>2. strand[s] # <<>>
  BY DEF Resume, ResumeStart, ResumeRead, ResumeWrite, Turn
<1>3. ASSUME NEW lastState \in {"READ", "WRITE"}, Loop(s, lastState),
             pc[s] \in {"start", "read", "write"}
      PROVE  IInv'
  BY <1>1, <1>2, <1>3, LeaveInv, AwaitInv DEF Loop
<1>4. CASE ResumeStart(s)
  <2>1. CASE Loop(s, m_state[s])
    BY <1>0, <1>3, <1>4, <2>1 DEF ResumeStart
  <2>2. CASE ~Loop(s, m_state[s])
    <3>1. PICK ec : End(s, ec, Popped(s)) /\ UNCHANGED <<m_state, sock, pending>>
      BY <1>4, <2>2 DEF ResumeStart
    <3>2. QED
      BY <1>1, <1>2, <3>1, QuietEndInv
  <2>3. QED
    BY <2>1, <2>2
<1>5. CASE ResumeRead(s)
  <2>1. CASE Await(s, "write")
    BY <1>1, <1>2, <1>5, <2>1, AwaitInv DEF ResumeRead
  <2>2. CASE \E ec, lastState \in {"ok", "error", "canceled", "READ", "WRITE"} :
               lastState \in {"READ", "WRITE"} /\ Leave(s, ec, lastState)
    BY <1>1, <1>2, <2>2, LeaveInv
  <2>3. QED
    BY <1>5, <2>1, <2>2 DEF ResumeRead
<1>6. CASE ResumeWrite(s)
  <2>1. CASE Loop(s, "WRITE")
    BY <1>3, <1>6, <2>1 DEF ResumeWrite
  <2>2. CASE \E ec \in {"error", "canceled"} : Leave(s, ec, "WRITE")
    BY <1>1, <1>2, <2>2, LeaveInv
  <2>3. QED
    BY <1>6, <2>1, <2>2 DEF ResumeWrite
<1>7. QED
  BY <1>4, <1>5, <1>6 DEF Resume

-----------------------------------------------------------------------------
(* The theorems.                                                           *)

(* Every step of the Proxy, the network and the two strands preserves the  *)
(* invariant (ProxyDataSession.cpp:29-93, Proxy.cpp:47-50).                *)
LEMMA StepInv == IInv /\ [Next]_vars => IInv'
<1> SUFFICES ASSUME IInv, [Next]_vars PROVE IInv'
  OBVIOUS
<1>1. CASE ProxyStep \/ ProxyCancel \/ \E r \in {"ok", "error"} : SetupComplete(r)
  BY <1>1, ProxyInv
<1>2. ASSUME NEW s \in Sides, Handle(s) PROVE IInv'
  BY <1>2, CoStartInv, SignalsInv, OtherDoneInv, CloseSocketInv, ResumeInv DEF Handle
<1>3. ASSUME NEW s \in Sides, NEW ec \in {"ok", "error"}, Complete(s, ec) PROVE IInv'
  BY <1>3, CompleteInv
<1>4. CASE UNCHANGED vars
  BY <1>4 DEF vars, IInv, TypeOK, BegunInv, DoneInv, CloseInv
<1>5. QED
  BY <1>1, <1>2, <1>3, <1>4 DEF Next

(* The inductive invariant: an ended session stays ended, a session is     *)
(* told so only after the other one ended, a socket is closed only after   *)
(* both (ProxyDataSession.cpp:40-81).                                      *)
THEOREM Inductive == Spec => []IInv
<1>1. QED
  BY InitInv, StepInv, PTL DEF Spec

(* Each variable keeps its type (ProxyDataSession.hpp:22-32).              *)
THEOREM TypeCorrect == Spec => []TypeOK
<1>1. IInv => TypeOK
  BY DEF IInv
<1>2. QED
  BY <1>1, Inductive, PTL

(* No socket is closed while either session reads or writes, however       *)
(* stops, failures and notices are interleaved                             *)
(* (ProxyDataSession.cpp:15-18, 68-81).                                    *)
THEOREM CloseSafeHolds == Spec => []CloseSafe
<1>1. IInv => CloseSafe
  BY DEF IInv, CloseInv, CloseSafe, Working
<1>2. QED
  BY <1>1, Inductive, PTL

-----------------------------------------------------------------------------
(* Nothing hangs: what the liveness properties need besides fairness.      *)

Codes == {"ok", "error", "canceled"}

HasCode(q) == \E i \in 1..Len(q) : q[i] \in Codes
OneCode(q) == \A i, j \in 1..Len(q) : q[i] \in Codes /\ q[j] \in Codes => i = j

OneStart(q) == \A i, j \in 1..Len(q) : q[i] = "start" /\ q[j] = "start" => i = j

(* Each start is ahead of each signal.                                     *)
Begins(q) == \A i, j \in 1..Len(q) : q[i] = "emit" /\ q[j] = "start" => j < i

(* What run() awaits is pending, or its one completion is queued; a        *)
(* stopped or canceled session that has not ended awaits nothing more.     *)
Waits(s) ==
  /\ pc[s] = "idle" => ~canceled[s]
  /\ OneCode(strand[s])
  /\ HasCode(strand[s]) => Active(s) /\ ~pending[s]
  /\ Active(s) => /\ pending[s] \/ HasCode(strand[s])
                  /\ task[s] \in {"RUNNING", "STOPPED"}
                  /\ canceled[s] => ~pending[s]
                  /\ task[s] = "STOPPED" => canceled[s]

(* A session is started once.                                              *)
NotYet(s) == Setup \/ (s = 2 /\ proxy = "first")

Starts(s) ==
  /\ OneStart(strand[s])
  /\ Has(strand[s], "start") => pc[s] = "idle"
  /\ NotYet(s) => pc[s] = "idle" /\ ~Has(strand[s], "start")

(* The stop of one session is on its way to the other.                     *)
Spreads(s) ==
  task[s] = "STOPPED" =>
    \/ task[Other(s)] = "STOPPED"
    \/ Has(strand[Other(s)], "stop")
    \/ Gone(Other(s))

(* A failed write breaks the socket; who is told that the other one ended  *)
(* has a broken socket, or one of the two is stopped.                      *)
Tells(s) ==
  /\ pc[s] = "write" /\ Has(strand[s], "error") => broken[Other(s)]
  /\ m_otherDone[s] \/ Has(strand[s], "doneWRITE") =>
       broken[s] \/ task[s] = "STOPPED" \/ task[Other(s)] = "STOPPED"

(* The starts and the cancellation of the Proxy get to the sessions.       *)
Awaited ==
  /\ proxy \in {"first", "awaiting"} => pc[1] # "idle" \/ Has(strand[1], "start")
  /\ proxy = "awaiting" => pc[2] # "idle" \/ Has(strand[2], "start")
  /\ proxy = "awaiting" /\ proxyCanceled =>
       canceled[2] \/ pc[2] = "over" \/ Has(strand[2], "emit")
  /\ Begins(strand[2])
  /\ Has(strand[2], "emit") => proxyCanceled /\ proxy \in {"awaiting", "over"}

Sided(s) == Waits(s) /\ Starts(s) /\ Spreads(s) /\ Tells(s)

GoInv == Awaited /\ \A s \in Sides : Sided(s)

(* When neither strand has anything left to run: who was started has       *)
(* begun; a Proxy that is canceled in its last await has its session       *)
(* ended; a session that goes on waits for the network, neither canceled   *)
(* nor with either of the two stopped; and one that reads although it was  *)
(* told that the other one is done has a broken socket.                    *)
Rests ==
  strand[1] = <<>> /\ strand[2] = <<>> =>
    /\ proxy \in {"first", "awaiting"} => pc[1] # "idle"
    /\ proxy = "awaiting" => pc[2] # "idle" /\ (proxyCanceled => pc[2] = "over")
    /\ \A s \in Sides : Active(s) =>
         /\ pending[s] /\ ~canceled[s]
         /\ task[1] # "STOPPED" /\ task[2] # "STOPPED"
         /\ m_otherDone[s] /\ pc[s] = "read" => broken[s]

(* A handler is queued behind the others (StrandHolder.hpp:18-26).         *)
LEMMA Pushed ==
  ASSUME NEW q \in Seq(Handlers), NEW h \in Handlers
  PROVE  /\ Append(q, h) \in Seq(Handlers)
         /\ \A x : Has(Append(q, h), x) <=> Has(q, x) \/ x = h
         /\ HasCode(Append(q, h)) <=> HasCode(q) \/ h \in Codes
         /\ OneCode(q) /\ (h \in Codes => ~HasCode(q)) => OneCode(Append(q, h))
         /\ OneStart(q) /\ (h = "start" => ~Has(q, "start")) => OneStart(Append(q, h))
         /\ Begins(q) /\ (h = "start" => ~Has(q, "emit")) => Begins(Append(q, h))
<1> DEFINE w == Append(q, h)
<1>1. /\ Len(q) \in Nat /\ Len(w) = Len(q) + 1 /\ w[Len(w)] = h /\ w \in Seq(Handlers)
      /\ \A i \in 1..Len(q) : w[i] = q[i] /\ i \in 1..Len(w) /\ i < Len(w)
      /\ \A i \in 1..Len(w) : i \in 1..Len(q) \/ i = Len(w)
      /\ Len(w) \in 1..Len(w)
  OBVIOUS
<1> HIDE DEF w
<1>2. \A x : Has(w, x) <=> Has(q, x) \/ x = h
  BY <1>1 DEF Has
<1>3. HasCode(w) <=> HasCode(q) \/ h \in Codes
  BY <1>1 DEF HasCode
<1>4. OneCode(q) /\ (h \in Codes => ~HasCode(q)) => OneCode(w)
  BY <1>1 DEF OneCode, HasCode
<1>5. ASSUME Begins(q), h = "start" => ~Has(q, "emit") PROVE Begins(w)
  <2> SUFFICES ASSUME NEW i \in 1..Len(w), NEW j \in 1..Len(w), w[i] = "emit", w[j] = "start"
               PROVE  j < i
    BY DEF Begins
  <2>1. CASE i \in 1..Len(q) /\ j \in 1..Len(q)
    BY <1>1, <1>5, <2>1 DEF Begins
  <2>2. CASE i = Len(w)
    <3>1. j # Len(w)
      BY <1>1, <2>2
    <3>2. QED
      BY <1>1, <2>2, <3>1
  <2>3. CASE i \in 1..Len(q) /\ j = Len(w)
    BY <1>1, <1>5, <2>3 DEF Has
  <2>4. QED
    BY <1>1, <2>1, <2>2, <2>3
<1>6. OneStart(q) /\ (h = "start" => ~Has(q, "start")) => OneStart(w)
  BY <1>1 DEF OneStart, Has
<1>7. QED
  BY <1>1, <1>2, <1>3, <1>4, <1>5, <1>6 DEF w

(* The oldest handler is taken (StrandHolder.hpp:18-26).                   *)
LEMMA Taken ==
  ASSUME NEW q \in Seq(Handlers), q # <<>>
  PROVE  /\ Tail(q) \in Seq(Handlers) /\ Has(q, Head(q))
         /\ \A x : Has(q, x) => x = Head(q) \/ Has(Tail(q), x)
         /\ \A x : Has(Tail(q), x) => Has(q, x)
         /\ HasCode(q) => Head(q) \in Codes \/ HasCode(Tail(q))
         /\ Head(q) \in Codes => HasCode(q)
         /\ HasCode(Tail(q)) => HasCode(q)
         /\ OneCode(q) => OneCode(Tail(q)) /\ (Head(q) \in Codes => ~HasCode(Tail(q)))
         /\ OneStart(q) => OneStart(Tail(q)) /\ (Head(q) = "start" => ~Has(Tail(q), "start"))
         /\ Begins(q) => Begins(Tail(q)) /\ (Head(q) = "emit" => ~Has(q, "start"))
<1> DEFINE w == Tail(q)
<1>1. /\ Len(q) \in Nat /\ Len(q) >= 1 /\ Len(w) = Len(q) - 1 /\ Head(q) = q[1]
      /\ \A i \in 1..Len(w) : i + 1 \in 1..Len(q) /\ w[i] = q[i + 1] /\ i + 1 # 1
      /\ w \in Seq(Handlers)
  OBVIOUS
<1> HIDE DEF w
<1>2. 1 \in 1..Len(q) /\ Has(q, Head(q))
  BY <1>1 DEF Has
<1>3. \A i \in 1..Len(q) : i = 1 \/ (i - 1 \in 1..Len(w) /\ w[i - 1] = q[i])
  <2> SUFFICES ASSUME NEW i \in 1..Len(q), i # 1 PROVE i - 1 \in 1..Len(w) /\ w[i - 1] = q[i]
    OBVIOUS
  <2>1. i - 1 \in 1..Len(w) /\ (i - 1) + 1 = i
    BY <1>1
  <2>2. QED
    BY <1>1, <2>1
<1>4. \A x : Has(q, x) => x = Head(q) \/ Has(w, x)
  BY <1>1, <1>3 DEF Has
<1>5. \A x : Has(w, x) => Has(q, x)
  BY <1>1 DEF Has
<1>6. HasCode(q) => Head(q) \in Codes \/ HasCode(w)
  BY <1>1, <1>3 DEF HasCode
<1>7. /\ Head(q) \in Codes => HasCode(q)
      /\ HasCode(w) => HasCode(q)
  BY <1>1, <1>2 DEF HasCode
<1>8. ASSUME OneCode(q) PROVE OneCode(w) /\ (Head(q) \in Codes => ~HasCode(w))
  <2>1. ASSUME NEW i \in 1..Len(w), NEW j \in 1..Len(w), w[i] \in Codes, w[j] \in Codes
        PROVE  i = j
    <3>1. i + 1 = j + 1
      BY <1>1, <1>8, <2>1 DEF OneCode
    <3>2. QED
      BY <3>1
  <2>2. ASSUME NEW i \in 1..Len(w), w[i] \in Codes PROVE Head(q) \notin Codes
    BY <1>1, <1>2, <1>8, <2>2 DEF OneCode
  <2>3. QED
    BY <2>1, <2>2 DEF OneCode, HasCode
<1>9. ASSUME Begins(q) PROVE Begins(w) /\ (Head(q) = "emit" => ~Has(q, "start"))
  <2>1. ASSUME NEW i \in 1..Len(w), NEW j \in 1..Len(w), w[i] = "emit", w[j] = "start"
        PROVE  j < i
    <3>1. j + 1 < i + 1
      BY <1>1, <1>9, <2>1 DEF Begins
    <3>2. QED
      BY <3>1
  <2>2. ASSUME NEW j \in 1..Len(q), q[j] = "start" PROVE Head(q) # "emit"
    <3>1. ~(j < 1)
      BY <1>1
    <3>2. QED
      BY <1>1, <1>2, <1>9, <2>2, <3>1 DEF Begins
  <2>3. QED
    BY <2>1, <2>2 DEF Begins, Has
<1>10. ASSUME OneStart(q) PROVE OneStart(w) /\ (Head(q) = "start" => ~Has(w, "start"))
  <2>1. ASSUME NEW i \in 1..Len(w), NEW j \in 1..Len(w), w[i] = "start", w[j] = "start"
        PROVE  i = j
    <3>1. i + 1 = j + 1
      BY <1>1, <1>10, <2>1 DEF OneStart
    <3>2. QED
      BY <3>1
  <2>2. ASSUME NEW i \in 1..Len(w), w[i] = "start" PROVE Head(q) # "start"
    BY <1>1, <1>2, <1>10, <2>2 DEF OneStart
  <2>3. QED
    BY <2>1, <2>2 DEF OneStart, Has
<1>11. QED
  BY <1>1, <1>2, <1>4, <1>5, <1>6, <1>7, <1>8, <1>9, <1>10 DEF w

(* Posting to one session leaves the queue of the other alone.             *)
LEMMA PostedOnly ==
  ASSUME NEW q \in Queues, NEW s \in Sides, NEW h \in Handlers
  PROVE  /\ Post(q, s, h)[s] = Append(q[s], h)
         /\ \A t \in Sides : t # s => Post(q, s, h)[t] = q[t]
BY DEF Post, Queues

LEMMA Posted ==
  ASSUME NEW q \in Queues, NEW s \in Sides, NEW h \in Handlers
  PROVE  /\ Post(q, s, h) \in Queues
         /\ \A x : Has(Post(q, s, h)[s], x) <=> Has(q[s], x) \/ x = h
         /\ HasCode(Post(q, s, h)[s]) <=> HasCode(q[s]) \/ h \in Codes
         /\ OneCode(q[s]) /\ (h \in Codes => ~HasCode(q[s])) => OneCode(Post(q, s, h)[s])
         /\ OneStart(q[s]) /\ (h = "start" => ~Has(q[s], "start"))
              => OneStart(Post(q, s, h)[s])
         /\ Begins(q[s]) /\ (h = "start" => ~Has(q[s], "emit")) => Begins(Post(q, s, h)[s])
<1>1. q[s] \in Seq(Handlers)
  BY DEF Queues
<1>2. Post(q, s, h) \in Queues
  BY PostFacts
<1>3. Post(q, s, h)[s] = Append(q[s], h)
  BY PostedOnly
<1>4. QED
  BY <1>1, <1>2, <1>3, Pushed

(* So does taking one.                                                     *)
LEMMA PoppedOnly ==
  ASSUME strand \in Queues, NEW s \in Sides, strand[s] # <<>>
  PROVE  /\ Popped(s) \in Queues
         /\ Popped(s)[s] = Tail(strand[s])
         /\ \A t \in Sides : t # s => Popped(s)[t] = strand[t]
BY PoppedFacts DEF Popped, Queues

(* What no handler adds to a queue: starts and signals.                    *)
Plain(q, s) ==
  /\ q \in Queues
  /\ \A t \in Sides : \A x \in {"start", "emit"} : Has(q[t], x) => Has(strand[t], x)
  /\ \A t \in Sides : Begins(strand[t]) => Begins(q[t])
  /\ \A t \in Sides : OneStart(strand[t]) => OneStart(q[t])
  /\ \A t \in Sides : \A x :
       Has(strand[t], x) => Has(q[t], x) \/ (t = s /\ x = Head(strand[s]))
  /\ OneStart(strand[s]) /\ Head(strand[s]) = "start" => ~Has(q[s], "start")

LEMMA PlainPopped ==
  ASSUME strand \in Queues, NEW s \in Sides, strand[s] # <<>>
  PROVE  Plain(Popped(s), s)
<1>1. strand[s] \in Seq(Handlers)
  BY DEF Queues
<1>2. QED
  BY <1>1, PoppedOnly, Taken DEF Plain

LEMMA PlainPost ==
  ASSUME NEW s \in Sides, NEW q, Plain(q, s), NEW t \in Sides,
         NEW h \in Handlers \ {"start", "emit"}
  PROVE  Plain(Post(q, t, h), s)
<1>1. q \in Queues /\ h \in Handlers /\ h # "start"
  BY DEF Plain
<1> DEFINE w == Post(q, t, h)
<1>2. /\ w \in Queues
      /\ \A u \in Sides : u # t => w[u] = q[u]
      /\ \A x : Has(w[t], x) <=> Has(q[t], x) \/ x = h
      /\ Begins(q[t]) => Begins(w[t])
      /\ OneStart(q[t]) => OneStart(w[t])
  <2>1. w \in Queues
    BY <1>1, Posted
  <2>2. \A u \in Sides : u # t => w[u] = q[u]
    BY <1>1, PostedOnly
  <2>3. \A x : Has(w[t], x) <=> Has(q[t], x) \/ x = h
    BY <1>1, Posted
  <2>4. Begins(q[t]) => Begins(w[t])
    BY <1>1, Posted
  <2>5. OneStart(q[t]) => OneStart(w[t])
    BY <1>1, Posted
  <2>6. QED
    BY <2>1, <2>2, <2>3, <2>4, <2>5
<1> HIDE DEF w
<1>3. Plain(w, s)
  <2>1. \A u \in Sides : \A x \in {"start", "emit"} : Has(w[u], x) => Has(strand[u], x)
    BY <1>2 DEF Plain
  <2>2. \A u \in Sides : Begins(strand[u]) => Begins(w[u])
    BY <1>2 DEF Plain
  <2>3. \A u \in Sides : OneStart(strand[u]) => OneStart(w[u])
    BY <1>2 DEF Plain
  <2>4. \A u \in Sides : \A x :
          Has(strand[u], x) => Has(w[u], x) \/ (u = s /\ x = Head(strand[s]))
    BY <1>2 DEF Plain
  <2>5. OneStart(strand[s]) /\ Head(strand[s]) = "start" => ~Has(w[s], "start")
    BY <1>1, <1>2 DEF Plain
  <2>6. QED
    BY <1>2, <2>1, <2>2, <2>3, <2>4, <2>5 DEF Plain
<1>4. QED
  BY <1>3 DEF w

(* What the turn of a handler leaves.                                      *)
LEMMA Turned ==
  ASSUME strand \in Queues, NEW s \in Sides, NEW h, Turn(s, h)
  PROVE  /\ strand[s] # <<>> /\ Head(strand[s]) = h /\ Has(strand[s], h)
         /\ Plain(Popped(s), s)
         /\ \A t \in Sides : t # s => Popped(s)[t] = strand[t]
         /\ \A x : Has(Popped(s)[s], x) => Has(strand[s], x)
         /\ h \notin Codes => (HasCode(Popped(s)[s]) <=> HasCode(strand[s]))
         /\ h \in Codes => HasCode(strand[s])
         /\ OneCode(strand[s]) =>
              OneCode(Popped(s)[s]) /\ (h \in Codes => ~HasCode(Popped(s)[s]))
         /\ Begins(strand[s]) => (h = "emit" => ~Has(strand[s], "start"))
<1>1. strand[s] \in Seq(Handlers) /\ strand[s] # <<>> /\ Head(strand[s]) = h
  BY DEF Queues, Turn
<1>2. Popped(s)[s] = Tail(strand[s]) /\ \A t \in Sides : t # s => Popped(s)[t] = strand[t]
  BY <1>1, PoppedOnly
<1>3. Plain(Popped(s), s)
  BY <1>1, PlainPopped
<1>4. QED
  BY <1>1, <1>2, <1>3, Taken

(* A handler keeps what the Proxy has posted until its turn.               *)
LEMMA AwaitedGo ==
  ASSUME GoInv, NEW s \in Sides, Plain(strand', s), UNCHANGED <<proxy, proxyCanceled>>,
         \A t \in Sides : pc[t] # "idle" => pc'[t] # "idle",
         \A t \in Sides : pc[t] = "idle" =>
           pc'[t] = "idle" \/ (t = s /\ Head(strand[s]) = "start" /\ Has(strand[s], "start")),
         pc[2] = "over" => pc'[2] = "over", canceled[2] => canceled'[2],
         Head(strand[s]) = "start" => pc'[s] # "idle",
         Head(strand[s]) = "emit" =>
           s = 1 \/ canceled'[2] \/ pc'[2] = "over" \/ proxy # "awaiting"
  PROVE  Awaited' /\ \A t \in Sides : Starts(t)'
<1>1. \A t \in Sides : Has(strand[t], "start") => Has(strand'[t], "start") \/ pc'[t] # "idle"
  BY DEF Plain
<1>2. proxy = "awaiting" /\ Has(strand[2], "emit") =>
        Has(strand'[2], "emit") \/ canceled'[2] \/ pc'[2] = "over"
  BY SidesFacts DEF Plain
<1>3. Begins(strand'[2]) /\ (Has(strand'[2], "emit") => Has(strand[2], "emit"))
  BY SidesFacts DEF GoInv, Awaited, Plain
<1>4. Awaited'
  BY <1>1, <1>2, <1>3, SidesFacts DEF GoInv, Awaited
<1>5. ASSUME NEW t \in Sides PROVE Starts(t)'
  <2>1. Starts(t) /\ OneStart(strand'[t]) /\ (Has(strand'[t], "start") => Has(strand[t], "start"))
    BY DEF GoInv, Sided, Starts, Plain
  <2>2. NotYet(t)' => NotYet(t)
    BY DEF NotYet, Setup
  <2>3. Has(strand'[t], "start") => pc'[t] = "idle"
    <3>1. CASE t = s /\ Head(strand[s]) = "start"
      BY <2>1, <3>1 DEF Plain, Starts
    <3>2. CASE ~(t = s /\ Head(strand[s]) = "start")
      BY <2>1, <3>2 DEF Starts
    <3>3. QED
      BY <3>1, <3>2
  <2>4. QED
    BY <2>1, <2>2, <2>3 DEF Starts
<1>6. QED
  BY <1>4, <1>5
(* The Proxy posts a start to each session, and then a signal to the one   *)
(* that it awaits (Proxy.cpp:33-50).                                       *)
LEMMA ProxyGo ==
  ASSUME IInv, GoInv,
         ProxyStep \/ ProxyCancel \/ \E r \in {"ok", "error"} : SetupComplete(r)
  PROVE  GoInv'
<1>0. strand \in Queues /\ {"start", "emit"} \subseteq Handlers /\ 1 \in Sides /\ 2 \in Sides
  BY SidesFacts DEF IInv, TypeOK, Queues, Handlers
<1>1. UNCHANGED data /\ proxy # "over"
  BY DEF ProxyStep, SetupComplete, SetupNext, SetupFails, StartFirst, AwaitSecond,
         AwaitSecondThrows, ProxyCancel, ProxyEnd, Setup, data
<1> DEFINE Stays == /\ strand' = strand /\ (proxyCanceled => proxyCanceled')
                    /\ proxy' \in {"first", "awaiting"} =>
                         UNCHANGED <<proxy, proxyCanceled>>
                    /\ proxy = "awaiting" => proxy' \in {"awaiting", "over"}
                    /\ Setup' => Setup
           First == strand' = Post(strand, 1, "start") /\ proxy' = "first"
                      /\ Setup
           Second == /\ strand' = Post(strand, 2, "start")
                     /\ proxy = "first" /\ proxy' = "awaiting"
                     /\ ~proxyCanceled /\ ~proxyCanceled'
           Signaled == /\ strand' = Post(strand, 2, "emit")
                       /\ proxy = "awaiting" /\ proxy' = "awaiting" /\ proxyCanceled'
<1>2. Stays \/ First \/ Second \/ Signaled
  BY DEF ProxyStep, SetupComplete, SetupNext, SetupFails, StartFirst, AwaitSecond,
         AwaitSecondThrows, ProxyCancel, ProxyEnd, Setup
<1>3. PICK u \in Sides, h \in {"start", "emit"} :
        strand' = strand \/ strand' = Post(strand, u, h)
  BY <1>0, <1>2
<1>4. \A t \in Sides :
        /\ HasCode(strand'[t]) <=> HasCode(strand[t])
        /\ OneCode(strand[t]) => OneCode(strand'[t])
        /\ \A x : x \notin {"start", "emit"} => (Has(strand'[t], x) <=> Has(strand[t], x))
        /\ \A x : Has(strand[t], x) => Has(strand'[t], x)
  <2>1. CASE strand' = strand
    BY <2>1
  <2>2. CASE strand' = Post(strand, u, h)
    <3>1. strand \in Queues /\ h \in Handlers /\ h \notin Codes
      BY <1>0 DEF Codes
    <3>2. /\ \A t \in Sides : t # u => strand'[t] = strand[t]
          /\ \A x : Has(strand'[u], x) <=> Has(strand[u], x) \/ x = h
          /\ HasCode(strand'[u]) <=> HasCode(strand[u]) \/ h \in Codes
          /\ OneCode(strand[u]) /\ (h \in Codes => ~HasCode(strand[u])) => OneCode(strand'[u])
      <4>1. \A t \in Sides : t # u => strand'[t] = strand[t]
        BY <2>2, <3>1 DEF Post, Queues
      <4>2. \A x : Has(strand'[u], x) <=> Has(strand[u], x) \/ x = h
        BY <2>2, <3>1, Posted
      <4>3. HasCode(strand'[u]) <=> HasCode(strand[u]) \/ h \in Codes
        BY <1>0, <2>2, <3>1, Posted
      <4>4. OneCode(strand[u]) /\ (h \in Codes => ~HasCode(strand[u])) => OneCode(strand'[u])
        BY <1>0, <2>2, <3>1, Posted
      <4>5. QED
        BY <4>1, <4>2, <4>3, <4>4
    <3>3. QED
      BY <3>1, <3>2
  <2>3. QED
    BY <1>3, <2>1, <2>2
<1>5. ASSUME NEW s \in Sides PROVE Sided(s)'
  <2>1. Other(s) \in Sides /\ Sided(s) /\ ~Gone(Other(s))
    BY <1>1, SidesFacts DEF GoInv, Gone
  <2>2. Waits(s)'
    BY <1>1, <1>4, <2>1 DEF Sided, Waits, Active, data
  <2>3. Spreads(s)'
    BY <1>1, <1>4, <2>1 DEF Sided, Spreads, data
  <2>4. Tells(s)'
    BY <1>1, <1>4, <2>1 DEF Sided, Tells, data
  <2>5. Starts(s)'
    <3>0. Starts(s) /\ UNCHANGED pc
      BY <1>1, <2>1 DEF Sided, data
    <3>1. CASE Stays
      BY <3>0, <3>1 DEF Starts, NotYet, Setup
    <3>2. CASE First
      <4>1. CASE s = 1
        <5>1. NotYet(s) /\ ~NotYet(s)'
          BY <3>2, <4>1 DEF NotYet, Setup
        <5>2. OneStart(strand'[s])
          BY <1>0, <3>0, <3>2, <4>1, <5>1, Posted DEF Starts
        <5>3. QED
          BY <3>0, <5>1, <5>2 DEF Starts
      <4>2. CASE s = 2
        BY <1>0, <3>0, <3>2, <4>2, PostedOnly DEF Starts, NotYet, Setup
      <4>3. QED
        BY <4>1, <4>2 DEF Sides
    <3>3. CASE Second
      <4>1. CASE s = 1
        BY <1>0, <3>0, <3>3, <4>1, PostedOnly DEF Starts, NotYet, Setup
      <4>2. CASE s = 2
        BY <1>0, <3>0, <3>3, <4>2, Posted DEF Starts, NotYet, Setup
      <4>3. QED
        BY <4>1, <4>2 DEF Sides
    <3>4. CASE Signaled
      <4>1. ~NotYet(s)'
        BY <3>4 DEF NotYet, Setup
      <4>2. CASE s = 1
        BY <1>0, <3>0, <3>4, <4>1, <4>2, PostedOnly DEF Starts
      <4>3. CASE s = 2
        BY <1>0, <3>0, <3>4, <4>1, <4>3, Posted DEF Starts
      <4>4. QED
        BY <4>2, <4>3 DEF Sides
    <3>5. QED
      BY <1>2, <3>1, <3>2, <3>3, <3>4
  <2>6. QED
    BY <2>2, <2>3, <2>4, <2>5 DEF Sided
<1>6. Awaited'
  <2>0. Awaited /\ UNCHANGED <<pc, canceled>>
    BY <1>1 DEF GoInv, data
  <2>1. CASE Stays
    <3>1. CASE proxy' \in {"first", "awaiting"}
      BY <2>0, <2>1, <3>1 DEF Awaited
    <3>2. CASE proxy' \notin {"first", "awaiting"}
      BY <1>1, <2>0, <2>1, <3>2 DEF Awaited
    <3>3. QED
      BY <3>1, <3>2
  <2>2. CASE First
    <3>1. Has(strand'[1], "start")
      BY <1>0, <2>2, Posted
    <3>2. strand'[2] = strand[2]
      BY <1>0, <2>2, PostedOnly
    <3>3. ~Has(strand[2], "emit")
      BY <1>1, <2>0, <2>2 DEF Awaited, Setup
    <3>4. QED
      BY <2>0, <2>2, <3>1, <3>2, <3>3 DEF Awaited
  <2>3. CASE Second
    <3>1. ~Has(strand[2], "emit")
      BY <2>0, <2>3 DEF Awaited
    <3>2. strand'[1] = strand[1]
      BY <1>0, <2>3, PostedOnly
    <3>3. Has(strand'[2], "start") /\ ~Has(strand'[2], "emit")
      BY <1>0, <2>3, <3>1, Posted
    <3>4. Begins(strand'[2])
      BY <1>0, <2>0, <2>3, <3>1, Posted DEF Awaited
    <3>5. QED
      BY <2>0, <2>3, <3>2, <3>3, <3>4 DEF Awaited
  <2>4. CASE Signaled
    <3>1. strand'[1] = strand[1]
      BY <1>0, <2>4, PostedOnly
    <3>2. Has(strand'[2], "emit")
      BY <1>0, <2>4, Posted
    <3>3. Begins(strand'[2])
      BY <1>0, <2>0, <2>4, Posted DEF Awaited
    <3>4. QED
      BY <1>0, <1>4, <2>0, <2>4, <3>1, <3>2, <3>3 DEF Awaited
  <2>5. QED
    BY <1>2, <2>1, <2>2, <2>3, <2>4
<1>7. QED
  BY <1>5, <1>6 DEF GoInv

(* A completion is the only one, and the session is there to take it       *)
(* (ProxyDataSession.cpp:83-90).                                           *)
LEMMA CompleteGo ==
  ASSUME IInv, GoInv, NEW s \in Sides, NEW ec \in {"ok", "error"}, Complete(s, ec)
  PROVE  GoInv'
<1> DEFINE o == Other(s)
<1>0. /\ strand \in Queues /\ ec \in Handlers /\ ec \in Codes
      /\ o \in Sides /\ o # s /\ Other(o) = s /\ Other(s) = o /\ \A t \in Sides : t = s \/ t = o
  BY SidesFacts DEF IInv, TypeOK, Queues, Handlers, Codes
<1>1. /\ Active(s) /\ pending[s]
      /\ pending' = [pending EXCEPT ![s] = FALSE]
      /\ broken' = [broken EXCEPT ![o] = @ \/ (ec = "error" /\ pc[s] = "write")]
      /\ strand' = Post(strand, s, ec)
      /\ UNCHANGED <<proxy, proxyCanceled, task, canceled, pc, m_otherDone>>
  BY DEF Complete
<1>2. /\ pending'[s] = FALSE /\ pending'[o] = pending[o]
      /\ broken'[s] = broken[s] /\ broken[o] => broken'[o]
      /\ ec = "error" /\ pc[s] = "write" => broken'[o]
  BY <1>0, <1>1 DEF IInv, TypeOK
<1>3. Sided(s) /\ Sided(o) /\ Awaited /\ ~HasCode(strand[s])
  BY <1>0, <1>1 DEF GoInv, Sided, Waits
<1> HIDE DEF o
<1>4. /\ strand'[o] = strand[o]
      /\ \A x : Has(strand'[s], x) <=> Has(strand[s], x) \/ x = ec
      /\ HasCode(strand'[s]) /\ OneCode(strand'[s])
      /\ Begins(strand[s]) => Begins(strand'[s])
      /\ OneStart(strand[s]) => OneStart(strand'[s])
  <2>1. OneCode(strand[s])
    BY <1>3 DEF Sided, Waits
  <2>2. strand'[o] = strand[o]
    BY <1>0, <1>1, PostedOnly
  <2>6. OneStart(strand[s]) => OneStart(strand'[s])
    <3>1. ec # "start"
      OBVIOUS
    <3>2. QED
      BY <1>0, <1>1, <3>1, Posted
  <2>5. \A x : Has(strand'[s], x) <=> Has(strand[s], x) \/ x = ec
    BY <1>0, <1>1, Posted
  <2>3. HasCode(strand'[s]) /\ OneCode(strand'[s])
    BY <1>0, <1>1, <1>3, <2>1, Posted
  <2>4. Begins(strand[s]) => Begins(strand'[s])
    <3>1. ec # "start"
      OBVIOUS
    <3>2. QED
      BY <1>0, <1>1, <3>1, Posted
  <2>7. QED
    BY <2>2, <2>3, <2>4, <2>5, <2>6
<1>5. Waits(s)' /\ Waits(o)'
  BY <1>0, <1>1, <1>2, <1>3, <1>4 DEF Sided, Waits, Active
<1>6. Spreads(s)' /\ Spreads(o)'
  <2>1. ~Gone(s)
    BY <1>1 DEF Gone
  <2>2. Gone(o) => Gone(o)'
    BY <1>0, <1>1, <1>4 DEF Gone, Active, Working
  <2>3. QED
    BY <1>0, <1>1, <1>3, <1>4, <2>1, <2>2 DEF Sided, Spreads
<1>7. Tells(s)' /\ Tells(o)'
  BY <1>0, <1>1, <1>2, <1>3, <1>4 DEF Sided, Tells
<1>8. Awaited'
  BY <1>0, <1>1, <1>3, <1>4, SidesFacts DEF Awaited
<1>9. Starts(s)' /\ Starts(o)'
  BY <1>0, <1>1, <1>3, <1>4 DEF Sided, Starts, NotYet, Setup
<1>10. QED
  BY <1>0, <1>5, <1>6, <1>7, <1>8, <1>9 DEF GoInv, Sided

(* A signal ends the wait of a session that waits, and stays with it       *)
(* (CoroutineTask.hpp:34-52).                                              *)
LEMMA SignalGo ==
  ASSUME TypeOK, NEW s \in Sides, Waits(s), NEW q, Plain(q, s), Signal(s, q),
         HasCode(q[s]) <=> HasCode(strand[s]), OneCode(q[s]),
         pc' = pc, task'[s] \in {task[s], "STOPPED"}
  PROVE  /\ Waits(s)' /\ Plain(strand', s)
         /\ Active(s) => canceled'[s]
         /\ \A t \in Sides : /\ canceled[t] => canceled'[t]
                             /\ t # s => /\ pending'[t] = pending[t]
                                         /\ canceled'[t] = canceled[t]
                                         /\ strand'[t] = q[t]
         /\ \A x : x # "canceled" => (Has(strand'[s], x) <=> Has(q[s], x))
<1>0. q \in Queues /\ "canceled" \in Handlers \ {"start", "emit"} /\ "canceled" \in Codes
  BY DEF Plain, Handlers, Codes
<1>1. CASE ~Active(s)
  <2>1. strand' = q /\ UNCHANGED <<canceled, pending>>
    BY <1>1 DEF Signal
  <2>2. Waits(s)'
    BY <1>1, <2>1 DEF Waits, Active
  <2>3. QED
    BY <1>1, <2>1, <2>2
<1>2. CASE Active(s)
  <2>1. /\ canceled' = [canceled EXCEPT ![s] = TRUE]
        /\ pending' = [pending EXCEPT ![s] = FALSE]
        /\ strand' = IF pending[s] THEN Post(q, s, "canceled") ELSE q
    BY <1>2 DEF Signal
  <2>2. /\ canceled'[s] /\ ~pending'[s]
        /\ \A t \in Sides : t # s => pending'[t] = pending[t] /\ canceled'[t] = canceled[t]
    BY <2>1 DEF TypeOK
  <2>3. CASE pending[s]
    <3>1. strand' = Post(q, s, "canceled") /\ ~HasCode(q[s])
      BY <2>1, <2>3 DEF Waits
    <3>2. HasCode(strand'[s]) /\ OneCode(strand'[s])
      BY <1>0, <3>1, Posted
    <3>3. \A t \in Sides : t # s => strand'[t] = q[t]
      BY <1>0, <3>1, PostedOnly
    <3>4. \A x : x # "canceled" => (Has(strand'[s], x) <=> Has(q[s], x))
      BY <1>0, <3>1, Posted
    <3>5. Plain(strand', s)
      BY <1>0, <3>1, PlainPost
    <3>6. Waits(s)'
      BY <1>2, <2>2, <3>2 DEF Waits, Active
    <3>7. QED
      BY <2>2, <3>3, <3>4, <3>5, <3>6
  <2>4. CASE ~pending[s]
    <3>1. strand' = q /\ HasCode(q[s])
      BY <1>2, <2>1, <2>4 DEF Waits
    <3>2. Waits(s)'
      BY <1>2, <2>2, <3>1 DEF Waits, Active
    <3>3. QED
      BY <2>2, <3>1, <3>2
  <2>5. QED
    BY <2>3, <2>4
<1>3. QED
  BY <1>1, <1>2

(* The session whose turn it is, and the other one.                        *)
LEMMA TurnGo ==
  ASSUME IInv, GoInv, NEW s \in Sides, NEW h, Turn(s, h)
  PROVE  /\ strand \in Queues /\ TypeOK
         /\ Other(s) \in Sides /\ Other(s) # s /\ Other(Other(s)) = s
         /\ \A t \in Sides : t = s \/ t = Other(s)
         /\ Sided(s) /\ Sided(Other(s)) /\ ~Gone(s)
         /\ Plain(Popped(s), s) /\ Head(strand[s]) = h /\ Has(strand[s], h)
         /\ Popped(s)[Other(s)] = strand[Other(s)]
         /\ h \notin Codes => (HasCode(Popped(s)[s]) <=> HasCode(strand[s]))
         /\ OneCode(Popped(s)[s])
         /\ h \in Codes => Active(s) /\ ~pending[s] /\ ~HasCode(Popped(s)[s])
         /\ \A x : Has(Popped(s)[s], x) => Has(strand[s], x)
         /\ \A x : x # h => (Has(Popped(s)[s], x) <=> Has(strand[s], x))
<1>1. strand \in Queues /\ TypeOK
  BY DEF IInv, TypeOK, Queues
<1>2. Other(s) \in Sides /\ Other(s) # s /\ Other(Other(s)) = s /\ \A t \in Sides : t = s \/ t = Other(s)
  BY SidesFacts
<1>3. Sided(s) /\ Sided(Other(s))
  BY <1>2 DEF GoInv
<1>4. /\ Plain(Popped(s), s) /\ Head(strand[s]) = h /\ Has(strand[s], h) /\ strand[s] # <<>>
      /\ \A t \in Sides : t # s => Popped(s)[t] = strand[t]
      /\ h \notin Codes => (HasCode(Popped(s)[s]) <=> HasCode(strand[s]))
      /\ h \in Codes => HasCode(strand[s])
      /\ OneCode(strand[s]) =>
           OneCode(Popped(s)[s]) /\ (h \in Codes => ~HasCode(Popped(s)[s]))
      /\ \A x : Has(Popped(s)[s], x) => Has(strand[s], x)
  BY <1>1, Turned
<1>5. \A x : x # h => (Has(Popped(s)[s], x) <=> Has(strand[s], x))
  BY <1>4 DEF Plain
<1>6. ~Gone(s)
  BY <1>4 DEF Gone
<1>7. OneCode(strand[s]) /\ (HasCode(strand[s]) => Active(s) /\ ~pending[s])
  BY <1>3 DEF Sided, Waits
<1>8. QED
  BY <1>1, <1>2, <1>3, <1>4, <1>5, <1>6, <1>7

(* Both sides are kept.                                                    *)
LEMMA BothGo ==
  ASSUME NEW s \in Sides, Awaited', \A t \in Sides : Starts(t)',
         Waits(s)', Waits(Other(s))', Spreads(s)', Spreads(Other(s))',
         Tells(s)', Tells(Other(s))'
  PROVE  GoInv'
<1>1. \A t \in Sides : t = s \/ t = Other(s)
  BY SidesFacts
<1>2. QED
  BY <1>1 DEF GoInv, Sided

(* A handler that does nothing but take itself, or that tells a session    *)
(* that the other one has ended writing.                                   *)
LEMMA PopGo ==
  ASSUME IInv, GoInv, NEW s \in Sides, NEW h \in {"close", "doneWRITE"}, Turn(s, h),
         strand' = Popped(s),
         UNCHANGED <<proxy, proxyCanceled, task, canceled, pc, pending, broken>>,
         m_otherDone'[Other(s)] = m_otherDone[Other(s)],
         h = "close" => m_otherDone'[s] = m_otherDone[s]
  PROVE  GoInv'
<1> DEFINE o == Other(s)
<1>1. /\ o \in Sides /\ o # s /\ Other(o) = s
      /\ Sided(s) /\ Sided(o) /\ ~Gone(s)
      /\ Plain(strand', s) /\ Head(strand[s]) = h /\ Has(strand[s], h)
      /\ strand'[o] = strand[o] /\ OneCode(strand'[s])
      /\ HasCode(strand'[s]) <=> HasCode(strand[s])
      /\ \A x : Has(strand'[s], x) => Has(strand[s], x)
      /\ \A x : x # h => (Has(strand'[s], x) <=> Has(strand[s], x))
  <2>1. h \notin Codes
    BY DEF Codes
  <2>2. QED
    BY <2>1, TurnGo
<1>2. Awaited' /\ \A t \in Sides : Starts(t)'
  BY <1>1, AwaitedGo
<1>3. Waits(s)' /\ Waits(o)'
  BY <1>1 DEF Sided, Waits, Active
<1>4. Spreads(s)' /\ Spreads(o)'
  <2>1. Gone(o) => Gone(o)'
    BY <1>1 DEF Gone, Active, Working
  <2>2. QED
    BY <1>1, <2>1 DEF Sided, Spreads
<1>5. Tells(s)' /\ Tells(o)'
  BY <1>1 DEF Sided, Tells
<1>6. QED
  BY <1>2, <1>3, <1>4, <1>5, BothGo

(* A task that has run is not started again (CoroutineTask.hpp:75-77).     *)
LEMMA CoStartGo ==
  ASSUME IInv, GoInv, NEW s \in Sides, CoStart(s)
  PROVE  GoInv'
<1> DEFINE o == Other(s)
<1>1. /\ Turn(s, "start") /\ strand' = Popped(s)
      /\ UNCHANGED <<proxy, proxyCanceled, canceled, m_otherDone, broken>>
  BY DEF CoStart
<1>2. /\ o \in Sides /\ o # s /\ Other(o) = s /\ TypeOK
      /\ Sided(s) /\ Sided(o) /\ ~Gone(s)
      /\ Plain(strand', s) /\ Head(strand[s]) = "start" /\ Has(strand[s], "start")
      /\ strand'[o] = strand[o] /\ OneCode(strand'[s])
      /\ HasCode(strand'[s]) <=> HasCode(strand[s])
      /\ \A x : Has(strand'[s], x) => Has(strand[s], x)
      /\ \A x : x # "start" => (Has(strand'[s], x) <=> Has(strand[s], x))
  <2>1. "start" \notin Codes
    BY DEF Codes
  <2>2. QED
    BY <1>1, <2>1, TurnGo
<1>3. pc[s] = "idle" /\ ~canceled[s] /\ ~HasCode(strand[s])
  BY <1>2 DEF Sided, Starts, Waits, Active
<1>4. /\ pc'[o] = pc[o] /\ task'[o] = task[o] /\ pending'[o] = pending[o]
      /\ \/ pc'[s] = "start" /\ task'[s] = "RUNNING" /\ pending'[s] /\ task[s] # "STOPPED"
         \/ pc'[s] = "over" /\ task'[s] = task[s]
  BY <1>2 DEF CoStart, TypeOK
<1>5. \A t \in Sides : t = s \/ t = o
  BY SidesFacts
<1>6. Awaited' /\ \A t \in Sides : Starts(t)'
  <2>1. /\ \A t \in Sides : pc[t] # "idle" => pc'[t] # "idle"
        /\ \A t \in Sides : pc[t] = "idle" => pc'[t] = "idle" \/ t = s
        /\ pc[2] = "over" => pc'[2] = "over"
        /\ pc'[s] # "idle"
    BY <1>3, <1>4, <1>5, SidesFacts
  <2>2. QED
    BY <1>1, <1>2, <2>1, AwaitedGo
<1>7. Waits(s)' /\ Waits(o)'
  BY <1>1, <1>2, <1>3, <1>4 DEF Sided, Waits, Active
<1>8. Spreads(s)' /\ Spreads(o)'
  <2>1. Gone(o) => Gone(o)'
    BY <1>1, <1>2, <1>4 DEF Gone, Active, Working
  <2>2. QED
    BY <1>2, <1>4, <2>1 DEF Sided, Spreads
<1>9. Tells(s)' /\ Tells(o)'
  BY <1>1, <1>2, <1>4 DEF Sided, Tells
<1>10. QED
  BY <1>6, <1>7, <1>8, <1>9, BothGo

(* A stop reaches the coroutine and goes on to the other session           *)
(* (ProxyDataSession.cpp:29-38).                                           *)
LEMMA StopGo ==
  ASSUME IInv, GoInv, NEW s \in Sides, NEW h \in {"stop", "doneREAD"}, Turn(s, h),
         StopInline(s, Popped(s)),
         UNCHANGED <<proxy, proxyCanceled, pc, broken>>,
         m_otherDone'[Other(s)] = m_otherDone[Other(s)]
  PROVE  GoInv'
<1> DEFINE o == Other(s)
           p == Popped(s)
           q == OnStop(s, p)
<1>1. /\ o \in Sides /\ o # s /\ Other(o) = s /\ TypeOK
      /\ Sided(s) /\ Sided(o) /\ ~Gone(s)
      /\ Plain(p, s) /\ Head(strand[s]) = h
      /\ p[o] = strand[o] /\ OneCode(p[s])
      /\ HasCode(p[s]) <=> HasCode(strand[s])
      /\ \A x : Has(p[s], x) => Has(strand[s], x)
  <2>1. h \notin Codes
    BY DEF Codes
  <2>2. QED
    BY <2>1, TurnGo
<1> HIDE DEF p
<1>2. CASE task[s] = "STOPPED"
  <2>1. strand' = p /\ UNCHANGED <<task, canceled, pending>>
    BY <1>2 DEF StopInline, p
  <2>2. Awaited' /\ \A t \in Sides : Starts(t)'
    BY <1>1, <2>1, AwaitedGo
  <2>3. Waits(s)' /\ Waits(o)'
    BY <1>1, <2>1 DEF Sided, Waits, Active
  <2>4. Spreads(s)' /\ Spreads(o)'
    <3>1. Gone(o) => Gone(o)'
      BY <1>1, <2>1 DEF Gone, Active, Working
    <3>2. QED
      BY <1>1, <1>2, <2>1, <3>1 DEF Sided, Spreads
  <2>5. Tells(s)' /\ Tells(o)'
    BY <1>1, <1>2, <2>1 DEF Sided, Tells
  <2>6. QED
    BY <2>2, <2>3, <2>4, <2>5, BothGo
<1>3. CASE task[s] # "STOPPED"
  <2>1. task' = [task EXCEPT ![s] = "STOPPED"] /\ Signal(s, q)
    BY <1>3 DEF StopInline, p
  <2>2. task'[s] = "STOPPED" /\ task'[o] = task[o]
    BY <1>1, <2>1 DEF TypeOK
  <2>3. /\ Plain(q, s) /\ q[s] = p[s]
        /\ HasCode(q[o]) <=> HasCode(strand[o])
        /\ OneCode(strand[o]) => OneCode(q[o])
        /\ \A x : x # "stop" => (Has(q[o], x) <=> Has(strand[o], x))
        /\ IF Gone(o) THEN q[o] = strand[o] ELSE Has(q[o], "stop")
    <3>1. CASE Gone(o)
      <4>1. q = p
        BY <3>1 DEF OnStop
      <4>2. QED
        BY <1>1, <3>1, <4>1
    <3>2. CASE ~Gone(o)
      <4>0. /\ "stop" \in Handlers /\ "stop" \in Handlers \ {"start", "emit"}
            /\ "stop" \notin Codes /\ p \in Queues
        BY <1>1 DEF Handlers, Codes, Plain
      <4>1. q = Post(p, o, "stop")
        BY <3>2 DEF OnStop
      <4>2. q[s] = p[s]
        BY <1>1, <4>0, <4>1, PostedOnly
      <4>3. Plain(q, s)
        BY <1>1, <4>0, <4>1, PlainPost
      <4>4. HasCode(q[o]) <=> HasCode(strand[o])
        BY <1>1, <4>0, <4>1, Posted
      <4>5. OneCode(strand[o]) => OneCode(q[o])
        BY <1>1, <4>0, <4>1, Posted
      <4>6. \A x : Has(q[o], x) <=> Has(strand[o], x) \/ x = "stop"
        BY <1>1, <4>0, <4>1, Posted
      <4>7. QED
        BY <3>2, <4>2, <4>3, <4>4, <4>5, <4>6
    <3>3. QED
      BY <3>1, <3>2
  <2> HIDE DEF q
  <2>4. /\ Waits(s)' /\ Plain(strand', s)
        /\ \A t \in Sides : canceled[t] => canceled'[t]
        /\ pending'[o] = pending[o] /\ canceled'[o] = canceled[o] /\ strand'[o] = q[o]
        /\ \A x : x # "canceled" => (Has(strand'[s], x) <=> Has(q[s], x))
    <3>1. Waits(s) /\ (HasCode(q[s]) <=> HasCode(strand[s])) /\ OneCode(q[s])
      BY <1>1, <2>3 DEF Sided
    <3>2. QED
      BY <1>1, <2>1, <2>2, <2>3, <3>1, SignalGo
  <2>5. Awaited' /\ \A t \in Sides : Starts(t)'
    BY <1>1, <2>4, SidesFacts, AwaitedGo
  <2>6. Waits(o)'
    BY <1>1, <2>2, <2>3, <2>4 DEF Sided, Waits, Active
  <2>7. Spreads(s)' /\ Spreads(o)'
    <3>1. Gone(o) => Gone(o)'
      BY <1>1, <2>3, <2>4 DEF Gone, Active, Working
    <3>2. QED
      BY <1>1, <2>2, <2>3, <2>4, <3>1 DEF Spreads
  <2>8. Tells(s)' /\ Tells(o)'
    BY <1>1, <2>2, <2>3, <2>4 DEF Sided, Tells
  <2>9. QED
    BY <2>4, <2>5, <2>6, <2>7, <2>8, BothGo
<1>4. QED
  BY <1>2, <1>3

(* The Proxy's cancellation finds session 2 begun (Proxy.cpp:50).          *)
LEMMA EmitGo ==
  ASSUME IInv, GoInv, NEW s \in Sides, Emit(s)
  PROVE  GoInv'
<1> DEFINE o == Other(s)
           p == Popped(s)
<1>1. /\ Turn(s, "emit") /\ Signal(s, p)
      /\ UNCHANGED <<proxy, proxyCanceled, task, pc, m_otherDone, broken>>
  BY DEF Emit
<1>2. /\ o \in Sides /\ o # s /\ Other(o) = s /\ TypeOK
      /\ Sided(s) /\ Sided(o) /\ ~Gone(s)
      /\ Plain(p, s) /\ Head(strand[s]) = "emit" /\ Has(strand[s], "emit")
      /\ p[o] = strand[o] /\ OneCode(p[s])
      /\ HasCode(p[s]) <=> HasCode(strand[s])
      /\ \A x : Has(p[s], x) => Has(strand[s], x)
      /\ \A x : x # "emit" => (Has(p[s], x) <=> Has(strand[s], x))
  <2>1. "emit" \notin Codes
    BY DEF Codes
  <2>2. QED
    BY <1>1, <2>1, TurnGo
<1>3. s = 2 => ~Has(strand[s], "start")
  BY <1>1, <1>2, Turned DEF IInv, TypeOK, Queues, GoInv, Awaited
<1> HIDE DEF p
<1>4. /\ Waits(s)' /\ Plain(strand', s)
      /\ Active(s) => canceled'[s]
      /\ \A t \in Sides : canceled[t] => canceled'[t]
      /\ pending'[o] = pending[o] /\ canceled'[o] = canceled[o] /\ strand'[o] = p[o]
      /\ \A x : x # "canceled" => (Has(strand'[s], x) <=> Has(p[s], x))
  <2>1. Waits(s)
    BY <1>2 DEF Sided
  <2>2. QED
    BY <1>1, <1>2, <2>1, SignalGo
<1>5. s = 1 \/ canceled'[2] \/ pc'[2] = "over" \/ proxy # "awaiting"
  <2>1. s = 2 /\ proxy = "awaiting" => pc[2] # "idle"
    BY <1>3 DEF GoInv, Awaited
  <2>2. pc[s] \in {"idle", "over"} \/ Active(s)
    BY <1>2 DEF TypeOK, Active
  <2>3. QED
    BY <1>1, <1>4, <2>1, <2>2 DEF Sides
<1>6. Awaited' /\ \A t \in Sides : Starts(t)'
  BY <1>1, <1>2, <1>4, <1>5, SidesFacts, AwaitedGo
<1>7. Waits(o)'
  BY <1>1, <1>2, <1>4 DEF Sided, Waits, Active
<1>8. Spreads(s)' /\ Spreads(o)'
  <2>1. Gone(o) => Gone(o)'
    BY <1>1, <1>2, <1>4 DEF Gone, Active, Working
  <2>2. QED
    BY <1>1, <1>2, <1>4, <2>1 DEF Sided, Spreads
<1>9. Tells(s)' /\ Tells(o)'
  BY <1>1, <1>2, <1>4 DEF Sided, Tells
<1>10. QED
  BY <1>4, <1>6, <1>7, <1>8, <1>9, BothGo

(* A session that is not canceled goes on (ProxyDataSession.cpp:83-90).    *)
LEMMA AwaitGo ==
  ASSUME IInv, GoInv, NEW s \in Sides, NEW h \in Codes, Turn(s, h),
         NEW op \in {"read", "write"}, Await(s, op), ~canceled[s],
         UNCHANGED <<proxy, proxyCanceled, canceled, m_otherDone, broken>>
  PROVE  GoInv'
<1> DEFINE o == Other(s)
<1>1. /\ o \in Sides /\ o # s /\ Other(o) = s /\ TypeOK
      /\ Sided(s) /\ Sided(o) /\ ~Gone(s)
      /\ Plain(Popped(s), s) /\ Head(strand[s]) = h
      /\ Popped(s)[o] = strand[o] /\ OneCode(Popped(s)[s])
      /\ Active(s) /\ ~HasCode(Popped(s)[s])
      /\ \A x : Has(Popped(s)[s], x) => Has(strand[s], x)
      /\ \A x : x # h => (Has(Popped(s)[s], x) <=> Has(strand[s], x))
  BY TurnGo
<1>2. /\ strand' = Popped(s) /\ task' = task
      /\ pc'[s] = op /\ pending'[s] /\ pc'[o] = pc[o] /\ pending'[o] = pending[o]
  BY <1>1 DEF Await, TypeOK
<1>3. task[s] = "RUNNING" /\ pc[s] \notin {"idle", "over"}
  BY <1>1 DEF Sided, Waits, Active
<1>4. \A t \in Sides : t = s \/ t = o
  BY SidesFacts
<1>5. Awaited' /\ \A t \in Sides : Starts(t)'
  <2>1. /\ \A t \in Sides : pc[t] # "idle" <=> pc'[t] # "idle"
        /\ pc[2] = "over" => pc'[2] = "over"
    BY <1>2, <1>3, <1>4, SidesFacts
  <2>2. Head(strand[s]) \notin {"start", "emit"}
    BY <1>1 DEF Codes
  <2>3. QED
    BY <1>1, <1>2, <2>1, <2>2, AwaitedGo
<1>6. ~Has(strand'[s], "error")
  <2>1. Has(Popped(s)[s], "error") => HasCode(Popped(s)[s])
    BY DEF Has, HasCode, Codes
  <2>2. QED
    BY <1>1, <1>2, <2>1
<1>7. Waits(s)' /\ Waits(o)'
  BY <1>1, <1>2, <1>3 DEF Sided, Waits, Active
<1>8. Spreads(s)' /\ Spreads(o)'
  <2>1. "stop" # h
    BY DEF Codes
  <2>2. QED
    BY <1>1, <1>2, <1>3, <2>1 DEF Sided, Spreads
<1>9. Tells(s)' /\ Tells(o)'
  BY <1>1, <1>2, <1>6 DEF Sided, Tells
<1>10. QED
  BY <1>5, <1>7, <1>8, <1>9, BothGo

(* What a session that ends leaves on the strands besides a stop: a close, *)
(* or the notice of how it ended (ProxyDataSession.cpp:58-81).             *)
Last(q, s) ==
  /\ Plain(q, s)
  /\ q[s] = Popped(s)[s]
  /\ HasCode(q[Other(s)]) <=> HasCode(strand[Other(s)])
  /\ OneCode(strand[Other(s)]) => OneCode(q[Other(s)])
  /\ \A x \in Codes \cup {"stop"} : Has(q[Other(s)], x) <=> Has(strand[Other(s)], x)
  /\ Gone(Other(s)) => q[Other(s)] = strand[Other(s)]

LEMMA LastPopped ==
  ASSUME IInv, GoInv, NEW s \in Sides, NEW h, Turn(s, h)
  PROVE  Last(Popped(s), s) /\ Popped(s)[Other(s)] = strand[Other(s)]
<1>1. /\ Plain(Popped(s), s)
      /\ Popped(s)[Other(s)] = strand[Other(s)]
  BY TurnGo
<1>2. QED
  BY <1>1 DEF Last

LEMMA LastPost ==
  ASSUME IInv, GoInv, NEW s \in Sides, NEW h, Turn(s, h), ~Gone(Other(s)),
         NEW g \in {"close", "doneREAD", "doneWRITE"}
  PROVE  /\ Last(Post(Popped(s), Other(s), g), s)
         /\ Has(Post(Popped(s), Other(s), g)[Other(s)], "doneWRITE") =>
              Has(strand[Other(s)], "doneWRITE") \/ g = "doneWRITE"
<1> DEFINE o == Other(s)
           p == Popped(s)
           q == Post(p, o, g)
<1>1. o \in Sides /\ o # s /\ Other(o) = s /\ Plain(p, s) /\ p[o] = strand[o]
  BY TurnGo
<1>2. /\ p \in Queues /\ g \in Handlers /\ g \in Handlers \ {"start", "emit"}
      /\ g \notin Codes
  BY <1>1 DEF Plain, Handlers, Codes
<1>3. ~Gone(o)
  OBVIOUS
<1>4. q[s] = p[s]
  BY <1>1, <1>2, PostedOnly
<1>5. Plain(q, s)
  BY <1>1, <1>2, PlainPost
<1>6. \A x : Has(q[o], x) <=> Has(strand[o], x) \/ x = g
  BY <1>1, <1>2, Posted
<1>7. HasCode(q[o]) <=> HasCode(strand[o])
  BY <1>1, <1>2, Posted
<1>8. OneCode(strand[o]) => OneCode(q[o])
  BY <1>1, <1>2, Posted
<1>9. g # "stop"
  OBVIOUS
<1> HIDE DEF q
<1>10. \A x \in Codes \cup {"stop"} : Has(q[o], x) <=> Has(strand[o], x)
  BY <1>2, <1>6, <1>9
<1>11. Last(q, s) /\ (Has(q[o], "doneWRITE") => Has(strand[o], "doneWRITE") \/ g = "doneWRITE")
  BY <1>3, <1>4, <1>5, <1>6, <1>7, <1>8, <1>10 DEF Last
<1>12. QED
  BY <1>11 DEF q

(* The end of run(), which is a stop if it was canceled                    *)
(* (CoroutineTask.hpp:105-133).                                            *)
LEMMA EndGo ==
  ASSUME IInv, GoInv, NEW s \in Sides, NEW h \in Codes, Turn(s, h),
         NEW ec, NEW q, Last(q, s), End(s, ec, q),
         UNCHANGED <<proxy, proxyCanceled, canceled, pending, m_otherDone, broken>>,
         Has(q[Other(s)], "doneWRITE") =>
           Has(strand[Other(s)], "doneWRITE") \/ broken[Other(s)] \/ task'[s] = "STOPPED"
  PROVE  GoInv'
<1> DEFINE o == Other(s)
<1>1. /\ o \in Sides /\ o # s /\ Other(o) = s /\ Other(s) = o /\ TypeOK
      /\ Sided(s) /\ Sided(o) /\ ~Gone(s)
      /\ Head(strand[s]) = h
      /\ OneCode(Popped(s)[s])
      /\ Active(s) /\ ~HasCode(Popped(s)[s])
      /\ \A x : Has(Popped(s)[s], x) => Has(strand[s], x)
      /\ \A x : x # h => (Has(Popped(s)[s], x) <=> Has(strand[s], x))
  BY TurnGo
<1>2. /\ Plain(q, s) /\ q[s] = Popped(s)[s]
      /\ HasCode(q[o]) <=> HasCode(strand[o])
      /\ OneCode(strand[o]) => OneCode(q[o])
      /\ \A x \in Codes \cup {"stop"} : Has(q[o], x) <=> Has(strand[o], x)
      /\ Gone(o) => q[o] = strand[o]
  BY DEF Last
<1>3. h \notin {"start", "emit", "stop", "doneWRITE"} /\ pc[s] \notin {"idle", "over"}
  BY <1>1 DEF Codes, Active
<1>4. /\ pc'[s] = "over" /\ pc'[o] = pc[o] /\ task'[o] = task[o]
      /\ \/ strand' = q /\ (task'[s] = "STOPPED" <=> task[s] = "STOPPED")
         \/ strand' = OnStop(s, q) /\ task'[s] = "STOPPED" /\ task[s] # "STOPPED"
  BY <1>1 DEF End, TypeOK
<1>5. \A t \in Sides : t = s \/ t = o
  BY SidesFacts
<1> HIDE DEF o
<1>6. /\ Plain(strand', s)
      /\ strand'[s] = Popped(s)[s]
      /\ HasCode(strand'[o]) <=> HasCode(strand[o])
      /\ OneCode(strand[o]) => OneCode(strand'[o])
      /\ \A x \in Codes : Has(strand'[o], x) <=> Has(strand[o], x)
      /\ Has(strand[o], "stop") => Has(strand'[o], "stop")
      /\ Has(strand'[o], "doneWRITE") <=> Has(q[o], "doneWRITE")
      /\ Gone(o) => strand'[o] = strand[o]
      /\ task'[s] = "STOPPED" /\ task[s] # "STOPPED" => Gone(o) \/ Has(strand'[o], "stop")
  <2>1. CASE strand' = q /\ (task'[s] = "STOPPED" <=> task[s] = "STOPPED")
    BY <1>2, <2>1
  <2>2. CASE strand' = OnStop(s, q) /\ Gone(o)
    <3>1. strand' = q
      BY <1>1, <2>2 DEF OnStop
    <3>2. QED
      BY <1>2, <2>2, <3>1
  <2>3. CASE strand' = OnStop(s, q) /\ ~Gone(o)
    <3>1. strand' = Post(q, o, "stop")
      BY <1>1, <2>3 DEF OnStop
    <3>2. /\ q \in Queues /\ "stop" \in Handlers /\ "stop" \in Handlers \ {"start", "emit"}
          /\ "stop" \notin Codes
      BY <1>2 DEF Plain, Handlers, Codes
    <3>3. Plain(strand', s)
      BY <1>1, <1>2, <3>1, <3>2, PlainPost
    <3>4. strand'[s] = q[s]
      BY <1>1, <3>1, <3>2, PostedOnly
    <3>5. \A x : Has(strand'[o], x) <=> Has(q[o], x) \/ x = "stop"
      BY <1>1, <3>1, <3>2, Posted
    <3>6. HasCode(strand'[o]) <=> HasCode(q[o])
      BY <1>1, <3>1, <3>2, Posted
    <3>7. OneCode(q[o]) => OneCode(strand'[o])
      BY <1>1, <3>1, <3>2, Posted
    <3>8. QED
      BY <1>2, <2>3, <3>2, <3>3, <3>4, <3>5, <3>6, <3>7
  <2>4. QED
    BY <1>4, <2>1, <2>2, <2>3
<1>7. Awaited' /\ \A t \in Sides : Starts(t)'
  <2>1. /\ \A t \in Sides : pc[t] # "idle" <=> pc'[t] # "idle"
        /\ pc[2] = "over" => pc'[2] = "over"
    BY <1>3, <1>4, <1>5, SidesFacts
  <2>2. QED
    BY <1>1, <1>3, <1>6, <2>1, AwaitedGo
<1>8. Waits(s)' /\ Waits(o)'
  <2>1. Waits(s)'
    BY <1>1, <1>4, <1>6 DEF Waits, Active
  <2>2. Waits(o)'
    BY <1>1, <1>4, <1>6 DEF Sided, Waits, Active
  <2>3. QED
    BY <2>1, <2>2
<1>9. Spreads(s)' /\ Spreads(o)'
  <2>1. Gone(o) => Gone(o)'
    BY <1>1, <1>4, <1>6 DEF Gone, Active, Working
  <2>2. Spreads(s)'
    BY <1>1, <1>4, <1>6, <2>1 DEF Sided, Spreads
  <2>3. Spreads(o)'
    BY <1>1, <1>3, <1>4, <1>6 DEF Sided, Spreads
  <2>4. QED
    BY <2>2, <2>3
<1>10. Tells(s)' /\ Tells(o)'
  <2>1. Tells(s)'
    BY <1>1, <1>4, <1>6 DEF Sided, Tells
  <2>2. "error" \in Codes
    BY DEF Codes
  <2>3. Tells(o)'
    BY <1>1, <1>4, <1>6, <2>2 DEF Sided, Tells
  <2>4. QED
    BY <2>1, <2>3
<1>11. QED
  BY <1>1, <1>7, <1>8, <1>9, <1>10, BothGo

(* work() ends; one that ends writing and was not stopped has just seen    *)
(* its write fail (ProxyDataSession.cpp:58-93).                            *)
LEMMA LeaveGo ==
  ASSUME IInv, GoInv, NEW s \in Sides, NEW h \in Codes, Turn(s, h), ~Gone(Other(s)),
         NEW ec, NEW lastState, Leave(s, ec, lastState),
         UNCHANGED <<proxy, proxyCanceled, canceled, m_otherDone, broken>>,
         m_otherDone[s] \/ lastState = "READ" \/ ec = "canceled"
           \/ task[s] = "STOPPED" \/ broken[Other(s)]
  PROVE  GoInv'
<1>1. PICK g \in {"close", "doneREAD", "doneWRITE"} :
        /\ End(s, ec, Post(Popped(s), Other(s), g)) /\ UNCHANGED pending
        /\ g = "doneWRITE" => ~m_otherDone[s] /\ lastState # "READ"
  BY DEF Leave
<1>2. /\ Last(Post(Popped(s), Other(s), g), s)
      /\ Has(Post(Popped(s), Other(s), g)[Other(s)], "doneWRITE") =>
           Has(strand[Other(s)], "doneWRITE") \/ g = "doneWRITE"
  BY LastPost
<1>3. ec = "canceled" \/ task[s] = "STOPPED" => task'[s] = "STOPPED"
  BY <1>1 DEF End, IInv, TypeOK
<1>4. QED
  BY <1>1, <1>2, <1>3, EndGo

(* The head of the loop (ProxyDataSession.cpp:83-90).                      *)
LEMMA LoopGo ==
  ASSUME IInv, GoInv, NEW s \in Sides, NEW h \in Codes, Turn(s, h),
         ~Gone(Other(s)), NEW lastState, Loop(s, lastState),
         UNCHANGED <<proxy, proxyCanceled, canceled, m_otherDone, broken>>
  PROVE  GoInv'
<1>1. task[s] \in {"RUNNING", "STOPPED"}
  BY TurnGo DEF Sided, Waits
<1>2. CASE task[s] = "RUNNING" /\ ~m_otherDone[s] /\ canceled[s]
  <2>1. Leave(s, "canceled", "READ")
    BY <1>2 DEF Loop
  <2>2. QED
    BY <2>1, LeaveGo
<1>3. CASE task[s] = "RUNNING" /\ ~m_otherDone[s] /\ ~canceled[s]
  <2>1. Await(s, "read")
    BY <1>3 DEF Loop
  <2>2. QED
    BY <1>3, <2>1, AwaitGo
<1>4. CASE task[s] = "STOPPED" \/ m_otherDone[s]
  <2>1. Leave(s, "ok", lastState)
    BY <1>4 DEF Loop
  <2>2. QED
    BY <1>4, <2>1, LeaveGo
<1>5. QED
  BY <1>1, <1>2, <1>3, <1>4

(* What run() awaited has completed (ProxyDataSession.cpp:58-93).          *)
LEMMA ResumeGo ==
  ASSUME IInv, GoInv, NEW s \in Sides, Resume(s)
  PROVE  GoInv'
<1> DEFINE o == Other(s)
<1>1. UNCHANGED <<proxy, proxyCanceled, canceled, m_otherDone, broken>>
  BY DEF Resume
<1>2. Other(o) = s
  BY SidesFacts
<1>3. Working(s) => ~Gone(o)
  BY <1>2 DEF Gone
<1>4. ASSUME ResumeStart(s) PROVE GoInv'
  <2>1. PICK ec \in Codes :
          /\ Turn(s, ec)
          /\ IF ec = "ok" /\ ~canceled[s] /\ ~Gone(o)
             THEN Loop(s, m_state[s])
             ELSE /\ End(s, IF ec # "ok" THEN ec
                            ELSE IF canceled[s] THEN "canceled" ELSE "error", Popped(s))
                  /\ UNCHANGED pending
    BY <1>4 DEF ResumeStart, Codes
  <2>2. CASE ec = "ok" /\ ~canceled[s] /\ ~Gone(o)
    <3>1. Loop(s, m_state[s])
      BY <2>1, <2>2
    <3>2. QED
      BY <1>1, <2>1, <2>2, <3>1, LoopGo
  <2>3. CASE ~(ec = "ok" /\ ~canceled[s] /\ ~Gone(o))
    <3>1. PICK c : End(s, c, Popped(s)) /\ UNCHANGED pending
      BY <2>1, <2>3
    <3>2. Last(Popped(s), s) /\ Popped(s)[o] = strand[o]
      BY <2>1, LastPopped
    <3>3. Has(Popped(s)[o], "doneWRITE") => Has(strand[o], "doneWRITE")
      BY <3>2
    <3>4. QED
      BY <1>1, <2>1, <3>1, <3>2, <3>3, EndGo
  <2>4. QED
    BY <2>2, <2>3
<1>5. ASSUME ResumeRead(s) PROVE GoInv'
  <2>0. ~Gone(o)
    BY <1>3, <1>5 DEF ResumeRead, Working
  <2>1. CASE Turn(s, "ok") /\ ~canceled[s] /\ Await(s, "write")
    <3>1. "ok" \in Codes
      BY DEF Codes
    <3>2. QED
      BY <1>1, <2>1, <3>1, AwaitGo
  <2>2. CASE Turn(s, "ok") /\ Leave(s, "canceled", "WRITE")
    <3>1. "ok" \in Codes
      BY DEF Codes
    <3>2. QED
      BY <1>1, <2>0, <2>2, <3>1, LeaveGo
  <2>3. ASSUME NEW ec \in {"error", "canceled"}, Turn(s, ec), Leave(s, ec, "READ")
        PROVE  GoInv'
    <3>1. ec \in Codes
      BY DEF Codes
    <3>2. QED
      BY <1>1, <2>0, <2>3, <3>1, LeaveGo
  <2>4. QED
    BY <1>5, <2>1, <2>2, <2>3 DEF ResumeRead
<1>6. ASSUME ResumeWrite(s) PROVE GoInv'
  <2>0. ~Gone(o) /\ pc[s] = "write"
    BY <1>3, <1>6 DEF ResumeWrite, Working
  <2>1. CASE Turn(s, "ok") /\ Loop(s, "WRITE")
    <3>1. "ok" \in Codes
      BY DEF Codes
    <3>2. QED
      BY <1>1, <2>0, <2>1, <3>1, LoopGo
  <2>2. ASSUME NEW ec \in {"error", "canceled"}, Turn(s, ec), Leave(s, ec, "WRITE")
        PROVE  GoInv'
    <3>1. ec \in Codes
      BY DEF Codes
    <3>2. ec = "error" => broken[o]
      BY <2>0, <2>2, TurnGo DEF Sided, Tells
    <3>3. QED
      BY <1>1, <2>0, <2>2, <3>1, <3>2, LeaveGo
  <2>3. QED
    BY <1>6, <2>1, <2>2 DEF ResumeWrite
<1>7. QED
  BY <1>4, <1>5, <1>6 DEF Resume

(* Nothing is on its way at the beginning (Proxy.cpp:24-33).               *)
LEMMA GoInit == Init => GoInv
<1> SUFFICES ASSUME Init PROVE GoInv
  OBVIOUS
<1>1. \A s \in Sides : strand[s] = <<>> /\ pc[s] = "idle" /\ task[s] = "INITIAL"
  BY DEF Init
<1>2. \A s \in Sides : /\ \A x : ~Has(strand[s], x)
                       /\ ~HasCode(strand[s]) /\ OneCode(strand[s])
                       /\ OneStart(strand[s]) /\ Begins(strand[s])
  BY <1>1 DEF Has, HasCode, OneCode, OneStart, Begins
<1>3. Awaited
  BY <1>2, SidesFacts DEF Init, Awaited
<1>4. ASSUME NEW s \in Sides PROVE Sided(s)
  <2>1. Waits(s)
    BY <1>1, <1>2 DEF Waits, Active, Init
  <2>2. Starts(s)
    BY <1>1, <1>2 DEF Starts
  <2>3. Spreads(s)
    BY <1>1 DEF Spreads
  <2>4. Tells(s)
    BY <1>1, <1>2 DEF Tells, Init
  <2>5. QED
    BY <2>1, <2>2, <2>3, <2>4 DEF Sided
<1>5. QED
  BY <1>3, <1>4 DEF GoInv

(* Every step keeps what is on its way (Proxy.cpp:24-50,                   *)
(* ProxyDataSession.cpp:29-93).                                            *)
LEMMA GoNext == IInv /\ GoInv /\ [Next]_vars => GoInv'
<1> SUFFICES ASSUME IInv, GoInv, [Next]_vars PROVE GoInv'
  OBVIOUS
<1>1. CASE ProxyStep \/ ProxyCancel \/ \E r \in {"ok", "error"} : SetupComplete(r)
  BY <1>1, ProxyGo
<1>2. ASSUME NEW s \in Sides, NEW ec \in {"ok", "error"}, Complete(s, ec) PROVE GoInv'
  BY <1>2, CompleteGo
<1>3. ASSUME NEW s \in Sides, Handle(s) PROVE GoInv'
  <2>1. CASE CoStart(s)
    BY <2>1, CoStartGo
  <2>2. CASE CoStop(s)
    <3>1. Turn(s, "stop") /\ StopInline(s, Popped(s))
      BY <2>2 DEF CoStop
    <3>2. UNCHANGED <<proxy, proxyCanceled, pc, broken, m_otherDone>>
      BY <2>2 DEF CoStop
    <3>3. QED
      BY <3>1, <3>2, StopGo
  <2>3. CASE Emit(s)
    BY <2>3, EmitGo
  <2>4. CASE OtherDone(s)
    <3>1. m_otherDone'[Other(s)] = m_otherDone[Other(s)]
      BY <2>4, SidesFacts DEF OtherDone, IInv, TypeOK
    <3>2. UNCHANGED <<proxy, proxyCanceled, pc, broken>>
      BY <2>4 DEF OtherDone
    <3>3. CASE Turn(s, "doneREAD") /\ StopInline(s, Popped(s))
      BY <3>1, <3>2, <3>3, StopGo
    <3>4. CASE /\ Turn(s, "doneWRITE") /\ strand' = Popped(s)
               /\ UNCHANGED <<task, canceled, pending>>
      BY <3>1, <3>2, <3>4, PopGo
    <3>5. QED
      BY <2>4, <3>3, <3>4 DEF OtherDone
  <2>5. CASE CloseSocket(s)
    <3>1. /\ Turn(s, "close") /\ strand' = Popped(s)
          /\ UNCHANGED <<proxy, proxyCanceled, task, canceled, pc, pending, broken,
                         m_otherDone>>
      BY <2>5 DEF CloseSocket
    <3>2. QED
      BY <3>1, PopGo
  <2>6. CASE Resume(s)
    BY <2>6, ResumeGo
  <2>7. QED
    BY <1>3, <2>1, <2>2, <2>3, <2>4, <2>5, <2>6 DEF Handle
<1>4. CASE UNCHANGED vars
  BY <1>4 DEF vars, GoInv, Awaited, Sided, Waits, Starts, NotYet, Setup, Spreads, Tells,
              Active, Gone, Working
<1>5. QED
  BY <1>1, <1>2, <1>3, <1>4 DEF Next

(* With nothing queued, what is on its way has arrived                     *)
(* (ProxyDataSession.cpp:29-93).                                           *)
LEMMA GoRests == IInv /\ GoInv => Rests
<1> SUFFICES ASSUME IInv, GoInv, strand[1] = <<>>, strand[2] = <<>>
             PROVE  /\ proxy \in {"first", "awaiting"} => pc[1] # "idle"
                    /\ proxy = "awaiting" => pc[2] # "idle" /\ (proxyCanceled => pc[2] = "over")
                    /\ \A s \in Sides : Active(s) =>
                         /\ pending[s] /\ ~canceled[s]
                         /\ task[1] # "STOPPED" /\ task[2] # "STOPPED"
                         /\ m_otherDone[s] /\ pc[s] = "read" => broken[s]
  BY DEF Rests
<1>1. \A s \in Sides : strand[s] = <<>>
  BY DEF Sides
<1>2. \A s \in Sides : ~HasCode(strand[s]) /\ \A x : ~Has(strand[s], x)
  BY <1>1 DEF HasCode, Has
<1>3. ASSUME NEW s \in Sides, Active(s)
      PROVE  /\ pending[s] /\ ~canceled[s] /\ task[s] # "STOPPED"
             /\ task[Other(s)] # "STOPPED"
             /\ m_otherDone[s] /\ pc[s] = "read" => broken[s]
  <2>1. Sided(s) /\ Sided(Other(s)) /\ Other(Other(s)) = s /\ Other(s) \in Sides
    BY SidesFacts DEF GoInv
  <2>2. pending[s] /\ ~canceled[s] /\ task[s] # "STOPPED"
    BY <1>2, <1>3, <2>1 DEF Sided, Waits
  <2>3. ~Gone(s)
    BY <1>3 DEF Gone
  <2>4. task[Other(s)] # "STOPPED"
    BY <1>2, <2>1, <2>2, <2>3 DEF Sided, Spreads
  <2>5. m_otherDone[s] => broken[s]
    BY <2>1, <2>2, <2>4 DEF Sided, Tells
  <2>6. QED
    BY <2>2, <2>4, <2>5
<1>4. \A s \in Sides : Active(s) => task[1] # "STOPPED" /\ task[2] # "STOPPED"
  BY <1>3 DEF Sides, Other
<1>5. proxy \in {"first", "awaiting"} => pc[1] # "idle"
  BY <1>2, SidesFacts DEF GoInv, Awaited
<1>6. proxy = "awaiting" => pc[2] # "idle" /\ (proxyCanceled => canceled[2] \/ pc[2] = "over")
  BY <1>2, SidesFacts DEF GoInv, Awaited
<1>7. proxy = "awaiting" /\ proxyCanceled => pc[2] = "over"
  <2>1. pc[2] \in {"idle", "over"} \/ Active(2)
    BY SidesFacts DEF IInv, TypeOK, Active
  <2>2. QED
    BY <1>3, <1>6, <2>1, SidesFacts
<1>8. QED
  BY <1>3, <1>4, <1>5, <1>6, <1>7

(* Whenever neither strand has anything left to run: a session that was    *)
(* started has begun; a Proxy canceled in its last await has its session   *)
(* ended; a session that goes on waits for the network, is not canceled    *)
(* and neither of the two is stopped; and one that reads although it was   *)
(* told that the other one is done reads from a broken socket              *)
(* (Proxy.cpp:33-50, ProxyDataSession.cpp:29-93).                          *)
THEOREM RestsHolds == Spec => []Rests
<1>1. Init => GoInv
  BY GoInit
<1>2. IInv /\ GoInv /\ [Next]_vars => GoInv'
  BY GoNext
<1>3. IInv /\ GoInv => Rests
  BY GoRests
<1>4. QED
  BY <1>1, <1>2, <1>3, Inductive, PTL DEF Spec
=============================================================================
