-------------------------- MODULE ProxyDataSession --------------------------
(***************************************************************************)
(* The two ProxyDataSessions of a Proxy.  Session s pumps what it reads    *)
(* from its own socket into the socket of the other session.  The one that *)
(* ends first tells the other one, which stops at once if the first died   *)
(* reading; the one that ends last closes both sockets.  Each session is a *)
(* CoroutineTask on a strand of its own, a FIFO of handlers:               *)
(*   start, stop              CoroutineTask::co_start, co_stop             *)
(*   emit                     the Proxy's cancellation reaches session 2   *)
(*   doneREAD, doneWRITE      the lambda posted by otherDone(lastState)    *)
(*   close                    Session::closeSocket                         *)
(*   ok, error, canceled      completion of what run() awaits              *)
(*                                                                         *)
(* Proxy::run gets the second session, starts both and turns them into     *)
(* ProxyDataSessions, of which it starts the first one detached and awaits *)
(* the second one: its cancellation then reaches session 2 only.           *)
(***************************************************************************)
EXTENDS Naturals, Sequences

CONSTANT StartTimeout   \* may the start of a session's socket time out

ASSUME StartTimeoutAssumption == StartTimeout \in BOOLEAN

Sides == {1, 2}
Other(s) == 3 - s

VARIABLES
  proxy,         \* Proxy::run: at the await of "get", "start1", "start2",
                 \*   "first" (session 1 is started), "awaiting" (session 2),
                 \*   "over"
  setup,         \* the first three awaits: "pending", or completed "ok", "error"
  proxyCanceled, \* the Proxy's cancellation signal was emitted
  task,          \* CoroutineTask::m_state
  canceled,      \* the coroutine's cancellation signal was emitted
  pc,            \* run(): "idle", at an await of "start", "read", "write", "over"
  pending,       \* what run() awaits has not completed
  m_state,       \* ProxyDataSession::m_state, "READ" or "WRITE"
  m_otherDone,
  sock,          \* Socket::m_state of the session's socket
  broken,        \* a write to the session's socket has failed
  strand

vars == <<proxy, setup, proxyCanceled, task, canceled, pc, pending, m_state,
          m_otherDone, sock, broken, strand>>

data == <<task, canceled, pc, pending, m_state, m_otherDone, sock, broken>>

Handlers == {"start", "stop", "emit", "doneREAD", "doneWRITE", "close",
             "ok", "error", "canceled"}

TypeOK ==
  /\ proxy \in {"get", "start1", "start2", "first", "awaiting", "over"}
  /\ setup \in {"pending", "ok", "error"}
  /\ proxyCanceled \in BOOLEAN
  /\ task \in [Sides -> {"INITIAL", "RUNNING", "DONE", "STOPPED"}]
  /\ canceled \in [Sides -> BOOLEAN]
  /\ pc \in [Sides -> {"idle", "start", "read", "write", "over"}]
  /\ pending \in [Sides -> BOOLEAN]
  /\ m_state \in [Sides -> {"READ", "WRITE"}]
  /\ m_otherDone \in [Sides -> BOOLEAN]
  /\ sock \in [Sides -> {"STARTED", "CLOSED"}]
  /\ broken \in [Sides -> BOOLEAN]
  /\ strand \in [Sides -> Seq(Handlers)]

(* mutate() hands the sockets over in the state STARTED.                   *)
Init ==
  /\ proxy = "get"
  /\ setup = "pending"
  /\ proxyCanceled = FALSE
  /\ task = [s \in Sides |-> "INITIAL"]
  /\ canceled = [s \in Sides |-> FALSE]
  /\ pc = [s \in Sides |-> "idle"]
  /\ pending = [s \in Sides |-> FALSE]
  /\ m_state = [s \in Sides |-> "READ"]
  /\ m_otherDone = [s \in Sides |-> FALSE]
  /\ sock = [s \in Sides |-> "STARTED"]
  /\ broken = [s \in Sides |-> FALSE]
  /\ strand = [s \in Sides |-> <<>>]

-----------------------------------------------------------------------------
Working(s) == pc[s] \in {"read", "write"}
Active(s) == pc[s] \in {"start", "read", "write"}

(* Nobody owns the session: m_other.lock() of the other one returns null.  *)
Gone(s) ==
  /\ proxy = "over"
  /\ ~Active(s)
  /\ strand[s] = <<>>
  /\ ~Working(Other(s))

Turn(s, h) == strand[s] # <<>> /\ Head(strand[s]) = h
Popped(s) == [strand EXCEPT ![s] = Tail(@)]
Post(q, s, h) == [q EXCEPT ![s] = Append(@, h)]

-----------------------------------------------------------------------------
(* Proxy::run, on the Proxy's strand.                                      *)

Setup == proxy \in {"get", "start1", "start2"}

(* get() or a co_start() completes; each has a timeout.                    *)
SetupComplete(r) ==
  /\ Setup /\ setup = "pending"
  /\ setup' = r
  /\ UNCHANGED <<proxy, proxyCanceled, strand, data>>

(* The session is there, or started: the next one is started.  A co_await  *)
(* throws at once if the Proxy is canceled.                                *)
SetupNext ==
  /\ proxy \in {"get", "start1"} /\ setup = "ok"
  /\ IF proxyCanceled
     THEN proxy' = "over" /\ UNCHANGED setup
     ELSE /\ proxy' = IF proxy = "get" THEN "start1" ELSE "start2"
          /\ setup' = "pending"
  /\ UNCHANGED <<proxyCanceled, strand, data>>

SetupFails ==
  /\ Setup /\ setup = "error"
  /\ proxy' = "over"
  /\ UNCHANGED <<setup, proxyCanceled, strand, data>>

(* Both sessions are mutated and the first one is started ...              *)
StartFirst ==
  /\ proxy = "start2" /\ setup = "ok"
  /\ proxy' = "first"
  /\ strand' = Post(strand, 1, "start")
  /\ UNCHANGED <<setup, proxyCanceled, data>>

(* ... the second one is awaited ...                                       *)
AwaitSecond ==
  /\ proxy = "first" /\ ~proxyCanceled
  /\ proxy' = "awaiting"
  /\ strand' = Post(strand, 2, "start")
  /\ UNCHANGED <<setup, proxyCanceled, data>>

(* ... unless the Proxy was canceled before, when co_await throws.         *)
AwaitSecondThrows ==
  /\ proxy = "first" /\ proxyCanceled
  /\ proxy' = "over"
  /\ UNCHANGED <<setup, proxyCanceled, strand, data>>

(* The signal of a canceled Proxy is forwarded to what it awaits.  It      *)
(* cannot come between p1->start() and the await of session 2.             *)
ProxyCancel ==
  /\ ~proxyCanceled /\ (Setup \/ proxy = "awaiting")
  /\ proxyCanceled' = TRUE
  /\ setup' = IF setup = "pending" THEN "error" ELSE setup
  /\ strand' = IF proxy = "awaiting" THEN Post(strand, 2, "emit") ELSE strand
  /\ UNCHANGED <<proxy, data>>

(* Session 2 has ended: run() returns and drops both sessions.             *)
ProxyEnd ==
  /\ proxy = "awaiting" /\ pc[2] = "over"
  /\ proxy' = "over"
  /\ UNCHANGED <<setup, proxyCanceled, strand, data>>

-----------------------------------------------------------------------------
(* The network.                                                            *)

(* What session s awaits completes.  A failed write breaks the socket      *)
(* written to, which then yields no further data.                          *)
Complete(s, ec) ==
  /\ Active(s) /\ pending[s]
  /\ ec = "error" /\ pc[s] = "start" => StartTimeout
  /\ pending' = [pending EXCEPT ![s] = FALSE]
  /\ broken' = [broken EXCEPT ![Other(s)] =
                  @ \/ (ec = "error" /\ pc[s] = "write")]
  /\ strand' = Post(strand, s, ec)
  /\ UNCHANGED <<proxy, setup, proxyCanceled, task, canceled, pc, m_state,
                 m_otherDone, sock>>

-----------------------------------------------------------------------------
(* CoroutineTask::co_start.                                                *)
CoStart(s) ==
  /\ Turn(s, "start")
  /\ \/ /\ task[s] = "INITIAL"
        /\ task' = [task EXCEPT ![s] = "RUNNING"]
        /\ pc' = [pc EXCEPT ![s] = "start"]
        /\ pending' = [pending EXCEPT ![s] = TRUE]
     \/ /\ task[s] # "INITIAL"
        /\ pc' = [pc EXCEPT ![s] = "over"]
        /\ UNCHANGED <<task, pending>>
  /\ strand' = Popped(s)
  /\ UNCHANGED <<proxy, setup, proxyCanceled, canceled, m_state, m_otherDone,
                 sock, broken>>

(* A cancellation signal: a pending operation completes, later awaits      *)
(* throw.  q is the queue state that the completion is appended to.        *)
Signal(s, q) ==
  IF Active(s)
  THEN /\ canceled' = [canceled EXCEPT ![s] = TRUE]
       /\ pending' = [pending EXCEPT ![s] = FALSE]
       /\ strand' = IF pending[s] THEN Post(q, s, "canceled") ELSE q
  ELSE /\ strand' = q
       /\ UNCHANGED <<canceled, pending>>

(* A mutant of the next definition: Session::onStop() is not overridden.   *)
OnStopNothing(s, q) == q

(* onStop(): stop the other session too.                                   *)
OnStop(s, q) == IF Gone(Other(s)) THEN q ELSE Post(q, Other(s), "stop")

(* CoroutineTask::co_stop on the session's strand.                         *)
StopInline(s, q) ==
  IF task[s] = "STOPPED"
  THEN strand' = q /\ UNCHANGED <<task, canceled, pending>>
  ELSE /\ task' = [task EXCEPT ![s] = "STOPPED"]
       /\ Signal(s, OnStop(s, q))

CoStop(s) ==
  /\ Turn(s, "stop")
  /\ StopInline(s, Popped(s))
  /\ UNCHANGED <<proxy, setup, proxyCanceled, pc, m_state, m_otherDone, sock,
                 broken>>

Emit(s) ==
  /\ Turn(s, "emit")
  /\ Signal(s, Popped(s))
  /\ UNCHANGED <<proxy, setup, proxyCanceled, task, pc, m_state, m_otherDone,
                 sock, broken>>

-----------------------------------------------------------------------------
(* A mutant of the next definition: it never stops.                        *)
OtherDoneNoStop(s) ==
  /\ Turn(s, "doneREAD") \/ Turn(s, "doneWRITE")
  /\ strand' = Popped(s)
  /\ m_otherDone' = [m_otherDone EXCEPT ![s] = TRUE]
  /\ UNCHANGED <<proxy, setup, proxyCanceled, task, canceled, pc, pending,
                 m_state, sock, broken>>

(* The lambda of otherDone.                                                *)
OtherDone(s) ==
  /\ \/ /\ Turn(s, "doneREAD")
        /\ StopInline(s, Popped(s))
     \/ /\ Turn(s, "doneWRITE")
        /\ strand' = Popped(s)
        /\ UNCHANGED <<task, canceled, pending>>
  /\ m_otherDone' = [m_otherDone EXCEPT ![s] = TRUE]
  /\ UNCHANGED <<proxy, setup, proxyCanceled, pc, m_state, sock, broken>>

(* Socket::co_close.                                                       *)
CloseSocket(s) ==
  /\ Turn(s, "close")
  /\ sock' = [sock EXCEPT ![s] = "CLOSED"]
  /\ strand' = Popped(s)
  /\ UNCHANGED <<proxy, setup, proxyCanceled, task, canceled, pc, pending,
                 m_state, m_otherDone, broken>>

-----------------------------------------------------------------------------
(* A mutant of the next definition: no stop() on operation_canceled.       *)
EndNoStop(s, ec, q) ==
  /\ pc' = [pc EXCEPT ![s] = "over"]
  /\ task' = [task EXCEPT ![s] = IF @ = "STOPPED" THEN @ ELSE "DONE"]
  /\ strand' = q

(* run() ends with ec: CoroutineTask::work stops the task if ec is         *)
(* operation_canceled, otherwise it is DONE unless STOPPED.                *)
End(s, ec, q) ==
  /\ pc' = [pc EXCEPT ![s] = "over"]
  /\ IF task[s] = "STOPPED" \/ ec # "canceled"
     THEN /\ task' = [task EXCEPT ![s] = IF @ = "STOPPED" THEN @ ELSE "DONE"]
          /\ strand' = q
     ELSE /\ task' = [task EXCEPT ![s] = "STOPPED"]
          /\ strand' = OnStop(s, q)

(* A mutant of the next definition: the first one closes the sockets.      *)
LeaveCloses(s, ec, lastState) ==
  /\ m_state' = [m_state EXCEPT ![s] = lastState]
  /\ sock' = [sock EXCEPT ![s] = "CLOSED"]
  /\ End(s, ec, Post(Popped(s), Other(s), "close"))
  /\ UNCHANGED pending

(* work() ends with ec in the state lastState: the last one closes both    *)
(* sockets, the first one tells the other.                                 *)
Leave(s, ec, lastState) ==
  /\ m_state' = [m_state EXCEPT ![s] = lastState]
  /\ IF m_otherDone[s]
     THEN /\ sock' = [sock EXCEPT ![s] = "CLOSED"]
          /\ End(s, ec, Post(Popped(s), Other(s), "close"))
     ELSE /\ End(s, ec, Post(Popped(s), Other(s),
                             IF lastState = "READ" THEN "doneREAD" ELSE "doneWRITE"))
          /\ UNCHANGED sock
  /\ UNCHANGED pending

(* run() suspends on its next read or write.                               *)
Await(s, op) ==
  /\ m_state' = [m_state EXCEPT ![s] = IF op = "read" THEN "READ" ELSE "WRITE"]
  /\ pc' = [pc EXCEPT ![s] = op]
  /\ pending' = [pending EXCEPT ![s] = TRUE]
  /\ strand' = Popped(s)
  /\ UNCHANGED <<task, sock>>

(* The head of the loop.                                                   *)
Loop(s, lastState) ==
  IF task[s] = "RUNNING" /\ ~m_otherDone[s]
  THEN IF canceled[s] THEN Leave(s, "canceled", "READ") ELSE Await(s, "read")
  ELSE Leave(s, "ok", lastState)

(* The socket's co_start has completed: enter work(), unless it failed or  *)
(* the coroutine is canceled or the other session is gone.                 *)
ResumeStart(s) ==
  /\ pc[s] = "start"
  /\ \E ec \in {"ok", "error", "canceled"} :
       /\ Turn(s, ec)
       /\ IF ec = "ok" /\ ~canceled[s] /\ ~Gone(Other(s))
          THEN Loop(s, m_state[s])
          ELSE /\ End(s, IF ec # "ok" THEN ec
                         ELSE IF canceled[s] THEN "canceled" ELSE "error", Popped(s))
               /\ UNCHANGED <<m_state, sock, pending>>

ResumeRead(s) ==
  /\ pc[s] = "read"
  /\ \/ /\ Turn(s, "ok") /\ ~canceled[s]
        /\ Await(s, "write")
     \/ /\ Turn(s, "ok") /\ canceled[s]
        /\ Leave(s, "canceled", "WRITE")
     \/ \E ec \in {"error", "canceled"} : Turn(s, ec) /\ Leave(s, ec, "READ")

ResumeWrite(s) ==
  /\ pc[s] = "write"
  /\ \/ /\ Turn(s, "ok")
        /\ Loop(s, "WRITE")
     \/ \E ec \in {"error", "canceled"} : Turn(s, ec) /\ Leave(s, ec, "WRITE")

Resume(s) ==
  /\ ResumeStart(s) \/ ResumeRead(s) \/ ResumeWrite(s)
  /\ UNCHANGED <<proxy, setup, proxyCanceled, canceled, m_otherDone, broken>>

-----------------------------------------------------------------------------
ProxyStep ==
  \/ SetupNext \/ SetupFails \/ StartFirst \/ AwaitSecond \/ AwaitSecondThrows
  \/ ProxyEnd

Handle(s) ==
  CoStart(s) \/ CoStop(s) \/ Emit(s) \/ OtherDone(s) \/ CloseSocket(s) \/ Resume(s)

Next ==
  \/ ProxyStep
  \/ ProxyCancel
  \/ \E r \in {"ok", "error"} : SetupComplete(r)
  \/ \E s \in Sides :
       Handle(s) \/ \E ec \in {"ok", "error"} : Complete(s, ec)

(* Strands run what is queued, the Proxy's coroutine goes on, what it      *)
(* awaits with a timeout completes, a socket's start completes, and a read *)
(* from a broken socket does not block.                                    *)
(* Nothing else is assumed of the network: a peer may stay silent, and a   *)
(* peer that does not read may block a write for ever.                     *)
Fairness ==
  /\ WF_vars(ProxyStep)
  /\ WF_vars(\E r \in {"ok", "error"} : SetupComplete(r))
  /\ \A s \in Sides :
       /\ WF_vars(Handle(s))
       /\ WF_vars((pc[s] = "start" \/ (pc[s] = "read" /\ broken[s]))
                  /\ \E ec \in {"ok", "error"} : Complete(s, ec))

(* What the sessions, which set no timeout on their writes, leave to the   *)
(* peers: to take what is written, or to break the connection.             *)
PeersRead ==
  \A s \in Sides :
    WF_vars(pc[s] = "write" /\ \E ec \in {"ok", "error"} : Complete(s, ec))

Spec == Init /\ [][Next]_vars
FairSpec == Spec /\ Fairness

-----------------------------------------------------------------------------
(* No socket is closed under a pump: a socket is closed only when neither  *)
(* session reads or writes any more (ProxyDataSession.cpp:15-18, 68-81).   *)
CloseSafe ==
  \A s \in Sides : sock[s] = "CLOSED" => ~Working(1) /\ ~Working(2)

(* A session that was told that the other one is done does not hang in a   *)
(* read: stopped if the other one died reading, and because its own socket *)
(* yields no more data otherwise (ProxyDataSession.cpp:40-56, 83).         *)
NoHangOnRead ==
  \A s \in Sides : m_otherDone[s] ~> []~(pc[s] \in {"start", "read"})

(* A stop of one session, however it comes about, ends both                *)
(* (ProxyDataSession.cpp:29-38).                                           *)
StopEndsBoth ==
  \A s \in Sides : task[s] = "STOPPED" ~> ~Active(1) /\ ~Active(2)

(* If the peers take what is written, canceling a Proxy ends it and both   *)
(* sessions, the detached session 1 too, unless it comes in the one window *)
(* of run() that is left out here: when the second co_start() has          *)
(* completed and session 2 is not awaited yet (Proxy.cpp:35-50).           *)
CancelEndsBoth ==
  PeersRead =>
    (( /\ proxyCanceled
       /\ proxy \in {"get", "start1", "awaiting"}
            \/ (proxy = "start2" /\ setup = "error") )
       ~> proxy = "over" /\ ~Active(1) /\ ~Active(2))

(* What the comments promise of the sockets of two sessions that have both *)
(* been told that the other one is done: they were left open on purpose    *)
(* and get closed later (ProxyDataSession.cpp:15-18, 70-75).               *)
SocketsClosedLater ==
  (\A s \in Sides : pc[s] = "over" /\ strand[s] = <<>> /\ m_otherDone[s])
    => \A s \in Sides : sock[s] = "CLOSED"
=============================================================================
