---------------------------- MODULE CoroutineTask ----------------------------
(***************************************************************************)
(* CoroutineTask: an object that runs one coroutine, run(), on a strand of *)
(* its own.  Other tasks co_await it, start it detached, or register it so *)
(* that their stop() stops it too.                                         *)
(*                                                                         *)
(* A strand is a FIFO of handlers executed one at a time.  co_start(),     *)
(* stop() and a cancellation signal reach a task from another strand as    *)
(* handlers; on the task's own strand they run inline.  A handler is a     *)
(* record:                                                                 *)
(*   start   co_start() number id, awaited by task by (NoTask: detached)   *)
(*   stop    co_stop()                                                     *)
(*   emit    the cancellation signal of co_start() number id fires         *)
(*   resume  the operation or the child that run() awaits has completed    *)
(*                                                                         *)
(* run() is arbitrary code: between two suspensions it may start and       *)
(* register tasks, await an operation or a task, return or throw.  As      *)
(* every run() of this library does, it lets operation_canceled through.   *)
(* A canceled coroutine stays canceled: each later co_await throws.        *)
(***************************************************************************)
EXTENDS Naturals, Sequences

CONSTANTS Tasks,
          NoTask,
          Awaits,      \* Awaits[t]: the tasks that run() of t may co_await
          Registers,   \* Registers[t]: the tasks it may registerStop and start
          MaxStarts,   \* MaxStarts[t]: bound on the co_start() calls of t
          MaxStops     \* MaxStops[t]: bound on the stop() calls users make on t

ASSUME TaskAssumption ==
  /\ NoTask \notin Tasks
  /\ Awaits \in [Tasks -> SUBSET Tasks]
  /\ Registers \in [Tasks -> SUBSET Tasks]
  /\ MaxStarts \in [Tasks -> Nat]
  /\ MaxStops \in [Tasks -> Nat]

VARIABLES
  m_state,         \* INITIAL, RUNNING, DONE, STOPPED
  m_cancellation,  \* the co_start() whose signal stop() emits, 0 if none
  m_stopped,       \* the tasks connected to the m_stopped signal
  starts,          \* how many co_start() calls were made
  stops,           \* how many stop() calls the users made
  body,            \* the co_start() whose run() is executing, 0 if none
  awaiter,         \* the task that awaits it, or NoTask
  canceled,        \* the coroutine's cancellation state: a signal has fired
  pc,              \* where run() is: see PCs
  child,           \* the task that run() awaits at pc = "child" ...
  childStart,      \* ... and the number of the co_start() it made
  strand           \* the handlers of the task's strand, oldest first

vars == <<m_state, m_cancellation, m_stopped, starts, stops, body, awaiter,
          canceled, pc, child, childStart, strand>>

States == {"INITIAL", "RUNNING", "DONE", "STOPPED"}
Codes == {"ok", "error", "canceled"}

PCs == {"none",     \* there is no coroutine
        "ready",    \* it executes between two suspensions
        "unwind",   \* operation_canceled is leaving run()
        "op",       \* suspended on an operation
        "child",    \* suspended on another task
        "queued"}   \* what it awaited has completed, the resumption is queued

Handler ==
  [kind : {"start"}, id : Nat \ {0}, by : Tasks \cup {NoTask}]
    \cup [kind : {"stop"}]
    \cup [kind : {"emit"}, id : Nat]
    \cup [kind : {"resume"}, ec : Codes]

TypeOK ==
  /\ m_state \in [Tasks -> States]
  /\ m_cancellation \in [Tasks -> Nat]
  /\ m_stopped \in [Tasks -> SUBSET Tasks]
  /\ starts \in [Tasks -> Nat]
  /\ stops \in [Tasks -> Nat]
  /\ body \in [Tasks -> Nat]
  /\ awaiter \in [Tasks -> Tasks \cup {NoTask}]
  /\ canceled \in [Tasks -> BOOLEAN]
  /\ pc \in [Tasks -> PCs]
  /\ child \in [Tasks -> Tasks \cup {NoTask}]
  /\ childStart \in [Tasks -> Nat]
  /\ strand \in [Tasks -> Seq(Handler)]

Init ==
  /\ m_state = [t \in Tasks |-> "INITIAL"]
  /\ m_cancellation = [t \in Tasks |-> 0]
  /\ m_stopped = [t \in Tasks |-> {}]
  /\ starts = [t \in Tasks |-> 0]
  /\ stops = [t \in Tasks |-> 0]
  /\ body = [t \in Tasks |-> 0]
  /\ awaiter = [t \in Tasks |-> NoTask]
  /\ canceled = [t \in Tasks |-> FALSE]
  /\ pc = [t \in Tasks |-> "none"]
  /\ child = [t \in Tasks |-> NoTask]
  /\ childStart = [t \in Tasks |-> 0]
  /\ strand = [t \in Tasks |-> <<>>]

-----------------------------------------------------------------------------
(* Strands.                                                                *)
StartHandler(n, p) == [kind |-> "start", id |-> n, by |-> p]
StopHandler == [kind |-> "stop"]
EmitHandler(n) == [kind |-> "emit", id |-> n]
ResumeHandler(ec) == [kind |-> "resume", ec |-> ec]

Post(q, t, h) == [q EXCEPT ![t] = Append(@, h)]

(* The strand of t is free and its oldest handler is of the given kind.    *)
Turn(t, kind) ==
  /\ pc[t] \notin {"ready", "unwind"}
  /\ strand[t] # <<>>
  /\ Head(strand[t]).kind = kind

Popped(t) == [strand EXCEPT ![t] = Tail(@)]

(* m_stopped(): stop() of every registered task.                           *)
PostStops(q, R) ==
  [u \in Tasks |-> IF u \in R THEN Append(q[u], StopHandler) ELSE q[u]]

(* The completion of a coroutine goes to the strand of whoever awaits it.  *)
PostCompletion(q, p, ec) ==
  IF p = NoTask THEN q ELSE Post(q, p, ResumeHandler(ec))

Completed(p) == IF p = NoTask THEN pc ELSE [pc EXCEPT ![p] = "queued"]

(* A mutant of the next definition: the cancellation slot is not connected *)
(* to the awaited task.                                                    *)
PostEmitUnlinked(q, t) ==
  IF pc[t] = "op" THEN Post(q, t, ResumeHandler("canceled")) ELSE q

(* What emitting the signal of the coroutine of t posts: a pending         *)
(* operation completes with operation_canceled, an awaited task gets the   *)
(* signal on its own strand; a completion already queued is left alone.    *)
PostEmit(q, t) ==
  CASE pc[t] = "op"    -> Post(q, t, ResumeHandler("canceled"))
    [] pc[t] = "child" -> Post(q, child[t], EmitHandler(childStart[t]))
    [] OTHER           -> q

(* A mutant: the operation may still complete.                             *)
EmittedTwice(t) == pc

Emitted(t) == IF pc[t] = "op" THEN [pc EXCEPT ![t] = "queued"] ELSE pc

-----------------------------------------------------------------------------
(* The users of a task, on any thread.                                     *)

(* start(): co_start() with nobody awaiting it.                            *)
Start(t) ==
  /\ starts[t] < MaxStarts[t]
  /\ starts' = [starts EXCEPT ![t] = @ + 1]
  /\ strand' = Post(strand, t, StartHandler(starts[t] + 1, NoTask))
  /\ UNCHANGED <<m_state, m_cancellation, m_stopped, stops, body, awaiter,
                 canceled, pc, child, childStart>>

Stop(t) ==
  /\ stops[t] < MaxStops[t]
  /\ stops' = [stops EXCEPT ![t] = @ + 1]
  /\ strand' = Post(strand, t, StopHandler)
  /\ UNCHANGED <<m_state, m_cancellation, m_stopped, starts, body, awaiter,
                 canceled, pc, child, childStart>>

(* The operation that run() awaits completes.                              *)
Complete(t, ec) ==
  /\ pc[t] = "op"
  /\ pc' = [pc EXCEPT ![t] = "queued"]
  /\ strand' = Post(strand, t, ResumeHandler(ec))
  /\ UNCHANGED <<m_state, m_cancellation, m_stopped, starts, stops, body,
                 awaiter, canceled, child, childStart>>

-----------------------------------------------------------------------------
(* The handlers of the strand of t.                                        *)

(* A mutant: work() stores the signal before it looks at m_state.          *)
RefuseOverwrites(t) ==
  /\ Turn(t, "start")
  /\ m_state[t] # "INITIAL"
  /\ m_cancellation' = [m_cancellation EXCEPT ![t] = Head(strand[t]).id]
  /\ LET p == Head(strand[t]).by IN
       /\ strand' = PostCompletion(Popped(t), p, "error")
       /\ pc' = Completed(p)
  /\ UNCHANGED <<m_state, m_stopped, starts, stops, body, awaiter, canceled,
                 child, childStart>>

(* work() of a task that is not INITIAL throws: the start is refused.      *)
Refuse(t) ==
  /\ Turn(t, "start")
  /\ m_state[t] # "INITIAL"
  /\ LET p == Head(strand[t]).by IN
       /\ strand' = PostCompletion(Popped(t), p, "error")
       /\ pc' = Completed(p)
  /\ UNCHANGED <<m_state, m_cancellation, m_stopped, starts, stops, body,
                 awaiter, canceled, child, childStart>>

(* work() of an INITIAL task: remember the signal and enter run().         *)
Work(t) ==
  /\ Turn(t, "start")
  /\ m_state[t] = "INITIAL"
  /\ m_cancellation' = [m_cancellation EXCEPT ![t] = Head(strand[t]).id]
  /\ m_state' = [m_state EXCEPT ![t] = "RUNNING"]
  /\ body' = [body EXCEPT ![t] = Head(strand[t]).id]
  /\ awaiter' = [awaiter EXCEPT ![t] = Head(strand[t]).by]
  /\ pc' = [pc EXCEPT ![t] = "ready"]
  /\ strand' = Popped(t)
  /\ UNCHANGED <<m_stopped, starts, stops, canceled, child, childStart>>

(* co_stop() of a stopped task does nothing; otherwise the task is         *)
(* STOPPED, its coroutine, if there is one, is canceled, and the           *)
(* registered tasks are told to stop.                                      *)
CoStop(t) ==
  /\ Turn(t, "stop")
  /\ \/ /\ m_state[t] = "STOPPED"
        /\ strand' = Popped(t)
        /\ UNCHANGED <<m_state, canceled, pc>>
     \/ /\ m_state[t] # "STOPPED"
        /\ m_state' = [m_state EXCEPT ![t] = "STOPPED"]
        /\ \/ /\ m_cancellation[t] # 0 /\ m_cancellation[t] = body[t]
              /\ canceled' = [canceled EXCEPT ![t] = TRUE]
              /\ pc' = Emitted(t)
              /\ strand' = PostStops(PostEmit(Popped(t), t), m_stopped[t])
           \/ /\ m_cancellation[t] = 0 \/ m_cancellation[t] # body[t]
              /\ strand' = PostStops(Popped(t), m_stopped[t])
              /\ UNCHANGED <<canceled, pc>>
  /\ UNCHANGED <<m_cancellation, m_stopped, starts, stops, body, awaiter, child,
                 childStart>>

(* A signal forwarded by the awaiting task's cancellation slot fires.      *)
Emit(t) ==
  /\ Turn(t, "emit")
  /\ \/ /\ Head(strand[t]).id = body[t]
        /\ canceled' = [canceled EXCEPT ![t] = TRUE]
        /\ pc' = Emitted(t)
        /\ strand' = PostEmit(Popped(t), t)
     \/ /\ Head(strand[t]).id # body[t]
        /\ strand' = Popped(t)
        /\ UNCHANGED <<canceled, pc>>
  /\ UNCHANGED <<m_state, m_cancellation, m_stopped, starts, stops, body,
                 awaiter, child, childStart>>

(* run() goes on; it may swallow an error, not operation_canceled.         *)
Resume(t) ==
  /\ Turn(t, "resume")
  /\ pc' = [pc EXCEPT ![t] =
              IF Head(strand[t]).ec = "canceled" THEN "unwind" ELSE "ready"]
  /\ child' = [child EXCEPT ![t] = NoTask]
  /\ childStart' = [childStart EXCEPT ![t] = 0]
  /\ strand' = Popped(t)
  /\ UNCHANGED <<m_state, m_cancellation, m_stopped, starts, stops, body,
                 awaiter, canceled>>

-----------------------------------------------------------------------------
(* The steps of run() between two suspensions.                             *)

AwaitOp(t) ==
  /\ pc[t] = "ready" /\ ~canceled[t]
  /\ pc' = [pc EXCEPT ![t] = "op"]
  /\ UNCHANGED <<m_state, m_cancellation, m_stopped, starts, stops, body,
                 awaiter, canceled, child, childStart, strand>>

(* co_await c->co_start(use_awaitable): the start goes to the strand of c. *)
AwaitTask(t, c) ==
  /\ pc[t] = "ready" /\ ~canceled[t]
  /\ starts[c] < MaxStarts[c]
  /\ starts' = [starts EXCEPT ![c] = @ + 1]
  /\ pc' = [pc EXCEPT ![t] = "child"]
  /\ child' = [child EXCEPT ![t] = c]
  /\ childStart' = [childStart EXCEPT ![t] = starts[c] + 1]
  /\ strand' = Post(strand, c, StartHandler(starts[c] + 1, t))
  /\ UNCHANGED <<m_state, m_cancellation, m_stopped, stops, body, awaiter,
                 canceled>>

(* registerStop(c); c->start(), as Server does for an accepted session.    *)
RegisterStop(t, c) ==
  /\ pc[t] = "ready"
  /\ c \notin m_stopped[t]
  /\ starts[c] < MaxStarts[c]
  /\ m_stopped' = [m_stopped EXCEPT ![t] = @ \cup {c}]
  /\ starts' = [starts EXCEPT ![c] = @ + 1]
  /\ strand' = Post(strand, c, StartHandler(starts[c] + 1, NoTask))
  /\ UNCHANGED <<m_state, m_cancellation, stops, body, awaiter, canceled, pc,
                 child, childStart>>

(* The coroutine of t is gone, its awaiter has its completion.             *)
End(t) ==
  /\ body' = [body EXCEPT ![t] = 0]
  /\ awaiter' = [awaiter EXCEPT ![t] = NoTask]
  /\ canceled' = [canceled EXCEPT ![t] = FALSE]
  /\ pc' = [Completed(awaiter[t]) EXCEPT ![t] = "none"]

(* A mutant: the scope guard sets DONE unconditionally.                    *)
FinishDone(t, ec) ==
  /\ pc[t] = "ready"
  /\ m_state' = [m_state EXCEPT ![t] = "DONE"]
  /\ End(t)
  /\ strand' = PostCompletion(strand, awaiter[t], ec)
  /\ UNCHANGED <<m_cancellation, m_stopped, starts, stops, child, childStart>>

(* The coroutine of t ends: the scope guard sets DONE unless the task is   *)
(* STOPPED, and the completion is posted.                                  *)
Finish(t, ec) ==
  /\ pc[t] = "ready"
  /\ m_state' = [m_state EXCEPT ![t] = IF @ = "STOPPED" THEN @ ELSE "DONE"]
  /\ End(t)
  /\ strand' = PostCompletion(strand, awaiter[t], ec)
  /\ UNCHANGED <<m_cancellation, m_stopped, starts, stops, child, childStart>>

(* A mutant: work() does not stop() the task on operation_canceled.        *)
UnwindNoStop(t) ==
  /\ pc[t] = "unwind" \/ (pc[t] = "ready" /\ canceled[t])
  /\ m_state' = [m_state EXCEPT ![t] = IF @ = "STOPPED" THEN @ ELSE "DONE"]
  /\ End(t)
  /\ strand' = PostCompletion(strand, awaiter[t], "canceled")
  /\ UNCHANGED <<m_cancellation, m_stopped, starts, stops, child, childStart>>

(* operation_canceled leaves run(), thrown by what it awaited or by the    *)
(* next co_await of a canceled coroutine: the task stops itself inline,    *)
(* then the scope guard runs and the completion is posted.                 *)
Unwind(t) ==
  /\ pc[t] = "unwind" \/ (pc[t] = "ready" /\ canceled[t])
  /\ m_state' = [m_state EXCEPT ![t] = "STOPPED"]
  /\ End(t)
  /\ strand' = PostCompletion(
                 IF m_state[t] = "STOPPED" THEN strand
                                           ELSE PostStops(strand, m_stopped[t]),
                 awaiter[t], "canceled")
  /\ UNCHANGED <<m_cancellation, m_stopped, starts, stops, child, childStart>>

-----------------------------------------------------------------------------
Handle(t) ==
  Refuse(t) \/ Work(t) \/ CoStop(t) \/ Emit(t) \/ Resume(t)

Run(t) ==
  \/ AwaitOp(t)
  \/ \E c \in Awaits[t] : AwaitTask(t, c)
  \/ \E c \in Registers[t] : RegisterStop(t, c)
  \/ \E ec \in {"ok", "error"} : Finish(t, ec)
  \/ Unwind(t)

Next ==
  \E t \in Tasks :
    \/ Start(t)
    \/ Stop(t)
    \/ \E ec \in {"ok", "error"} : Complete(t, ec)
    \/ Handle(t)
    \/ Run(t)

(* The io_context's threads run whatever is queued on a strand, and code   *)
(* between two suspensions goes on.  Nothing is assumed of the users or of *)
(* the operations: they need never complete.                               *)
Fairness ==
  \A t \in Tasks : WF_vars(Handle(t)) /\ WF_vars(Run(t))

Spec == Init /\ [][Next]_vars
FairSpec == Spec /\ Fairness

-----------------------------------------------------------------------------
(* stop() leaves no way to go on: a stopped task that still has a          *)
(* coroutine has its signal fired, so no co_await is started any more      *)
(* (CoroutineTask.hpp:34-52).                                              *)
StopCancels ==
  \A t \in Tasks : m_state[t] = "STOPPED" /\ body[t] # 0 => canceled[t]

(* The signal does not get lost between two strands: while a canceled      *)
(* coroutine awaits another task, that task's coroutine is canceled or the *)
(* signal is queued behind its start (CancellableSpawn.hpp:26-37).         *)
CancelFollowsAwait ==
  \A t \in Tasks :
    canceled[t] /\ pc[t] = "child" =>
      LET c == child[t]
          n == childStart[t] IN
        \/ body[c] = n /\ canceled[c]
        \/ \E i \in 1..Len(strand[c]) : strand[c][i] = EmitHandler(n)

(* A coroutine waits for exactly one resumption: none twice, and none      *)
(* that the strand has already got rid of (CancellableSpawn.hpp:47-48).    *)
OneResumption ==
  \A t \in Tasks :
    LET r == {i \in 1..Len(strand[t]) : strand[t][i].kind = "resume"} IN
      /\ \A i, j \in r : i = j
      /\ r # {} <=> pc[t] = "queued"

(* A stopped task's coroutine always ends, even when it is suspended on an *)
(* operation or on a chain of tasks that never complete by themselves      *)
(* (CoroutineTask.hpp:34-52, 95-107).                                      *)
StopEnds ==
  \A t \in Tasks : m_state[t] = "STOPPED" ~> body[t] = 0

(* A stop, and a cancellation that comes from an awaiting task, reaches    *)
(* everything the task has registered by then, whichever of the stop       *)
(* handler, the unwinding and the coroutine's own end comes first          *)
(* (CoroutineTask.hpp:41-49, 71-104).                                      *)
RegisteredStop ==
  \A t, c \in Tasks :
    /\ c \in m_stopped[t]
    /\ pc[t] = "unwind" \/ \E i \in 1..Len(strand[t]) : strand[t][i] = StopHandler
    ~> m_state[c] = "STOPPED"

(* The lifecycle of each task.                                             *)
Lifecycle == INSTANCE TaskLifecycle
               WITH state <- m_state, body <- [t \in Tasks |-> body[t] # 0]

(* CoroutineTask implements TaskLifecycle: run() is entered at most once   *)
(* and a stop, whenever it comes, is final (CoroutineTask.hpp:34-107).     *)
LifecycleSpec == Lifecycle!Spec
=============================================================================
