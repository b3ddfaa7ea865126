-------------------------------- MODULE Timed --------------------------------
(***************************************************************************)
(* timeout(op, d) of TimedCoroutineSpawn: a coroutine awaits an operation  *)
(* and a steady_timer in a parallel group.  Everything runs on the         *)
(* coroutine's strand: the handlers of the two, the group and the          *)
(* cancellation slot.  The handler that runs first cancels the other       *)
(* (wait_for_one), the group completes when both have run.  The slot of    *)
(* the coroutine only cancels the timer, whose handler then cancels the    *)
(* operation.  An await is                                                 *)
(*   timed    the operation's signature starts with an error: error_code,  *)
(*            or exception_ptr for an awaitable that timeout() spawns      *)
(*   plain    the signature has no error to put TimedOut in                *)
(*   direct   no duration was given: op(use_awaitable)                     *)
(***************************************************************************)
EXTENDS Naturals

CONSTANT MaxAwaits   \* bound on the awaits of the coroutine

ASSUME MaxAwaitsAssumption == MaxAwaits \in Nat

Kinds == {"timed", "plain", "direct"}
Results == {"ok", "fail", "operation_canceled"}
Outcomes == Results \cup {"TimedOut"}

VARIABLES
  pc,        \* the awaiting coroutine: "running", "waiting", "over"
  canceled,  \* its cancellation state, which it never leaves
  awaits,    \* how often it has awaited
  kind,      \* of the last await
  timer,     \* "none", "waiting", or the code of its completion:
             \*   "expired" (no error) or "aborted"
  op,        \* "none", "running", or the result of its completion
  opAsked,   \* the operation was asked to cancel itself
  ran,       \* which of the two completion handlers have run
  outcome    \* what the last await has returned

timedVars == <<pc, canceled, awaits, kind, timer, op, opAsked, ran, outcome>>

TimedTypeOK ==
  /\ pc \in {"running", "waiting", "over"}
  /\ canceled \in BOOLEAN
  /\ awaits \in Nat
  /\ kind \in Kinds
  /\ timer \in {"none", "waiting", "expired", "aborted"}
  /\ op \in {"none", "running"} \cup Results
  /\ opAsked \in BOOLEAN
  /\ ran \in SUBSET {"timer", "op"}
  /\ outcome \in Outcomes \cup {"none"}

TimedInit ==
  /\ pc = "running" /\ canceled = FALSE
  /\ awaits = 0 /\ kind = "direct"
  /\ timer = "none" /\ op = "none" /\ opAsked = FALSE /\ ran = {}
  /\ outcome = "none"

-----------------------------------------------------------------------------
(* The coroutine.                                                          *)

(* timed_initiation::operator(): launch timer and operation.               *)
Launch(k) ==
  /\ timer' = IF k = "direct" THEN "none" ELSE "waiting"
  /\ op' = "running" /\ opAsked' = FALSE /\ ran' = {}

Await(k) ==
  /\ pc = "running" /\ ~canceled /\ awaits < MaxAwaits
  /\ pc' = "waiting" /\ awaits' = awaits + 1 /\ kind' = k /\ outcome' = "none"
  /\ Launch(k)
  /\ UNCHANGED canceled

(* It returns, or its next co_await throws because it is canceled.         *)
End ==
  /\ pc = "running"
  /\ pc' = "over"
  /\ UNCHANGED <<canceled, awaits, kind, timer, op, opAsked, ran, outcome>>

(* gen_timeout_error::gen: TimedOut replaces the error, if there is one.   *)
Result(ec, res) ==
  IF ec = "expired" /\ kind # "plain" THEN "TimedOut" ELSE res

(* groupCompletion, or the operation's own completion, resumes it.         *)
Resume ==
  /\ pc' = "running"
  /\ outcome' = Result(timer, op)
  /\ UNCHANGED <<canceled, awaits, kind, timer, op, opAsked>>

-----------------------------------------------------------------------------
(* timer->cancel(): nothing if its completion is already queued.           *)
CancelTimer ==
  timer' = IF timer = "waiting" THEN "aborted" ELSE timer

(* The operation's cancellation slot.                                      *)
CancelOp ==
  opAsked' = (opAsked \/ op = "running")

(* A mutant of the next definition: the slot is left to the operation.     *)
CancelNobody ==
  /\ pc # "over" /\ ~canceled
  /\ canceled' = TRUE
  /\ UNCHANGED <<pc, awaits, kind, timer, op, opAsked, ran, outcome>>

(* The coroutine's cancellation signal.                                    *)
CancelAwait ==
  /\ pc # "over" /\ ~canceled
  /\ canceled' = TRUE
  /\ IF pc # "waiting" THEN UNCHANGED <<timer, opAsked>>
     ELSE IF kind = "direct" THEN CancelOp /\ UNCHANGED timer
     ELSE CancelTimer /\ UNCHANGED opAsked
  /\ UNCHANGED <<pc, awaits, kind, op, ran, outcome>>

(* Time passes.                                                            *)
Expire ==
  /\ timer = "waiting"
  /\ timer' = "expired"
  /\ UNCHANGED <<pc, canceled, awaits, kind, op, opAsked, ran, outcome>>

(* The operation completes.  Asked to cancel itself it still may have a    *)
(* result; unasked it is not canceled.                                     *)
Complete(res) ==
  /\ op = "running"
  /\ res = "operation_canceled" => opAsked
  /\ op' = res
  /\ UNCHANGED <<pc, canceled, awaits, kind, timer, opAsked, ran, outcome>>

-----------------------------------------------------------------------------
(* The parallel group.                                                     *)

TimerHandler ==
  /\ timer \in {"expired", "aborted"} /\ "timer" \notin ran
  /\ ran' = ran \cup {"timer"}
  /\ IF "op" \in ran
     THEN Resume
     ELSE CancelOp /\ UNCHANGED <<pc, canceled, awaits, kind, timer, op, outcome>>

(* A mutant of the next definition: the group does not wait for the timer. *)
OpHandlerFirst ==
  /\ op \in Results /\ "op" \notin ran
  /\ ran' = ran \cup {"op"}
  /\ Resume

OpHandler ==
  /\ op \in Results /\ "op" \notin ran
  /\ ran' = ran \cup {"op"}
  /\ IF kind = "direct" \/ "timer" \in ran
     THEN Resume
     ELSE CancelTimer /\ UNCHANGED <<pc, canceled, awaits, kind, op, opAsked, outcome>>

TimedNext ==
  \/ \E k \in Kinds : Await(k)
  \/ End \/ CancelAwait \/ Expire
  \/ \E res \in Results : Complete(res)
  \/ TimerHandler \/ OpHandler

(* Timers expire, queued handlers run, an operation that is asked to       *)
(* cancel itself completes, and a canceled coroutine that runs comes to    *)
(* its end or its next co_await.  No other operation need ever complete.   *)
TimedFairness ==
  /\ WF_timedVars(Expire) /\ WF_timedVars(TimerHandler) /\ WF_timedVars(OpHandler)
  /\ WF_timedVars(opAsked /\ \E res \in Results : Complete(res))
  /\ WF_timedVars(canceled /\ End)

TimedSpec == TimedInit /\ [][TimedNext]_timedVars
TimedFairSpec == TimedSpec /\ TimedFairness

-----------------------------------------------------------------------------
(* While the coroutine is not waiting, neither operation nor timer is:     *)
(* what the operation was given (buffers, sockets, the frame itself) can   *)
(* go (Timed.hpp:90-96, TimedSpawn.hpp:43-47).                             *)
Quiet ==
  pc # "waiting" =>
    /\ op # "none" => "op" \in ran
    /\ timer # "none" => "timer" \in ran

(* timeout(op, d) keeps TimedPromise, liveness included: in particular it  *)
(* returns although the operation would never complete, and a result that  *)
(* comes with the expiry is given up (Timed.hpp:47-49, 66-88).             *)
Promise == INSTANCE TimedPromise WITH due <- timer = "expired"
PromiseSpec == Promise!FairSpec
=============================================================================
