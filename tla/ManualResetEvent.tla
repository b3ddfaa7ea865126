-------------------------- MODULE ManualResetEvent --------------------------
(***************************************************************************)
(* What an AwaitableEvent promises to the coroutines that co_wait() on it, *)
(* without mutex, operation list, cancellation slot or strand: the event   *)
(* is set once and for good; a wait ends at most once, with success only   *)
(* after the event was set, or with operation_canceled.                    *)
(***************************************************************************)
CONSTANT Waiters          \* the calls of co_wait()

VARIABLES isSet,          \* has set() been called
          outcome         \* what each wait returned: "none", "ok", "canceled"

Init ==
  /\ isSet = FALSE
  /\ outcome = [w \in Waiters |-> "none"]

Set ==
  /\ isSet' = TRUE
  /\ UNCHANGED outcome

Succeed(w) ==
  /\ isSet
  /\ outcome[w] = "none"
  /\ outcome' = [outcome EXCEPT ![w] = "ok"]
  /\ UNCHANGED isSet

Abort(w) ==
  /\ outcome[w] = "none"
  /\ outcome' = [outcome EXCEPT ![w] = "canceled"]
  /\ UNCHANGED isSet

Next ==
  \/ Set
  \/ \E w \in Waiters : Succeed(w) \/ Abort(w)

Spec == Init /\ [][Next]_<<isSet, outcome>>
=============================================================================
