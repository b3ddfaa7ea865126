----------------------------- MODULE TimedPromise -----------------------------
(***************************************************************************)
(* What timeout(op, d) promises to the coroutine that awaits it: one       *)
(* outcome for each await; TimedOut exactly when the time is up; no        *)
(* operation_canceled for a coroutine that nobody canceled; and an outcome *)
(* at all, whatever the operation does.                                    *)
(***************************************************************************)
VARIABLES
  pc,        \* the awaiting coroutine: "running", "waiting", "over"
  canceled,  \* it was canceled
  kind,      \* of the await: "timed", "plain", "direct"
  due,       \* the time of this await is up
  outcome    \* what the last await has returned, "none" before it returns

vars == <<pc, canceled, kind, due, outcome>>

Init ==
  /\ pc = "running" /\ canceled = FALSE
  /\ kind = "direct" /\ due = FALSE /\ outcome = "none"

Await ==
  /\ pc = "running" /\ ~canceled
  /\ pc' = "waiting"
  /\ kind' \in {"timed", "plain", "direct"}
  /\ due' = FALSE /\ outcome' = "none"
  /\ UNCHANGED canceled

Expire ==
  /\ pc = "waiting" /\ kind # "direct" /\ ~due
  /\ due' = TRUE
  /\ UNCHANGED <<pc, canceled, kind, outcome>>

Cancel ==
  /\ pc # "over" /\ ~canceled
  /\ canceled' = TRUE
  /\ UNCHANGED <<pc, kind, due, outcome>>

(* The outcomes that an await of this kind may have now.                   *)
Allowed ==
  IF due /\ kind = "timed" THEN {"TimedOut"}
  ELSE {"ok", "fail"} \cup (IF canceled \/ due THEN {"operation_canceled"} ELSE {})

Deliver ==
  /\ pc = "waiting"
  /\ pc' = "running"
  /\ outcome' \in Allowed
  /\ UNCHANGED <<canceled, kind, due>>

End ==
  /\ pc = "running"
  /\ pc' = "over"
  /\ UNCHANGED <<canceled, kind, due, outcome>>

Next == Await \/ Expire \/ Cancel \/ Deliver \/ End

(* Time passes; an await whose time is up or whose coroutine is canceled   *)
(* returns; and then a canceled coroutine ends.                            *)
Fairness ==
  /\ WF_vars(Expire)
  /\ WF_vars((due \/ canceled) /\ Deliver)
  /\ WF_vars(canceled /\ End)

Spec == Init /\ [][Next]_vars
FairSpec == Spec /\ Fairness
=============================================================================
