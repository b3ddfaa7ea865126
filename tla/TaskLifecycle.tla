---------------------------- MODULE TaskLifecycle ----------------------------
(***************************************************************************)
(* What CoroutineTask promises about each task, without strands, signals   *)
(* and the tree of awaiting tasks: run() is entered at most once, a stop   *)
(* is final, and the coroutine is there exactly while the task is RUNNING  *)
(* or while a stopped task is still unwinding.                             *)
(***************************************************************************)
CONSTANT Tasks

VARIABLES state,          \* of each task: "INITIAL", "RUNNING", "DONE", "STOPPED"
          body            \* of each task: is its run() executing

Init ==
  /\ state = [t \in Tasks |-> "INITIAL"]
  /\ body = [t \in Tasks |-> FALSE]

Enter(t) ==
  /\ state[t] = "INITIAL"
  /\ state' = [state EXCEPT ![t] = "RUNNING"]
  /\ body' = [body EXCEPT ![t] = TRUE]

Stop(t) ==
  /\ state' = [state EXCEPT ![t] = "STOPPED"]
  /\ UNCHANGED body

(* run() ends by itself.                                                   *)
Leave(t) ==
  /\ body[t]
  /\ body' = [body EXCEPT ![t] = FALSE]
  /\ state' = [state EXCEPT ![t] = IF @ = "STOPPED" THEN "STOPPED" ELSE "DONE"]

(* run() ends with operation_canceled, which stops the task.               *)
Abort(t) ==
  /\ body[t]
  /\ body' = [body EXCEPT ![t] = FALSE]
  /\ state' = [state EXCEPT ![t] = "STOPPED"]

Next == \E t \in Tasks : Enter(t) \/ Stop(t) \/ Leave(t) \/ Abort(t)

Spec == Init /\ [][Next]_<<state, body>>
=============================================================================
