-------------------- MODULE BaseConfigApplicationProofs --------------------
(***************************************************************************)
(* Machine-checked proofs about BaseConfigApplication, for any number of   *)
(* messages and exit requests and any config file.                         *)
(***************************************************************************)
EXTENDS BaseConfigApplication, WellFoundedInduction, TLAPS

(* Nothing is held by a flush() that has ended, and none runs after the    *)
(* pool.                                                                   *)
FlushInv ==
  /\ flushing = "no" => logs = <<>>
  /\ main # "run" => flushing = "no"
  /\ main = "gone" => m_logs = <<>>
  /\ main \in {"reset", "gone"} => m_currentLogger = "default"

IInv == TypeOK /\ FlushInv /\ OnceInOrder

-----------------------------------------------------------------------------
(* What the messages are numbered with.                                    *)
Numbers(n) == [i \in 1..n |-> i]

(* One more message extends the numbering (AsyncLogger.cpp:24-25).         *)
LEMMA NumbersAppend ==
  ASSUME NEW n \in Nat
  PROVE  Numbers(n + 1) = Append(Numbers(n), n + 1)
BY DEF Numbers

(* Taking and printing messages moves them, in order                       *)
(* (AsyncLogger.cpp:31-50).                                                *)
LEMMA Concat ==
  ASSUME NEW p \in Seq(Nat), NEW q \in Seq(Nat), NEW r \in Seq(Nat), NEW n \in Nat
  PROVE  /\ (p \o <<>>) \o r = (p \o r) \o <<>>
         /\ (p \o q) \o r = ((p \o q) \o <<>>) \o r
         /\ (p \o q) \o Append(r, n) = Append((p \o q) \o r, n)
         /\ p \o q \in Seq(Nat)
         /\ (p \o <<>>) \o <<>> = p
<1>1. \A s \in Seq(Nat) : s \o <<>> = s
  OBVIOUS
<1>2. p \o q \in Seq(Nat) /\ p \o r \in Seq(Nat)
  OBVIOUS
<1>3. ASSUME NEW s \in Seq(Nat) PROVE s \o Append(r, n) = Append(s \o r, n)
  BY SMTT(30)
<1>4. p \o <<>> = p /\ (p \o r) \o <<>> = p \o r /\ (p \o q) \o <<>> = p \o q
  BY <1>1, <1>2
<1>5. (p \o q) \o Append(r, n) = Append((p \o q) \o r, n)
  BY <1>2, <1>3
<1>6. QED
  BY <1>2, <1>4, <1>5

-----------------------------------------------------------------------------
(* The steps.                                                              *)

(* An application that has not begun (AApplication.cpp:35-40).             *)
LEMMA InitInv == Init => IInv
<1> SUFFICES ASSUME Init PROVE IInv
  OBVIOUS
<1>1. TypeOK /\ FlushInv
  <2>1. \A S : <<>> \in Seq(S)
    OBVIOUS
  <2>2. QED
    BY <2>1 DEF Init, TypeOK, FlushInv, Files
<1>2. (<<>> \o <<>>) \o <<>> = [i \in 1..0 |-> i]
  OBVIOUS
<1>3. OnceInOrder
  BY <1>2 DEF Init, OnceInOrder
<1>4. QED
  BY <1>1, <1>3 DEF IInv

(* flush() takes what is queued and prints nothing (AsyncLogger.cpp:28-34).*)
LEMMA FlushFacts ==
  ASSUME IInv, NEW who \in {"run", "stop"}, flushing = "no", main = "run", Flush(who)
  PROVE  /\ flushing' \in {"run", "stop"} /\ logged' \in Nat
         /\ logs' \in Seq(Nat) /\ m_logs' \in Seq(Nat) /\ printed' \in Seq(Nat)
         /\ OnceInOrder'
<1>1. /\ logs = <<>> /\ m_logs \in Seq(Nat) /\ printed \in Seq(Nat)
      /\ logged \in Nat /\ OnceInOrder
  BY DEF IInv, TypeOK, FlushInv
<1>2. /\ flushing' = who /\ logs' = m_logs /\ m_logs' = <<>>
      /\ logged' = logged /\ printed' = printed
  BY DEF Flush
<1>3. (printed \o <<>>) \o m_logs = (printed \o m_logs) \o <<>>
  BY <1>1, Concat
<1>4. <<>> \in Seq(Nat)
  OBVIOUS
<1>5. QED
  BY <1>1, <1>2, <1>3, <1>4 DEF OnceInOrder

(* Steps that take, print or log nothing (BaseConfigApplication.cpp:41-83).*)
LEMMA QuietStep ==
  ASSUME IInv, TypeOK', UNCHANGED <<text, flushing>>,
         main' # "gone", main # "gone", main # "run" \/ flushing = "no" \/ main' = main,
         main' = "reset" => m_currentLogger' = "default"
  PROVE  IInv'
<1>1. FlushInv'
  BY DEF IInv, FlushInv, text, TypeOK
<1>2. OnceInOrder'
  BY DEF IInv, OnceInOrder, text
<1>3. QED
  BY <1>1, <1>2 DEF IInv

(* The main thread (BaseConfigApplication.cpp:41-70, AsyncLogger.cpp:11-13).*)
LEMMA MainInv ==
  ASSUME IInv, Main
  PROVE  IInv'
<1>0. TypeOK /\ FlushInv /\ OnceInOrder
  BY DEF IInv
<1>1. CASE ProcessArgs \/ ReadConfig \/ StartApp \/ RunReturns \/ ResetLogger
  <2>0. file' \in Files
    BY <1>0, <1>1 DEF TypeOK, Files, ProcessArgs, ReadConfig, StartApp, RunReturns,
                      ResetLogger
  <2>1. TypeOK'
    BY <1>0, <1>1, <2>0 DEF TypeOK, ProcessArgs, ReadConfig, StartApp, RunReturns,
                      ResetLogger, exit, logger, text
  <2>2. /\ UNCHANGED <<text, flushing>>
        /\ main' # "gone" /\ main # "gone"
        /\ main # "run" \/ flushing = "no"
        /\ main' = "reset" => m_currentLogger' = "default"
    BY <1>1 DEF ProcessArgs, ReadConfig, StartApp, RunReturns, ResetLogger, Idle,
                exit, logger, text
  <2>3. QED
    BY <2>1, <2>2, QuietStep
<1>2. CASE StartLogger
  <2>1. TypeOK'
    BY <1>0, <1>2 DEF TypeOK, StartLogger, exit, text
  <2>2. QED
    BY <1>2, <2>1, QuietStep DEF StartLogger
<1>3. CASE DestroyLogger
  <2>1. /\ printed' = printed \o m_logs /\ m_logs' = <<>> /\ logs' = logs
        /\ logged' = logged /\ flushing' = flushing /\ main = "reset"
        /\ main' = "gone" /\ m_currentLogger' = m_currentLogger
    BY <1>3 DEF DestroyLogger, logger
  <2>2. flushing = "no" /\ logs = <<>>
    BY <1>0, <2>1 DEF FlushInv
  <2>3. printed \o m_logs \in Seq(Nat)
    BY <1>0, Concat DEF TypeOK
  <2>4. TypeOK'
    BY <1>0, <1>3, <2>3 DEF TypeOK, DestroyLogger, exit, logger
  <2>5. FlushInv'
    BY <1>0, <2>1, <2>2 DEF FlushInv
  <2>6. (printed \o <<>>) \o m_logs = ((printed \o m_logs) \o <<>>) \o <<>>
    <3>1. printed \in Seq(Nat) /\ m_logs \in Seq(Nat) /\ <<>> \in Seq(Nat)
      BY <1>0 DEF TypeOK
    <3>2. (printed \o <<>>) \o m_logs = (printed \o m_logs) \o <<>>
      BY <3>1, Concat
    <3>3. (printed \o m_logs) \o <<>> = ((printed \o m_logs) \o <<>>) \o <<>>
      BY <3>1, Concat
    <3>4. QED
      BY <3>2, <3>3
  <2>7. OnceInOrder'
    BY <1>0, <2>1, <2>2, <2>6 DEF OnceInOrder
  <2>8. QED
    BY <2>4, <2>5, <2>7 DEF IInv
<1>4. QED
  BY <1>1, <1>2, <1>3 DEF Main

(* Exit requests, their lambda, and tasks (AApplication.cpp:13-28,         *)
(* BaseConfigApplication.cpp:73-82).                                       *)
LEMMA ExitInv ==
  ASSUME IInv, CallOnExit \/ DoExit \/ StopPool \/ TasksEnd
  PROVE  IInv'
<1>0. TypeOK /\ (main = "gone" => main' = "gone" /\ m_currentLogger' = m_currentLogger)
  BY DEF IInv, CallOnExit, DoExit, StopPool, TasksEnd
<1>1. TypeOK'
  <2>1. CASE CallOnExit
    BY <1>0, <2>1 DEF TypeOK, CallOnExit, logger, text
  <2>2. CASE DoExit
    <3>1. /\ posted' \in Nat /\ exits' \in Nat /\ exiting' \in BOOLEAN
          /\ strand' \in Seq({"start", "stop", "ok", "canceled"})
      BY <1>0, <2>2 DEF TypeOK, DoExit
    <3>2. QED
      BY <1>0, <2>2, <3>1 DEF TypeOK, DoExit, text
  <2>3. CASE StopPool
    <3>1. exiting' = FALSE /\ m_workGuard' = FALSE
      BY <2>3 DEF StopPool
    <3>2. UNCHANGED <<main, file, m_currentLogger, requests, g_oneExit, posted, exits,
                      tasks, logger, text>>
      BY <2>3 DEF StopPool
    <3>3. QED
      BY <1>0, <3>1, <3>2, ZenonT(90) DEF TypeOK, logger, text
  <2>4. CASE TasksEnd
    BY <1>0, <2>4, ZenonT(30) DEF TypeOK, TasksEnd, logger, text
  <2>5. QED
    BY <2>1, <2>2, <2>3, <2>4
<1>2. UNCHANGED <<main, file, m_currentLogger, flushing, text>>
  BY DEF CallOnExit, DoExit, StopPool, TasksEnd, logger
<1>3. FlushInv' /\ OnceInOrder'
  BY <1>2 DEF IInv, FlushInv, OnceInOrder, text
<1>4. QED
  BY <1>1, <1>3 DEF IInv

(* A message is logged (AsyncLogger.cpp:20-26).                            *)
LEMMA LogInv ==
  ASSUME IInv, LogImpl
  PROVE  IInv'
<1>1. /\ TypeOK /\ FlushInv /\ OnceInOrder
      /\ m_currentLogger = "async"
      /\ logged' = logged + 1 /\ m_logs' = Append(m_logs, logged + 1)
      /\ UNCHANGED <<main, file, m_currentLogger, flushing, logs, printed>>
  BY DEF IInv, LogImpl, logger
<1>2. logged + 1 \in Nat
  BY <1>1 DEF TypeOK
<1>3. m_logs' \in Seq(Nat)
  BY <1>1, <1>2 DEF TypeOK
<1>4. TypeOK'
  BY <1>1, <1>2, <1>3 DEF TypeOK, LogImpl, exit, logger
<1>5. FlushInv'
  BY <1>1 DEF FlushInv
<1>6. (printed \o logs) \o Append(m_logs, logged + 1)
        = Append((printed \o logs) \o m_logs, logged + 1)
  <2>1. printed \in Seq(Nat) /\ logs \in Seq(Nat) /\ m_logs \in Seq(Nat)
    BY <1>1 DEF TypeOK
  <2>2. QED
    BY <1>2, <2>1, Concat, SMTT(30)
<1>7. (printed \o logs) \o m_logs = Numbers(logged) /\ logged \in Nat
  BY <1>1 DEF OnceInOrder, Numbers, TypeOK
<1>8. OnceInOrder'
  BY <1>1, <1>6, <1>7, NumbersAppend DEF OnceInOrder, Numbers
<1>9. QED
  BY <1>4, <1>5, <1>8 DEF IInv

(* The logger's strand (AsyncLogger.cpp:15-18, 28-58).                     *)
LEMMA LoggerInv ==
  ASSUME IInv, LoggerStart \/ LoggerStop \/ Printed \/ Expire \/ LoggerResume
  PROVE  IInv'
<1>0. TypeOK /\ FlushInv /\ OnceInOrder
  BY DEF IInv
<1>t. ASSUME NEW h, Turn(h)
      PROVE  /\ main = "run" /\ flushing = "no"
             /\ Tail(strand) \in Seq({"start", "stop", "ok", "canceled"})
  BY <1>0, <1>t DEF Turn, TypeOK
<1>1. CASE LoggerStart
  <2>1. /\ Turn("start") /\ Flush("run")
        /\ m_state' = "RUNNING" /\ strand' = Tail(strand)
        /\ UNCHANGED <<main, file, m_currentLogger, exit, pc, timer>>
    BY <1>1 DEF LoggerStart
  <2>2. TypeOK'
    BY <1>0, <1>t, <2>1, FlushFacts DEF TypeOK, exit
  <2>3. FlushInv'
    BY <1>t, <2>1, FlushFacts DEF FlushInv
  <2>4. QED
    BY <1>t, <2>1, <2>2, <2>3, FlushFacts DEF IInv
<1>2. CASE LoggerStop
  <2>1. /\ Turn("stop") /\ Flush("stop")
        /\ m_state' = "STOPPED" /\ strand' = Tail(strand)
        /\ UNCHANGED <<main, file, m_currentLogger, exit, pc, timer>>
    BY <1>2 DEF LoggerStop
  <2>2. TypeOK'
    BY <1>0, <1>t, <2>1, FlushFacts DEF TypeOK, exit
  <2>3. FlushInv'
    BY <1>t, <2>1, FlushFacts DEF FlushInv
  <2>4. QED
    BY <1>t, <2>1, <2>2, <2>3, FlushFacts DEF IInv
<1>3. CASE Printed
  <2>1. /\ printed' = printed \o logs /\ logs' = <<>> /\ flushing' = "no"
        /\ m_logs' = m_logs /\ logged' = logged /\ main' = main
        /\ m_currentLogger' = m_currentLogger
    BY <1>3 DEF Printed
  <2>2. printed \in Seq(Nat) /\ logs \in Seq(Nat) /\ m_logs \in Seq(Nat)
    BY <1>0 DEF TypeOK
  <2>3. printed' \in Seq(Nat) /\ logs' \in Seq(Nat)
    BY <2>1, <2>2, Concat
  <2>4. strand' \in Seq({"start", "stop", "ok", "canceled"})
    BY <1>0, <1>3 DEF Printed, TypeOK
  <2>5. pc' \in {"none", "wait", "over"} /\ timer' \in BOOLEAN
    BY <1>0, <1>3 DEF Printed, TypeOK
  <2>6. TypeOK'
    BY <1>0, <1>3, <2>1, <2>3, <2>4, <2>5 DEF Printed, TypeOK, exit
  <2>7. FlushInv'
    BY <1>0, <2>1 DEF FlushInv
  <2>8. (printed \o logs) \o m_logs = ((printed \o logs) \o <<>>) \o m_logs
    BY <2>2, Concat
  <2>9. OnceInOrder'
    BY <1>0, <2>1, <2>8 DEF OnceInOrder
  <2>10. QED
    BY <2>6, <2>7, <2>9 DEF IInv
<1>4. CASE Expire
  <2>0. strand' \in Seq({"start", "stop", "ok", "canceled"})
    <3>1. strand' = Append(strand, "ok")
      BY <1>4 DEF Expire
    <3>2. strand \in Seq({"start", "stop", "ok", "canceled"})
      BY <1>0 DEF TypeOK
    <3>3. QED
      BY <3>1, <3>2
  <2>t. timer' = FALSE
    BY <1>4 DEF Expire
  <2>1. TypeOK'
    BY <1>0, <1>4, <2>0, <2>t DEF Expire, TypeOK, exit, text
  <2>2. QED
    BY <1>4, <2>1, QuietStep DEF Expire
<1>5. CASE LoggerResume
  <2>1. strand' = Tail(strand) /\ UNCHANGED <<main, file, m_currentLogger, exit, m_state, timer>>
    BY <1>5 DEF LoggerResume
  <2>2. CASE Turn("ok") /\ Flush("run") /\ UNCHANGED pc
    <3>1. TypeOK'
      BY <1>0, <1>t, <2>1, <2>2, FlushFacts DEF TypeOK, exit
    <3>2. FlushInv'
      BY <1>t, <2>1, <2>2, FlushFacts DEF FlushInv
    <3>3. QED
      BY <1>t, <2>2, <3>1, <3>2, FlushFacts DEF IInv
  <2>3. CASE /\ Turn("canceled") \/ Turn("ok")
             /\ pc' = "over" /\ UNCHANGED <<flushing, text>>
    <3>1. TypeOK'
      BY <1>0, <1>t, <2>1, <2>3 DEF TypeOK, exit, text
    <3>2. main = "run"
      BY <1>t, <2>3
    <3>3. QED
      BY <2>1, <2>3, <3>1, <3>2, QuietStep
  <2>4. QED
    BY <1>5, <2>2, <2>3 DEF LoggerResume
<1>6. QED
  BY <1>1, <1>2, <1>3, <1>4, <1>5

-----------------------------------------------------------------------------
(* The theorems.                                                           *)

(* Every step preserves the invariant (BaseConfigApplication.cpp:41-83).   *)
LEMMA StepInv == IInv /\ [Next]_vars => IInv'
<1> SUFFICES ASSUME IInv, [Next]_vars PROVE IInv'
  OBVIOUS
<1>1. CASE Main
  BY <1>1, MainInv
<1>2. CASE CallOnExit \/ DoExit \/ StopPool \/ TasksEnd
  BY <1>2, ExitInv
<1>3. CASE LoggerStart \/ LoggerStop \/ Printed \/ Expire \/ LoggerResume
  BY <1>3, LoggerInv
<1>4. CASE LogImpl
  BY <1>4, LogInv
<1>5. CASE UNCHANGED vars
  BY <1>5 DEF vars, exit, logger, text, IInv, TypeOK, FlushInv, OnceInOrder
<1>6. QED
  BY <1>1, <1>2, <1>3, <1>4, <1>5 DEF Next, Pool

(* The inductive invariant: what a flush() took is printed before the      *)
(* strand goes on and before the pool ends (AsyncLogger.cpp:28-51).        *)
THEOREM Inductive == Spec => []IInv
<1>1. QED
  BY InitInv, StepInv, PTL DEF Spec

(* Each variable keeps its type (BaseConfigApplication.h, AsyncLogger.hpp).*)
THEOREM TypeCorrect == Spec => []TypeOK
<1>1. IInv => TypeOK
  BY DEF IInv
<1>2. QED
  BY <1>1, Inductive, PTL

(* Each message is printed, about to be, or queued, once and in the order  *)
(* of the calls (AsyncLogger.cpp:20-51).                                   *)
THEOREM OnceInOrderHolds == Spec => []OnceInOrder
<1>1. IInv => OnceInOrder
  BY DEF IInv
<1>2. QED
  BY <1>1, Inductive, PTL

(* No message is lost at the end (AsyncLogger.cpp:11-13).                  *)
THEOREM NothingLostHolds == Spec => []NothingLost
<1>1. IInv => NothingLost
  <2> SUFFICES ASSUME IInv, main = "gone" PROVE Len(printed) = logged
    BY DEF NothingLost
  <2>1. /\ logs = <<>> /\ m_logs = <<>>
        /\ (printed \o logs) \o m_logs = Numbers(logged)
        /\ printed \in Seq(Nat) /\ logged \in Nat
    BY DEF IInv, FlushInv, OnceInOrder, Numbers, TypeOK
  <2>2. printed = Numbers(logged)
    BY <2>1, Concat
  <2>3. QED
    BY <2>1, <2>2 DEF Numbers
<1>2. QED
  BY <1>1, Inductive, PTL

-----------------------------------------------------------------------------
(* The order of exit.                                                      *)

(* The start is the head of the strand, which is empty before it; one exit *)
(* was asked for, at most.                                                 *)
StartInv ==
  /\ main \in {"args", "config", "start", "logger"} =>
       strand = <<>> /\ m_state = "INITIAL"
  /\ flushing # "no" \/ timer => main \notin {"args", "config", "start", "logger"}
  /\ \A i \in 1..Len(strand) : strand[i] = "start" => i = 1 /\ m_state = "INITIAL"
  /\ ~g_oneExit => posted = 0 /\ exits = 0
  /\ posted + exits <= 1

(* What is queued behind the head, or at the end, is no start              *)
(* (BaseConfigApplication.cpp:59, AsyncLogger.cpp:53-58).                  *)
LEMMA StrandFacts ==
  ASSUME NEW s \in Seq({"start", "stop", "ok", "canceled"}),
         NEW h \in {"stop", "ok", "canceled"},
         \A i \in 1..Len(s) : s[i] = "start" => i = 1
  PROVE  /\ \A i \in 1..Len(Append(s, h)) : Append(s, h)[i] = "start" =>
              i = 1 /\ i \in 1..Len(s) /\ s[i] = "start"
         /\ s # <<>> => \A i \in 1..Len(Tail(s)) : Tail(s)[i] # "start"
<1>1. \A i \in 1..Len(Append(s, h)) : Append(s, h)[i] = "start" =>
        i = 1 /\ i \in 1..Len(s) /\ s[i] = "start"
  OBVIOUS
<1>2. ASSUME s # <<>>, NEW i \in 1..Len(Tail(s)) PROVE Tail(s)[i] # "start"
  <2>1. Tail(s)[i] = s[i + 1] /\ i + 1 \in 1..Len(s) /\ i + 1 # 1
    BY <1>2
  <2>2. QED
    BY <2>1
<1>3. QED
  BY <1>1, <1>2

(* The main thread and exit (BaseConfigApplication.cpp:41-83).             *)
LEMMA StartInvExit ==
  ASSUME TypeOK, StartInv, Main \/ CallOnExit \/ DoExit \/ StopPool \/ TasksEnd \/ LogImpl
  PROVE  StartInv'
<1>0. strand \in Seq({"start", "stop", "ok", "canceled"}) /\ posted \in Nat /\ exits \in Nat
  BY DEF TypeOK
<1>1. CASE StartLogger
  <2>1. strand' = Append(strand, "start") /\ strand = <<>> /\ main' = "run"
    BY <1>1 DEF StartLogger, StartInv
  <2>2. Len(strand') = 1
    BY <2>1
  <2>3. m_state = "INITIAL"
    BY <1>1 DEF StartLogger, StartInv
  <2>4. QED
    BY <1>1, <2>1, <2>2, <2>3 DEF StartLogger, StartInv, exit
<1>2. CASE Main /\ ~StartLogger
  BY <1>2 DEF Main, ProcessArgs, ReadConfig, StartApp, RunReturns, ResetLogger,
              DestroyLogger, StartInv, exit, logger
<1>3. CASE CallOnExit
  BY <1>0, <1>3 DEF CallOnExit, StartInv, logger
<1>4. CASE DoExit
  <2>1. strand' = Append(strand, "stop") /\ m_state' = m_state
    BY <1>4 DEF DoExit
  <2>2. \A i \in 1..Len(strand') : strand'[i] = "start" => i = 1 /\ m_state' = "INITIAL"
    BY <1>0, <2>1, StrandFacts DEF StartInv
  <2>3. QED
    BY <1>0, <1>4, <2>2 DEF DoExit, StartInv
<1>5. CASE StopPool \/ TasksEnd \/ LogImpl
  BY <1>5 DEF StopPool, TasksEnd, LogImpl, StartInv, exit, logger
<1>6. QED
  BY <1>1, <1>2, <1>3, <1>4, <1>5

(* The logger (AsyncLogger.cpp:15-18, 53-58).                              *)
LEMMA StartInvLogger ==
  ASSUME TypeOK, StartInv,
         LoggerStart \/ LoggerStop \/ Printed \/ Expire \/ LoggerResume
  PROVE  StartInv'
<1>0. strand \in Seq({"start", "stop", "ok", "canceled"})
  BY DEF TypeOK
<1>1. \A i \in 1..Len(strand) : strand[i] = "start" => i = 1
  BY DEF StartInv
<1>2. CASE LoggerStart \/ LoggerStop \/ LoggerResume
  <2>1. /\ strand' = Tail(strand) /\ strand # <<>> /\ main = "run"
        /\ UNCHANGED <<main, exit, timer>>
    BY <1>2 DEF LoggerStart, LoggerStop, LoggerResume, Turn
  <2>2. \A i \in 1..Len(strand') : strand'[i] # "start"
    BY <1>0, <1>1, <2>1, StrandFacts
  <2>3. QED
    BY <2>1, <2>2 DEF StartInv, exit
<1>3. CASE Printed \/ Expire
  <2>1. /\ UNCHANGED <<main, exit, m_state>>
        /\ main \notin {"args", "config", "start", "logger"}
        /\ \/ strand' = strand
           \/ strand' = Append(strand, "ok")
           \/ strand' = Append(strand, "canceled")
    BY <1>3 DEF Printed, Expire, StartInv
  <2>2. \A i \in 1..Len(strand') : strand'[i] = "start" => i = 1 /\ m_state = "INITIAL"
    <3>1. CASE strand' = strand
      BY <3>1 DEF StartInv
    <3>2. CASE strand' = Append(strand, "ok")
      BY <1>0, <1>1, <3>2, StrandFacts DEF StartInv
    <3>3. CASE strand' = Append(strand, "canceled")
      BY <1>0, <1>1, <3>3, StrandFacts DEF StartInv
    <3>4. QED
      BY <2>1, <3>1, <3>2, <3>3
  <2>3. QED
    BY <2>1, <2>2 DEF StartInv, exit
<1>4. QED
  BY <1>2, <1>3

(* Exit logic runs once and finds a logger whose start is in its strand    *)
(* (AApplication.cpp:14-17, BaseConfigApplication.cpp:59-60, 73-82).       *)
THEOREM ExitInOrderHolds == Spec => []ExitInOrder
<1>1. Init => StartInv
  BY DEF Init, StartInv
<1>2. TypeOK /\ StartInv /\ [Next]_vars => StartInv'
  <2> SUFFICES ASSUME TypeOK, StartInv, [Next]_vars PROVE StartInv'
    OBVIOUS
  <2>1. CASE Next
    BY <2>1, StartInvExit, StartInvLogger DEF Next, Pool
  <2>2. CASE UNCHANGED vars
    BY <2>2 DEF vars, exit, logger, StartInv
  <2>3. QED
    BY <2>1, <2>2
<1>3. TypeOK /\ StartInv => ExitInOrder
  BY DEF TypeOK, StartInv, ExitInOrder
<1>4. QED
  BY <1>1, <1>2, <1>3, TypeCorrect, PTL DEF Spec

-----------------------------------------------------------------------------
(* The config file.  What the loop of parseArray leaves after n turns is   *)
(* shown by induction on n: a set that has 0, and n + 1 if it has n, is    *)
(* all of Nat, since the naturals are well-founded.                        *)

LEMMA Induction ==
  ASSUME NEW S, 0 \in S, \A n \in Nat : n \in S => n + 1 \in S
  PROVE  \A n \in Nat : n \in S
<1> DEFINE R == {p \in Nat \X Nat : p[1] < p[2]}
           T == Nat \ S
<1>1. IsWellFoundedOn(R, Nat)
  BY NatLessThanWellFounded, Zenon DEF OpToRel
<1>2. \A m, n \in Nat : m < n => <<m, n>> \in R
  OBVIOUS
<1> HIDE DEF R
<1>3. CASE T # {}
  <2>1. PICK n \in T : \A m \in T : ~ (<<m, n>> \in R)
    BY <1>1, <1>3, WFMin
  <2>2. n # 0 /\ n - 1 \in Nat /\ n - 1 < n /\ (n - 1) + 1 = n
    BY <2>1
  <2>3. n - 1 \notin T
    BY <1>2, <2>1, <2>2
  <2>4. QED
    BY <2>1, <2>2, <2>3
<1>4. QED
  BY <1>3

(* An entry is added exactly if it is good and skipped exactly if it is    *)
(* off (ArrayParser.cpp:16-39).                                            *)
LEMMA ParseFacts ==
  ASSUME NEW e \in Entry
  PROVE  /\ Parse(e) \in {"add", "skip", "fail"}
         /\ Parse(e) = "add" <=> Good(e)
         /\ Parse(e) = "skip" <=> Off(e)
<1>1. /\ e.object \in BOOLEAN /\ e.optional \in BOOLEAN
      /\ e.enabled \in {"absent", "true", "false", "other"}
      /\ e.create \in {"item", "null", "throws"}
      /\ e.value \in {"absent", "typed", "other"}
  BY DEF Entry
<1>2. CASE ~e.object \/ e.enabled = "other"
  BY <1>1, <1>2 DEF Parse, IsEnabled, Good, Off
<1>3. CASE e.object /\ e.enabled = "false"
  BY <1>1, <1>3 DEF Parse, IsEnabled, Good, Off
<1>4. CASE e.object /\ e.enabled \in {"absent", "true"}
  <2>1. IsEnabled(e) = "yes"
    BY <1>4 DEF IsEnabled
  <2>2. CASE e.create = "null"
    BY <1>4, <2>1, <2>2 DEF Parse, Good, Off
  <2>3. CASE e.create = "throws"
    BY <1>4, <2>1, <2>3 DEF Parse, Good, Off
  <2>4. CASE e.create = "item"
    BY <1>1, <1>4, <2>1, <2>4 DEF Parse, Get, Good, Off
  <2>5. QED
    BY <1>1, <2>2, <2>3, <2>4
<1>5. QED
  BY <1>1, <1>2, <1>3, <1>4

(* parsed[n], the result after n entries, is what the loop computes        *)
(* (ArrayParser.cpp:12-40).                                                *)
Loop(entries, f, n) ==
  IF n = 0 THEN [ok |-> TRUE, items |-> <<>>]
  ELSE IF ~f[n - 1].ok \/ Parse(entries[n]) = "skip" THEN f[n - 1]
  ELSE IF Parse(entries[n]) = "fail" THEN [f[n - 1] EXCEPT !.ok = FALSE]
  ELSE [f[n - 1] EXCEPT !.items = Append(@, entries[n])]

LEMMA LoopDefined ==
  ASSUME NEW entries, NEW N \in Nat
  PROVE  \E f : f = [n \in 0..N |-> Loop(entries, f, n)]
<1> DEFINE D == {m \in Nat : \E f : f = [n \in 0..m |-> Loop(entries, f, n)]}
<1>1. 0 \in D
  <2> DEFINE f == [n \in 0..0 |-> Loop(entries, <<>>, 0)]
  <2>1. f = [n \in 0..0 |-> Loop(entries, f, n)]
    BY DEF Loop
  <2>3. QED
    BY <2>1
<1>2. ASSUME NEW m \in Nat, m \in D PROVE m + 1 \in D
  <2>1. PICK f : f = [n \in 0..m |-> Loop(entries, f, n)]
    BY <1>2
  <2> DEFINE g == [n \in 0..(m + 1) |-> IF n = m + 1 THEN Loop(entries, f, n) ELSE f[n]]
  <2>2. g = [n \in 0..(m + 1) |-> IF n = m + 1 THEN Loop(entries, f, n) ELSE f[n]]
    OBVIOUS
  <2> HIDE DEF g
  <2>3. ASSUME NEW n \in 0..(m + 1) PROVE g[n] = Loop(entries, g, n)
    <3>1. n # 0 => g[n - 1] = f[n - 1]
      BY <2>2
    <3>2. Loop(entries, g, n) = Loop(entries, f, n)
      BY <3>1 DEF Loop
    <3>3. n # m + 1 => f[n] = Loop(entries, f, n)
      BY <2>1
    <3>4. QED
      BY <2>2, <3>2, <3>3
  <2>4. g = [n \in 0..(m + 1) |-> Loop(entries, g, n)]
    BY <2>3, <2>2
  <2>5. QED
    BY <2>4
<1> HIDE DEF D
<1>3. N \in D
  BY <1>1, <1>2, Induction
<1>4. QED
  BY <1>3 DEF D

LEMMA ParseArrayLoops ==
  ASSUME NEW entries, Len(entries) \in Nat
  PROVE  \E f : /\ ParseArray(entries) = f[Len(entries)]
                /\ \A n \in 0..Len(entries) : f[n] = Loop(entries, f, n)
<1> DEFINE f == CHOOSE h : h = [n \in 0..Len(entries) |-> Loop(entries, h, n)]
<1>1. ParseArray(entries) = f[Len(entries)]
  BY Zenon DEF ParseArray, Loop
<1>2. f = [n \in 0..Len(entries) |-> Loop(entries, f, n)]
  BY LoopDefined
<1>3. QED
  BY <1>1, <1>2

(* AllGood of the first n entries.                                         *)
PicksGood(items, len, entries, n) ==
  \E at \in [1..len -> 1..n] :
    /\ \A i, j \in 1..len : i < j => at[i] < at[j]
    /\ \A i \in 1..len : items[i] = entries[at[i]]
    /\ \A k \in 1..n : Good(entries[k]) <=> \E i \in 1..len : at[i] = k

GoodBefore(items, entries, n) == PicksGood(items, Len(items), entries, n)

LEMMA GoodExtend ==
  ASSUME NEW S, NEW items \in Seq(S), NEW entries, NEW n \in Nat,
         entries[n + 1] \in S, GoodBefore(items, entries, n)
  PROVE  /\ ~Good(entries[n + 1]) => GoodBefore(items, entries, n + 1)
         /\ Good(entries[n + 1]) =>
              GoodBefore(Append(items, entries[n + 1]), entries, n + 1)
<1> DEFINE e == entries[n + 1]
           L == Len(items)
           more == Append(items, e)
<1>1. PICK at \in [1..L -> 1..n] :
        /\ \A i, j \in 1..L : i < j => at[i] < at[j]
        /\ \A i \in 1..L : items[i] = entries[at[i]]
        /\ \A k \in 1..n : Good(entries[k]) <=> \E i \in 1..L : at[i] = k
  BY DEF GoodBefore, PicksGood
<1>2. /\ L \in Nat /\ Len(more) = L + 1 /\ more[L + 1] = e
      /\ \A i \in 1..L : more[i] = items[i]
  OBVIOUS
<1>3. \A k \in 1..(n + 1) : k \in 1..n \/ k = n + 1
  OBVIOUS
<1>4. CASE ~Good(e)
  <2>1. at \in [1..L -> 1..(n + 1)] /\ \A i \in 1..L : at[i] # n + 1
    BY <1>1, <1>2
  <2> HIDE DEF e, L, more
  <2>2. \A k \in 1..(n + 1) : Good(entries[k]) <=> \E i \in 1..L : at[i] = k
    BY <1>1, <1>3, <1>4, <2>1 DEF e
  <2>3. PicksGood(items, L, entries, n + 1)
    BY ONLY <1>1, <2>1, <2>2, Zenon DEF PicksGood
  <2>4. QED
    BY <1>4, <2>3 DEF GoodBefore, e, L
<1>5. CASE Good(e)
  <2> DEFINE to == [i \in 1..(L + 1) |-> IF i = L + 1 THEN n + 1 ELSE at[i]]
  <2>1. /\ to \in [1..(L + 1) -> 1..(n + 1)] /\ to[L + 1] = n + 1
        /\ \A i \in 1..L : to[i] = at[i] /\ at[i] \in 1..n
        /\ \A i \in 1..(L + 1) : i \in 1..L \/ i = L + 1
    <3>1. \A i \in 1..(L + 1) : i \in 1..L \/ i = L + 1
      BY <1>2
    <3>2. n + 1 \in 1..(n + 1) /\ \A i \in 1..L : at[i] \in 1..n
      OBVIOUS
    <3>3. \A i \in 1..L : i # L + 1 /\ i \in 1..(L + 1)
      BY <1>2
    <3>4. \A k \in 1..n : k \in 1..(n + 1)
      OBVIOUS
    <3>5. L + 1 \in 1..(L + 1)
      BY <1>2
    <3> HIDE DEF L
    <3>6. QED
      BY ONLY <3>1, <3>2, <3>3, <3>4, <3>5
  <2> HIDE DEF to, e, L, more
  <2>2. \A i, j \in 1..(L + 1) : i < j => to[i] < to[j]
    <3> SUFFICES ASSUME NEW i \in 1..(L + 1), NEW j \in 1..(L + 1), i < j
                 PROVE  to[i] < to[j]
      OBVIOUS
    <3>1. i \in 1..L
      BY <1>2
    <3>2. QED
      BY <1>1, <2>1, <3>1
  <2>3. \A i \in 1..(L + 1) : more[i] = entries[to[i]]
    BY <1>1, <1>2, <2>1 DEF e
  <2>4. \A k \in 1..(n + 1) : Good(entries[k]) <=> \E i \in 1..(L + 1) : to[i] = k
    <3>1. L + 1 \in 1..(L + 1) /\ \A i \in 1..L : i \in 1..(L + 1)
      BY <1>2
    <3>2. ASSUME NEW k \in 1..n
          PROVE  Good(entries[k]) <=> \E i \in 1..(L + 1) : to[i] = k
      <4>1. k # n + 1
        OBVIOUS
      <4>2. QED
        BY <1>1, <2>1, <3>1, <4>1
    <3>3. QED
      BY <1>3, <1>5, <2>1, <3>1, <3>2 DEF e
  <2>5. PicksGood(more, L + 1, entries, n + 1)
    BY ONLY <2>1, <2>2, <2>3, <2>4, Zenon DEF PicksGood
  <2>6. QED
    BY <1>2, <1>5, <2>5 DEF GoodBefore, e, more
<1>6. QED
  BY <1>4, <1>5

(* readConfig takes a file as a whole: all of its good entries, or nothing *)
(* if one of the others is not off (ArrayParser.cpp:12-40).                *)
LEMMA ParseArrayFacts ==
  ASSUME NEW entries, Len(entries) \in Nat, \A n \in 1..Len(entries) : entries[n] \in Entry
  PROVE  LET p == ParseArray(entries) IN
         /\ p.ok \in BOOLEAN
         /\ p.ok <=> \A n \in 1..Len(entries) : Good(entries[n]) \/ Off(entries[n])
         /\ p.ok => GoodBefore(p.items, entries, Len(entries))
<1> DEFINE N == Len(entries)
<1>1. PICK f : /\ ParseArray(entries) = f[N]
               /\ \A n \in 0..N : f[n] = Loop(entries, f, n)
  BY ParseArrayLoops
<1> DEFINE Done(n) ==
             /\ f[n] \in [ok : BOOLEAN, items : Seq(Entry)]
             /\ f[n].ok <=> \A k \in 1..n : Good(entries[k]) \/ Off(entries[k])
             /\ f[n].ok => GoodBefore(f[n].items, entries, n)
           D == {n \in Nat : n <= N => Done(n)}
<1>2. Done(0)
  <2>1. f[0] = [ok |-> TRUE, items |-> <<>>]
    <3>1. f[0] = Loop(entries, f, 0)
      BY <1>1
    <3>2. QED
      BY <3>1 DEF Loop
  <2>2. GoodBefore(<<>>, entries, 0)
    <3>1. [i \in 1..0 |-> i] \in [1..Len(<<>>) -> 1..0] /\ 1..Len(<<>>) = {}
      OBVIOUS
    <3>2. QED
      BY <3>1 DEF GoodBefore, PicksGood
  <2>3. QED
    BY <2>1, <2>2
<1>3. ASSUME NEW n \in Nat, n < N, Done(n) PROVE Done(n + 1)
  <2> DEFINE e == entries[n + 1]
             p == f[n]
             q == f[n + 1]
  <2>1. /\ n + 1 \in 1..N /\ n + 1 # 0 /\ (n + 1) - 1 = n /\ n + 1 \in 0..N
        /\ \A k \in 1..(n + 1) : k \in 1..n \/ k = n + 1
        /\ \A k \in 1..n : k \in 1..(n + 1)
        /\ n + 1 \in 1..(n + 1)
    BY <1>3
  <2>2. e \in Entry
    BY <2>1
  <2>3. /\ p \in [ok : BOOLEAN, items : Seq(Entry)]
        /\ p.ok <=> \A k \in 1..n : Good(entries[k]) \/ Off(entries[k])
        /\ p.ok => GoodBefore(p.items, entries, n)
    BY <1>3
  <2>4. q = IF ~p.ok \/ Parse(e) = "skip" THEN p
            ELSE IF Parse(e) = "fail" THEN [p EXCEPT !.ok = FALSE]
            ELSE [p EXCEPT !.items = Append(@, e)]
    <3>1. q = Loop(entries, f, n + 1)
      BY <1>1, <2>1
    <3>2. QED
      BY <2>1, <3>1 DEF Loop
  <2> HIDE DEF Done, D, N, p, q
  <2>5. (\A k \in 1..(n + 1) : Good(entries[k]) \/ Off(entries[k])) <=>
          p.ok /\ (Good(e) \/ Off(e))
    BY <2>1, <2>3
  <2>6. p.ok => /\ ~Good(e) => GoodBefore(p.items, entries, n + 1)
                /\ Good(e) => GoodBefore(Append(p.items, e), entries, n + 1)
    BY <2>2, <2>3, GoodExtend
  <2> HIDE DEF e
  <2>7. CASE ~p.ok
    BY <2>3, <2>4, <2>5, <2>7 DEF Done, q
  <2>8. CASE p.ok /\ Parse(e) = "skip"
    <3>1. Off(e) /\ ~Good(e) /\ q = p
      BY <2>2, <2>4, <2>8, ParseFacts
    <3>2. QED
      BY <2>3, <2>5, <2>6, <2>8, <3>1 DEF Done, q
  <2>9. CASE p.ok /\ Parse(e) = "fail"
    <3>1. ~Off(e) /\ ~Good(e) /\ q = [p EXCEPT !.ok = FALSE]
      BY <2>2, <2>4, <2>9, ParseFacts
    <3>2. q \in [ok : BOOLEAN, items : Seq(Entry)] /\ ~q.ok
      BY <2>3, <3>1
    <3>3. QED
      BY <2>5, <3>1, <3>2 DEF Done, q
  <2>10. CASE p.ok /\ Parse(e) = "add"
    <3>1. Good(e) /\ q = [p EXCEPT !.items = Append(@, e)]
      BY <2>2, <2>4, <2>10, ParseFacts
    <3>2. /\ q \in [ok : BOOLEAN, items : Seq(Entry)]
          /\ q.ok /\ q.items = Append(p.items, e)
      <4> DEFINE x == Append(p.items, e)
      <4>1. q = [p EXCEPT !.items = x] /\ x \in Seq(Entry)
        BY <2>2, <2>3, <3>1
      <4> HIDE DEF x
      <4>2. q \in [ok : BOOLEAN, items : Seq(Entry)] /\ q.ok = p.ok /\ q.items = x
        BY ONLY <2>3, <4>1
      <4>3. QED
        BY <2>10, <4>2 DEF x
    <3>3. QED
      BY <2>5, <2>6, <2>10, <3>1, <3>2 DEF Done, q
  <2>11. QED
    BY <2>2, <2>7, <2>8, <2>9, <2>10, ParseFacts
<1> HIDE DEF Done
<1>4. 0 \in D
  BY <1>2
<1>5. ASSUME NEW n \in Nat, n \in D PROVE n + 1 \in D
  BY <1>3, <1>5
<1>6. N \in D
  <2> HIDE DEF D
  <2>1. QED
    BY <1>4, <1>5, Induction
<1>7. QED
  BY <1>1, <1>6 DEF Done

(* A config is taken as a whole or not at all (ArrayParser.cpp:16-39,      *)
(* Config.cpp:19-33, BaseConfigApplication.cpp:51-57).                     *)
THEOREM ConfigCompleteHolds == Spec => ConfigComplete
<1> DEFINE Whole ==
      main = "config" /\ main' # main =>
        /\ main' = "start" <=>
             /\ file.is = "array"
             /\ \A n \in DOMAIN file.entries :
                  Good(file.entries[n]) \/ Off(file.entries[n])
        /\ main' = "start" => AllGood(ReadFile(file).items, file.entries)
<1>1. ASSUME TypeOK, [Next]_vars PROVE [Whole]_vars
  <2> SUFFICES ASSUME main = "config", main' # main PROVE Whole
    OBVIOUS
  <2>1. main' = IF ReadFile(file).ok THEN "start" ELSE "over"
    BY <1>1 DEF Next, Main, Pool, vars, exit, logger, text, ProcessArgs, ReadConfig,
                StartApp, StartLogger, RunReturns, ResetLogger, DestroyLogger, DoExit,
                StopPool, LoggerStart, LoggerStop, Printed, Expire, LoggerResume,
                CallOnExit, TasksEnd, LogImpl
  <2>2. CASE file.is # "array"
    BY <2>1, <2>2 DEF ReadFile
  <2>3. CASE file.is = "array"
    <3> DEFINE entries == file.entries
    <3>1. PICK n \in 0..MaxEntries : entries \in [1..n -> Entries]
      <4>1. file \in [is : {"array"}, entries : UNION {[1..k -> Entries] : k \in 0..MaxEntries}]
        BY <1>1, <2>3 DEF TypeOK, Files, File, NoFile
      <4>2. QED
        BY <4>1
    <3>2. entries \in Seq(Entry) /\ Len(entries) = n /\ DOMAIN entries = 1..n
      BY <3>1, BoundsAssumption
    <3>3. ReadFile(file) = ParseArray(entries)
      BY <2>3 DEF ReadFile
    <3> HIDE DEF entries
    <3>4. /\ ReadFile(file).ok \in BOOLEAN
          /\ ReadFile(file).ok <=> \A k \in 1..n : Good(entries[k]) \/ Off(entries[k])
          /\ ReadFile(file).ok => GoodBefore(ReadFile(file).items, entries, n)
      BY <3>2, <3>3, ParseArrayFacts
    <3>5. ReadFile(file).ok => AllGood(ReadFile(file).items, entries)
      <4> DEFINE items == ReadFile(file).items
      <4> SUFFICES ASSUME ReadFile(file).ok PROVE AllGood(items, entries)
        OBVIOUS
      <4> HIDE DEF items
      <4>1. PICK at \in [1..Len(items) -> 1..n] :
              /\ \A i, j \in 1..Len(items) : i < j => at[i] < at[j]
              /\ \A i \in 1..Len(items) : items[i] = entries[at[i]]
              /\ \A k \in 1..n : Good(entries[k]) <=> \E i \in 1..Len(items) : at[i] = k
        BY <3>4 DEF GoodBefore, PicksGood, items
      <4>2. DOMAIN at = 1..Len(items) /\ at \in [1..Len(items) -> DOMAIN entries]
        BY <3>2, <4>1
      <4>3. /\ \A i, j \in DOMAIN at : i < j => at[i] < at[j]
            /\ \A i \in DOMAIN at : items[i] = entries[at[i]]
            /\ \A k \in DOMAIN entries :
                 Good(entries[k]) <=> \E i \in DOMAIN at : at[i] = k
        BY <3>2, <4>1, <4>2
      <4>4. QED
        BY ONLY <4>2, <4>3, Zenon DEF AllGood
    <3>6. QED
      BY <2>1, <2>3, <3>2, <3>4, <3>5 DEF entries
  <2>4. QED
    BY <2>2, <2>3
<1>2. QED
  BY <1>1, TypeCorrect, PTL DEF Spec, ConfigComplete

-----------------------------------------------------------------------------
(* The end of the pool.                                                    *)

Has(q, h) == \E i \in 1..Len(q) : q[i] = h

(* What the one exit request has done, and how far the logger is: it waits *)
(* for a timer or for what ends the wait, until it is stopped.             *)
EndInv ==
  /\ g_oneExit => posted + exits = 1
  /\ exits = 0 => m_state # "STOPPED" /\ ~Has(strand, "stop")
  /\ exits = 1 => exiting \/ ~m_workGuard
  /\ exits = 1 /\ m_state # "STOPPED" => Has(strand, "stop")
  /\ m_state = "STOPPED" => /\ ~Has(strand, "stop")
                            /\ pc # "none" /\ flushing # "run"
                            /\ flushing = "no" => ~timer
  /\ \A i, j \in 1..Len(strand) : strand[i] = "stop" /\ strand[j] = "stop" => i = j
  /\ m_state = "INITIAL" => /\ pc = "none" /\ flushing = "no" /\ ~timer
                            /\ ~Has(strand, "canceled")
                            /\ main = "run" => Has(strand, "start")
  /\ m_state = "RUNNING" => /\ flushing = "run" \/ pc = "wait"
                            /\ flushing # "stop" /\ ~Has(strand, "canceled")
  /\ pc = "wait" =>
       timer \/ flushing = "run" \/ Has(strand, "ok") \/ Has(strand, "canceled")

(* Nothing is left that the pool can run or wait for, but tasks.           *)
Resting == posted = 0 /\ ~exiting /\ strand = <<>> /\ flushing = "no" /\ ~timer

(* The logger's strand never stands still before a handler that it cannot  *)
(* take; and the pool comes to rest only after an exit request, which then *)
(* has ended the logger and let run() return.                              *)
Rests ==
  main = "run" =>
    /\ flushing = "no" /\ strand # <<>> =>
         CASE Head(strand) = "start" -> m_state = "INITIAL"
           [] Head(strand) = "stop" -> m_state # "STOPPED"
           [] OTHER -> TRUE
    /\ Resting => /\ g_oneExit /\ ~m_workGuard
                  /\ m_state = "STOPPED" /\ pc = "over"

Posts == {"start", "stop", "ok", "canceled"}

(* A handler is queued behind the others.                                  *)
LEMMA Pushed ==
  ASSUME NEW q \in Seq(Posts), NEW h \in Posts
  PROVE  /\ \A g : Has(Append(q, h), g) <=> Has(q, g) \/ g = h
         /\ (\A i, j \in 1..Len(q) : q[i] = "stop" /\ q[j] = "stop" => i = j)
              /\ (h = "stop" => ~Has(q, "stop")) =>
            \A i, j \in 1..Len(Append(q, h)) :
              Append(q, h)[i] = "stop" /\ Append(q, h)[j] = "stop" => i = j
<1> DEFINE w == Append(q, h)
<1>1. /\ Len(q) \in Nat /\ Len(w) = Len(q) + 1 /\ w[Len(w)] = h
      /\ \A i \in 1..Len(q) : w[i] = q[i]
      /\ \A i \in 1..Len(w) : i \in 1..Len(q) \/ i = Len(w)
  OBVIOUS
<1> HIDE DEF w
<1>2. QED
  BY <1>1 DEF Has, w

(* The oldest handler is taken.                                            *)
LEMMA Taken ==
  ASSUME NEW q \in Seq(Posts), q # <<>>
  PROVE  /\ Has(q, Head(q)) /\ q[1] = Head(q) /\ Head(q) \in Posts
         /\ \A g : Has(q, g) => g = Head(q) \/ Has(Tail(q), g)
         /\ \A g : Has(Tail(q), g) => Has(q, g)
         /\ (\A i, j \in 1..Len(q) : q[i] = "stop" /\ q[j] = "stop" => i = j) =>
              /\ \A i, j \in 1..Len(Tail(q)) :
                   Tail(q)[i] = "stop" /\ Tail(q)[j] = "stop" => i = j
              /\ Head(q) = "stop" => ~Has(Tail(q), "stop")
<1> DEFINE w == Tail(q)
<1>1. /\ Len(q) \in Nat /\ Len(q) >= 1 /\ Len(w) = Len(q) - 1 /\ Head(q) = q[1]
      /\ \A i \in 1..Len(w) : i + 1 \in 1..Len(q) /\ w[i] = q[i + 1]
      /\ q[1] \in Posts
  OBVIOUS
<1> HIDE DEF w
<1>2. 1 \in 1..Len(q) /\ Has(q, Head(q))
  BY <1>1 DEF Has
<1>3. ASSUME NEW g, Has(q, g), g # Head(q) PROVE Has(w, g)
  <2>1. PICK i \in 1..Len(q) : q[i] = g
    BY <1>3 DEF Has
  <2>2. i - 1 \in 1..Len(w) /\ (i - 1) + 1 = i
    BY <1>1, <1>3, <2>1
  <2>3. w[i - 1] = g
    BY <1>1, <2>1, <2>2
  <2>4. QED
    BY <2>2, <2>3 DEF Has
<1>4. ASSUME NEW g, Has(w, g) PROVE Has(q, g)
  BY <1>1, <1>4 DEF Has
<1>5. ASSUME \A i, j \in 1..Len(q) : q[i] = "stop" /\ q[j] = "stop" => i = j
      PROVE  /\ \A i, j \in 1..Len(w) : w[i] = "stop" /\ w[j] = "stop" => i = j
             /\ Head(q) = "stop" => ~Has(w, "stop")
  <2>1. ASSUME NEW i \in 1..Len(w), NEW j \in 1..Len(w), w[i] = "stop", w[j] = "stop"
        PROVE  i = j
    <3>1. i + 1 = j + 1
      BY <1>1, <1>5, <2>1
    <3>2. QED
      BY <3>1
  <2>2. ASSUME Head(q) = "stop", NEW i \in 1..Len(w), w[i] = "stop" PROVE FALSE
    <3>1. 1 = i + 1
      BY <1>1, <1>2, <1>5, <2>2
    <3>2. QED
      BY <3>1
  <2>3. QED
    BY <2>1, <2>2 DEF Has
<1>6. QED
  BY <1>1, <1>2, <1>3, <1>4, <1>5 DEF w

(* The main thread and exit (BaseConfigApplication.cpp:41-83).             *)
LEMMA EndInvExit ==
  ASSUME TypeOK, StartInv, EndInv,
         Main \/ CallOnExit \/ DoExit \/ StopPool \/ TasksEnd \/ LogImpl
  PROVE  EndInv'
<1>0. strand \in Seq(Posts) /\ posted \in Nat /\ exits \in Nat
  BY DEF TypeOK, Posts
<1>1. CASE StartLogger
  <2>1. /\ strand' = Append(strand, "start") /\ main' = "run"
        /\ UNCHANGED <<exit, m_state, pc, timer, flushing>>
        /\ "start" \in Posts /\ "start" # "stop"
    BY <1>1 DEF StartLogger, Posts
  <2>2. /\ \A g : Has(strand', g) <=> Has(strand, g) \/ g = "start"
        /\ \A i, j \in 1..Len(strand') : strand'[i] = "stop" /\ strand'[j] = "stop" => i = j
    BY <1>0, <2>1, Pushed DEF EndInv
  <2>3. QED
    BY <2>1, <2>2 DEF EndInv, exit
<1>2. CASE Main /\ ~StartLogger
  <2>1. /\ main' # "run"
        /\ UNCHANGED <<exits, g_oneExit, posted, exiting, m_workGuard, m_state, pc, timer,
                       strand, flushing>>
    BY <1>2 DEF Main, ProcessArgs, ReadConfig, StartApp, RunReturns, ResetLogger,
                DestroyLogger, exit, logger
  <2>2. QED
    BY <2>1 DEF EndInv
<1>3. CASE CallOnExit
  <2>1. g_oneExit' => posted' + exits' = 1
    BY <1>0, <1>3 DEF CallOnExit, EndInv, StartInv
  <2>2. QED
    BY <1>3, <2>1 DEF CallOnExit, EndInv, logger
<1>4. CASE DoExit
  <2>1. /\ strand' = Append(strand, "stop") /\ posted > 0 /\ posted' = posted - 1
        /\ exits' = exits + 1 /\ exiting' = TRUE
        /\ UNCHANGED <<main, g_oneExit, m_workGuard, m_state, pc, timer, flushing>>
        /\ "stop" \in Posts
    BY <1>4 DEF DoExit, Posts
  <2>2. exits = 0 /\ posted = 1
    BY <1>0, <2>1 DEF StartInv
  <2>3. /\ \A g : Has(strand', g) <=> Has(strand, g) \/ g = "stop"
        /\ \A i, j \in 1..Len(strand') : strand'[i] = "stop" /\ strand'[j] = "stop" => i = j
    BY <1>0, <2>1, <2>2, Pushed DEF EndInv
  <2>4. QED
    BY <2>1, <2>2, <2>3 DEF EndInv
<1>5. CASE StopPool \/ TasksEnd \/ LogImpl
  BY <1>5 DEF StopPool, TasksEnd, LogImpl, EndInv, exit, logger
<1>6. QED
  BY <1>1, <1>2, <1>3, <1>4, <1>5

(* The logger (AsyncLogger.cpp:15-18, 53-68).                              *)
LEMMA EndInvLogger ==
  ASSUME TypeOK, StartInv, EndInv,
         LoggerStart \/ LoggerStop \/ Printed \/ Expire \/ LoggerResume
  PROVE  EndInv'
<1>0. /\ strand \in Seq(Posts) /\ timer \in BOOLEAN
      /\ m_state \in {"INITIAL", "RUNNING", "STOPPED"} /\ pc \in {"none", "wait", "over"}
      /\ flushing \in {"no", "run", "stop"} /\ posted \in Nat /\ exits \in Nat
  BY DEF TypeOK, Posts
<1>1. ASSUME NEW h, Turn(h), strand' = Tail(strand)
      PROVE  /\ Has(strand, h) /\ strand[1] = h /\ flushing = "no" /\ main = "run"
             /\ \A g : Has(strand, g) => g = h \/ Has(strand', g)
             /\ \A g : Has(strand', g) => Has(strand, g)
             /\ \A i, j \in 1..Len(strand') :
                  strand'[i] = "stop" /\ strand'[j] = "stop" => i = j
             /\ h = "stop" => ~Has(strand', "stop")
  BY <1>0, <1>1, Taken DEF EndInv, Turn
<1>2. CASE LoggerStart
  <2>1. /\ Turn("start") /\ strand' = Tail(strand) /\ m_state = "INITIAL"
        /\ m_state' = "RUNNING" /\ flushing' = "run"
        /\ UNCHANGED <<main, exits, g_oneExit, posted, exiting, m_workGuard, pc, timer>>
    BY <1>2 DEF LoggerStart, Flush, exit
  <2>2. ~Has(strand', "canceled")
    BY <1>1, <2>1 DEF EndInv
  <2>3. QED
    BY <1>1, <2>1, <2>2 DEF EndInv
<1>3. CASE LoggerStop
  <2>1. /\ Turn("stop") /\ strand' = Tail(strand) /\ m_state # "STOPPED"
        /\ m_state' = "STOPPED" /\ flushing' = "stop"
        /\ UNCHANGED <<main, exits, g_oneExit, posted, exiting, m_workGuard, pc, timer>>
    BY <1>3 DEF LoggerStop, Flush, exit
  <2>2. m_state # "INITIAL"
    <3>1. ASSUME NEW i \in 1..Len(strand), strand[i] = "start" PROVE FALSE
      BY <1>1, <2>1, <3>1 DEF StartInv
    <3>2. QED
      BY <1>1, <2>1, <3>1 DEF EndInv, Has
  <2>3. exits # 0
    BY <1>1, <2>1 DEF EndInv
  <2>4. pc = "wait"
    BY <1>0, <1>1, <2>1, <2>2 DEF EndInv
  <2>5. \A g : g # "stop" => (Has(strand, g) => Has(strand', g))
    BY <1>1, <2>1
  <2>6. QED
    BY <1>1, <2>1, <2>3, <2>4, <2>5 DEF EndInv
<1>4. CASE Printed
  <2>1. /\ flushing # "no" /\ flushing' = "no"
        /\ pc' = IF flushing = "run" THEN "wait" ELSE pc
        /\ timer' = (flushing = "run")
        /\ strand' = IF flushing = "stop" /\ timer THEN Append(strand, "canceled") ELSE strand
        /\ UNCHANGED <<main, exits, g_oneExit, posted, exiting, m_workGuard, m_state>>
    BY <1>4 DEF Printed, exit
  <2>2. CASE flushing = "stop" /\ timer
    <3>1. "canceled" \in Posts /\ "canceled" # "stop"
      BY DEF Posts
    <3>2. /\ \A g : Has(strand', g) <=> Has(strand, g) \/ g = "canceled"
          /\ \A i, j \in 1..Len(strand') : strand'[i] = "stop" /\ strand'[j] = "stop" => i = j
      BY <1>0, <2>1, <2>2, <3>1, Pushed DEF EndInv
    <3>3. m_state = "STOPPED"
      BY <1>0, <2>2 DEF EndInv
    <3>4. QED
      BY <2>1, <2>2, <3>2, <3>3 DEF EndInv
  <2>3. CASE ~(flushing = "stop" /\ timer)
    <3>1. strand' = strand
      BY <2>1, <2>3
    <3>2. CASE flushing = "run"
      BY <1>0, <2>1, <3>1, <3>2 DEF EndInv
    <3>3. CASE flushing = "stop"
      BY <1>0, <2>1, <2>3, <3>1, <3>3 DEF EndInv
    <3>4. QED
      BY <1>0, <2>1, <3>2, <3>3
  <2>4. QED
    BY <2>2, <2>3
<1>5. CASE Expire
  <2>1. /\ timer' = FALSE /\ strand' = Append(strand, "ok") /\ timer
        /\ UNCHANGED <<main, exits, g_oneExit, posted, exiting, m_workGuard, m_state, pc,
                       flushing>>
        /\ "ok" \in Posts /\ "ok" # "stop" /\ "ok" # "canceled"
    BY <1>5 DEF Expire, exit, Posts
  <2>2. /\ \A g : Has(strand', g) <=> Has(strand, g) \/ g = "ok"
        /\ \A i, j \in 1..Len(strand') : strand'[i] = "stop" /\ strand'[j] = "stop" => i = j
    BY <1>0, <2>1, Pushed DEF EndInv
  <2>3. QED
    BY <2>1, <2>2 DEF EndInv
<1>6. CASE LoggerResume
  <2>1. /\ strand' = Tail(strand)
        /\ UNCHANGED <<main, exits, g_oneExit, posted, exiting, m_workGuard, m_state, timer>>
        /\ \/ Turn("ok") /\ m_state = "RUNNING" /\ flushing' = "run" /\ pc' = pc
           \/ /\ Turn("canceled") \/ (Turn("ok") /\ m_state # "RUNNING")
              /\ pc' = "over" /\ flushing' = flushing
    BY <1>6 DEF LoggerResume, Flush, exit
  <2>2. CASE Turn("ok") /\ m_state = "RUNNING" /\ flushing' = "run" /\ pc' = pc
    <3>1. \A g : g # "ok" => (Has(strand, g) => Has(strand', g))
      BY <1>1, <2>1, <2>2
    <3>2. QED
      BY <1>1, <2>1, <2>2, <3>1 DEF EndInv
  <2>3. CASE /\ Turn("canceled") \/ (Turn("ok") /\ m_state # "RUNNING")
             /\ pc' = "over" /\ flushing' = flushing
    <3>1. PICK h \in {"ok", "canceled"} : Turn(h) /\ (h = "ok" => m_state # "RUNNING")
      BY <2>3
    <3>2. /\ Has(strand, h) /\ strand[1] = h /\ flushing = "no" /\ main = "run"
          /\ \A g : g # h => (Has(strand, g) => Has(strand', g))
          /\ \A g : Has(strand', g) => Has(strand, g)
          /\ \A i, j \in 1..Len(strand') :
               strand'[i] = "stop" /\ strand'[j] = "stop" => i = j
      BY <1>1, <2>1, <3>1
    <3>3. m_state # "RUNNING"
      BY <3>1, <3>2 DEF EndInv
    <3>4. m_state # "INITIAL"
      <4>1. ASSUME NEW i \in 1..Len(strand), strand[i] = "start" PROVE FALSE
        BY <3>1, <3>2, <4>1 DEF StartInv
      <4>2. QED
        BY <3>2, <4>1 DEF EndInv, Has
    <3>5. m_state = "STOPPED"
      BY <1>0, <3>3, <3>4
    <3>6. QED
      BY <2>1, <2>3, <3>2, <3>5 DEF EndInv
  <2>4. QED
    BY <2>1, <2>2, <2>3
<1>7. QED
  BY <1>2, <1>3, <1>4, <1>5, <1>6

(* Exit has nothing to wait for that does not come: no handler is left     *)
(* that the logger refuses, and no timer but the one it is stopped in      *)
(* (BaseConfigApplication.cpp:59-61, 73-82, AsyncLogger.cpp:53-68).        *)
THEOREM RestsHolds == Spec => []Rests
<1>1. Init => StartInv /\ EndInv
  BY DEF Init, StartInv, EndInv, Has
<1>2. TypeOK /\ StartInv /\ EndInv /\ [Next]_vars => StartInv' /\ EndInv'
  <2> SUFFICES ASSUME TypeOK, StartInv, EndInv, [Next]_vars PROVE StartInv' /\ EndInv'
    OBVIOUS
  <2>1. CASE Next
    BY <2>1, StartInvExit, StartInvLogger, EndInvExit, EndInvLogger DEF Next, Pool
  <2>2. CASE UNCHANGED vars
    BY <2>2 DEF vars, exit, logger, StartInv, EndInv
  <2>3. QED
    BY <2>1, <2>2
<1>3. TypeOK /\ StartInv /\ EndInv => Rests
  <2> SUFFICES ASSUME TypeOK, StartInv, EndInv, main = "run"
               PROVE  /\ flushing = "no" /\ strand # <<>> =>
                           CASE Head(strand) = "start" -> m_state = "INITIAL"
                             [] Head(strand) = "stop" -> m_state # "STOPPED"
                             [] OTHER -> TRUE
                      /\ Resting => /\ g_oneExit /\ ~m_workGuard
                                    /\ m_state = "STOPPED" /\ pc = "over"
    BY DEF Rests
  <2>0. /\ strand \in Seq(Posts) /\ posted \in Nat /\ exits \in Nat /\ timer \in BOOLEAN
        /\ m_state \in {"INITIAL", "RUNNING", "STOPPED"} /\ pc \in {"none", "wait", "over"}
        /\ g_oneExit \in BOOLEAN
    BY DEF TypeOK, Posts
  <2>1. ASSUME strand # <<>>
        PROVE  /\ Head(strand) = "start" => m_state = "INITIAL"
               /\ Head(strand) = "stop" => m_state # "STOPPED"
    <3>1. Has(strand, Head(strand)) /\ strand[1] = Head(strand)
      BY <2>0, <2>1, Taken
    <3>2. Head(strand) = "start" => m_state = "INITIAL"
      BY <3>1 DEF StartInv, Has
    <3>3. QED
      BY <3>1, <3>2 DEF EndInv
  <2>2. ASSUME Resting
        PROVE  g_oneExit /\ ~m_workGuard /\ m_state = "STOPPED" /\ pc = "over"
    <3>1. /\ posted = 0 /\ ~exiting /\ flushing = "no" /\ ~timer
          /\ \A h : ~Has(strand, h)
      BY <2>2 DEF Resting, Has
    <3>2. m_state = "STOPPED"
      BY <2>0, <3>1 DEF EndInv
    <3>3. pc = "over"
      BY <2>0, <3>1, <3>2 DEF EndInv
    <3>4. exits # 0
      BY <3>2 DEF EndInv
    <3>5. g_oneExit /\ exits = 1
      BY <2>0, <3>4 DEF StartInv
    <3>6. QED
      BY <3>1, <3>2, <3>3, <3>5 DEF EndInv
  <2>3. QED
    BY <2>1, <2>2
<1>4. QED
  BY <1>1, <1>2, <1>3, TypeCorrect, PTL DEF Spec
=============================================================================
