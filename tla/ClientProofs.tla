---------------------------- MODULE ClientProofs ----------------------------
(***************************************************************************)
(* Machine-checked proofs about Client, for any number of connects and     *)
(* sessions and queues of any length.                                      *)
(***************************************************************************)
EXTENDS Client, TLAPS

Handlers == {"start", "stop", "emit", "ok", "error", "canceled"}

Cause == asked \cap {"stop", "cancel", "stop session"} # {}

HasStart(q) == \E i \in 1..Len(q) : q[i] = "start"

OneStart(q) == \A i, j \in 1..Len(q) : q[i] = "start" /\ q[j] = "start" => i = j

(* The one start that is asked for is queued before run() begins.          *)
StartInv ==
  /\ OneStart(strand)
  /\ HasStart(strand) => pc = "idle"
  /\ HasStart(strand) \/ pc # "idle" => "start" \in asked

(* m_state and the signal fit run().                                       *)
StateInv ==
  /\ pc = "idle" => m_state \in {"INITIAL", "STOPPED"} /\ ~canceled
  /\ Active => m_state \in {"RUNNING", "STOPPED"}
  /\ Active /\ m_state = "STOPPED" => canceled

(* Nothing is stopped or canceled, on either strand, unless users asked.   *)
QuietInv ==
  ~Cause =>
    /\ m_state # "STOPPED" /\ ~canceled
    /\ strand \in Seq({"start", "ok", "error"})
    /\ sState # "STOPPED" /\ ~sCanceled
    /\ sStrand \in Seq({"start"})

IInv == TypeOK /\ StartInv /\ StateInv /\ Announced /\ QuietInv /\ KeepsTrying

-----------------------------------------------------------------------------
(* The queues.                                                             *)

(* Posting a handler adds no start but that handler                        *)
(* (StrandHolder.hpp:18-26).                                               *)
LEMMA AppendFacts ==
  ASSUME NEW S, NEW q \in Seq(S), NEW h \in S
  PROVE  /\ Append(q, h) \in Seq(S)
         /\ HasStart(Append(q, h)) => HasStart(q) \/ h = "start"
         /\ OneStart(q) /\ (h = "start" => ~HasStart(q)) => OneStart(Append(q, h))
<1>1. /\ Len(Append(q, h)) = Len(q) + 1
      /\ Len(q) \in Nat
      /\ \A i \in 1..Len(q) : Append(q, h)[i] = q[i]
      /\ Append(q, h)[Len(q) + 1] = h
      /\ Append(q, h) \in Seq(S)
  OBVIOUS
<1>2. \A i \in 1..(Len(q) + 1) : i \in 1..Len(q) \/ i = Len(q) + 1
  BY <1>1
<1>3. QED
  BY <1>1, <1>2 DEF HasStart, OneStart

(* So posting anything but a start adds none (StrandHolder.hpp:18-26).     *)
LEMMA AppendOther ==
  ASSUME NEW S, NEW q \in Seq(S), NEW h \in S, h # "start"
  PROVE  /\ Append(q, h) \in Seq(S)
         /\ HasStart(Append(q, h)) => HasStart(q)
         /\ OneStart(q) => OneStart(Append(q, h))
BY AppendFacts

(* Taking the oldest handler adds no start, and removes the one it takes   *)
(* (StrandHolder.hpp:18-26).                                               *)
LEMMA TailFacts ==
  ASSUME NEW S, NEW q \in Seq(S), q # <<>>
  PROVE  /\ Tail(q) \in Seq(S)
         /\ Head(q) \in S
         /\ HasStart(Tail(q)) => HasStart(q)
         /\ OneStart(q) => OneStart(Tail(q)) /\ (Head(q) = "start" => ~HasStart(Tail(q)))
         /\ Head(q) = "start" => HasStart(q)
<1>1. /\ Len(Tail(q)) = Len(q) - 1
      /\ Len(q) \in Nat /\ Len(q) >= 1
      /\ \A i \in 1..Len(Tail(q)) : i + 1 \in 1..Len(q) /\ Tail(q)[i] = q[i + 1]
      /\ Head(q) = q[1] /\ q[1] \in S
      /\ Tail(q) \in Seq(S)
  OBVIOUS
<1>2. HasStart(Tail(q)) => \E i \in 1..Len(q) : i # 1 /\ q[i] = "start"
  BY <1>1 DEF HasStart
<1>3. 1 \in 1..Len(q)
  BY <1>1
<1>4. OneStart(q) => OneStart(Tail(q))
  BY <1>1 DEF OneStart
<1>5. QED
  BY <1>1, <1>2, <1>3, <1>4 DEF HasStart, OneStart

-----------------------------------------------------------------------------
(* The steps.                                                              *)

(* A client that nobody has asked anything of (Client.cpp:19-28).          *)
LEMMA InitInv == Init => IInv
<1> SUFFICES ASSUME Init PROVE IInv
  OBVIOUS
<1>1. strand = <<>> /\ sStrand = <<>>
  BY DEF Init
<1>2. TypeOK
  <2>1. \A S : <<>> \in Seq(S)
    OBVIOUS
  <2>2. QED
    BY <2>1 DEF Init, TypeOK, States
<1>3. StartInv
  BY <1>1 DEF Init, StartInv, OneStart, HasStart
<1>4. StateInv /\ QuietInv /\ KeepsTrying
  BY <1>1 DEF Init, StateInv, Active, QuietInv, KeepsTrying
<1>5. Announced
  BY DEF Init, Announced
<1>6. QED
  BY <1>2, <1>3, <1>4, <1>5 DEF IInv

(* What a request to the client posts disturbs no invariant                *)
(* (CoroutineTask.hpp:22-38).                                              *)
LEMMA AskInv ==
  ASSUME IInv, Start \/ Stop \/ Cancel
  PROVE  IInv'
<1>0. /\ TypeOK /\ StartInv /\ StateInv /\ Announced /\ QuietInv /\ KeepsTrying
      /\ strand \in Seq(Handlers)
  BY DEF IInv, TypeOK, Handlers, Codes
<1>1. PICK what \in Requests, h \in {"start", "stop", "emit"} :
        /\ Ask(what, h)
        /\ \/ what = "start" /\ h = "start"
           \/ what \in {"stop", "cancel"} /\ h # "start"
  BY DEF Start, Stop, Cancel, Requests
<1>2. /\ what \notin asked /\ asked' = asked \cup {what}
      /\ strand' = Append(strand, h)
      /\ UNCHANGED <<m_managedMode, client, session>>
  BY <1>1 DEF Ask
<1>3. h \in Handlers
  BY DEF Handlers
<1>4. TypeOK'
  <2>1. strand' \in Seq(Handlers)
    BY <1>0, <1>2, <1>3, AppendFacts
  <2>2. QED
    BY <1>0, <1>2, <2>1 DEF TypeOK, Handlers, Codes, client, session
<1>5. StartInv'
  <2>1. /\ HasStart(strand') => HasStart(strand) \/ h = "start"
        /\ OneStart(strand) /\ (h = "start" => ~HasStart(strand)) => OneStart(strand')
    BY <1>0, <1>2, <1>3, AppendFacts
  <2>2. QED
    BY <1>0, <1>1, <1>2, <2>1 DEF StartInv, client
<1>6. StateInv' /\ Announced'
  BY <1>0, <1>2 DEF StateInv, Announced, Active, client
<1>7. QuietInv' /\ KeepsTrying'
  <2>1. CASE Cause
    BY <1>2, <2>1 DEF Cause, QuietInv, KeepsTrying
  <2>2. CASE what \in {"stop", "cancel"}
    BY <1>2, <2>2 DEF Cause, QuietInv, KeepsTrying
  <2>3. CASE ~Cause /\ h = "start"
    <3>1. strand' \in Seq({"start", "ok", "error"})
      BY <1>0, <1>2, <2>3, AppendFacts DEF QuietInv
    <3>2. QED
      BY <1>0, <1>2, <2>3, <3>1 DEF Cause, QuietInv, KeepsTrying, client, session
  <2>4. QED
    BY <1>1, <2>1, <2>2, <2>3
<1>8. QED
  BY <1>4, <1>5, <1>6, <1>7 DEF IInv

(* A step of the session, or of what run() awaits, that lets the client    *)
(* alone, posts nothing but a completion and stops nothing unasked         *)
(* (CoroutineTask.hpp:34-107).                                             *)
LEMMA OutsideInv ==
  ASSUME IInv, TypeOK',
         UNCHANGED <<m_managedMode, m_state, canceled, pc, result, m_session,
                     announced>>,
         asked' = asked \/ (asked' = asked \cup {"stop session"}),
         NEW ec \in Codes,
         strand' = strand \/ strand' = Append(strand, ec),
         asked' = asked /\ ~Cause =>
           /\ strand' = strand \/ ec # "canceled"
           /\ sState' # "STOPPED" /\ ~sCanceled'
           /\ sStrand' \in Seq({"start"})
  PROVE  IInv'
<1>0. /\ TypeOK /\ StartInv /\ StateInv /\ Announced /\ QuietInv /\ KeepsTrying
      /\ strand \in Seq(Handlers)
  BY DEF IInv, TypeOK, Handlers, Codes
<1>1. ec \in Handlers /\ ec # "start"
  BY DEF Handlers, Codes
<1>2. OneStart(strand') /\ (HasStart(strand') => HasStart(strand))
  <2>1. /\ HasStart(Append(strand, ec)) => HasStart(strand)
        /\ OneStart(Append(strand, ec))
    BY <1>0, <1>1, AppendFacts DEF StartInv
  <2>2. CASE strand' = strand
    BY <1>0, <2>2 DEF StartInv
  <2>3. CASE strand' = Append(strand, ec)
    BY <2>1, <2>3
  <2>4. QED
    BY <2>2, <2>3
<1>3. StartInv'
  BY <1>0, <1>2 DEF StartInv
<1>4. StateInv' /\ Announced'
  BY <1>0 DEF StateInv, Announced, Active
<1>5. KeepsTrying'
  BY <1>0 DEF KeepsTrying
<1>6. QuietInv'
  <2>1. CASE Cause \/ asked' # asked
    BY <2>1 DEF Cause, QuietInv
  <2>2. CASE ~Cause /\ asked' = asked
    <3>1. strand' \in Seq({"start", "ok", "error"})
      BY <1>0, <2>2, AppendFacts DEF QuietInv, Codes
    <3>2. QED
      BY <1>0, <2>2, <3>1 DEF Cause, QuietInv
  <2>3. QED
    BY <2>1, <2>2
<1>7. QED
  BY <1>3, <1>4, <1>5, <1>6 DEF IInv

(* A user stops the session (CoroutineTask.hpp:29-32).                     *)
LEMMA StopSessionInv ==
  ASSUME IInv, StopSession
  PROVE  IInv'
<1>0. TypeOK /\ "stop session" \notin asked
  BY DEF IInv, StopSession
<1>1. sStrand' \in Seq({"start", "stop", "emit"})
  <2>1. "stop" \in {"start", "stop", "emit"} /\ sStrand' = Append(sStrand, "stop")
    BY DEF StopSession
  <2>2. QED
    BY <1>0, <2>1, AppendFacts DEF TypeOK
<1>2. TypeOK'
  BY <1>0, <1>1, ZenonT(30) DEF TypeOK, StopSession, Requests, client
<1>3. asked' # asked
  BY <1>0 DEF StopSession
<1>4. QED
  BY <1>2, <1>3, OutsideInv DEF StopSession, client, Codes

(* What run() awaits completes (Client.cpp:60, 125).                       *)
LEMMA CompleteInv ==
  ASSUME IInv, NEW ec \in {"ok", "error"}, Complete(ec)
  PROVE  IInv'
<1>0. TypeOK /\ QuietInv
  BY DEF IInv
<1>1. strand' \in Seq({"start", "stop", "emit"} \cup Codes)
  BY <1>0 DEF TypeOK, Complete, Codes
<1>2. TypeOK'
  BY <1>0, <1>1 DEF TypeOK, Complete, session
<1>3. QED
  BY <1>0, <1>2, OutsideInv DEF Complete, session, Codes, QuietInv

(* The handlers of the session's strand (CoroutineTask.hpp:34-107).        *)
LEMMA SessionInv ==
  ASSUME IInv, SessionHandle \/ \E ec \in Codes : SessionEnd(ec)
  PROVE  IInv'
<1>0. TypeOK /\ QuietInv /\ sStrand \in Seq({"start", "stop", "emit"})
  BY DEF IInv, TypeOK
<1>1. ASSUME sStrand # <<>>, sStrand' = Tail(sStrand)
      PROVE  /\ sStrand' \in Seq({"start", "stop", "emit"})
             /\ ~Cause => Head(sStrand) = "start" /\ sStrand' \in Seq({"start"})
  BY <1>0, <1>1 DEF QuietInv
<1>2. CASE SessionStart
  <2>1. TypeOK'
    BY <1>0, <1>1, <1>2 DEF TypeOK, SessionStart, SessionTurn, client, States
  <2>2. QED
    BY <1>0, <1>1, <1>2, <2>1, OutsideInv
    DEF SessionStart, SessionTurn, client, QuietInv, Codes
<1>3. CASE SessionRefuse
  <2>1. strand' \in Seq({"start", "stop", "emit"} \cup Codes)
    BY <1>0, <1>3 DEF TypeOK, SessionRefuse, Codes
  <2>2. TypeOK'
    BY <1>0, <1>1, <1>3, <2>1 DEF TypeOK, SessionRefuse, SessionTurn, client
  <2>3. QED
    BY <1>0, <1>1, <1>3, <2>2, OutsideInv
    DEF SessionRefuse, SessionTurn, client, QuietInv, Codes
<1>4. CASE SessionStop
  <2>1. TypeOK'
    BY <1>0, <1>1, <1>4 DEF TypeOK, SessionStop, SessionTurn, client, States
  <2>2. Cause
    BY <1>1, <1>4 DEF SessionStop, SessionTurn
  <2>3. QED
    BY <1>4, <2>1, <2>2, OutsideInv DEF SessionStop, client, Codes
<1>5. CASE SessionEmit
  <2>1. TypeOK'
    BY <1>0, <1>1, <1>5 DEF TypeOK, SessionEmit, SessionTurn, client
  <2>2. Cause
    BY <1>1, <1>5 DEF SessionEmit, SessionTurn
  <2>3. QED
    BY <1>5, <2>1, <2>2, OutsideInv DEF SessionEmit, client, Codes
<1>6. ASSUME NEW ec \in Codes, SessionEnd(ec)
      PROVE  IInv'
  <2>1. strand' \in Seq({"start", "stop", "emit"} \cup Codes)
    BY <1>0, <1>6 DEF TypeOK, SessionEnd
  <2>2. sState' \in States /\ sRunning' \in BOOLEAN
    BY <1>6 DEF SessionEnd, States
  <2>3. TypeOK'
    BY <1>0, <1>6, <2>1, <2>2 DEF TypeOK, SessionEnd, client
  <2>4. ~Cause => ec # "canceled" /\ sState' # "STOPPED" /\ ~sCanceled'
    BY <1>0, <1>6 DEF SessionEnd, QuietInv
  <2>5. QED
    BY <1>0, <1>6, <2>3, <2>4, OutsideInv DEF SessionEnd, client, QuietInv
<1>7. QED
  BY <1>2, <1>3, <1>4, <1>5, <1>6 DEF SessionHandle

(* What is known of the handler that the client's strand executes, and of  *)
(* those left behind it (StrandHolder.hpp:18-26).                          *)
LEMMA TakeFacts ==
  ASSUME IInv, NEW h, Turn(h)
  PROVE  /\ Tail(strand) \in Seq({"start", "stop", "emit"} \cup Codes)
         /\ OneStart(Tail(strand)) /\ (HasStart(Tail(strand)) => HasStart(strand))
         /\ h = "start" => /\ pc = "idle" /\ "start" \in asked
                          /\ ~HasStart(Tail(strand))
         /\ ~Cause => /\ h \in {"start", "ok", "error"}
                      /\ Tail(strand) \in Seq({"start", "ok", "error"})
<1>0. /\ StartInv /\ QuietInv /\ strand # <<>> /\ Head(strand) = h
      /\ strand \in Seq({"start", "stop", "emit"} \cup Codes)
  BY DEF IInv, TypeOK, Turn
<1>1. /\ OneStart(Tail(strand)) /\ (HasStart(Tail(strand)) => HasStart(strand))
      /\ h = "start" => HasStart(strand) /\ ~HasStart(Tail(strand))
      /\ Tail(strand) \in Seq({"start", "stop", "emit"} \cup Codes)
  BY <1>0, TailFacts DEF StartInv
<1>2. ~Cause => /\ h \in {"start", "ok", "error"}
                /\ Tail(strand) \in Seq({"start", "ok", "error"})
  BY <1>0, TailFacts DEF QuietInv
<1>3. QED
  BY <1>0, <1>1, <1>2 DEF StartInv

(* co_start() enters run(), or is refused after a stop                     *)
(* (CoroutineTask.hpp:71-107).                                             *)
LEMMA CoStartInv ==
  ASSUME IInv, CoStart
  PROVE  IInv'
<1>0. /\ TypeOK /\ StateInv /\ Announced /\ QuietInv
      /\ pc = "idle" /\ "start" \in asked
      /\ strand' = Tail(strand)
      /\ UNCHANGED <<m_managedMode, canceled, m_session, announced, asked, session>>
  BY TakeFacts DEF IInv, CoStart
<1>1. /\ strand' \in Seq({"start", "stop", "emit"} \cup Codes)
      /\ OneStart(strand') /\ ~HasStart(strand')
      /\ ~Cause => strand' \in Seq({"start", "ok", "error"})
  BY <1>0, TakeFacts DEF CoStart
<1>2. \/ /\ m_state = "INITIAL" /\ m_state' = "RUNNING" /\ pc' = "connect"
         /\ pending' = TRUE /\ result' = result
      \/ /\ m_state = "INITIAL" /\ m_state' = "DONE" /\ pc' = "over"
         /\ pending' = pending /\ result' = "address"
      \/ /\ m_state = "STOPPED" /\ m_state' = m_state /\ pc' = "over"
         /\ pending' = pending /\ result' = "refused"
  BY <1>0 DEF CoStart, Await, End, StateInv
<1>3. TypeOK'
  BY <1>0, <1>1, <1>2, ZenonT(30) DEF TypeOK, States, session
<1>4. StartInv' /\ Announced'
  BY <1>0, <1>1, <1>2 DEF StartInv, Announced
<1>5. StateInv'
  BY <1>0, <1>2 DEF StateInv, Active
<1>6. QuietInv' /\ KeepsTrying'
  BY <1>0, <1>1, <1>2 DEF QuietInv, KeepsTrying, Cause, session
<1>7. QED
  BY <1>3, <1>4, <1>5, <1>6 DEF IInv

(* A stop or a signal cancels run() and what it awaits                     *)
(* (CoroutineTask.hpp:34-52, CancellableSpawn.hpp:26-37).                  *)
LEMMA SignalsInv ==
  ASSUME IInv, CoStop \/ Emit
  PROVE  IInv'
<1>0. /\ TypeOK /\ StartInv /\ StateInv /\ Announced /\ QuietInv /\ KeepsTrying
      /\ UNCHANGED <<m_managedMode, pc, result, m_session, announced, asked, sState,
                     sRunning, sCanceled>>
  BY DEF IInv, CoStop, Emit
<1>1. /\ Tail(strand) \in Seq({"start", "stop", "emit"} \cup Codes)
      /\ OneStart(Tail(strand)) /\ (HasStart(Tail(strand)) => HasStart(strand))
      /\ Cause
  BY <1>0, TakeFacts DEF CoStop, Emit
<1>2. \/ /\ strand' = Tail(strand) \/ strand' = Append(Tail(strand), "canceled")
         /\ canceled' \in BOOLEAN
         /\ Active => canceled'
         /\ ~Active => canceled' = canceled
         /\ pending' \in BOOLEAN
         /\ sStrand' = sStrand \/ sStrand' = Append(sStrand, "emit")
      \/ /\ strand' = Tail(strand) /\ m_state = "STOPPED"
         /\ UNCHANGED <<canceled, pending, sStrand>>
  BY <1>0 DEF CoStop, Emit, Signal, TypeOK
<1>3. m_state' = m_state \/ m_state' = "STOPPED"
  BY DEF CoStop, Emit
<1>4. /\ strand' \in Seq({"start", "stop", "emit"} \cup Codes)
      /\ OneStart(strand') /\ (HasStart(strand') => HasStart(strand))
  <2>1. "canceled" \in {"start", "stop", "emit"} \cup Codes /\ "canceled" # "start"
    BY DEF Codes
  <2>2. /\ Append(Tail(strand), "canceled") \in Seq({"start", "stop", "emit"} \cup Codes)
        /\ OneStart(Append(Tail(strand), "canceled"))
        /\ HasStart(Append(Tail(strand), "canceled")) => HasStart(Tail(strand))
    BY <1>1, <2>1, AppendOther
  <2>3. QED
    BY <1>1, <1>2, <2>2
<1>5. sStrand' \in Seq({"start", "stop", "emit"})
  <2>1. "emit" \in {"start", "stop", "emit"}
    OBVIOUS
  <2>2. Append(sStrand, "emit") \in Seq({"start", "stop", "emit"})
    BY <1>0, <2>1, AppendFacts DEF TypeOK
  <2>3. QED
    BY <1>0, <1>2, <2>2 DEF TypeOK
<1>6. TypeOK'
  BY <1>0, <1>2, <1>3, <1>4, <1>5 DEF TypeOK, States, Active
<1>7. StartInv' /\ Announced'
  BY <1>0, <1>4 DEF StartInv, Announced
<1>8. StateInv'
  BY <1>0, <1>2, <1>3 DEF StateInv, Active, TypeOK
<1>9. QuietInv' /\ KeepsTrying'
  BY <1>0, <1>1 DEF QuietInv, KeepsTrying, Cause
<1>10. QED
  BY <1>6, <1>7, <1>8, <1>9 DEF IInv

(* run() goes on, and stops nothing unless its slots ask for it            *)
(* (Client.cpp:51-130).                                                    *)
LEMMA ResumeStep ==
  ASSUME IInv, NEW h, Turn(h), strand' = Tail(strand),
         Active, TypeOK', StateInv', Announced', pc' # "idle",
         asked \subseteq asked',
         UNCHANGED <<m_managedMode, canceled>>,
         ~Cause' =>
           /\ m_state' # "STOPPED"
           /\ sState' # "STOPPED" /\ ~sCanceled' /\ sStrand' \in Seq({"start"})
           /\ m_managedMode => pc' # "over"
  PROVE  IInv'
<1>0. StartInv /\ QuietInv
  BY DEF IInv
<1>1. OneStart(strand') /\ ~HasStart(strand') /\ "start" \in asked
  BY <1>0, TakeFacts DEF StartInv, Active
<1>2. StartInv'
  BY <1>1 DEF StartInv
<1>3. Cause => Cause'
  BY DEF Cause
<1>4. QuietInv' /\ KeepsTrying'
  BY <1>0, <1>3, TakeFacts DEF QuietInv, KeepsTrying, Cause
<1>5. QED
  BY <1>2, <1>4 DEF IInv

(* How run() may go on in a task whose state is st (Client.cpp:51-130).    *)
LEMMA AwaitFacts ==
  ASSUME NEW what, NEW st, NEW halted \in BOOLEAN, Await(what, st, halted)
  PROVE  \/ /\ ~halted /\ pc' = what /\ pending' = TRUE /\ m_state' = st
            /\ result' = result
         \/ /\ halted /\ pc' = "over" /\ pending' = pending /\ m_state' = "STOPPED"
            /\ result' = "canceled"
BY DEF Await, End

(* The loop's head after the timer (Client.cpp:51, 125-130).               *)
LEMMA ResumeWaitInv ==
  ASSUME IInv, ResumeWait
  PROVE  IInv'
<1>0. /\ TypeOK /\ StateInv /\ Announced /\ QuietInv
      /\ pc = "wait" /\ Active
      /\ strand' = Tail(strand)
      /\ UNCHANGED <<m_managedMode, canceled, m_session, announced, asked, session>>
  BY DEF IInv, ResumeWait, Active
<1>1. PICK h \in {"ok", "canceled"} : Turn(h)
  BY DEF ResumeWait
<1>2. /\ m_state' \in States /\ pending' \in BOOLEAN
      /\ result' \in {result, "error", "canceled"}
      /\ \/ pc' = "connect" /\ m_state' = "RUNNING" /\ ~canceled
         \/ pc' = "over" /\ (canceled \/ m_state # "RUNNING" \/ Turn("canceled"))
  BY <1>0 DEF ResumeWait, Await, End, TypeOK, States
<1>3. TypeOK'
  BY <1>0, <1>1, <1>2, TakeFacts DEF TypeOK, session, Codes
<1>4. StateInv' /\ Announced'
  BY <1>0, <1>2 DEF StateInv, Active, Announced
<1>5. ~Cause => pc' = "connect"
  BY <1>0, <1>2, TakeFacts DEF QuietInv, StateInv
<1>6. QED
  BY <1>0, <1>1, <1>2, <1>3, <1>4, <1>5, ResumeStep DEF QuietInv, Cause, session

(* The session is over: sessionCompleted (Client.cpp:95-111).              *)
LEMMA ResumeSessionInv ==
  ASSUME IInv, ResumeSession
  PROVE  IInv'
<1>0. /\ TypeOK /\ StateInv /\ Announced /\ QuietInv
      /\ pc = "session" /\ Active
      /\ strand' = Tail(strand)
      /\ m_session' = FALSE /\ announced' = announced - 1
      /\ UNCHANGED <<m_managedMode, canceled, session>>
  BY DEF IInv, ResumeSession, SessionCompleted, Active
<1>1. PICK ec \in Codes, stops \in BOOLEAN :
        /\ Turn(ec)
        /\ SlotsAsk(stops, FALSE)
        /\ \/ ec = "canceled" /\ End(ec, After(stops))
           \/ ec # "canceled" /\ Await("wait", After(stops), canceled \/ stops)
  BY DEF ResumeSession
<1>2. /\ asked \subseteq asked' /\ asked' \in SUBSET Requests
      /\ stops => "stop" \in asked'
  BY <1>0, <1>1 DEF SlotsAsk, TypeOK, Requests
<1>3. canceled \/ stops \in BOOLEAN
  BY <1>0 DEF TypeOK
<1>4. /\ m_state' \in States /\ pending' \in BOOLEAN
      /\ result' \in {result, "canceled"}
      /\ \/ pc' = "wait" /\ m_state' = m_state /\ ~canceled /\ ~stops
         \/ pc' = "over" /\ (canceled \/ stops \/ ec = "canceled")
  <2>1. CASE ec = "canceled"
    BY <1>0, <1>1, <2>1 DEF End, TypeOK, States
  <2>2. CASE ec # "canceled"
    <3>1. CASE canceled \/ stops
      BY <1>0, <1>1, <2>2, <3>1 DEF Await, End, TypeOK, States
    <3>2. CASE ~canceled /\ ~stops
      BY <1>0, <1>1, <2>2, <3>2 DEF Await, After, TypeOK, States
    <3>3. QED
      BY <3>1, <3>2
  <2>3. QED
    BY <2>1, <2>2
<1>5. Announced' /\ announced' = 0
  BY <1>0, <1>4 DEF Announced
<1>6. TypeOK'
  <2>1. strand' \in Seq({"start", "stop", "emit"} \cup Codes)
    BY <1>0, <1>1, TakeFacts
  <2>2. pc' \in {"idle", "connect", "session", "wait", "over"}
    BY <1>4
  <2>3. result' \in {"none", "refused", "address"} \cup Codes
    BY <1>0, <1>4 DEF TypeOK, Codes
  <2>4. announced' \in Nat
    BY <1>5
  <2>5. m_session' \in BOOLEAN
    BY <1>0
  <2>6. QED
    BY <1>0, <1>2, <1>4, <2>1, <2>2, <2>3, <2>4, <2>5 DEF TypeOK, session
<1>7. StateInv'
  BY <1>0, <1>4 DEF StateInv, Active
<1>8. ~Cause' => pc' = "wait" /\ m_state' # "STOPPED" /\ ~Cause
  BY <1>0, <1>1, <1>2, <1>4, TakeFacts DEF QuietInv, Cause
<1>9. QED
  BY <1>0, <1>1, <1>2, <1>4, <1>5, <1>6, <1>7, <1>8, ResumeStep
  DEF QuietInv, session

(* The connect has completed: a new session, or a wait, or the end         *)
(* (Client.cpp:55-121).                                                    *)
LEMMA ResumeConnectInv ==
  ASSUME IInv, ResumeConnect
  PROVE  IInv'
<1>0. /\ TypeOK /\ StateInv /\ Announced /\ QuietInv
      /\ pc = "connect" /\ Active
      /\ strand' = Tail(strand)
      /\ UNCHANGED <<m_managedMode, canceled>>
  BY DEF IInv, ResumeConnect, Active
<1>1. announced = 0 /\ ~m_session
  BY <1>0 DEF Announced
<1>2. CASE Turn("ok") /\ \E stops, drops \in BOOLEAN :
             SlotsAsk(stops, drops) /\ m_managedMode /\ RunSession(stops, drops)
  <2>1. PICK stops \in BOOLEAN, drops \in BOOLEAN :
          SlotsAsk(stops, drops) /\ m_managedMode /\ RunSession(stops, drops)
    BY <1>2
  <2>2. /\ asked \subseteq asked' /\ asked' \in SUBSET Requests
        /\ stops => "stop" \in asked'
        /\ drops => "stop session" \in asked'
    BY <1>0, <2>1 DEF SlotsAsk, TypeOK, Requests
  <2>3. CASE canceled \/ stops
    <3>1. /\ m_state' = "STOPPED" /\ pc' = "over" /\ result' = "canceled"
          /\ UNCHANGED <<pending, m_session, announced, session>>
      BY <2>1, <2>3 DEF RunSession, End, session
    <3>2. TypeOK'
      BY <1>0, <1>2, <2>2, <3>1, TakeFacts DEF TypeOK, session, Codes, States
    <3>3. StateInv' /\ Announced'
      BY <1>0, <1>1, <3>1 DEF StateInv, Active, Announced
    <3>4. Cause'
      BY <1>0, <2>2, <2>3 DEF QuietInv, Cause
    <3>5. QED
      BY <1>0, <1>2, <2>2, <3>1, <3>2, <3>3, <3>4, ResumeStep
  <2>4. CASE ~(canceled \/ stops)
    <3>1. /\ m_session' = TRUE /\ announced' = announced + 1 /\ pc' = "session"
          /\ sState' = "INITIAL" /\ sRunning' = FALSE /\ sCanceled' = FALSE
          /\ sStrand' = IF drops THEN <<"stop", "start">> ELSE <<"start">>
          /\ UNCHANGED <<pending, m_state, result>>
      BY <2>1, <2>4 DEF RunSession, NewSession
    <3>2. /\ <<"stop", "start">> \in Seq({"start", "stop", "emit"})
          /\ <<"start">> \in Seq({"start", "stop", "emit"})
          /\ <<"start">> \in Seq({"start"})
      OBVIOUS
    <3>3. announced' = 1
      BY <1>1, <3>1
    <3>4. TypeOK'
      <4>1. strand' \in Seq({"start", "stop", "emit"} \cup Codes)
        BY <1>0, <1>2, TakeFacts
      <4>2. sStrand' \in Seq({"start", "stop", "emit"})
        BY <3>1, <3>2
      <4>3. announced' \in Nat /\ m_session' \in BOOLEAN
        BY <3>1, <3>3
      <4>4. QED
        BY <1>0, <2>2, <3>1, <4>1, <4>2, <4>3 DEF TypeOK, States
    <3>5. StateInv'
      BY <1>0, <3>1 DEF StateInv, Active
    <3>6. Announced'
      BY <3>1, <3>3 DEF Announced
    <3>7. ~Cause' => ~drops /\ ~Cause
      BY <2>2 DEF Cause
    <3>8. QED
      BY <1>0, <1>2, <2>2, <3>1, <3>2, <3>4, <3>5, <3>6, <3>7, ResumeStep DEF QuietInv
  <2>5. QED
    BY <2>3, <2>4
<1>3. CASE Turn("ok") /\ \E stops, drops \in BOOLEAN :
             /\ SlotsAsk(stops, drops) /\ ~m_managedMode /\ End("ok", After(stops))
             /\ UNCHANGED <<m_session, announced, session>>
  <2>1. PICK stops \in BOOLEAN, drops \in BOOLEAN :
          /\ SlotsAsk(stops, drops) /\ ~m_managedMode /\ End("ok", After(stops))
          /\ UNCHANGED <<m_session, announced, session>>
    BY <1>3
  <2>2. /\ asked \subseteq asked' /\ asked' \in SUBSET Requests
        /\ stops => "stop" \in asked'
    BY <1>0, <2>1 DEF SlotsAsk, TypeOK, Requests
  <2>3. /\ m_state' = IF stops \/ m_state = "STOPPED" THEN "STOPPED" ELSE "DONE"
        /\ pc' = "over" /\ result' = "ok" /\ pending' = pending
    BY <2>1 DEF End, After
  <2>4. TypeOK'
    BY <1>0, <1>3, <2>1, <2>2, <2>3, TakeFacts DEF TypeOK, session, Codes, States
  <2>5. StateInv' /\ Announced'
    BY <1>0, <1>1, <2>1, <2>3 DEF StateInv, Active, Announced
  <2>6. ~Cause' => ~Cause /\ m_state' # "STOPPED"
    BY <1>0, <2>2, <2>3 DEF Cause, QuietInv
  <2>7. QED
    BY <1>0, <1>3, <2>1, <2>2, <2>3, <2>4, <2>5, <2>6, ResumeStep
    DEF QuietInv, session
<1>4. CASE /\ Turn("error") /\ ConnectFailed
           /\ UNCHANGED <<m_session, announced, asked, session>>
  <2>1. /\ m_state' \in States /\ pending' \in BOOLEAN
        /\ result' \in {result, "error", "canceled"}
        /\ \/ pc' = "wait" /\ m_state' = m_state /\ ~canceled /\ m_managedMode
           \/ pc' = "over" /\ m_managedMode /\ canceled
           \/ pc' = "over" /\ ~m_managedMode
                /\ (m_state' = "STOPPED" => m_state = "STOPPED")
    BY <1>0, <1>4 DEF ConnectFailed, Await, End, TypeOK, States
  <2>2. TypeOK'
    BY <1>0, <1>4, <2>1, TakeFacts DEF TypeOK, session, Codes
  <2>3. StateInv' /\ Announced'
    BY <1>0, <1>1, <1>4, <2>1 DEF StateInv, Active, Announced
  <2>4. ~Cause => m_state' # "STOPPED" /\ (m_managedMode => pc' = "wait")
    BY <1>0, <2>1 DEF QuietInv
  <2>5. QED
    BY <1>0, <1>4, <2>1, <2>2, <2>3, <2>4, ResumeStep DEF QuietInv, Cause, session
<1>5. CASE /\ Turn("canceled") /\ End("canceled", m_state)
           /\ UNCHANGED <<m_session, announced, asked, session>>
  <2>1. /\ m_state' = "STOPPED" /\ pc' = "over" /\ result' = "canceled"
        /\ pending' = pending
    BY <1>5 DEF End
  <2>2. TypeOK'
    BY <1>0, <1>5, <2>1, TakeFacts DEF TypeOK, session, Codes, States
  <2>3. StateInv' /\ Announced'
    BY <1>0, <1>1, <1>5, <2>1 DEF StateInv, Active, Announced
  <2>4. Cause'
    <3>1. Cause
      BY <1>5, TakeFacts
    <3>2. QED
      BY <1>5, <3>1 DEF Cause
  <2>5. QED
    BY <1>0, <1>5, <2>1, <2>2, <2>3, <2>4, ResumeStep
<1>6. QED
  BY <1>2, <1>3, <1>4, <1>5 DEF ResumeConnect

-----------------------------------------------------------------------------
(* The theorems.                                                           *)

(* Every step preserves the invariant (Client.cpp:47-132).                 *)
LEMMA StepInv == IInv /\ [Next]_vars => IInv'
<1> SUFFICES ASSUME IInv, [Next]_vars PROVE IInv'
  OBVIOUS
<1>1. CASE Start \/ Stop \/ Cancel
  BY <1>1, AskInv
<1>2. CASE StopSession
  BY <1>2, StopSessionInv
<1>3. ASSUME NEW ec \in {"ok", "error"}, Complete(ec) PROVE IInv'
  BY <1>3, CompleteInv
<1>4. CASE Handle
  BY <1>4, CoStartInv, SignalsInv, ResumeConnectInv, ResumeSessionInv, ResumeWaitInv
  DEF Handle
<1>5. CASE SessionHandle \/ \E ec \in Codes : SessionEnd(ec)
  BY <1>5, SessionInv
<1>6. CASE UNCHANGED vars
  <2>1. TypeOK' /\ StartInv'
    BY <1>6 DEF vars, client, session, IInv, TypeOK, StartInv
  <2>2. StateInv' /\ Announced'
    BY <1>6 DEF vars, client, session, IInv, StateInv, Active, Announced
  <2>3. QuietInv' /\ KeepsTrying'
    BY <1>6 DEF vars, client, session, IInv, QuietInv, KeepsTrying, Cause
  <2>4. QED
    BY <2>1, <2>2, <2>3 DEF IInv
<1>7. QED
  BY <1>1, <1>2, <1>3, <1>4, <1>5, <1>6 DEF Next

(* The inductive invariant: nothing is stopped or canceled unless users    *)
(* asked for it, and m_state and the signal fit run() (Client.cpp:47-132). *)
THEOREM Inductive == Spec => []IInv
<1>1. QED
  BY InitInv, StepInv, PTL DEF Spec

(* Each variable keeps its type (Client.hpp:28-32).                        *)
THEOREM TypeCorrect == Spec => []TypeOK
<1>1. IInv => TypeOK
  BY DEF IInv
<1>2. QED
  BY <1>1, Inductive, PTL

(* Each session that users are told of is completed exactly once, and      *)
(* connected() is true in between (Client.cpp:90-101).                     *)
THEOREM AnnouncedHolds == Spec => []Announced
<1>1. IInv => Announced
  BY DEF IInv
<1>2. QED
  BY <1>1, Inductive, PTL

(* A managed client goes on until it, what awaits it, or its session is    *)
(* stopped (Client.cpp:62-81, 103-127).                                    *)
THEOREM KeepsTryingHolds == Spec => []KeepsTrying
<1>1. IInv => KeepsTrying
  BY DEF IInv
<1>2. QED
  BY <1>1, Inductive, PTL

(* A stopped or canceled coroutine only stays where it is or ends          *)
(* (Client.cpp:51-127).                                                    *)
LEMMA HaltStep ==
  ASSUME IInv, m_state = "STOPPED" \/ canceled, [Next]_vars
  PROVE  pc' \in {pc, "over"}
<1>1. CASE CoStart
  <2>1. pc = "idle"
    BY <1>1, TakeFacts DEF CoStart
  <2>2. ~canceled /\ m_state = "STOPPED"
    BY <2>1 DEF IInv, StateInv
  <2>3. QED
    BY <1>1, <2>2 DEF CoStart, End
<1>2. CASE ResumeConnect \/ ResumeSession \/ ResumeWait
  <2>1. canceled
    BY <1>2 DEF IInv, StateInv, Active, ResumeConnect, ResumeSession, ResumeWait
  <2>2. CASE ResumeConnect
    BY <2>1, <2>2 DEF ResumeConnect, RunSession, ConnectFailed, Await, End
  <2>3. CASE ResumeSession
    BY <2>1, <2>3 DEF ResumeSession, Await, End
  <2>4. CASE ResumeWait
    BY <2>1, <2>4 DEF ResumeWait, Await, End
  <2>5. QED
    BY <1>2, <2>2, <2>3, <2>4
<1>3. CASE Start \/ Stop \/ Cancel \/ StopSession
  BY <1>3 DEF Start, Stop, Cancel, StopSession, Ask, client
<1>4. CASE (\E ec \in {"ok", "error"} : Complete(ec)) \/ CoStop \/ Emit
  BY <1>4 DEF Complete, CoStop, Emit
<1>5. CASE SessionHandle \/ \E ec \in Codes : SessionEnd(ec)
  BY <1>5 DEF SessionHandle, SessionStart, SessionRefuse, SessionStop, SessionEmit,
              SessionEnd, client
<1>6. CASE UNCHANGED vars
  BY <1>6 DEF vars, client
<1>7. QED
  BY <1>1, <1>2, <1>3, <1>4, <1>5, <1>6 DEF Next, Handle

(* Once stopped or canceled, the client starts nothing more                *)
(* (Client.cpp:51-75, 103-127).                                            *)
THEOREM HaltIsFinalHolds == Spec => HaltIsFinal
<1>1. IInv /\ [Next]_vars =>
        [m_state = "STOPPED" \/ canceled => pc' \in {pc, "over"}]_vars
  BY HaltStep
<1>2. QED
  BY <1>1, Inductive, PTL DEF Spec, HaltIsFinal

-----------------------------------------------------------------------------
(* A client at rest.                                                       *)

Has(q, h) == \E i \in 1..Len(q) : q[i] = h
HasCode(q) == \E i \in 1..Len(q) : q[i] \in Codes
OneCode(q) == \A i, j \in 1..Len(q) : q[i] \in Codes /\ q[j] \in Codes => i = j

(* A coroutine starts before it is canceled.                               *)
StartFirst(q) == \A i, j \in 1..Len(q) : q[i] = "emit" /\ q[j] = "start" => j < i

Tidy(q) == OneCode(q) /\ OneStart(q) /\ StartFirst(q)

(* What run() awaits is one thing: the connect or the timer, a session     *)
(* that is to start or runs, or the completion that is queued.             *)
AwaitInv ==
  /\ Tidy(strand) /\ Tidy(sStrand)
  /\ HasCode(strand) => Active /\ ~pending /\ ~sRunning /\ ~HasStart(sStrand)
  /\ pending => pc \in {"connect", "wait"}
  /\ sRunning => pc = "session" /\ ~HasStart(sStrand)
  /\ HasStart(sStrand) => pc = "session"
  /\ Active => pending \/ sRunning \/ HasStart(sStrand) \/ HasCode(strand)

(* A stop or a cancellation that was asked for is queued until it has got  *)
(* to the client, and from there to the session that the client awaits.    *)
HaltInv ==
  /\ pc = "idle" /\ "start" \in asked => HasStart(strand)
  /\ "stop" \in asked => m_state = "STOPPED" \/ Has(strand, "stop")
  /\ "cancel" \in asked =>
       "start" \in asked /\ (canceled \/ pc = "over" \/ Has(strand, "emit"))
  /\ Has(strand, "emit") => "cancel" \in asked
  /\ canceled /\ pc # "session" => ~pending
  /\ canceled /\ pc = "session" => sCanceled \/ Has(sStrand, "emit") \/ HasCode(strand)

(* When neither strand has anything left to run, a client that was started *)
(* awaits a connect or a timer, or a session that runs; and if it has been *)
(* stopped or canceled, only a session that is canceled too.               *)
Rests ==
  strand = <<>> /\ sStrand = <<>> =>
    /\ pc = "idle" => "start" \notin asked
    /\ Active => IF pc = "session" THEN sRunning ELSE pending
    /\ Active /\ asked \cap {"stop", "cancel"} # {} => pc = "session" /\ sCanceled

(* A handler is queued behind the others (StrandHolder.hpp:18-26).         *)
LEMMA Pushed ==
  ASSUME NEW S, NEW q \in Seq(S), NEW h \in S, Tidy(q),
         h \in Codes => ~HasCode(q),
         h = "start" => ~HasStart(q) /\ ~Has(q, "emit")
  PROVE  /\ Append(q, h) \in Seq(S) /\ Tidy(Append(q, h))
         /\ \A g : Has(Append(q, h), g) <=> Has(q, g) \/ g = h
         /\ HasCode(Append(q, h)) <=> HasCode(q) \/ h \in Codes
         /\ HasStart(Append(q, h)) <=> HasStart(q) \/ h = "start"
<1> DEFINE w == Append(q, h)
<1>1. /\ Len(q) \in Nat /\ Len(w) = Len(q) + 1 /\ w[Len(w)] = h /\ w \in Seq(S)
      /\ \A i \in 1..Len(q) : w[i] = q[i]
      /\ \A i \in 1..Len(w) : i \in 1..Len(q) \/ i = Len(w)
  OBVIOUS
<1> HIDE DEF w
<1>2. \A g : Has(w, g) <=> Has(q, g) \/ g = h
  BY <1>1 DEF Has
<1>3. /\ HasCode(w) <=> HasCode(q) \/ h \in Codes
      /\ HasStart(w) <=> HasStart(q) \/ h = "start"
  BY <1>1 DEF HasCode, HasStart
<1>4. OneCode(w)
  BY <1>1 DEF Tidy, OneCode, HasCode
<1>5. OneStart(w)
  BY <1>1 DEF Tidy, OneStart, HasStart
<1>6. StartFirst(w)
  <2> SUFFICES ASSUME NEW i \in 1..Len(w), NEW j \in 1..Len(w), w[i] = "emit", w[j] = "start"
               PROVE  j < i
    BY DEF StartFirst
  <2>1. CASE i \in 1..Len(q) /\ j \in 1..Len(q)
    BY <1>1, <2>1 DEF Tidy, StartFirst
  <2>2. CASE i = Len(w)
    BY <1>1, <2>2
  <2>3. CASE i \in 1..Len(q) /\ j = Len(w)
    BY <1>1, <2>3 DEF Has
  <2>4. QED
    BY <1>1, <2>1, <2>2, <2>3
<1>7. QED
  BY <1>1, <1>2, <1>3, <1>4, <1>5, <1>6 DEF Tidy, w

(* The oldest handler is taken (StrandHolder.hpp:18-26).                   *)
LEMMA Taken ==
  ASSUME NEW S, NEW q \in Seq(S), q # <<>>, Tidy(q)
  PROVE  /\ Tail(q) \in Seq(S) /\ Tidy(Tail(q))
         /\ Head(q) \in S /\ Has(q, Head(q))
         /\ \A g : Has(q, g) => g = Head(q) \/ Has(Tail(q), g)
         /\ \A g : Has(Tail(q), g) => Has(q, g)
         /\ HasCode(q) <=> Head(q) \in Codes \/ HasCode(Tail(q))
         /\ HasStart(q) <=> Head(q) = "start" \/ HasStart(Tail(q))
         /\ Head(q) \in Codes => ~HasCode(Tail(q))
         /\ Head(q) = "start" => ~HasStart(Tail(q))
         /\ Head(q) = "emit" => ~HasStart(q)
<1> DEFINE w == Tail(q)
<1>1. /\ Len(q) \in Nat /\ Len(q) >= 1 /\ Len(w) = Len(q) - 1 /\ Head(q) = q[1]
      /\ \A i \in 1..Len(w) : i + 1 \in 1..Len(q) /\ w[i] = q[i + 1]
      /\ w \in Seq(S) /\ q[1] \in S
  OBVIOUS
<1> HIDE DEF w
<1>2. 1 \in 1..Len(q) /\ Has(q, Head(q))
  BY <1>1 DEF Has
<1>3. \A i \in 1..Len(q) : i = 1 \/ (i - 1 \in 1..Len(w) /\ w[i - 1] = q[i])
  <2> SUFFICES ASSUME NEW i \in 1..Len(q), i # 1 PROVE i - 1 \in 1..Len(w) /\ w[i - 1] = q[i]
    OBVIOUS
  <2>1. i - 1 \in 1..Len(w) /\ (i - 1) + 1 = i
    BY <1>1
  <2>2. QED
    BY <1>1, <2>1
<1>4. \A g : Has(q, g) => g = Head(q) \/ Has(w, g)
  BY <1>1, <1>3 DEF Has
<1>5. \A g : Has(w, g) => Has(q, g)
  BY <1>1 DEF Has
<1>6. /\ HasCode(q) <=> Head(q) \in Codes \/ HasCode(w)
      /\ HasStart(q) <=> Head(q) = "start" \/ HasStart(w)
  <2>1. HasCode(q) => Head(q) \in Codes \/ HasCode(w)
    BY <1>1, <1>3 DEF HasCode
  <2>2. HasStart(q) => Head(q) = "start" \/ HasStart(w)
    BY <1>1, <1>3 DEF HasStart
  <2>3. HasCode(w) => HasCode(q)
    BY <1>1 DEF HasCode
  <2>4. HasStart(w) => HasStart(q)
    BY <1>1 DEF HasStart
  <2>5. /\ Head(q) \in Codes => HasCode(q)
        /\ Head(q) = "start" => HasStart(q)
    BY <1>1, <1>2 DEF HasCode, HasStart
  <2>6. QED
    BY <2>1, <2>2, <2>3, <2>4, <2>5
<1>7. OneCode(w) /\ (Head(q) \in Codes => ~HasCode(w))
  <2>1. ASSUME NEW i \in 1..Len(w), NEW j \in 1..Len(w), w[i] \in Codes, w[j] \in Codes
        PROVE  i = j
    <3>1. i + 1 = j + 1
      BY <1>1, <2>1 DEF Tidy, OneCode
    <3>2. QED
      BY <3>1
  <2>2. ASSUME Head(q) \in Codes, NEW i \in 1..Len(w), w[i] \in Codes PROVE FALSE
    <3>1. 1 = i + 1
      BY <1>1, <1>2, <2>2 DEF Tidy, OneCode
    <3>2. QED
      BY <3>1
  <2>3. QED
    BY <2>1, <2>2 DEF OneCode, HasCode
<1>8. OneStart(w) /\ (Head(q) = "start" => ~HasStart(w))
  BY TailFacts DEF Tidy, w
<1>9. StartFirst(w) /\ (Head(q) = "emit" => ~HasStart(q))
  <2>1. ASSUME NEW i \in 1..Len(w), NEW j \in 1..Len(w), w[i] = "emit", w[j] = "start"
        PROVE  j < i
    <3>1. j + 1 < i + 1
      BY <1>1, <2>1 DEF Tidy, StartFirst
    <3>2. QED
      BY <3>1
  <2>2. ASSUME Head(q) = "emit", NEW j \in 1..Len(q), q[j] = "start" PROVE FALSE
    <3>1. j < 1
      BY <1>1, <1>2, <2>2 DEF Tidy, StartFirst
    <3>2. QED
      BY <3>1
  <2>3. QED
    BY <2>1, <2>2 DEF StartFirst, HasStart
<1>10. QED
  BY <1>1, <1>2, <1>4, <1>5, <1>6, <1>7, <1>8, <1>9 DEF Tidy, w

GoInv == AwaitInv /\ HaltInv

(* What a user asks for is queued (CoroutineTask.hpp:22-38).               *)
LEMMA AskGo ==
  ASSUME IInv, GoInv, Start \/ Stop \/ Cancel
  PROVE  GoInv'
<1> DEFINE S == {"start", "stop", "emit"} \cup Codes
<1>0. AwaitInv /\ HaltInv /\ StartInv /\ strand \in Seq(S)
  BY DEF IInv, GoInv, TypeOK
<1>1. PICK what \in Requests, h \in {"start", "stop", "emit"} :
        /\ Ask(what, h)
        /\ \/ what = "start" /\ h = "start"
           \/ what = "stop" /\ h = "stop"
           \/ what = "cancel" /\ h = "emit" /\ "start" \in asked
  BY DEF Start, Stop, Cancel, Requests
<1>2. /\ what \notin asked /\ asked' = asked \cup {what} /\ strand' = Append(strand, h)
      /\ UNCHANGED <<m_managedMode, client, session>>
  BY <1>1 DEF Ask
<1>3. h \in S /\ h \notin Codes
  BY DEF Codes
<1>4. h = "start" => ~HasStart(strand) /\ ~Has(strand, "emit")
  BY <1>0, <1>1, <1>2 DEF HaltInv, StartInv
<1> HIDE DEF S
<1>5. /\ Tidy(strand')
      /\ \A g : Has(strand', g) <=> Has(strand, g) \/ g = h
      /\ HasCode(strand') <=> HasCode(strand)
      /\ HasStart(strand') <=> HasStart(strand) \/ h = "start"
  BY <1>0, <1>2, <1>3, <1>4, Pushed DEF AwaitInv
<1>6. AwaitInv'
  BY <1>0, <1>2, <1>5 DEF AwaitInv, Active, client, session
<1>7. HaltInv'
  BY <1>0, <1>1, <1>2, <1>5 DEF HaltInv, client, session
<1>8. QED
  BY <1>6, <1>7 DEF GoInv

(* The session is told to stop (CoroutineTask.hpp:29-32).                  *)
LEMMA StopSessionGo ==
  ASSUME IInv, GoInv, StopSession
  PROVE  GoInv'
<1> DEFINE S == {"start", "stop", "emit"}
<1>0. AwaitInv /\ HaltInv /\ sStrand \in Seq(S)
  BY DEF IInv, GoInv, TypeOK
<1>1. /\ sStrand' = Append(sStrand, "stop") /\ asked' = asked \cup {"stop session"}
      /\ UNCHANGED <<m_managedMode, client, strand, sState, sRunning, sCanceled>>
      /\ "stop" \in S /\ "stop" \notin Codes
  BY DEF StopSession, Codes
<1> HIDE DEF S
<1>2. /\ Tidy(sStrand')
      /\ \A g : Has(sStrand', g) <=> Has(sStrand, g) \/ g = "stop"
      /\ HasStart(sStrand') <=> HasStart(sStrand)
  BY <1>0, <1>1, Pushed DEF AwaitInv
<1>3. AwaitInv'
  BY <1>0, <1>1, <1>2 DEF AwaitInv, Active, client
<1>4. HaltInv'
  BY <1>0, <1>1, <1>2 DEF HaltInv, client
<1>5. QED
  BY <1>3, <1>4 DEF GoInv

(* What run() awaits has completed: the completion is queued               *)
(* (Client.cpp:60, 125, CoroutineTask.hpp:96-107).                         *)
LEMMA CodeGo ==
  ASSUME IInv, GoInv, NEW ec \in Codes, strand' = Append(strand, ec),
         pending \/ sRunning \/ HasStart(sStrand), ~pending' /\ ~sRunning' /\ ~HasStart(sStrand'),
         Tidy(sStrand'),
         UNCHANGED <<m_state, canceled, pc, asked>>
  PROVE  GoInv'
<1> DEFINE S == {"start", "stop", "emit"} \cup Codes
<1>0. AwaitInv /\ HaltInv /\ strand \in Seq(S) /\ ec \in S /\ ec \notin {"start", "stop", "emit"}
  BY DEF IInv, GoInv, TypeOK, Codes
<1>1. ~HasCode(strand) /\ Active
  BY <1>0 DEF AwaitInv, Active
<1> HIDE DEF S
<1>2. /\ Tidy(strand') /\ HasCode(strand')
      /\ \A g : Has(strand', g) <=> Has(strand, g) \/ g = ec
      /\ HasStart(strand') <=> HasStart(strand)
  BY <1>0, <1>1, Pushed DEF AwaitInv
<1>3. AwaitInv'
  BY <1>0, <1>1, <1>2 DEF AwaitInv, Active
<1>4. HaltInv'
  BY <1>0, <1>2 DEF HaltInv
<1>5. QED
  BY <1>3, <1>4 DEF GoInv

(* The handlers of the session's strand (CoroutineTask.hpp:34-107).        *)
LEMMA SessionGo ==
  ASSUME IInv, GoInv, SessionHandle \/ \E ec \in Codes : SessionEnd(ec)
  PROVE  GoInv'
<1> DEFINE S == {"start", "stop", "emit"}
<1>0. AwaitInv /\ HaltInv /\ sStrand \in Seq(S) /\ Tidy(sStrand)
  BY DEF IInv, GoInv, TypeOK, AwaitInv
<1>1. ASSUME NEW ec \in Codes, SessionEnd(ec) PROVE GoInv'
  <2>1. /\ strand' = Append(strand, ec) /\ sRunning /\ ~sRunning'
        /\ UNCHANGED <<m_state, canceled, pc, asked, pending, sStrand>>
    BY <1>1 DEF SessionEnd, client
  <2>2. ~pending /\ ~HasStart(sStrand)
    BY <1>0, <2>1 DEF AwaitInv
  <2>3. QED
    BY <1>0, <2>1, <2>2, CodeGo
<1>2. ASSUME NEW h, SessionTurn(h), sStrand' = Tail(sStrand)
      PROVE  /\ Tidy(sStrand')
             /\ \A g : Has(sStrand, g) => g = h \/ Has(sStrand', g)
             /\ HasStart(sStrand) <=> h = "start" \/ HasStart(sStrand')
             /\ h = "start" => ~HasStart(sStrand')
             /\ h = "emit" => ~HasStart(sStrand)
  <2>1. sStrand # <<>> /\ Head(sStrand) = h
    BY <1>2 DEF SessionTurn
  <2> HIDE DEF S
  <2>2. QED
    BY <1>0, <1>2, <2>1, Taken
<1>3. CASE SessionRefuse
  <2>1. /\ SessionTurn("start") /\ sStrand' = Tail(sStrand) /\ strand' = Append(strand, "error")
        /\ UNCHANGED <<m_state, canceled, pc, asked, pending, sRunning>>
        /\ "error" \in Codes
    BY <1>3 DEF SessionRefuse, client, Codes
  <2>2. ~pending /\ ~sRunning
    BY <1>0, <1>2, <2>1 DEF AwaitInv
  <2>3. QED
    BY <1>2, <2>1, <2>2, CodeGo
<1>4. CASE SessionStart
  <2>1. /\ SessionTurn("start") /\ sStrand' = Tail(sStrand) /\ sRunning'
        /\ UNCHANGED <<m_state, canceled, pc, asked, pending, strand, sCanceled>>
    BY <1>4 DEF SessionStart, client
  <2>2. /\ Tidy(sStrand') /\ HasStart(sStrand) /\ ~HasStart(sStrand')
        /\ Has(sStrand, "emit") => Has(sStrand', "emit")
    BY <1>2, <2>1
  <2>3. AwaitInv'
    BY <1>0, <2>1, <2>2 DEF AwaitInv, Active
  <2>4. HaltInv'
    BY <1>0, <2>1, <2>2 DEF HaltInv
  <2>5. QED
    BY <2>3, <2>4 DEF GoInv
<1>5. CASE SessionStop \/ SessionEmit
  <2>1. PICK h \in {"stop", "emit"} :
          /\ SessionTurn(h) /\ sStrand' = Tail(sStrand)
          /\ sCanceled => sCanceled'
          /\ h = "emit" /\ sRunning => sCanceled'
          /\ UNCHANGED <<m_state, canceled, pc, asked, pending, strand, sRunning>>
    BY <1>5 DEF SessionStop, SessionEmit, client
  <2>2. /\ Tidy(sStrand')
        /\ HasStart(sStrand) <=> HasStart(sStrand')
        /\ Has(sStrand, "emit") => h = "emit" \/ Has(sStrand', "emit")
        /\ h = "emit" => ~HasStart(sStrand)
    BY <1>2, <2>1
  <2>3. AwaitInv'
    BY <1>0, <2>1, <2>2 DEF AwaitInv, Active
  <2>4. canceled /\ pc = "session" => sCanceled' \/ Has(sStrand', "emit") \/ HasCode(strand)
    BY <1>0, <2>1, <2>2 DEF HaltInv, AwaitInv, Active
  <2>5. HaltInv'
    BY <1>0, <2>1, <2>4 DEF HaltInv
  <2>6. QED
    BY <2>3, <2>5 DEF GoInv
<1>6. QED
  BY <1>1, <1>3, <1>4, <1>5 DEF SessionHandle

(* The handler that the client's strand executes, and the others.          *)
LEMMA TurnGo ==
  ASSUME IInv, GoInv, NEW h, Turn(h)
  PROVE  /\ Tail(strand) \in Seq({"start", "stop", "emit"} \cup Codes)
         /\ Tidy(Tail(strand)) /\ Has(strand, h)
         /\ \A g : Has(strand, g) => g = h \/ Has(Tail(strand), g)
         /\ \A g : Has(Tail(strand), g) => Has(strand, g)
         /\ HasCode(strand) <=> h \in Codes \/ HasCode(Tail(strand))
         /\ HasStart(strand) <=> h = "start" \/ HasStart(Tail(strand))
         /\ h \in Codes => ~HasCode(Tail(strand))
         /\ h = "start" => ~HasStart(Tail(strand))
         /\ h = "emit" => ~HasStart(strand)
<1>1. /\ strand # <<>> /\ Head(strand) = h /\ Tidy(strand)
      /\ strand \in Seq({"start", "stop", "emit"} \cup Codes)
  BY DEF IInv, TypeOK, Turn, GoInv, AwaitInv
<1>2. QED
  BY <1>1, Taken

(* co_start() enters run(), or is refused (CoroutineTask.hpp:71-107).      *)
LEMMA CoStartGo ==
  ASSUME IInv, GoInv, CoStart
  PROVE  GoInv'
<1>0. AwaitInv /\ HaltInv /\ StateInv /\ pc = "idle"
  BY TakeFacts DEF IInv, GoInv, CoStart
<1>1. /\ Tidy(Tail(strand))
      /\ \A g : Has(strand, g) => g = "start" \/ Has(Tail(strand), g)
      /\ \A g : Has(Tail(strand), g) => Has(strand, g)
      /\ HasCode(strand) <=> HasCode(Tail(strand))
  BY TurnGo DEF CoStart, Codes
<1>2. /\ strand' = Tail(strand)
      /\ UNCHANGED <<canceled, asked, sRunning, sCanceled, sStrand>>
      /\ \/ pc' = "connect" /\ pending' = TRUE /\ m_state # "STOPPED"
         \/ pc' = "over" /\ pending' = pending
      /\ m_state = "STOPPED" => m_state' = "STOPPED"
  BY DEF CoStart, Await, End, session
<1>3. ~canceled /\ ~pending /\ ~sRunning /\ ~HasStart(sStrand) /\ ~HasCode(strand)
  BY <1>0 DEF AwaitInv, StateInv, Active
<1>4. AwaitInv'
  BY <1>0, <1>1, <1>2, <1>3 DEF AwaitInv, Active
<1>5. /\ Has(strand, "stop") => Has(strand', "stop")
      /\ Has(strand, "emit") <=> Has(strand', "emit")
  BY <1>1, <1>2
<1>6. HaltInv'
  BY <1>0, <1>2, <1>3, <1>5 DEF HaltInv
<1>7. QED
  BY <1>4, <1>6 DEF GoInv

(* A stop or the cancellation of who awaits the client gets to what run()  *)
(* awaits (CoroutineTask.hpp:34-51, CancellationSignal.cpp:10-26).         *)
LEMMA HaltGo ==
  ASSUME IInv, GoInv, CoStop \/ Emit
  PROVE  GoInv'
<1> DEFINE S == {"start", "stop", "emit"} \cup Codes
           t == Tail(strand)
<1>0. AwaitInv /\ HaltInv /\ StateInv /\ TypeOK
  BY DEF IInv, GoInv
<1>1. PICK h \in {"stop", "emit"} : /\ Turn(h)
                                    /\ h = "stop" <=> CoStop
  BY DEF CoStop, Emit, Turn
<1>2. /\ t \in Seq(S) /\ Tidy(t) /\ Has(strand, h)
      /\ \A g : Has(strand, g) => g = h \/ Has(t, g)
      /\ \A g : Has(t, g) => Has(strand, g)
      /\ HasCode(strand) <=> HasCode(t)
      /\ HasStart(strand) <=> HasStart(t)
      /\ h = "emit" => ~HasStart(strand)
  BY <1>1, TurnGo DEF Codes
<1>3. /\ UNCHANGED <<pc, asked, sRunning, sCanceled>>
      /\ m_state = "STOPPED" \/ h = "stop" => m_state' = "STOPPED"
      /\ \/ Signal
         \/ h = "stop" /\ strand' = t /\ UNCHANGED <<canceled, pending, sStrand>>
  BY <1>1 DEF CoStop, Emit
<1>4. ASSUME h = "emit" PROVE pc # "idle"
  BY <1>0, <1>2, <1>4 DEF HaltInv
<1> HIDE DEF S, t
<1>5. CASE h = "stop" /\ strand' = t /\ UNCHANGED <<canceled, pending, sStrand>>
  <2>1. AwaitInv'
    BY <1>0, <1>2, <1>3, <1>5 DEF AwaitInv, Active
  <2>2. Has(strand, "emit") <=> Has(strand', "emit")
    BY <1>2, <1>5
  <2>3. HaltInv'
    BY <1>0, <1>2, <1>3, <1>5, <2>2 DEF HaltInv
  <2>4. QED
    BY <2>1, <2>3 DEF GoInv
<1>6. CASE Signal
  <2>1. /\ canceled' = (canceled \/ Active) /\ pending' = (pending /\ ~Active)
        /\ strand' = IF pending /\ Active THEN Append(t, "canceled") ELSE t
        /\ sStrand' = IF pc = "session" THEN Append(sStrand, "emit") ELSE sStrand
    BY <1>6 DEF Signal, t
  <2>2. /\ Tidy(sStrand')
        /\ HasStart(sStrand') <=> HasStart(sStrand)
        /\ pc = "session" => Has(sStrand', "emit")
    <3>1. sStrand \in Seq({"start", "stop", "emit"}) /\ "emit" \in {"start", "stop", "emit"}
      BY <1>0 DEF TypeOK
    <3>2. "emit" \notin Codes /\ "emit" # "start" /\ Tidy(sStrand)
      BY <1>0 DEF AwaitInv, Codes
    <3>3. CASE pc = "session"
      BY <2>1, <3>1, <3>2, <3>3, Pushed
    <3>4. CASE pc # "session"
      BY <2>1, <3>2, <3>4
    <3>5. QED
      BY <3>3, <3>4
  <2>3. /\ Tidy(strand')
        /\ \A g : g # "canceled" => (Has(strand', g) <=> Has(t, g))
        /\ HasStart(strand') <=> HasStart(t)
        /\ HasCode(strand') <=> HasCode(t) \/ (pending /\ Active)
    <3>1. CASE pending /\ Active
      <4>1. ~HasCode(t) /\ "canceled" \in S /\ "canceled" \in Codes /\ "canceled" # "start"
        BY <1>0, <1>2, <3>1 DEF AwaitInv, Codes, S
      <4>2. QED
        BY <1>2, <2>1, <3>1, <4>1, Pushed
    <3>2. CASE ~(pending /\ Active)
      BY <1>2, <2>1, <3>2
    <3>3. QED
      BY <3>1, <3>2
  <2>4. AwaitInv'
    BY <1>0, <1>2, <1>3, <2>1, <2>2, <2>3 DEF AwaitInv, Active
  <2>5. /\ Has(strand, "stop") => h = "stop" \/ Has(strand', "stop")
        /\ Has(strand, "emit") => h = "emit" \/ Has(strand', "emit")
        /\ Has(strand', "emit") => Has(strand, "emit")
    BY <1>2, <2>3
  <2>6. h = "emit" => canceled' \/ pc' = "over"
    BY <1>0, <1>3, <1>4, <2>1 DEF TypeOK, Active
  <2>7. canceled' /\ pc' # "session" => ~pending'
    BY <1>0, <1>3, <2>1 DEF HaltInv
  <2>8. HaltInv'
    <3>1. pc' = "idle" /\ "start" \in asked' => HasStart(strand')
      BY <1>0, <1>2, <1>3, <2>3 DEF HaltInv
    <3>2. "stop" \in asked' => m_state' = "STOPPED" \/ Has(strand', "stop")
      BY <1>0, <1>3, <2>5 DEF HaltInv
    <3>3. "cancel" \in asked' =>
            "start" \in asked' /\ (canceled' \/ pc' = "over" \/ Has(strand', "emit"))
      BY <1>0, <1>3, <2>1, <2>5, <2>6 DEF HaltInv
    <3>4. Has(strand', "emit") => "cancel" \in asked'
      BY <1>0, <1>3, <2>5 DEF HaltInv
    <3>5. QED
      BY <1>3, <2>2, <2>7, <3>1, <3>2, <3>3, <3>4 DEF HaltInv
  <2>9. QED
    BY <2>4, <2>8 DEF GoInv
<1>7. QED
  BY <1>3, <1>5, <1>6

(* The strand of a new session (Client.cpp:90-101).                        *)
LEMMA StartedFacts ==
  ASSUME NEW q \in {<<"start">>, <<"stop", "start">>}
  PROVE  Tidy(q) /\ HasStart(q)
<1>1. ASSUME q = <<"start">> PROVE Tidy(q) /\ HasStart(q)
  <2>1. Len(q) = 1 /\ q[1] = "start"
    BY <1>1
  <2>2. 1..Len(q) = {1}
    BY <2>1
  <2>3. QED
    BY <2>1, <2>2 DEF Tidy, OneCode, OneStart, StartFirst, HasStart, Codes
<1>2. ASSUME q = <<"stop", "start">> PROVE Tidy(q) /\ HasStart(q)
  <2>1. Len(q) = 2 /\ q[1] = "stop" /\ q[2] = "start"
    BY <1>2
  <2>2. 1..Len(q) = {1, 2}
    BY <2>1
  <2>3. QED
    BY <2>1, <2>2 DEF Tidy, OneCode, OneStart, StartFirst, HasStart, Codes
<1>3. QED
  BY <1>1, <1>2

(* run() goes on: it ends, or awaits one thing, unless it is canceled.     *)
LEMMA ResumeGo ==
  ASSUME IInv, GoInv, NEW ec \in Codes, Turn(ec), strand' = Tail(strand),
         asked' \subseteq asked \cup {"stop", "stop session"},
         asked \subseteq asked',
         "stop" \in asked' /\ "stop" \notin asked => m_state' = "STOPPED",
         m_state = "STOPPED" => m_state' = "STOPPED",
         canceled' = canceled,
         \/ /\ pc' = "over" /\ pending' = pending
            /\ UNCHANGED <<sRunning, sStrand>>
         \/ /\ pc' \in {"connect", "wait"} /\ pending' /\ ~canceled
            /\ UNCHANGED <<sRunning, sStrand>>
         \/ /\ pc' = "session" /\ pending' = pending /\ ~canceled
            /\ ~sRunning' /\ sStrand' \in {<<"start">>, <<"stop", "start">>}
  PROVE  GoInv'
<1>0. AwaitInv /\ HaltInv
  BY DEF GoInv
<1>1. /\ Tidy(strand') /\ HasCode(strand) /\ ~HasCode(strand')
      /\ Has(strand, "stop") => Has(strand', "stop")
      /\ Has(strand, "emit") <=> Has(strand', "emit")
  BY TurnGo DEF Codes
<1>2. Active /\ ~pending /\ ~sRunning /\ ~HasStart(sStrand)
  BY <1>0, <1>1 DEF AwaitInv
<1>3. pc # "idle" /\ pc' # "idle"
  BY <1>2 DEF Active
<1>4. /\ "stop" \in asked' => m_state' = "STOPPED" \/ Has(strand', "stop")
      /\ "cancel" \in asked' =>
           "start" \in asked' /\ (canceled' \/ pc' = "over" \/ Has(strand', "emit"))
      /\ Has(strand', "emit") => "cancel" \in asked'
  <2>1. "cancel" \in asked' <=> "cancel" \in asked
    OBVIOUS
  <2>2. "cancel" \in asked => canceled \/ Has(strand, "emit")
    BY <1>0, <1>2 DEF HaltInv, Active
  <2>3. QED
    BY <1>0, <1>1, <2>1, <2>2 DEF HaltInv
<1>5. CASE pc' = "over" /\ pending' = pending /\ UNCHANGED <<sRunning, sStrand>>
  <2>1. AwaitInv'
    BY <1>0, <1>1, <1>2, <1>5 DEF AwaitInv, Active
  <2>2. HaltInv'
    BY <1>1, <1>2, <1>4, <1>5 DEF HaltInv
  <2>3. QED
    BY <2>1, <2>2 DEF GoInv
<1>6. CASE /\ pc' \in {"connect", "wait"} /\ pending' /\ ~canceled
           /\ UNCHANGED <<sRunning, sStrand>>
  <2>1. AwaitInv'
    BY <1>0, <1>1, <1>2, <1>6 DEF AwaitInv, Active
  <2>2. HaltInv'
    BY <1>1, <1>3, <1>4, <1>6 DEF HaltInv
  <2>3. QED
    BY <2>1, <2>2 DEF GoInv
<1>7. CASE /\ pc' = "session" /\ pending' = pending /\ ~canceled
           /\ ~sRunning' /\ sStrand' \in {<<"start">>, <<"stop", "start">>}
  <2>1. Tidy(sStrand') /\ HasStart(sStrand')
    BY <1>7, StartedFacts
  <2>2. AwaitInv'
    BY <1>0, <1>1, <1>2, <1>7, <2>1 DEF AwaitInv, Active
  <2>3. HaltInv'
    BY <1>1, <1>3, <1>4, <1>7 DEF HaltInv
  <2>4. QED
    BY <2>2, <2>3 DEF GoInv
<1>8. QED
  BY <1>5, <1>6, <1>7

(* After the connect, the session or the wait (Client.cpp:51-127).         *)
LEMMA ResumesGo ==
  ASSUME IInv, GoInv, ResumeConnect \/ ResumeSession \/ ResumeWait
  PROVE  GoInv'
<1>0. \A ec \in {"ok", "error", "canceled"} : ec \in Codes
  BY DEF Codes
<1>1. CASE ResumeConnect
  <2>1. strand' = Tail(strand) /\ canceled' = canceled
    BY <1>1 DEF ResumeConnect
  <2>2. ASSUME NEW stops \in BOOLEAN, NEW drops \in BOOLEAN, Turn("ok"),
               SlotsAsk(stops, drops),
               \/ m_managedMode /\ RunSession(stops, drops)
               \/ End("ok", After(stops)) /\ UNCHANGED <<m_session, announced, session>>
        PROVE  GoInv'
    <3>1. /\ asked' \subseteq asked \cup {"stop", "stop session"} /\ asked \subseteq asked'
          /\ "stop" \in asked' /\ "stop" \notin asked => stops
      BY <2>2 DEF SlotsAsk
    <3>2. CASE End("ok", After(stops)) /\ UNCHANGED <<m_session, announced, session>>
      BY <1>0, <2>1, <2>2, <3>1, <3>2, ResumeGo DEF End, After, session
    <3>3. CASE RunSession(stops, drops) /\ (canceled \/ stops)
      BY <1>0, <2>1, <2>2, <3>1, <3>3, ResumeGo DEF RunSession, End, After
    <3>4. CASE RunSession(stops, drops) /\ ~(canceled \/ stops)
      BY <1>0, <2>1, <2>2, <3>1, <3>4, ResumeGo DEF RunSession
    <3>5. QED
      BY <2>2, <3>2, <3>3, <3>4
  <2>3. CASE /\ \/ Turn("error") /\ ConnectFailed
                \/ Turn("canceled") /\ End("canceled", m_state)
             /\ UNCHANGED <<asked, session>>
    BY <1>0, <2>1, <2>3, ResumeGo DEF ConnectFailed, Await, End, session
  <2>4. QED
    BY <1>1, <2>2, <2>3 DEF ResumeConnect
<1>2. CASE ResumeSession
  <2>1. strand' = Tail(strand) /\ UNCHANGED <<canceled, session>>
    BY <1>2 DEF ResumeSession
  <2>2. ASSUME NEW ec \in Codes, NEW stops \in BOOLEAN, Turn(ec), SlotsAsk(stops, FALSE),
               \/ ec = "canceled" /\ End(ec, After(stops))
               \/ ec # "canceled" /\ Await("wait", After(stops), canceled \/ stops)
        PROVE  GoInv'
    <3>1. /\ asked' \subseteq asked \cup {"stop", "stop session"} /\ asked \subseteq asked'
          /\ "stop" \in asked' /\ "stop" \notin asked => stops
      BY <2>2 DEF SlotsAsk
    <3>2. CASE Await("wait", After(stops), FALSE) /\ ~canceled /\ ~stops
      BY <2>1, <2>2, <3>1, <3>2, ResumeGo DEF Await, After, session
    <3>3. CASE \E c \in Codes : End(c, After(stops))
      BY <2>1, <2>2, <3>1, <3>3, ResumeGo DEF End, After, session
    <3>4. QED
      BY <1>0, <2>2, <3>2, <3>3 DEF Await
  <2>3. QED
    BY <1>2, <2>2 DEF ResumeSession
<1>3. CASE ResumeWait
  BY <1>0, <1>3, ResumeGo DEF ResumeWait, Await, End, session
<1>4. QED
  BY <1>1, <1>2, <1>3

(* A client does not hang: each stop and cancellation gets to what it      *)
(* awaits, and each thing it awaits comes back to it (Client.cpp:51-127,   *)
(* CoroutineTask.hpp:34-107).                                              *)
THEOREM RestsHolds == Spec => []Rests
<1>1. Init => GoInv
  <2> SUFFICES ASSUME Init PROVE AwaitInv /\ HaltInv
    BY DEF GoInv
  <2>1. strand = <<>> /\ sStrand = <<>>
    BY DEF Init
  <2>2. /\ Tidy(strand) /\ Tidy(sStrand) /\ ~HasCode(strand) /\ ~HasStart(sStrand)
        /\ ~Has(strand, "emit")
    BY <2>1 DEF Tidy, OneCode, OneStart, StartFirst, HasCode, HasStart, Has
  <2>3. QED
    BY <2>2 DEF Init, AwaitInv, HaltInv, Active
<1>2. IInv /\ GoInv /\ [Next]_vars => GoInv'
  <2> SUFFICES ASSUME IInv, GoInv, [Next]_vars PROVE GoInv'
    OBVIOUS
  <2>1. ASSUME NEW ec \in {"ok", "error"}, Complete(ec) PROVE GoInv'
    <3>1. /\ strand' = Append(strand, ec) /\ pending /\ ~pending' /\ ec \in Codes
          /\ UNCHANGED <<m_state, canceled, pc, asked, sRunning, sStrand>>
      BY <2>1 DEF Complete, session, Codes
    <3>2. ~sRunning /\ ~HasStart(sStrand) /\ Tidy(sStrand)
      BY <3>1 DEF GoInv, AwaitInv
    <3>3. QED
      BY <3>1, <3>2, CodeGo
  <2>2. CASE Handle
    BY <2>2, CoStartGo, HaltGo, ResumesGo DEF Handle
  <2>3. CASE UNCHANGED vars
    BY <2>3 DEF vars, client, session, GoInv, AwaitInv, HaltInv, Active
  <2>4. QED
    BY <2>1, <2>2, <2>3, AskGo, StopSessionGo, SessionGo DEF Next
<1>3. IInv /\ GoInv => Rests
  <2> SUFFICES ASSUME IInv, GoInv, strand = <<>>, sStrand = <<>>
               PROVE  /\ pc = "idle" => "start" \notin asked
                      /\ Active => IF pc = "session" THEN sRunning ELSE pending
                      /\ Active /\ asked \cap {"stop", "cancel"} # {} =>
                           pc = "session" /\ sCanceled
    BY DEF Rests
  <2>1. /\ ~HasCode(strand) /\ ~HasStart(strand) /\ ~HasStart(sStrand)
        /\ \A h : ~Has(strand, h) /\ ~Has(sStrand, h)
    BY DEF HasCode, HasStart, Has
  <2>2. pc = "idle" => "start" \notin asked
    BY <2>1 DEF GoInv, HaltInv
  <2>3. Active => IF pc = "session" THEN sRunning ELSE pending
    BY <2>1 DEF GoInv, AwaitInv
  <2>4. ASSUME Active, asked \cap {"stop", "cancel"} # {} PROVE canceled
    <3>1. "stop" \in asked => m_state = "STOPPED"
      BY <2>1 DEF GoInv, HaltInv
    <3>2. "cancel" \in asked => canceled
      BY <2>1, <2>4 DEF GoInv, HaltInv, Active
    <3>3. QED
      BY <2>4, <3>1, <3>2 DEF IInv, StateInv
  <2>5. Active /\ canceled => pc = "session" /\ sCanceled
    BY <2>1, <2>3 DEF GoInv, HaltInv
  <2>6. QED
    BY <2>2, <2>3, <2>4, <2>5
<1>4. QED
  BY <1>1, <1>2, <1>3, Inductive, PTL DEF Spec
=============================================================================
