------------------------------- MODULE Client -------------------------------
(***************************************************************************)
(* A Client connects and makes a session of the connection.  In managed    *)
(* mode it runs the session, waits, and connects again; otherwise it       *)
(* returns the session.  Its users listen to newSession and                *)
(* sessionCompleted, whose slots run on the client's strand, and may stop  *)
(* the client, the session, or a task that awaits the client.              *)
(*                                                                         *)
(* Client and session are CoroutineTasks on a strand each, a FIFO of       *)
(*   start, stop              CoroutineTask::co_start, co_stop             *)
(*   emit                     the cancellation signal of whoever awaits    *)
(*   ok, error, canceled      completion of what Client::run() awaits      *)
(*                                                                         *)
(* Only the latest session is modelled: what happens to an earlier one has *)
(* no effect on the client.  A session's run() is arbitrary; it may end    *)
(* with operation_canceled only if its signal has fired.                   *)
(***************************************************************************)
EXTENDS Naturals, Sequences

VARIABLES
  m_managedMode,
  m_state,      \* CoroutineTask::m_state of the client
  canceled,     \* the signal of the client's coroutine has fired
  pc,           \* run(): "idle", awaiting "connect", "session", "wait", "over"
  pending,      \* the connect or the wait has not completed
  result,       \* how run() ended
  m_session,    \* m_session.lock() is not null
  announced,    \* newSession emissions without their sessionCompleted
  asked,        \* what users have asked for so far
  strand,
  sState,       \* CoroutineTask::m_state of the session, "NONE" before the first
  sRunning,     \* the session's coroutine exists
  sCanceled,    \* its signal has fired
  sStrand

client == <<m_state, canceled, pc, pending, result, m_session, announced>>
session == <<sState, sRunning, sCanceled, sStrand>>
vars == <<m_managedMode, client, asked, strand, session>>

Requests == {"start", "stop", "cancel", "stop session"}
States == {"INITIAL", "RUNNING", "DONE", "STOPPED"}
Codes == {"ok", "error", "canceled"}

TypeOK ==
  /\ m_managedMode \in BOOLEAN
  /\ m_state \in States
  /\ canceled \in BOOLEAN
  /\ pc \in {"idle", "connect", "session", "wait", "over"}
  /\ pending \in BOOLEAN
  /\ result \in {"none", "refused", "address"} \cup Codes
  /\ m_session \in BOOLEAN
  /\ announced \in Nat
  /\ asked \in SUBSET Requests
  /\ strand \in Seq({"start", "stop", "emit"} \cup Codes)
  /\ sState \in States \cup {"NONE"}
  /\ sRunning \in BOOLEAN
  /\ sCanceled \in BOOLEAN
  /\ sStrand \in Seq({"start", "stop", "emit"})

Init ==
  /\ m_managedMode \in BOOLEAN
  /\ m_state = "INITIAL"
  /\ canceled = FALSE
  /\ pc = "idle"
  /\ pending = FALSE
  /\ result = "none"
  /\ m_session = FALSE
  /\ announced = 0
  /\ asked = {}
  /\ strand = <<>>
  /\ sState = "NONE"
  /\ sRunning = FALSE
  /\ sCanceled = FALSE
  /\ sStrand = <<>>

Active == pc \in {"connect", "session", "wait"}

-----------------------------------------------------------------------------
(* The users.  Each asks for a thing at most once.                         *)

Ask(what, h) ==
  /\ what \notin asked
  /\ asked' = asked \cup {what}
  /\ strand' = Append(strand, h)
  /\ UNCHANGED <<m_managedMode, client, session>>

Start == Ask("start", "start")

Stop == Ask("stop", "stop")

(* Whoever awaits the client cancels it, or times out.                     *)
Cancel == "start" \in asked /\ Ask("cancel", "emit")

(* A user stops the session it was told of.                                *)
StopSession ==
  /\ m_session /\ "stop session" \notin asked
  /\ asked' = asked \cup {"stop session"}
  /\ sStrand' = Append(sStrand, "stop")
  /\ UNCHANGED <<m_managedMode, client, strand, sState, sRunning, sCanceled>>

-----------------------------------------------------------------------------
(* The connect, which may fail or time out, or the timer completes.        *)
Complete(ec) ==
  /\ pending
  /\ pc = "wait" => ec = "ok"
  /\ pending' = FALSE
  /\ strand' = Append(strand, ec)
  /\ UNCHANGED <<m_managedMode, m_state, canceled, pc, result, m_session,
                 announced, asked, session>>

-----------------------------------------------------------------------------
(* The handlers of the session's strand.                                   *)

SessionTurn(h) == sStrand # <<>> /\ Head(sStrand) = h

SessionStart ==
  /\ SessionTurn("start") /\ sState = "INITIAL"
  /\ sState' = "RUNNING"
  /\ sRunning' = TRUE
  /\ sStrand' = Tail(sStrand)
  /\ UNCHANGED <<m_managedMode, client, asked, strand, sCanceled>>

(* A mutant of the next definition: nobody hears of the refusal.           *)
SessionRefuseSilent ==
  /\ SessionTurn("start") /\ sState # "INITIAL"
  /\ sStrand' = Tail(sStrand)
  /\ UNCHANGED <<m_managedMode, client, asked, strand, sState, sRunning,
                 sCanceled>>

(* A session that was stopped before its start does not run.               *)
SessionRefuse ==
  /\ SessionTurn("start") /\ sState # "INITIAL"
  /\ strand' = Append(strand, "error")
  /\ sStrand' = Tail(sStrand)
  /\ UNCHANGED <<m_managedMode, client, asked, sState, sRunning, sCanceled>>

SessionStop ==
  /\ SessionTurn("stop")
  /\ sState' = "STOPPED"
  /\ sCanceled' = (sCanceled \/ (sRunning /\ sState # "STOPPED"))
  /\ sStrand' = Tail(sStrand)
  /\ UNCHANGED <<m_managedMode, client, asked, strand, sRunning>>

SessionEmit ==
  /\ SessionTurn("emit")
  /\ sCanceled' = (sCanceled \/ sRunning)
  /\ sStrand' = Tail(sStrand)
  /\ UNCHANGED <<m_managedMode, client, asked, strand, sState, sRunning>>

SessionEnd(ec) ==
  /\ sRunning
  /\ ec = "canceled" => sCanceled
  /\ sRunning' = FALSE
  /\ sState' = IF sState = "STOPPED" \/ ec = "canceled" THEN "STOPPED" ELSE "DONE"
  /\ strand' = Append(strand, ec)
  /\ UNCHANGED <<m_managedMode, client, asked, sCanceled, sStrand>>

-----------------------------------------------------------------------------
(* The handlers of the client's strand, each up to the next suspension.    *)

Turn(h) == strand # <<>> /\ Head(strand) = h

(* Client::run() ends in a task whose state is st.                         *)
End(ec, st) ==
  /\ result' = ec
  /\ pc' = "over"
  /\ m_state' = IF st = "STOPPED" \/ ec = "canceled" THEN "STOPPED" ELSE "DONE"
  /\ UNCHANGED pending

(* It awaits the next thing, which throws if the coroutine is canceled.    *)
Await(what, st, halted) ==
  IF halted
  THEN End("canceled", st)
  ELSE /\ pc' = what
       /\ pending' = TRUE
       /\ m_state' = st
       /\ UNCHANGED result

(* A bad address throws at once.                                           *)
CoStart ==
  /\ Turn("start")
  /\ \/ m_state = "INITIAL" /\ Await("connect", "RUNNING", FALSE)
     \/ m_state = "INITIAL" /\ End("address", "RUNNING")
     \/ /\ m_state # "INITIAL"
        /\ result' = "refused"
        /\ pc' = "over"
        /\ UNCHANGED <<m_state, pending>>
  /\ strand' = Tail(strand)
  /\ UNCHANGED <<m_managedMode, canceled, m_session, announced, asked, session>>

(* Mutants of the next definition: it does not reach the session ...       *)
SignalUnlinked ==
  /\ canceled' = (canceled \/ Active)
  /\ pending' = (pending /\ ~Active)
  /\ strand' = IF pending /\ Active THEN Append(Tail(strand), "canceled") ELSE Tail(strand)
  /\ UNCHANGED sStrand

(* ... or what fires is not the coroutine's signal.                        *)
SignalForeign ==
  /\ strand' = Tail(strand)
  /\ UNCHANGED <<canceled, pending, sStrand>>

(* The signal of the client's coroutine fires: the connect or the timer    *)
(* completes, the session is canceled.                                     *)
Signal ==
  /\ canceled' = (canceled \/ Active)
  /\ pending' = (pending /\ ~Active)
  /\ strand' = IF pending /\ Active THEN Append(Tail(strand), "canceled") ELSE Tail(strand)
  /\ sStrand' = IF pc = "session" THEN Append(sStrand, "emit") ELSE sStrand

CoStop ==
  /\ Turn("stop")
  /\ \/ /\ m_state = "STOPPED"
        /\ strand' = Tail(strand)
        /\ UNCHANGED <<m_state, canceled, pending, sStrand>>
     \/ /\ m_state # "STOPPED"
        /\ m_state' = "STOPPED"
        /\ Signal
  /\ UNCHANGED <<m_managedMode, pc, result, m_session, announced, asked, sState,
                 sRunning, sCanceled>>

Emit ==
  /\ Turn("emit")
  /\ Signal
  /\ UNCHANGED <<m_managedMode, m_state, pc, result, m_session, announced, asked,
                 sState, sRunning, sCanceled>>

(* What slots may do: stop the client, which happens at once because they  *)
(* run on its strand, or stop the new session, which does not.             *)
SlotsAsk(stops, drops) ==
  /\ stops => "stop" \notin asked
  /\ drops => "stop session" \notin asked
  /\ asked' = asked \cup {r \in {"stop", "stop session"} :
                            IF r = "stop" THEN stops ELSE drops}

After(stops) == IF stops THEN "STOPPED" ELSE m_state

NewSession ==
  /\ m_session' = TRUE
  /\ announced' = announced + 1

(* newSession(m_session), then co_await session->co_start().  If that      *)
(* throws, the session is completed without having been started.           *)
RunSession(stops, drops) ==
  IF canceled \/ stops
  THEN /\ End("canceled", After(stops))
       /\ UNCHANGED <<m_session, announced, sState, sRunning, sCanceled, sStrand>>
  ELSE /\ NewSession
       /\ pc' = "session"
       /\ sState' = "INITIAL"
       /\ sRunning' = FALSE
       /\ sCanceled' = FALSE
       /\ sStrand' = IF drops THEN <<"stop", "start">> ELSE <<"start">>
       /\ UNCHANGED <<pending, m_state, result>>

(* A mutant of the next definition: an error ends a managed client too.    *)
ConnectFailedThrows == End("error", m_state)

(* The connect has failed or timed out.                                    *)
ConnectFailed ==
  \/ m_managedMode /\ Await("wait", m_state, canceled)
  \/ ~m_managedMode /\ End("error", m_state)

ResumeConnect ==
  /\ pc = "connect"
  /\ \/ /\ Turn("ok")
        /\ \E stops, drops \in BOOLEAN :
             /\ SlotsAsk(stops, drops)
             /\ \/ m_managedMode /\ RunSession(stops, drops)
                \/ /\ ~m_managedMode
                   /\ End("ok", After(stops))
                   /\ UNCHANGED <<m_session, announced, session>>
     \/ /\ Turn("error")
        /\ ConnectFailed
        /\ UNCHANGED <<m_session, announced, asked, session>>
     \/ /\ Turn("canceled")
        /\ End("canceled", m_state)
        /\ UNCHANGED <<m_session, announced, asked, session>>
  /\ strand' = Tail(strand)
  /\ UNCHANGED <<m_managedMode, canceled>>

(* A mutant of the next definition: m_session is not reset by hand.        *)
SessionCompletedKeeps ==
  /\ announced' = announced - 1
  /\ UNCHANGED m_session

SessionCompleted ==
  /\ m_session' = FALSE
  /\ announced' = announced - 1

(* The session has ended: sessionCompleted(s), and wait, unless it ended   *)
(* with operation_canceled.                                                *)
ResumeSession ==
  /\ pc = "session"
  /\ SessionCompleted
  /\ \E ec \in Codes, stops \in BOOLEAN :
       /\ Turn(ec)
       /\ SlotsAsk(stops, FALSE)
       /\ \/ ec = "canceled" /\ End(ec, After(stops))
          \/ ec # "canceled" /\ Await("wait", After(stops), canceled \/ stops)
  /\ strand' = Tail(strand)
  /\ UNCHANGED <<m_managedMode, canceled, session>>

(* The head of the loop, once more.                                        *)
ResumeWait ==
  /\ pc = "wait"
  /\ \/ Turn("ok") /\ m_state = "RUNNING" /\ Await("connect", m_state, canceled)
     \/ Turn("ok") /\ m_state # "RUNNING" /\ End("error", m_state)
     \/ Turn("canceled") /\ End("canceled", m_state)
  /\ strand' = Tail(strand)
  /\ UNCHANGED <<m_managedMode, canceled, m_session, announced, asked, session>>

-----------------------------------------------------------------------------
Handle ==
  CoStart \/ CoStop \/ Emit \/ ResumeConnect \/ ResumeSession \/ ResumeWait

SessionHandle == SessionStart \/ SessionRefuse \/ SessionStop \/ SessionEmit

Next ==
  \/ Start \/ Stop \/ Cancel \/ StopSession
  \/ \E ec \in {"ok", "error"} : Complete(ec)
  \/ Handle
  \/ SessionHandle
  \/ \E ec \in Codes : SessionEnd(ec)

(* Strands run what is queued, connects time out, timers expire, and a     *)
(* canceled session ends.  A session that is left alone may run for ever.  *)
Fairness ==
  /\ WF_vars(Handle)
  /\ WF_vars(SessionHandle)
  /\ WF_vars(\E ec \in {"ok", "error"} : Complete(ec))
  /\ WF_vars(sCanceled /\ \E ec \in Codes : SessionEnd(ec))

Spec == Init /\ [][Next]_vars
FairSpec == Spec /\ Fairness

-----------------------------------------------------------------------------
(* Each session that users are told of is completed exactly once, also if  *)
(* it is canceled or never runs, and connected() is true in between        *)
(* (Client.cpp:90-101).                                                    *)
Announced ==
  /\ announced = IF pc = "session" THEN 1 ELSE 0
  /\ m_session <=> announced = 1

(* Once stopped or canceled, the client starts nothing more, whatever had  *)
(* completed by then (Client.cpp:51-75, 103-127).                          *)
HaltIsFinal ==
  [][m_state = "STOPPED" \/ canceled => pc' \in {pc, "over"}]_vars

(* A managed client goes on until it, what awaits it, or its session is    *)
(* stopped (Client.cpp:62-81, 103-127).                                    *)
KeepsTrying ==
  m_managedMode /\ pc = "over" /\ result # "address" =>
    asked \cap {"stop", "cancel", "stop session"} # {}

(* What the comments say: only a stop of the client ends it                *)
(* (Client.cpp:103, 107).                                                  *)
KeepsTryingUntilStopped ==
  m_managedMode /\ pc = "over" /\ result # "address" =>
    asked \cap {"stop", "cancel"} # {}

(* A client that is stopped or canceled ends, with a session that would    *)
(* run for ever, in whatever order signal and completion arrive            *)
(* (Client.cpp:65-67, 106-110).                                            *)
HaltEnds == asked \cap {"stop", "cancel"} # {} ~> []~Active

(* A managed client whose session has ended, was refused or was stopped    *)
(* connects again unless it ends (Client.cpp:103-127).                     *)
Reconnects ==
  (pc = "session" /\ sState \in {"DONE", "STOPPED"}) ~> pc \in {"connect", "over"}
=============================================================================
