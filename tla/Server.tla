-------------------------------- MODULE Server --------------------------------
(***************************************************************************)
(* Server: the accept loop on the server's strand, and the sessions it     *)
(* creates, registers for its stop and starts, each on a strand of its     *)
(* own.  Server and sessions are CoroutineTasks; the server's handlers are *)
(*   start, stop, emit        co_start, co_stop, the awaiter's cancellation*)
(*   ok, error, canceled      completion of async_accept                   *)
(* and a session's are start and stop.                                     *)
(***************************************************************************)
EXTENDS Naturals, Sequences, FiniteSets, GenericFactory

CONSTANT MaxSessions   \* bound on the connections that are accepted

ASSUME Assumption == MaxSessions \in Nat

VARIABLES
  types,     \* GenericFactory::m_types
  task,      \* CoroutineTask::m_state of the server
  canceled,  \* its coroutine's signal was emitted
  pc,        \* run(): "idle", "accept", "over"
  pending,   \* async_accept has not completed
  strand,    \* the server's strand
  state,     \* state of each session: "none", "INITIAL", "RUNNING", "DONE",
             \*   "STOPPED", "gone" (INITIAL when its last owner dropped it)
  queue,     \* the session's strand
  stopped,   \* the sessions connected to m_stopped
  reached    \* the sessions that existed when m_stopped was fired

vars ==
  <<types, task, canceled, pc, pending, strand, state, queue, stopped, reached>>

Sessions == 1..MaxSessions
Created == {i \in Sessions : state[i] # "none"}

TypeOK ==
  /\ types \in [{"Session", "TCPSocket"} ->
                [class : {"Session", "TCPSocket", "SSLSocket"},
                 args : {"Socket", "other", "io, socket"}]]
  /\ task \in {"INITIAL", "RUNNING", "DONE", "STOPPED"}
  /\ pc \in {"idle", "accept", "over"}
  /\ canceled \in BOOLEAN /\ pending \in BOOLEAN
  /\ strand \in Seq({"start", "stop", "emit", "ok", "error", "canceled"})
  /\ state \in [Sessions ->
       {"none", "INITIAL", "RUNNING", "DONE", "STOPPED", "gone"}]
  /\ queue \in [Sessions -> Seq({"start", "stop"})]
  /\ stopped \subseteq Sessions /\ reached \subseteq Sessions

(* The constructor's types.                                                *)
Init ==
  /\ types = RegisterDefaultType(RegisterDefaultType(<<>>, "Session", "Socket"),
                                 "TCPSocket", "io, socket")
  /\ task = "INITIAL" /\ canceled = FALSE /\ pc = "idle" /\ pending = FALSE
  /\ strand = <<>>
  /\ state = [i \in Sessions |-> "none"]
  /\ queue = [i \in Sessions |-> <<>>]
  /\ stopped = {} /\ reached = {}

Turn(h) == strand # <<>> /\ Head(strand) = h

-----------------------------------------------------------------------------
(* The owner of the server.                                                *)

EnableSSL ==
  /\ task = "INITIAL"
  /\ types' = RegisterType(types, "TCPSocket", Creator("SSLSocket", "io, socket"))
  /\ UNCHANGED <<task, canceled, pc, pending, strand, state, queue, stopped, reached>>

(* A session type of the owner's, whose constructor may take other things. *)
RegisterSession ==
  /\ task = "INITIAL"
  /\ \E args \in {"Socket", "other"} :
       types' = RegisterType(types, "Session", Creator("Session", args))
  /\ UNCHANGED <<task, canceled, pc, pending, strand, state, queue, stopped, reached>>

(* start(), stop(), or the cancellation of who awaits the server.          *)
Ask(h) ==
  /\ \A j \in DOMAIN strand : strand[j] # h
  /\ h = "start" => pc = "idle"
  /\ h = "stop" => task # "STOPPED"
  /\ h = "emit" => ~canceled
  /\ strand' = Append(strand, h)
  /\ UNCHANGED <<types, task, canceled, pc, pending, state, queue, stopped, reached>>

(* The network: a connection, or an error such as too many open files.     *)
Complete(ec) ==
  /\ pending
  /\ ec = "ok" => Cardinality(Created) < MaxSessions
  /\ pending' = FALSE
  /\ strand' = Append(strand, ec)
  /\ UNCHANGED <<types, task, canceled, pc, state, queue, stopped, reached>>

-----------------------------------------------------------------------------
(* m_stopped(): a stop for every session that is connected and still there.*)
StopAll(conn, ss, q) ==
  [i \in Sessions |-> IF i \in conn /\ ss[i] # "gone" THEN Append(q[i], "stop") ELSE q[i]]

(* co_stop: at the first time STOPPED, and m_stopped() is fired.           *)
Fire ==
  IF task = "STOPPED" THEN UNCHANGED <<task, queue, reached>>
  ELSE /\ task' = "STOPPED" /\ reached' = Created
       /\ queue' = StopAll(stopped, state, queue)

(* A cancellation signal: the pending accept completes, later ones throw.  *)
Signal(q) ==
  /\ canceled' = (canceled \/ pc = "accept")
  /\ pending' = FALSE
  /\ strand' = IF pending THEN Append(q, "canceled") ELSE q

(* A mutant of the next definition: the signal is not emitted.             *)
CoStopSilent ==
  /\ Turn("stop") /\ Fire
  /\ strand' = Tail(strand)
  /\ UNCHANGED <<types, canceled, pc, pending, state, stopped>>

CoStop ==
  /\ Turn("stop") /\ Fire
  /\ IF task = "STOPPED" THEN strand' = Tail(strand) /\ UNCHANGED <<canceled, pending>>
     ELSE Signal(Tail(strand))
  /\ UNCHANGED <<types, pc, state, stopped>>

Emit ==
  /\ Turn("emit") /\ Signal(Tail(strand))
  /\ UNCHANGED <<types, task, pc, state, queue, stopped, reached>>

-----------------------------------------------------------------------------
(* run().                                                                  *)

(* It returns or throws: DONE, unless STOPPED.                             *)
End ==
  /\ pc' = "over"
  /\ task' = IF task = "STOPPED" THEN "STOPPED" ELSE "DONE"
  /\ UNCHANGED <<pending, queue, reached>>

(* The acceptor may not get its port; a server stopped before is refused.  *)
CoStart ==
  /\ Turn("start")
  /\ \/ /\ task = "INITIAL"
        /\ task' = "RUNNING" /\ pc' = "accept" /\ pending' = TRUE
        /\ UNCHANGED <<queue, reached>>
     \/ End
  /\ strand' = Tail(strand)
  /\ UNCHANGED <<types, canceled, state, stopped>>

(* operation_canceled stops the server and its sessions, another error of  *)
(* the accept ends the server alone.                                       *)
AcceptFails ==
  /\ pc = "accept"
  /\ \/ Turn("error") /\ End
     \/ Turn("canceled") /\ Fire /\ pc' = "over" /\ UNCHANGED pending
  /\ strand' = Tail(strand)
  /\ UNCHANGED <<types, canceled, state, stopped>>

(* A type that cannot be created: the exception ends the server.           *)
CreateFails ==
  /\ pc = "accept" /\ Turn("ok")
  /\ \/ CreateThrows(types, "TCPSocket", "io, socket")
     \/ CreateThrows(types, "Session", "Socket")
  /\ End
  /\ strand' = Tail(strand)
  /\ UNCHANGED <<types, canceled, state, stopped>>

(* A mutant of the next definition: registerStop() after the handler.      *)
RegisterStopLate(i, stops) == IF stops THEN stopped ELSE stopped \cup {i}

(* The sessions that a stop() by the handler reaches.                      *)
RegisterStop(i, stops) == stopped \cup {i}

(* A connection: create the session, register it, ask the handler, which   *)
(* may stop the server inline and have the session started, keep it        *)
(* without, or drop it; then the next accept, unless the server was        *)
(* stopped or its coroutine is canceled.                                   *)
Accepted(answer, stops) ==
  LET i == Cardinality(Created) + 1
      ss == [state EXCEPT ![i] = IF answer = "drop" THEN "gone" ELSE "INITIAL"]
      Start(q) ==
        IF answer = "start" THEN [q EXCEPT ![i] = Append(@, "start")] ELSE q
      Stop(q) == StopAll(RegisterStop(i, stops), ss, q)
  IN /\ pc = "accept" /\ Turn("ok")
     /\ ~CreateThrows(types, "TCPSocket", "io, socket")
     /\ ~CreateThrows(types, "Session", "Socket")
     /\ state' = ss /\ stopped' = stopped \cup {i}
     /\ canceled' = (canceled \/ stops)
     /\ IF task # "STOPPED" /\ canceled'
        THEN /\ task' = "STOPPED" /\ reached' = Created \cup {i}
             /\ queue' = IF stops THEN Start(Stop(queue)) ELSE Stop(Start(queue))
        ELSE queue' = Start(queue) /\ UNCHANGED <<task, reached>>
     /\ pc' = IF task' = "STOPPED" THEN "over" ELSE "accept"
     /\ pending' = (task' # "STOPPED")
     /\ strand' = Tail(strand)
     /\ UNCHANGED types

-----------------------------------------------------------------------------
(* The strand of a session.                                                *)
SessionHandle(i) ==
  /\ queue[i] # <<>>
  /\ queue' = [queue EXCEPT ![i] = Tail(@)]
  /\ state' = [state EXCEPT ![i] =
       IF Head(queue[i]) = "stop" THEN "STOPPED"
       ELSE IF @ = "INITIAL" THEN "RUNNING" ELSE @]
  /\ UNCHANGED <<types, task, canceled, pc, pending, strand, stopped, reached>>

SessionEnds(i) ==
  /\ state[i] = "RUNNING"
  /\ state' = [state EXCEPT ![i] = "DONE"]
  /\ UNCHANGED <<types, task, canceled, pc, pending, strand, queue, stopped, reached>>

(* A session that the handler has kept is started by its keeper ...        *)
KeeperStarts(i) ==
  /\ state[i] = "INITIAL" /\ \A j \in DOMAIN queue[i] : queue[i][j] # "start"
  /\ queue' = [queue EXCEPT ![i] = Append(@, "start")]
  /\ UNCHANGED <<types, task, canceled, pc, pending, strand, state, stopped, reached>>

(* ... or given up.                                                        *)
KeeperDrops(i) ==
  /\ state[i] = "INITIAL" /\ queue[i] = <<>>
  /\ state' = [state EXCEPT ![i] = "gone"]
  /\ UNCHANGED <<types, task, canceled, pc, pending, strand, queue, stopped, reached>>

SessionStep(i) ==
  SessionHandle(i) \/ SessionEnds(i) \/ KeeperStarts(i) \/ KeeperDrops(i)

Handle ==
  \/ CoStart \/ CoStop \/ Emit \/ AcceptFails \/ CreateFails
  \/ \E answer \in {"start", "keep", "drop"}, stops \in BOOLEAN :
       Accepted(answer, stops)

Next ==
  \/ EnableSSL \/ RegisterSession
  \/ \E h \in {"start", "stop", "emit"} : Ask(h)
  \/ \E ec \in {"ok", "error"} : Complete(ec)
  \/ Handle
  \/ \E i \in Sessions : SessionStep(i)

(* Strands run what is queued; nobody need ever connect.                   *)
Fairness ==
  WF_vars(Handle) /\ \A i \in Sessions : WF_vars(SessionHandle(i))

Spec == Init /\ [][Next]_vars
FairSpec == Spec /\ Fairness

-----------------------------------------------------------------------------
(* A session that existed when m_stopped was fired does not go on, not     *)
(* even one whose handler stopped the server before session->start(); and  *)
(* of those created later, from a connection whose completion was queued   *)
(* before the stop, there is at most one (Server.cpp:35-50).               *)
StopReaches ==
  /\ \A i \in reached : state[i] \in {"INITIAL", "RUNNING"} =>
       \E j \in DOMAIN queue[i] : queue[i][j] = "stop"
  /\ task = "STOPPED" => Cardinality(Created \ reached) <= 1

(* A stopped server does not stay in its accept, and the sessions it had   *)
(* then end, though nobody connects any more (CoroutineTask.hpp:33-51).    *)
StopEnds ==
  task = "STOPPED" ~> /\ pc # "accept"
                      /\ \A i \in reached : state[i] \notin {"INITIAL", "RUNNING"}
=============================================================================
