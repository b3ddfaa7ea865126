------------------------------- MODULE Session -------------------------------
(***************************************************************************)
(* A Session and its Socket, from construction to destruction, and the     *)
(* session that mutate() hands the socket to, as Proxy::run does.  The     *)
(* steps of a session run on its strand; peers may be silent.  A socket    *)
(* is a TCPSocket or an SSLSocket, whose transport objects are numbered in *)
(* the order of their creation: the base class points at one of them, and  *)
(* an SSLSocket owns its stream as well.                                   *)
(***************************************************************************)
EXTENDS Naturals, Sequences, SequencesExt

CONSTANT MaxParameters   \* bound on the calls of setSSLParameters

Ids == {1, 2}            \* session 2 is the one mutate() makes of session 1

SessionTimeouts == {"START", "CLOSE"}

VARIABLES
  ses,      \* the sessions
  sock,     \* the sockets
  timeouts  \* the SessionTimeouts that are set (not boost::none)

vars == <<ses, sock, timeouts>>

(* Session.  io is the socket operation that run() is suspended in, which  *)
(* may take several reads and writes of the TCP socket.  The current one   *)
(* is "pending", or "late" if it was begun after the socket's co_close, or *)
(* its completion is "queued" on the strand, or "aborted".                 *)
Sessions ==
  [alive: BOOLEAN, ref: BOOLEAN, sock: Ids, autoClose: BOOLEAN,
   pc: {"idle", "prepare", "starting", "work", "over"}, canceled: BOOLEAN,
   io: {"none", "pending", "late", "queued", "aborted"}]

SocketStates == {"INITIAL", "STARTED", "CLOSED"}

(* Socket, TCPSocket and SSLSocket.  closer is the session whose co_close  *)
(* is suspended in async_shutdown (0: none); objects counts the transport  *)
(* objects, freed are those deleted, base and own those pointed at.        *)
Sockets ==
  [alive: BOOLEAN, class: {"TCPSocket", "SSLSocket"}, ssl: BOOLEAN,
   state: SocketStates, closer: {0} \cup Ids,
   fd: {"none", "open", "closed"},
   objects: Nat, base: Nat, own: Nat, owner: BOOLEAN, freed: Seq(Nat)]

-----------------------------------------------------------------------------
(* Sockets.                                                                *)

(* A mutant of the next definition: the owned stream is deleted here too.  *)
SetTCPSocketDeletes(s, obj) ==
  [s EXCEPT !.base = obj, !.owner = FALSE, !.freed = Append(@, s.base)]

(* TCPSocket::setTCPSocket: the old object is deleted if it was owned.     *)
SetTCPSocket(s, obj) ==
  [s EXCEPT !.base = obj, !.owner = FALSE,
            !.freed = IF s.owner THEN Append(@, s.base) ELSE @]

(* The constructor of the base class makes an object of its own ...        *)
NewTCPSocket(class, fd) ==
  [alive |-> TRUE, class |-> class, ssl |-> class = "SSLSocket",
   state |-> "INITIAL", closer |-> 0, fd |-> fd, objects |-> 1,
   base |-> 1, own |-> 0, owner |-> TRUE, freed |-> <<>>]

(* ... which an SSLSocket replaces by the next layer of its stream.        *)
NewSSLSocket(fd) ==
  SetTCPSocket([NewTCPSocket("SSLSocket", fd) EXCEPT !.objects = 2, !.own = 2], 2)

NewSocket(class, fd) ==
  IF class = "SSLSocket" THEN NewSSLSocket(fd) ELSE NewTCPSocket(class, fd)

(* SSLSocket::setSSLParameters: a new stream over the same descriptor.     *)
WithParameters(s) ==
  SetTCPSocket([s EXCEPT !.objects = @ + 1, !.own = s.objects + 1,
                         !.freed = Append(@, s.own)],
               s.objects + 1)

(* ~SSLSocket, then ~TCPSocket.                                            *)
Destroyed(s) ==
  [s EXCEPT !.alive = FALSE, !.fd = IF @ = "open" THEN "closed" ELSE @,
            !.freed = @ \o (IF s.own # 0 THEN <<s.own>> ELSE <<>>)
                        \o (IF s.owner THEN <<s.base>> ELSE <<>>)]

(* TCPSocket::close.                                                       *)
TCPClose(s) == [s EXCEPT !.fd = IF @ = "open" THEN "closed" ELSE @]

(* What TCPSocket::cancel and close do to the operation on a socket: they  *)
(* abort what is outstanding and do not call back what is queued.          *)
Aborted(s, i) ==
  [s EXCEPT ![i].io = IF @ \in {"pending", "late"} THEN "aborted" ELSE @]

-----------------------------------------------------------------------------
NewSession(k) ==
  [alive |-> TRUE, ref |-> TRUE, sock |-> k, autoClose |-> TRUE, pc |-> "idle",
   canceled |-> FALSE, io |-> "none"]

NoSession == [NewSession(1) EXCEPT !.alive = FALSE, !.ref = FALSE]
NoSocket == Destroyed(NewSocket("TCPSocket", "none"))

(* A connected socket and its session.                                     *)
Init ==
  /\ ses = <<NewSession(1), NoSession>>
  /\ \E class \in {"TCPSocket", "SSLSocket"} :
       sock = <<NewSocket(class, "open"), NoSocket>>
  /\ timeouts \in SUBSET SessionTimeouts

Socket(i) == sock[ses[i].sock]

-----------------------------------------------------------------------------
(* What the owner of a session does.                                       *)

(* setSSLParameters and setSSL, called until prepare() returns.            *)
SetSSL(i) ==
  /\ ses[i].alive /\ ses[i].pc \in {"idle", "prepare"}
  /\ Socket(i).class = "SSLSocket" /\ Socket(i).state = "INITIAL"
  /\ \/ /\ Socket(i).objects < 2 + MaxParameters
        /\ sock' = [sock EXCEPT ![ses[i].sock] = WithParameters(@)]
     \/ sock' = [sock EXCEPT ![ses[i].sock].ssl = FALSE]
  /\ UNCHANGED <<ses, timeouts>>

SetSocketAutoClose(i) ==
  /\ ses[i].ref /\ ses[i].pc = "idle"
  /\ ses' = [ses EXCEPT ![i].autoClose = FALSE]
  /\ UNCHANGED <<sock, timeouts>>

(* CoroutineTask::start; a session stopped before is refused.              *)
CoStart(i) ==
  /\ ses[i].ref /\ ses[i].pc = "idle"
  /\ ses' = [ses EXCEPT ![i].pc = IF ses[i].canceled THEN "over" ELSE "prepare"]
  /\ UNCHANGED <<sock, timeouts>>

(* A mutant of the next definition: the signal is not emitted.             *)
CancelSilent(i) ==
  /\ ses[i].alive /\ ~ses[i].canceled
  /\ ses' = [ses EXCEPT ![i].canceled = TRUE]
  /\ UNCHANGED <<sock, timeouts>>

(* stop(), or the cancellation of who awaits the session.  The coroutine,  *)
(* unlike the socket, remembers it.                                        *)
Cancel(i) ==
  /\ ses[i].alive /\ ~ses[i].canceled
  /\ ses' = [Aborted(ses, i) EXCEPT ![i].canceled = TRUE]
  /\ UNCHANGED <<sock, timeouts>>

Drop(i) ==
  /\ ses[i].ref
  /\ ses' = [ses EXCEPT ![i].ref = FALSE]
  /\ UNCHANGED <<sock, timeouts>>

(* mutate(), called as Proxy::run does: after a session that does not      *)
(* close its socket.  releaseSocket() leaves it a fresh one.               *)
Mutate ==
  /\ ses[1].ref /\ ses[1].pc = "over" /\ ~ses[1].autoClose
  /\ ~ses[2].alive /\ ses[1].sock = 1 /\ sock[1].closer = 0
  /\ ses' = <<[ses[1] EXCEPT !.sock = 2], NewSession(1)>>
  /\ sock' = [sock EXCEPT ![2] = NewSocket(sock[1].class, "none")]
  /\ UNCHANGED timeouts

-----------------------------------------------------------------------------
(* Closing.                                                                *)

(* SSLSocket::close, called for session i.                                 *)
Closing(s, i) ==
  IF s.ssl THEN [s EXCEPT !.state = "CLOSED", !.closer = i]
  ELSE TCPClose([s EXCEPT !.state = "CLOSED"])

(* A mutant of the next definition: no cancel() before async_shutdown.     *)
CoCloseWaits(i, s) ==
  /\ ses' = s
  /\ sock' = IF Socket(i).state # "STARTED" THEN sock
             ELSE [sock EXCEPT ![ses[i].sock] = Closing(@, i)]

(* Socket::co_close up to its first suspension: what is outstanding on the *)
(* socket is aborted, it is shut down or closed.  s is the new state of    *)
(* run().                                                                  *)
CoClose(i, s) ==
  IF Socket(i).state # "STARTED" THEN ses' = s /\ UNCHANGED sock
  ELSE /\ ses' = Aborted(s, i)
       /\ sock' = [sock EXCEPT ![ses[i].sock] = Closing(@, i)]

(* closeSocket(), "use when auto close disabled".                          *)
CloseSocket(i) ==
  /\ ses[i].ref /\ ~ses[i].autoClose
  /\ CoClose(i, ses)
  /\ UNCHANGED timeouts

(* async_shutdown completes, and the socket is closed ...                  *)
ShutdownDone(k) ==
  /\ sock[k].closer # 0
  /\ ses' = Aborted(ses, sock[k].closer)
  /\ sock' = [sock EXCEPT ![k] = TCPClose([@ EXCEPT !.closer = 0])]
  /\ UNCHANGED timeouts

(* ... or it fails or times out, and the socket is not.                    *)
ShutdownFails(k) ==
  /\ sock[k].closer # 0
  /\ sock' = [sock EXCEPT ![k].closer = 0]
  /\ UNCHANGED <<ses, timeouts>>

(* Nothing holds a session any more: neither its user nor a coroutine.     *)
Destroy(i) ==
  /\ ses[i].alive /\ ~ses[i].ref /\ ses[i].pc \in {"idle", "over"}
  /\ \A k \in Ids : sock[k].closer # i
  /\ ses' = [ses EXCEPT ![i].alive = FALSE]
  /\ sock' = [sock EXCEPT ![ses[i].sock] = Destroyed(@)]
  /\ UNCHANGED timeouts

-----------------------------------------------------------------------------
(* Session::run.                                                           *)

(* It ends: the guard closes the socket.                                   *)
Leave(i) ==
  LET s == [ses EXCEPT ![i].pc = "over", ![i].io = "none"]
  IN /\ IF ses[i].autoClose THEN CoClose(i, s) ELSE ses' = s /\ UNCHANGED sock
     /\ UNCHANGED timeouts

(* prepare() has returned: Socket::co_start, whose handshake suspends.     *)
Prepared(i) ==
  /\ ses[i].pc = "prepare" /\ ~ses[i].canceled
  /\ IF Socket(i).state = "INITIAL"
     THEN /\ sock' = [sock EXCEPT ![ses[i].sock].state = "STARTED"]
          /\ ses' = IF Socket(i).class = "SSLSocket"
                    THEN [ses EXCEPT ![i].pc = "starting", ![i].io = "pending"]
                    ELSE [ses EXCEPT ![i].pc = "work"]
     ELSE ses' = [ses EXCEPT ![i].pc = "work"] /\ UNCHANGED sock
  /\ UNCHANGED timeouts

(* The same, but TCPSocket::start throws: an option of a dead connection.  *)
PresetThrows(i) ==
  LET s == [Socket(i) EXCEPT !.state = "STARTED"]
  IN /\ ses[i].pc = "prepare" /\ ~ses[i].canceled
     /\ Socket(i).state = "INITIAL"
     /\ ses' = [ses EXCEPT ![i].pc = "over"]
     /\ sock' = [sock EXCEPT ![ses[i].sock] =
                   IF ses[i].autoClose THEN Closing(s, i) ELSE s]
     /\ UNCHANGED timeouts

(* prepare() throws, or the await after it because of a cancellation.      *)
PrepareThrows(i) == ses[i].pc = "prepare" /\ Leave(i)

(* The network completes what is outstanding.                              *)
Arrives(i) ==
  /\ ses[i].io \in {"pending", "late"}
  /\ ses' = [ses EXCEPT ![i].io = "queued"]
  /\ UNCHANGED <<sock, timeouts>>

(* An operation that is not complete yet goes on with the next read or     *)
(* write, which fails at once if the coroutine was canceled or the         *)
(* descriptor is closed.                                                   *)
GoOn(i) ==
  /\ ses[i].io = "queued"
  /\ ses' = [ses EXCEPT ![i].io =
                IF ses[i].canceled \/ Socket(i).fd # "open" THEN "aborted"
                ELSE IF Socket(i).state = "CLOSED" THEN "late" ELSE "pending"]
  /\ UNCHANGED <<sock, timeouts>>

Handshake(i) ==
  /\ ses[i].pc = "starting" /\ ses[i].io = "queued"
  /\ ses' = [ses EXCEPT ![i].pc = "work", ![i].io = "none"]
  /\ UNCHANGED <<sock, timeouts>>

(* It fails, is aborted, or its time is up.                                *)
HandshakeFails(i) == ses[i].pc = "starting" /\ Leave(i)

(* work() reads or writes, by the TLS stream ...                           *)
StreamIO(i) ==
  /\ ses[i].pc = "work" /\ ses[i].io = "none" /\ ~ses[i].canceled
  /\ Socket(i).ssl /\ Socket(i).fd = "open"
  /\ ses' = [ses EXCEPT ![i].io =
               IF Socket(i).state = "CLOSED" THEN "late" ELSE "pending"]
  /\ UNCHANGED <<sock, timeouts>>

(* ... or by the TCP socket, which is closed at once.                      *)
SocketIO(i) ==
  /\ ses[i].pc = "work" /\ ses[i].io = "none" /\ ~ses[i].canceled
  /\ ~Socket(i).ssl /\ Socket(i).fd = "open"
  /\ ses' = [ses EXCEPT ![i].io = "pending"]
  /\ UNCHANGED <<sock, timeouts>>

FinishIO(i) ==
  /\ ses[i].pc = "work" /\ ses[i].io = "queued"
  /\ ses' = [ses EXCEPT ![i].io = "none"]
  /\ UNCHANGED <<sock, timeouts>>

(* A queued completion has its turn.                                       *)
Resumed(i) == GoOn(i) \/ Handshake(i) \/ FinishIO(i)

(* work() returns, or an exception leaves it.                              *)
WorkEnds(i) ==
  ses[i].pc = "work" /\ ses[i].io \in {"none", "aborted"} /\ Leave(i)

Run(i) ==
  Prepared(i) \/ PresetThrows(i) \/ PrepareThrows(i)
    \/ Arrives(i) \/ Resumed(i) \/ HandshakeFails(i)
    \/ StreamIO(i) \/ SocketIO(i) \/ WorkEnds(i)

User(i) ==
  SetSSL(i) \/ SetSocketAutoClose(i) \/ CoStart(i) \/ Cancel(i) \/ Drop(i)
    \/ CloseSocket(i)

Next ==
  \/ \E i \in Ids : Run(i) \/ User(i) \/ Destroy(i)
  \/ \E k \in Ids : ShutdownDone(k) \/ ShutdownFails(k)
  \/ Mutate

(* getTimeout(): what is awaited with it returns in time.                  *)
HasTimeout(e) == e \in timeouts

(* Strands run what is queued, timers expire, a canceled coroutine and one *)
(* whose operation was aborted end, and what nobody holds is destroyed.    *)
(* Peers may be silent for ever.                                           *)
Fairness ==
  /\ \A i \in Ids :
       /\ WF_vars(Destroy(i))
       /\ WF_vars(Resumed(i))
       /\ WF_vars(ses[i].canceled /\ PrepareThrows(i))
       /\ WF_vars((ses[i].canceled \/ ses[i].io = "aborted") /\ WorkEnds(i))
       /\ WF_vars((\/ ses[i].canceled \/ ses[i].io = "aborted"
                   \/ HasTimeout("START")) /\ HandshakeFails(i))
  /\ \A k \in Ids : WF_vars(HasTimeout("CLOSE") /\ ShutdownFails(k))

Spec == Init /\ [][Next]_vars
FairSpec == Spec /\ Fairness

-----------------------------------------------------------------------------
TypeOK ==
  /\ ses \in [Ids -> Sessions]
  /\ sock \in [Ids -> Sockets]
  /\ timeouts \in SUBSET SessionTimeouts

(* Each socket has one owner, no transport object is deleted twice or      *)
(* pointed at when it is gone, all are deleted and the descriptor is       *)
(* closed with the session, and not while co_close is suspended on them    *)
(* (TCPSocket.cpp:32-45, SSLSocket.cpp:34-65, Session.cpp:32-36, 87-97).   *)
Owned ==
  /\ \A k \in Ids :
       /\ IsInjective(sock[k].freed)
       /\ sock[k].alive <=> \E i \in Ids : ses[i].alive /\ ses[i].sock = k
       /\ sock[k].alive => ~Contains(sock[k].freed, sock[k].base)
                           /\ ~Contains(sock[k].freed, sock[k].own)
       /\ ~sock[k].alive => /\ Len(sock[k].freed) = sock[k].objects
                            /\ sock[k].fd # "open" /\ sock[k].closer = 0
       /\ sock[k].closer # 0 => ses[sock[k].closer].sock = k
  /\ ses[1].alive /\ ses[2].alive => ses[1].sock # ses[2].sock

(* An operation that is not outstanding any more when close() cancels, or  *)
(* that is begun later, goes on after it, on a stream whose shutdown has   *)
(* failed, or takes for ever because no CLOSE timeout is set.              *)
Outlives(i) ==
  /\ ses[i].io = "late" /\ Socket(i).ssl /\ Socket(i).fd = "open"
  /\ HasTimeout("CLOSE") => Socket(i).closer = 0

(* Closing a socket ends the operation that its session is suspended in,   *)
(* though the peer is silent: at once what is outstanding, and in the end  *)
(* all of it, whatever is queued or begun meanwhile, except on a TLS       *)
(* stream whose shutdown fails: that skips TCPSocket::close and leaves an  *)
(* operation that went on after the cancel() (Socket.cpp:19-26,            *)
(* SSLSocket.cpp:86-95, TCPSocket.cpp:70-93).                              *)
CloseUnblocks ==
  \A i \in Ids :
    (Socket(i).state = "CLOSED" /\ ses[i].io # "none")
      ~> \/ ses[i].io = "none"
         \/ Outlives(i)

(* With both timeouts set, a session whose peer never answers does not     *)
(* stay in the handshake, and one that was stopped and dropped goes, with  *)
(* its descriptor (Session.cpp:66-97).                                     *)
Ends ==
  timeouts = SessionTimeouts =>
    \A i \in Ids :
      /\ ses[i].pc = "starting" ~> ses[i].pc # "starting"
      /\ (~ses[i].ref /\ ses[i].canceled) ~> ~ses[i].alive
=============================================================================
