----------------------- MODULE SessionAndTimedProofs ------------------------
(***************************************************************************)
(* Machine-checked proofs about Session, for any number of calls of        *)
(* setSSLParameters, and about Timed, for any number of awaits.            *)
(***************************************************************************)
EXTENDS Session, Timed, SequenceTheorems, TLAPS

(* The transport objects of a socket are deleted in the order of their     *)
(* creation, and the last one with the socket.  The base class points at   *)
(* the last one, which a TCPSocket has from it and an SSLSocket owns.      *)
Layout(s) ==
  /\ s.objects >= 1 /\ s.base = s.objects
  /\ s.own = IF s.class = "SSLSocket" THEN s.objects ELSE 0
  /\ s.owner <=> s.class = "TCPSocket"
  /\ Len(s.freed) = IF s.alive THEN s.objects - 1 ELSE s.objects
  /\ \A n \in 1..Len(s.freed) : s.freed[n] = n

LayoutInv == \A k \in Ids : Layout(sock[k])

(* A reference to a session, or its coroutine, keeps it alive.             *)
HeldInv ==
  \A i \in Ids :
    ses[i].ref \/ ses[i].pc \notin {"idle", "over"} => ses[i].alive

(* Which session has which socket, before and after mutate().              *)
PairInv ==
  /\ ses[2].sock = 1
  /\ sock[ses[1].sock].alive <=> ses[1].alive
  /\ ses[1].sock = 1 => ~ses[2].alive /\ ~sock[2].alive
  /\ ses[1].sock = 2 => (sock[1].alive <=> ses[2].alive)

(* A socket is closed by the session that has it, and before it goes.      *)
CloserInv ==
  \A k \in Ids :
    /\ ~sock[k].alive => sock[k].fd # "open" /\ sock[k].closer = 0
    /\ sock[k].closer # 0 => /\ ses[sock[k].closer].alive
                             /\ ses[sock[k].closer].sock = k

IInv == TypeOK /\ LayoutInv /\ HeldInv /\ PairInv /\ CloserInv

-----------------------------------------------------------------------------
(* With its objects so laid out, a socket deletes each once, points at     *)
(* none that is gone and, when it goes, leaves none (TCPSocket.cpp:32-45,  *)
(* SSLSocket.cpp:34-65).                                                   *)
LEMMA LayoutFacts ==
  ASSUME NEW s \in Sockets, Layout(s)
  PROVE  /\ IsInjective(s.freed)
         /\ s.alive => ~Contains(s.freed, s.base) /\ ~Contains(s.freed, s.own)
         /\ ~s.alive => Len(s.freed) = s.objects
<1>1. s.freed \in Seq(Nat) /\ s.objects \in Nat
  BY DEF Sockets
<1>2. IsInjective(s.freed)
  BY <1>1 DEF Layout, IsInjective
<1>3. s.alive => ~Contains(s.freed, s.base) /\ ~Contains(s.freed, s.own)
  BY <1>1 DEF Layout, Contains
<1>4. QED
  BY <1>2, <1>3 DEF Layout

(* The invariant says what Owned promises (Session.cpp:32-36, 87-97).      *)
LEMMA OwnedFacts == IInv => Owned
<1> SUFFICES ASSUME IInv PROVE Owned
  OBVIOUS
<1> USE DEF IInv, Ids
<1>1. ASSUME NEW k \in Ids
      PROVE  /\ IsInjective(sock[k].freed)
             /\ sock[k].alive => ~Contains(sock[k].freed, sock[k].base)
                                 /\ ~Contains(sock[k].freed, sock[k].own)
             /\ ~sock[k].alive => /\ Len(sock[k].freed) = sock[k].objects
                                  /\ sock[k].fd # "open" /\ sock[k].closer = 0
             /\ sock[k].closer # 0 => ses[sock[k].closer].sock = k
  <2>1. sock[k] \in Sockets /\ Layout(sock[k])
    BY DEF TypeOK, LayoutInv
  <2>2. QED
    BY <2>1, LayoutFacts DEF CloserInv
<1>2. ses[1].sock \in {1, 2}
  BY DEF TypeOK, Sessions
<1>3. ASSUME NEW k \in Ids
      PROVE  sock[k].alive <=> \E i \in Ids : ses[i].alive /\ ses[i].sock = k
  BY <1>2 DEF PairInv
<1>4. ses[1].alive /\ ses[2].alive => ses[1].sock # ses[2].sock
  BY <1>2 DEF PairInv
<1>5. QED
  BY <1>1, <1>3, <1>4 DEF Owned

-----------------------------------------------------------------------------
(* setTCPSocket() touches what points at the objects, and no more          *)
(* (TCPSocket.cpp:32-45).                                                  *)
LEMMA SetTCPSocketFacts ==
  ASSUME NEW s \in Sockets, NEW obj \in Nat
  PROVE  LET t == SetTCPSocket(s, obj)
         IN  /\ t \in Sockets /\ t.base = obj /\ t.owner = FALSE
             /\ t.freed = IF s.owner THEN Append(s.freed, s.base) ELSE s.freed
             /\ t.objects = s.objects /\ t.own = s.own /\ t.class = s.class
             /\ t.alive = s.alive /\ t.fd = s.fd /\ t.closer = s.closer
<1> DEFINE f == IF s.owner THEN Append(s.freed, s.base) ELSE s.freed
<1>1. f \in Seq(Nat)
  BY DEF Sockets
<1>2. SetTCPSocket(s, obj) = [s EXCEPT !.base = obj, !.owner = FALSE, !.freed = f]
  BY DEF SetTCPSocket
<1> HIDE DEF f
<1>3. LET t == SetTCPSocket(s, obj)
      IN  /\ t \in Sockets /\ t.base = obj /\ t.owner = FALSE /\ t.freed = f
          /\ t.objects = s.objects /\ t.own = s.own /\ t.class = s.class
          /\ t.alive = s.alive /\ t.fd = s.fd /\ t.closer = s.closer
  BY <1>1, <1>2 DEF Sockets
<1>4. QED
  BY <1>3 DEF f

(* A new socket is laid out like that, and so is one that has gone         *)
(* (TCPSocket.cpp:32-45, SSLSocket.cpp:13-25).                             *)
LEMMA NewSocketFacts ==
  ASSUME NEW class \in {"TCPSocket", "SSLSocket"}, NEW fd \in {"none", "open", "closed"}
  PROVE  LET s == NewSocket(class, fd)
         IN  /\ s \in Sockets /\ Layout(s)
             /\ s.alive /\ s.closer = 0 /\ s.fd = fd
<1>1. CASE class = "TCPSocket"
  BY <1>1 DEF NewSocket, NewTCPSocket, Sockets, SocketStates, Layout, Ids
<1>2. CASE class = "SSLSocket"
  <2> DEFINE n == NewTCPSocket("SSLSocket", fd)
             t == [n EXCEPT !.objects = 2, !.own = 2]
  <2>1. /\ n \in Sockets /\ n.class = "SSLSocket" /\ n.alive /\ n.closer = 0
        /\ n.fd = fd /\ n.base = 1 /\ n.owner /\ n.freed = <<>>
    BY DEF NewTCPSocket, Sockets, SocketStates, Ids
  <2> HIDE DEF n
  <2>2. /\ t \in Sockets /\ t.class = "SSLSocket" /\ t.alive /\ t.closer = 0
        /\ t.fd = fd /\ t.base = 1 /\ t.owner /\ t.freed = <<>>
        /\ t.objects = 2 /\ t.own = 2
    BY <2>1 DEF Sockets
  <2>3. NewSocket(class, fd) = SetTCPSocket(t, 2)
    BY <1>2 DEF NewSocket, NewSSLSocket, n
  <2> HIDE DEF t
  <2> DEFINE s == SetTCPSocket(t, 2)
  <2>4. t \in Sockets /\ 2 \in Nat
    BY <2>2
  <2>5. /\ s \in Sockets /\ s.base = 2 /\ s.owner = FALSE
        /\ s.freed = (IF t.owner THEN Append(t.freed, t.base) ELSE t.freed)
        /\ s.objects = t.objects /\ s.own = t.own /\ s.class = t.class
        /\ s.alive = t.alive /\ s.fd = t.fd /\ s.closer = t.closer
    BY ONLY <2>4, SetTCPSocketFacts
  <2> HIDE DEF s
  <2>6. s.freed = <<1>> /\ Len(s.freed) = 1
    BY <2>2, <2>5
  <2>7. Layout(s)
    BY <2>2, <2>5, <2>6 DEF Layout
  <2>8. QED
    BY <2>2, <2>3, <2>5, <2>7 DEF s
<1>3. QED
  BY <1>1, <1>2

LEMMA DestroyedFacts ==
  ASSUME NEW s \in Sockets, Layout(s), s.alive
  PROVE  LET d == Destroyed(s)
         IN  /\ d \in Sockets /\ Layout(d)
             /\ ~d.alive /\ d.closer = s.closer /\ d.fd # "open"
<1> DEFINE d == Destroyed(s)
           f == s.freed \o (IF s.own # 0 THEN <<s.own>> ELSE <<>>)
                        \o (IF s.owner THEN <<s.base>> ELSE <<>>)
<1>1. /\ s.freed \in Seq(Nat) /\ s.objects \in Nat /\ s.base \in Nat /\ s.own \in Nat
      /\ s.class \in {"TCPSocket", "SSLSocket"} /\ s.fd \in {"none", "open", "closed"}
  BY DEF Sockets
<1>2. f \in Seq(Nat) /\ f = Append(s.freed, s.objects)
  <2>1. s.freed \o <<s.objects>> = Append(s.freed, s.objects)
    BY <1>1, AppendIsConcat
  <2>2. \A q \in Seq(Nat) : q \o <<>> = q
    BY ConcatEmptySeq
  <2>3. Append(s.freed, s.objects) \in Seq(Nat)
    BY <1>1
  <2>4. CASE s.class = "SSLSocket"
    <3>1. s.own = s.objects /\ s.own # 0 /\ ~s.owner
      BY <1>1, <2>4 DEF Layout
    <3>2. f = (s.freed \o <<s.objects>>) \o <<>>
      BY <3>1
    <3>3. QED
      BY <2>1, <2>2, <2>3, <3>2
  <2>5. CASE s.class = "TCPSocket"
    <3>1. s.own = 0 /\ s.owner /\ s.base = s.objects
      BY <1>1, <2>5 DEF Layout
    <3>2. f = (s.freed \o <<>>) \o <<s.objects>>
      BY <3>1
    <3>3. s.freed \o <<>> = s.freed
      BY <1>1, <2>2
    <3>4. QED
      BY <2>1, <2>3, <3>2, <3>3
  <2>6. QED
    BY <1>1, <2>4, <2>5
<1> HIDE DEF f
<1>3. Len(f) = s.objects /\ \A n \in 1..Len(f) : f[n] = n
  <2>1. Len(s.freed) = s.objects - 1 /\ \A n \in 1..Len(s.freed) : s.freed[n] = n
    BY DEF Layout
  <2>2. QED
    BY <1>1, <1>2, <2>1
<1>4. d = [s EXCEPT !.alive = FALSE, !.fd = IF @ = "open" THEN "closed" ELSE @, !.freed = f]
  BY DEF Destroyed, f
<1> HIDE DEF d
<1>5. d \in Sockets /\ ~d.alive /\ d.closer = s.closer /\ d.fd # "open"
  BY <1>1, <1>2, <1>4 DEF Sockets
<1>6. Layout(d)
  <2>1. /\ d.objects = s.objects /\ d.base = s.base /\ d.own = s.own
        /\ d.owner = s.owner /\ d.class = s.class /\ d.freed = f /\ d.alive = FALSE
    BY <1>4 DEF Sockets
  <2>2. QED
    BY <1>3, <2>1 DEF Layout
<1>7. QED
  BY <1>5, <1>6 DEF d

(* A connected socket and its session (Session.cpp:13-36).                 *)
LEMMA InitInv == Init => IInv
<1> SUFFICES ASSUME Init PROVE IInv
  OBVIOUS
<1> USE DEF Ids
<1>1. PICK class \in {"TCPSocket", "SSLSocket"} :
        sock = <<NewSocket(class, "open"), NoSocket>>
  BY DEF Init
<1>2. /\ sock[1] \in Sockets /\ Layout(sock[1])
      /\ sock[1].alive /\ sock[1].closer = 0
  BY <1>1, NewSocketFacts
<1>3. /\ sock[2] \in Sockets /\ Layout(sock[2])
      /\ ~sock[2].alive /\ sock[2].closer = 0 /\ sock[2].fd # "open"
  <2> DEFINE n == NewSocket("TCPSocket", "none")
  <2>1. n \in Sockets /\ Layout(n) /\ n.alive /\ n.closer = 0
    BY NewSocketFacts
  <2> HIDE DEF n
  <2>2. sock[2] = Destroyed(n)
    BY <1>1 DEF NoSocket, n
  <2>3. QED
    BY <2>1, <2>2, DestroyedFacts
<1>4. /\ ses[1].alive = TRUE /\ ses[1].sock = 1
      /\ ses[2].alive = FALSE /\ ses[2].sock = 1 /\ ses[2].ref = FALSE
      /\ ses[2].pc = "idle" /\ ses \in [Ids -> Sessions]
  <2>1. NewSession(1) \in Sessions /\ NoSession \in Sessions
    BY DEF NewSession, NoSession, Sessions
  <2>2. ses \in [Ids -> Sessions] /\ ses[1] = NewSession(1) /\ ses[2] = NoSession
    BY <2>1 DEF Init
  <2>3. QED
    BY <2>2 DEF NewSession, NoSession
<1>5. TypeOK
  <2>1. sock \in [Ids -> Sockets]
    <3>1. sock = [k \in Ids |-> sock[k]]
      BY <1>1
    <3>2. QED
      BY <1>2, <1>3, <3>1
  <2>2. QED
    BY <1>4, <2>1 DEF Init, TypeOK
<1>6. LayoutInv
  BY <1>2, <1>3 DEF LayoutInv
<1>7. HeldInv /\ PairInv /\ CloserInv
  BY <1>2, <1>3, <1>4 DEF HeldInv, PairInv, CloserInv
<1>8. QED
  BY <1>5, <1>6, <1>7 DEF IInv

-----------------------------------------------------------------------------
(* What almost every step leaves as it is: which session is there, and has *)
(* which socket ...                                                        *)
SessionsKept(s) ==
  /\ s \in [Ids -> Sessions]
  /\ \A j \in Ids :
       /\ s[j].alive = ses[j].alive /\ s[j].sock = ses[j].sock
       /\ s[j].ref \/ s[j].pc \notin {"idle", "over"} => ses[j].alive

(* ... and what a socket is made of.                                       *)
SocketKept(k, t) ==
  /\ t \in Sockets /\ Layout(t) /\ t.alive = sock[k].alive
  /\ t.fd = "open" => sock[k].fd = "open"
  /\ t.closer # 0 =>
       \/ t.closer = sock[k].closer
       \/ sock[k].alive /\ ses[t.closer].alive /\ ses[t.closer].sock = k

SocketsKept(s) ==
  /\ DOMAIN s = Ids /\ s = [k \in Ids |-> s[k]]
  /\ \A k \in Ids : SocketKept(k, s[k])

(* A step that keeps both preserves the invariant (Session.cpp:13-97).     *)
LEMMA KeptInv ==
  ASSUME IInv, SessionsKept(ses'), SocketsKept(sock'), timeouts' = timeouts
  PROVE  IInv'
<1> USE DEF IInv, Ids
<1>1. TypeOK'
  <2>1. sock' \in [Ids -> Sockets]
    BY DEF SocketsKept, SocketKept
  <2>2. QED
    BY <2>1 DEF TypeOK, SessionsKept
<1>2. LayoutInv'
  BY DEF LayoutInv, SocketsKept, SocketKept
<1>3. HeldInv'
  BY DEF HeldInv, SessionsKept
<1>4. ses[1].sock \in {1, 2} /\ ses[1].alive \in BOOLEAN /\ ses[2].alive \in BOOLEAN
  BY DEF TypeOK, Sessions
<1>5. PairInv'
  BY <1>4 DEF PairInv, SessionsKept, SocketsKept, SocketKept
<1>6. CloserInv'
  <2> SUFFICES ASSUME NEW k \in Ids
               PROVE  /\ ~sock'[k].alive => sock'[k].fd # "open" /\ sock'[k].closer = 0
                      /\ sock'[k].closer # 0 => /\ ses'[sock'[k].closer].alive
                                                /\ ses'[sock'[k].closer].sock = k
    BY DEF CloserInv
  <2>1. SocketKept(k, sock'[k])
    BY DEF SocketsKept
  <2>2. sock'[k].closer \in {0} \cup Ids
    BY <2>1 DEF SocketKept, Sockets
  <2>3. QED
    BY <2>1, <2>2 DEF SocketKept, SessionsKept, CloserInv
<1>7. QED
  BY <1>1, <1>2, <1>3, <1>5, <1>6

(* Nothing done keeps both (Session.cpp:13-97).                            *)
LEMMA SameKept ==
  ASSUME IInv
  PROVE  SessionsKept(ses) /\ SocketsKept(sock)
<1>1. SessionsKept(ses)
  BY DEF IInv, TypeOK, HeldInv, SessionsKept
<1>2. ASSUME NEW k \in Ids PROVE SocketKept(k, sock[k])
  BY DEF IInv, TypeOK, LayoutInv, SocketKept
<1>3. QED
  BY <1>1, <1>2 DEF IInv, TypeOK, SocketsKept

(* A change of one socket, of a session that is there, that keeps it       *)
(* (Socket.cpp:26-71).                                                     *)
LEMMA OneSocketKept ==
  ASSUME IInv, NEW k \in Ids, NEW t, SocketKept(k, t)
  PROVE  SocketsKept([sock EXCEPT ![k] = t])
<1> DEFINE s == [sock EXCEPT ![k] = t]
<1>1. DOMAIN sock = Ids
  BY DEF IInv, TypeOK
<1>2. s = [j \in Ids |-> s[j]] /\ DOMAIN s = Ids
  BY <1>1
<1>3. ASSUME NEW j \in Ids PROVE SocketKept(j, s[j])
  BY <1>1, SameKept DEF SocketsKept
<1>4. QED
  BY <1>2, <1>3 DEF SocketsKept

(* A change of one session: it is there already, if that is asked for.     *)
LEMMA OneSessionKept ==
  ASSUME IInv, NEW i \in Ids, NEW s \in Sessions,
         s.alive = ses[i].alive, s.sock = ses[i].sock,
         s.ref \/ s.pc \notin {"idle", "over"} => ses[i].alive
  PROVE  SessionsKept([ses EXCEPT ![i] = s])
<1>1. SessionsKept(ses) /\ ses \in [Ids -> Sessions]
  BY SameKept DEF IInv, TypeOK
<1>2. QED
  BY <1>1 DEF SessionsKept

(* The operations on a socket are aborted (TCPSocket.cpp:75-92).           *)
LEMMA AbortedKept ==
  ASSUME NEW s, SessionsKept(s), NEW i \in Ids
  PROVE  SessionsKept(Aborted(s, i))
<1> DEFINE q == Aborted(s, i)
           o == IF s[i].io \in {"pending", "late"} THEN "aborted" ELSE s[i].io
           r == [s[i] EXCEPT !.io = o]
<1>1. s \in [Ids -> Sessions] /\ s[i] \in Sessions
  BY DEF SessionsKept
<1>2. r \in Sessions /\ r.alive = s[i].alive /\ r.sock = s[i].sock
      /\ r.ref = s[i].ref /\ r.pc = s[i].pc
  BY <1>1 DEF Sessions
<1>3. q = [s EXCEPT ![i] = r]
  BY <1>1 DEF Aborted
<1> HIDE DEF q, r
<1>4. SessionsKept(q)
  BY <1>1, <1>2, <1>3 DEF SessionsKept
<1>5. QED
  BY <1>4 DEF q

-----------------------------------------------------------------------------
(* A socket is kept if what it is made of is, its descriptor is not opened *)
(* again, and its session closes it (Socket.cpp:26-71).                    *)
LEMMA FieldsKept ==
  ASSUME NEW k \in Ids, NEW s, SocketKept(k, s), NEW t \in Sockets,
         t.alive = s.alive, t.class = s.class, t.objects = s.objects, t.base = s.base,
         t.own = s.own, t.owner = s.owner, t.freed = s.freed,
         t.fd = "open" => s.fd = "open",
         t.closer # 0 =>
           \/ t.closer = s.closer
           \/ sock[k].alive /\ ses[t.closer].alive /\ ses[t.closer].sock = k
  PROVE  SocketKept(k, t)
<1>1. Layout(t)
  BY DEF Layout, SocketKept
<1>2. QED
  BY <1>1 DEF SocketKept

LEMMA StartedKept ==
  ASSUME NEW k \in Ids, NEW s, SocketKept(k, s)
  PROVE  /\ SocketKept(k, [s EXCEPT !.state = "STARTED"])
         /\ SocketKept(k, [s EXCEPT !.ssl = FALSE])
         /\ SocketKept(k, [s EXCEPT !.closer = 0])
<1>1. s \in Sockets
  BY DEF SocketKept
<1>2. SocketKept(k, [s EXCEPT !.state = "STARTED"])
  BY <1>1, FieldsKept DEF Sockets, SocketStates
<1>3. SocketKept(k, [s EXCEPT !.ssl = FALSE])
  <2> DEFINE t == [s EXCEPT !.ssl = FALSE]
  <2>1. /\ t \in Sockets /\ t.alive = s.alive /\ t.class = s.class
        /\ t.objects = s.objects /\ t.base = s.base /\ t.own = s.own
        /\ t.owner = s.owner /\ t.freed = s.freed /\ t.fd = s.fd
        /\ t.closer = s.closer
    BY <1>1 DEF Sockets
  <2> HIDE DEF t
  <2>2. SocketKept(k, t)
    BY <2>1, FieldsKept
  <2>3. QED
    BY <2>2 DEF t
<1>4. SocketKept(k, [s EXCEPT !.closer = 0])
  BY <1>1, FieldsKept DEF Sockets
<1>5. QED
  BY <1>2, <1>3, <1>4

(* TCPSocket::close (TCPSocket.cpp:75-85).                                 *)
LEMMA TCPCloseKept ==
  ASSUME NEW k \in Ids, NEW s, SocketKept(k, s)
  PROVE  SocketKept(k, TCPClose(s))
<1>1. s \in Sockets
  BY DEF SocketKept
<1> DEFINE f == IF s.fd = "open" THEN "closed" ELSE s.fd
           t == [s EXCEPT !.fd = f]
<1>2. f \in {"none", "open", "closed"} /\ f # "open" /\ TCPClose(s) = t
  BY <1>1 DEF Sockets, TCPClose
<1> HIDE DEF f
<1>3. t \in Sockets /\ t.fd # "open"
  BY <1>1, <1>2 DEF Sockets
<1>4. /\ t.alive = s.alive /\ t.class = s.class /\ t.objects = s.objects
      /\ t.base = s.base /\ t.own = s.own /\ t.owner = s.owner
      /\ t.freed = s.freed /\ t.closer = s.closer
  BY <1>1 DEF Sockets
<1> HIDE DEF t
<1>5. SocketKept(k, t)
  BY <1>3, <1>4, FieldsKept
<1>6. QED
  BY <1>2, <1>5

(* SSLSocket::close, called for the session that has the socket            *)
(* (SSLSocket.cpp:86-100).                                                 *)
LEMMA ClosingKept ==
  ASSUME IInv, NEW i \in Ids, ses[i].alive, NEW s, SocketKept(ses[i].sock, s)
  PROVE  SocketKept(ses[i].sock, Closing(s, i))
<1> DEFINE k == ses[i].sock
           t == [s EXCEPT !.state = "CLOSED"]
           u == [s EXCEPT !.state = "CLOSED", !.closer = i]
<1>1. s \in Sockets
  BY DEF SocketKept
<1>2. k \in Ids /\ sock[k].alive
  BY DEF IInv, TypeOK, Sessions, PairInv, Ids
<1> HIDE DEF k
<1>3. t \in Sockets /\ u \in Sockets
  BY <1>1 DEF Sockets, SocketStates, Ids
<1>4. SocketKept(k, t)
  <2>1. /\ t.alive = s.alive /\ t.class = s.class /\ t.objects = s.objects
        /\ t.base = s.base /\ t.own = s.own /\ t.owner = s.owner
        /\ t.freed = s.freed /\ t.fd = s.fd /\ t.closer = s.closer
    BY <1>1 DEF Sockets
  <2> HIDE DEF t
  <2>2. QED
    BY <1>2, <1>3, <2>1, FieldsKept DEF k
<1>5. SocketKept(k, u)
  <2>1. u.closer = i /\ ses[i].alive /\ ses[i].sock = k
    BY <1>1 DEF Sockets, k
  <2>2. /\ u.alive = s.alive /\ u.class = s.class /\ u.objects = s.objects
        /\ u.base = s.base /\ u.own = s.own /\ u.owner = s.owner
        /\ u.freed = s.freed /\ u.fd = s.fd
    BY <1>1 DEF Sockets
  <2> HIDE DEF u
  <2>3. QED
    BY <1>2, <1>3, <2>1, <2>2, FieldsKept DEF k
<1>6. SocketKept(k, TCPClose(t))
  BY <1>2, <1>4, TCPCloseKept
<1>7. QED
  BY <1>5, <1>6 DEF Closing, k

(* Socket::co_close up to its suspension (Socket.cpp:45-71).               *)
LEMMA CoCloseKept ==
  ASSUME IInv, NEW i \in Ids, ses[i].alive, NEW s, SessionsKept(s), CoClose(i, s)
  PROVE  SessionsKept(ses') /\ SocketsKept(sock')
<1> DEFINE k == ses[i].sock
<1>1. k \in Ids /\ SocketKept(k, sock[k])
  BY SameKept DEF IInv, TypeOK, Sessions, SocketsKept
<1>2. CASE Socket(i).state # "STARTED"
  BY <1>2, SameKept DEF CoClose
<1>3. CASE Socket(i).state = "STARTED"
  <2>1. ses' = Aborted(s, i) /\ sock' = [sock EXCEPT ![k] = Closing(@, i)]
    BY <1>3 DEF CoClose
  <2>2. SocketKept(k, Closing(sock[k], i))
    BY <1>1, ClosingKept
  <2>3. QED
    BY <1>1, <2>1, <2>2, OneSocketKept, AbortedKept
<1>4. QED
  BY <1>2, <1>3

-----------------------------------------------------------------------------
(* SSLSocket::setSSLParameters: the new stream is pointed at and owned,    *)
(* the old one is deleted (SSLSocket.cpp:34-50, TCPSocket.cpp:32-45).      *)
LEMMA WithParametersKept ==
  ASSUME NEW k \in Ids, NEW s, SocketKept(k, s), s.alive, s.class = "SSLSocket"
  PROVE  SocketKept(k, WithParameters(s))
<1> DEFINE n == s.objects + 1
           f == Append(s.freed, s.own)
           t == [s EXCEPT !.objects = n, !.own = n, !.freed = f]
           u == SetTCPSocket(t, n)
<1>1. /\ s \in Sockets /\ s.objects \in Nat /\ n \in Nat /\ s.own \in Nat
      /\ s.freed \in Seq(Nat) /\ f \in Seq(Nat)
  BY DEF SocketKept, Sockets
<1>2. /\ s.own = s.objects /\ s.owner = FALSE /\ Len(s.freed) = s.objects - 1
      /\ s.objects >= 1 /\ \A m \in 1..Len(s.freed) : s.freed[m] = m
  BY <1>1 DEF SocketKept, Layout, Sockets
<1>3. WithParameters(s) = u
  BY DEF WithParameters
<1> HIDE DEF f, n
<1>4. /\ t \in Sockets /\ t.objects = n /\ t.own = n /\ t.owner = FALSE
      /\ t.freed = f /\ t.class = "SSLSocket" /\ t.alive = s.alive
      /\ t.fd = s.fd /\ t.closer = s.closer
  BY <1>1, <1>2 DEF Sockets
<1> HIDE DEF t
<1>5. /\ u \in Sockets /\ u.base = n /\ u.owner = FALSE
      /\ u.freed = (IF t.owner THEN Append(t.freed, t.base) ELSE t.freed)
      /\ u.objects = t.objects /\ u.own = t.own /\ u.class = t.class
      /\ u.alive = t.alive /\ u.fd = t.fd /\ u.closer = t.closer
  BY <1>1, <1>4, SetTCPSocketFacts
<1> HIDE DEF u
<1>6. Len(u.freed) = s.objects /\ \A m \in 1..Len(u.freed) : u.freed[m] = m
  BY <1>1, <1>2, <1>4, <1>5 DEF f
<1>7. Layout(u)
  BY <1>1, <1>2, <1>4, <1>5, <1>6 DEF Layout, n
<1>8. SocketKept(k, u)
  BY <1>4, <1>5, <1>7 DEF SocketKept
<1>9. QED
  BY <1>3, <1>8

(* What the owner of a session does (Session.cpp:32-64, Session.hpp:20-60).*)
LEMMA UserInv ==
  ASSUME IInv, NEW i \in Ids, User(i)
  PROVE  IInv'
<1> DEFINE k == ses[i].sock
<1>1. /\ ses \in [Ids -> Sessions] /\ ses[i] \in Sessions /\ k \in Ids
      /\ SocketKept(k, sock[k]) /\ SessionsKept(ses) /\ SocketsKept(sock)
      /\ sock \in [Ids -> Sockets] /\ (ses[i].alive => sock[k].alive)
      /\ (ses[i].ref => ses[i].alive)
  BY SameKept DEF IInv, TypeOK, Sessions, SocketsKept, PairInv, HeldInv, Ids
<1>2. CASE SetSSL(i)
  <2>1. ses[i].alive /\ sock[k].class = "SSLSocket" /\ ses' = ses /\ timeouts' = timeouts
    BY <1>2 DEF SetSSL, Socket
  <2>2. SocketKept(k, WithParameters(sock[k])) /\ SocketKept(k, [sock[k] EXCEPT !.ssl = FALSE])
    BY <1>1, <2>1, WithParametersKept, StartedKept
  <2>3. \/ sock' = [sock EXCEPT ![k] = WithParameters(sock[k])]
        \/ sock' = [sock EXCEPT ![k] = [sock[k] EXCEPT !.ssl = FALSE]]
    BY <1>1, <1>2 DEF SetSSL
  <2>4. QED
    BY <1>1, <2>1, <2>2, <2>3, OneSocketKept, KeptInv
<1>3. CASE SetSocketAutoClose(i)
  <2> DEFINE s == [ses[i] EXCEPT !.autoClose = FALSE]
  <2>1. /\ s \in Sessions /\ s.alive = ses[i].alive /\ s.sock = ses[i].sock
        /\ ses[i].alive
    BY <1>1, <1>3 DEF SetSocketAutoClose, Sessions
  <2>2. ses' = [ses EXCEPT ![i] = s] /\ UNCHANGED <<sock, timeouts>>
    BY <1>3 DEF SetSocketAutoClose
  <2>3. SessionsKept(ses')
    BY <2>1, <2>2, OneSessionKept
  <2>4. QED
    BY <1>1, <2>2, <2>3, KeptInv
<1>4. CASE CoStart(i)
  <2> DEFINE s == [ses[i] EXCEPT !.pc = IF ses[i].canceled THEN "over" ELSE "prepare"]
  <2>1. /\ s \in Sessions /\ s.alive = ses[i].alive /\ s.sock = ses[i].sock
        /\ ses[i].alive
    BY <1>1, <1>4 DEF CoStart, Sessions
  <2>2. ses' = [ses EXCEPT ![i] = s] /\ UNCHANGED <<sock, timeouts>>
    BY <1>4 DEF CoStart
  <2>3. SessionsKept(ses')
    BY <2>1, <2>2, OneSessionKept
  <2>4. QED
    BY <1>1, <2>2, <2>3, KeptInv
<1>5. CASE Cancel(i)
  <2> DEFINE a == Aborted(ses, i)
             s == [a[i] EXCEPT !.canceled = TRUE]
  <2>1. SessionsKept(a) /\ a \in [Ids -> Sessions] /\ a[i] \in Sessions
    BY <1>1, AbortedKept DEF SessionsKept
  <2> HIDE DEF a
  <2>2. /\ s \in Sessions /\ s.alive = a[i].alive /\ s.sock = a[i].sock
        /\ s.ref = a[i].ref /\ s.pc = a[i].pc
    BY <2>1 DEF Sessions
  <2>3. ses' = [a EXCEPT ![i] = s] /\ UNCHANGED <<sock, timeouts>>
    BY <1>5 DEF Cancel, a
  <2> HIDE DEF s
  <2>4. SessionsKept(ses')
    BY <2>1, <2>2, <2>3 DEF SessionsKept
  <2>5. QED
    BY <1>1, <2>3, <2>4, KeptInv
<1>6. CASE Drop(i)
  <2> DEFINE s == [ses[i] EXCEPT !.ref = FALSE]
  <2>1. /\ s \in Sessions /\ s.alive = ses[i].alive /\ s.sock = ses[i].sock
        /\ ses[i].alive
    BY <1>1, <1>6 DEF Drop, Sessions
  <2>2. ses' = [ses EXCEPT ![i] = s] /\ UNCHANGED <<sock, timeouts>>
    BY <1>6 DEF Drop
  <2>3. SessionsKept(ses')
    BY <2>1, <2>2, OneSessionKept
  <2>4. QED
    BY <1>1, <2>2, <2>3, KeptInv
<1>7. CASE CloseSocket(i)
  <2>1. ses[i].alive /\ CoClose(i, ses) /\ timeouts' = timeouts
    BY <1>1, <1>7 DEF CloseSocket
  <2>2. QED
    BY <1>1, <2>1, CoCloseKept, KeptInv
<1>8. QED
  BY <1>2, <1>3, <1>4, <1>5, <1>6, <1>7 DEF User

(* The coroutine ends, and the guard closes the socket if it is to         *)
(* (Session.cpp:66-85).                                                    *)
LEMMA LeaveKept ==
  ASSUME IInv, NEW i \in Ids, ses[i].alive, Leave(i)
  PROVE  SessionsKept(ses') /\ SocketsKept(sock') /\ timeouts' = timeouts
<1> DEFINE r == [ses[i] EXCEPT !.pc = "over", !.io = "none"]
           s == [ses EXCEPT ![i].pc = "over", ![i].io = "none"]
<1>1. ses \in [Ids -> Sessions] /\ ses[i] \in Sessions
  BY DEF IInv, TypeOK
<1>2. /\ r \in Sessions /\ r.alive = ses[i].alive /\ r.sock = ses[i].sock
      /\ r.pc = "over"
  BY <1>1 DEF Sessions
<1>3. s = [ses EXCEPT ![i] = r]
  BY <1>1
<1> HIDE DEF r
<1>4. SessionsKept(s)
  BY <1>2, <1>3, OneSessionKept
<1>5. /\ IF ses[i].autoClose THEN CoClose(i, s) ELSE ses' = s /\ UNCHANGED sock
      /\ timeouts' = timeouts
  BY DEF Leave
<1> HIDE DEF s
<1>6. CASE ses[i].autoClose
  BY <1>4, <1>5, <1>6, CoCloseKept
<1>7. CASE ~ses[i].autoClose
  BY <1>4, <1>5, <1>7, SameKept
<1>8. QED
  BY <1>6, <1>7

(* The network completes an operation, or the operation goes on            *)
(* (SSLSocket.cpp:79-116, TCPSocket.cpp:78-93).                            *)
LEMMA NetworkInv ==
  ASSUME IInv, NEW i \in Ids, Arrives(i) \/ GoOn(i)
  PROVE  IInv'
<1>1. PICK o \in {"pending", "late", "queued", "aborted"} :
        ses' = [ses EXCEPT ![i].io = o]
  BY DEF Arrives, GoOn
<1> DEFINE r == [ses[i] EXCEPT !.io = o]
<1>2. ses \in [Ids -> Sessions] /\ ses[i] \in Sessions
  BY DEF IInv, TypeOK
<1>3. /\ r \in Sessions /\ r.alive = ses[i].alive /\ r.sock = ses[i].sock
      /\ r.ref = ses[i].ref /\ r.pc = ses[i].pc
  BY <1>2 DEF Sessions
<1>4. ses' = [ses EXCEPT ![i] = r]
  BY <1>1, <1>2
<1>5. ses[i].ref \/ ses[i].pc \notin {"idle", "over"} => ses[i].alive
  BY DEF IInv, HeldInv
<1> HIDE DEF r
<1>6. SessionsKept(ses')
  BY <1>3, <1>4, <1>5, OneSessionKept
<1>7. sock' = sock /\ timeouts' = timeouts
  BY DEF Arrives, GoOn
<1>8. QED
  BY <1>6, <1>7, SameKept, KeptInv

(* Session::run (Session.cpp:66-97).                                       *)
LEMMA RunInv ==
  ASSUME IInv, NEW i \in Ids, Run(i)
  PROVE  IInv'
<1> DEFINE k == ses[i].sock
           At(p) == [ses[i] EXCEPT !.pc = p]
           Io(o) == [ses[i] EXCEPT !.io = o]
<1>1. /\ ses \in [Ids -> Sessions] /\ ses[i] \in Sessions /\ k \in Ids
      /\ sock \in [Ids -> Sockets]
      /\ SocketKept(k, sock[k]) /\ SessionsKept(ses) /\ SocketsKept(sock)
  BY SameKept DEF IInv, TypeOK, Sessions, SocketsKept
<1>2. CASE Arrives(i) \/ GoOn(i)
  BY <1>2, NetworkInv
<1>3. ASSUME ~(Arrives(i) \/ GoOn(i)) PROVE ses[i].alive
  <2>1. ses[i].pc \in {"prepare", "starting", "work"}
    BY <1>3 DEF Run, Resumed, Prepared, PresetThrows, PrepareThrows, Handshake,
                HandshakeFails, StreamIO, SocketIO, FinishIO, WorkEnds
  <2>2. QED
    BY <2>1 DEF IInv, HeldInv
<1> SUFFICES ASSUME ses[i].alive, Run(i), ~(Arrives(i) \/ GoOn(i)) PROVE IInv'
  BY <1>2, <1>3
<1>4. ASSUME NEW p \in {"starting", "work", "over"}, NEW o \in {"none", "pending", "late"}
      PROVE  /\ SessionsKept([ses EXCEPT ![i].pc = p])
             /\ SessionsKept([ses EXCEPT ![i].io = o])
             /\ SessionsKept([ses EXCEPT ![i].pc = p, ![i].io = o])
  <2> DEFINE r == [ses[i] EXCEPT !.pc = p]
             s == [ses[i] EXCEPT !.io = o]
             u == [ses[i] EXCEPT !.pc = p, !.io = o]
  <2>1. /\ r \in Sessions /\ r.alive = ses[i].alive /\ r.sock = ses[i].sock
        /\ s \in Sessions /\ s.alive = ses[i].alive /\ s.sock = ses[i].sock
        /\ u \in Sessions /\ u.alive = ses[i].alive /\ u.sock = ses[i].sock
    BY <1>1 DEF Sessions
  <2>2. /\ [ses EXCEPT ![i].pc = p] = [ses EXCEPT ![i] = r]
        /\ [ses EXCEPT ![i].io = o] = [ses EXCEPT ![i] = s]
        /\ [ses EXCEPT ![i].pc = p, ![i].io = o] = [ses EXCEPT ![i] = u]
    BY <1>1
  <2> HIDE DEF r, s, u
  <2>3. QED
    BY <2>1, <2>2, OneSessionKept
<1>5. SocketsKept([sock EXCEPT ![k].state = "STARTED"])
  <2>1. SocketKept(k, [sock[k] EXCEPT !.state = "STARTED"])
    BY <1>1, StartedKept
  <2>2. [sock EXCEPT ![k].state = "STARTED"] =
          [sock EXCEPT ![k] = [sock[k] EXCEPT !.state = "STARTED"]]
    BY <1>1
  <2>3. QED
    BY <1>1, <2>1, <2>2, OneSocketKept
<1>6. CASE Prepared(i)
  <2>1. SessionsKept(ses')
    BY <1>4, <1>6 DEF Prepared
  <2>2. SocketsKept(sock') /\ timeouts' = timeouts
    BY <1>1, <1>5, <1>6 DEF Prepared
  <2>3. QED
    BY <2>1, <2>2, KeptInv
<1>7. CASE PresetThrows(i)
  <2> DEFINE s == [sock[k] EXCEPT !.state = "STARTED"]
             u == IF ses[i].autoClose THEN Closing(s, i) ELSE s
  <2>1. SocketKept(k, s)
    BY <1>1, StartedKept
  <2>2. SocketKept(k, Closing(s, i))
    BY <2>1, ClosingKept
  <2>3. ses' = [ses EXCEPT ![i].pc = "over"] /\ sock' = [sock EXCEPT ![k] = u]
        /\ timeouts' = timeouts
    BY <1>7 DEF PresetThrows, Socket
  <2> HIDE DEF s
  <2>4. SocketKept(k, u)
    BY <2>1, <2>2
  <2> HIDE DEF u
  <2>5. SessionsKept(ses') /\ SocketsKept(sock')
    BY <1>1, <1>4, <2>3, <2>4, OneSocketKept
  <2>6. QED
    BY <2>3, <2>5, KeptInv
<1>8. CASE Handshake(i) \/ StreamIO(i) \/ SocketIO(i) \/ FinishIO(i)
  <2>1. UNCHANGED <<sock, timeouts>>
    BY <1>8 DEF Handshake, StreamIO, SocketIO, FinishIO
  <2>2. CASE Handshake(i)
    BY <1>1, <1>4, <2>1, <2>2, KeptInv DEF Handshake
  <2>3. CASE StreamIO(i)
    BY <1>1, <1>4, <2>1, <2>3, KeptInv DEF StreamIO
  <2>4. CASE SocketIO(i)
    BY <1>1, <1>4, <2>1, <2>4, KeptInv DEF SocketIO
  <2>5. CASE FinishIO(i)
    BY <1>1, <1>4, <2>1, <2>5, KeptInv DEF FinishIO
  <2>6. QED
    BY <1>8, <2>2, <2>3, <2>4, <2>5
<1>9. CASE PrepareThrows(i) \/ HandshakeFails(i) \/ WorkEnds(i)
  BY <1>9, LeaveKept, KeptInv DEF PrepareThrows, HandshakeFails, WorkEnds
<1>10. QED
  BY <1>6, <1>7, <1>8, <1>9 DEF Run, Resumed

(* async_shutdown completes or fails (SSLSocket.cpp:86-100).               *)
LEMMA ShutdownInv ==
  ASSUME IInv, NEW k \in Ids, ShutdownDone(k) \/ ShutdownFails(k)
  PROVE  IInv'
<1> DEFINE s == [sock[k] EXCEPT !.closer = 0]
<1>1. SocketKept(k, s) /\ SocketKept(k, TCPClose(s)) /\ SessionsKept(ses)
      /\ sock \in [Ids -> Sockets] /\ sock[k].closer \in {0} \cup Ids
  <2>1. SocketKept(k, sock[k])
    BY SameKept DEF SocketsKept
  <2>2. QED
    BY <2>1, SameKept, StartedKept, TCPCloseKept DEF IInv, TypeOK, Sockets
<1>2. CASE ShutdownDone(k)
  <2>1. /\ sock[k].closer \in Ids /\ ses' = Aborted(ses, sock[k].closer)
        /\ sock' = [sock EXCEPT ![k] = TCPClose(s)] /\ timeouts' = timeouts
    BY <1>1, <1>2 DEF ShutdownDone
  <2> HIDE DEF s
  <2>2. QED
    BY <1>1, <2>1, AbortedKept, OneSocketKept, KeptInv
<1>3. CASE ShutdownFails(k)
  <2>1. ses' = ses /\ sock' = [sock EXCEPT ![k] = s] /\ timeouts' = timeouts
    BY <1>1, <1>3 DEF ShutdownFails
  <2> HIDE DEF s
  <2>2. QED
    BY <1>1, <2>1, OneSocketKept, KeptInv
<1>4. QED
  BY <1>2, <1>3

(* mutate(): the socket goes to the new session, a fresh one comes to the  *)
(* old one (Session.cpp:38-46, Session.hpp:39-48).                         *)
LEMMA MutateInv ==
  ASSUME IInv, Mutate
  PROVE  IInv'
<1> USE DEF Ids
<1> DEFINE c == sock[1].class
           n == NewSocket(c, "none")
           r == [ses[1] EXCEPT !.sock = 2]
<1>1. /\ ses \in [Ids -> Sessions] /\ ses[1] \in Sessions /\ ses[1].alive
      /\ sock \in [Ids -> Sockets] /\ sock[1] \in Sockets /\ ses[1].sock = 1
      /\ c \in {"TCPSocket", "SSLSocket"} /\ sock[1].alive /\ sock[1].closer = 0
  BY DEF Mutate, IInv, TypeOK, Sockets, HeldInv, PairInv
<1>2. ses'[1] = r /\ ses'[2] = NewSession(1) /\ ses' = [i \in Ids |-> ses'[i]]
      /\ sock' = [sock EXCEPT ![2] = n] /\ timeouts' = timeouts
  BY DEF Mutate
<1>3. /\ r \in Sessions /\ r.alive = ses[1].alive /\ r.sock = 2 /\ NewSession(1) \in Sessions
      /\ NewSession(1).alive = TRUE /\ NewSession(1).sock = 1
  BY <1>1 DEF Sessions, NewSession
<1>4. n \in Sockets /\ Layout(n) /\ n.alive /\ n.closer = 0
  BY <1>1, NewSocketFacts
<1> HIDE DEF n, r
<1>5. TypeOK'
  BY <1>1, <1>2, <1>3, <1>4 DEF IInv, TypeOK
<1>6. LayoutInv'
  BY <1>1, <1>2, <1>4 DEF IInv, LayoutInv
<1>7. HeldInv'
  BY <1>1, <1>2, <1>3 DEF IInv, HeldInv
<1>8. PairInv'
  BY <1>1, <1>2, <1>3, <1>4 DEF IInv, PairInv
<1>9. CloserInv'
  BY <1>1, <1>2, <1>3, <1>4 DEF IInv, CloserInv
<1>10. QED
  BY <1>5, <1>6, <1>7, <1>8, <1>9 DEF IInv

(* Nothing holds the session any more, and its socket goes with it         *)
(* (Session.cpp:32-36, SSLSocket.cpp:52-65, TCPSocket.cpp:20-30).          *)
LEMMA DestroyInv ==
  ASSUME IInv, NEW i \in Ids, Destroy(i)
  PROVE  IInv'
<1> USE DEF Ids
<1> DEFINE k == ses[i].sock
           r == [ses[i] EXCEPT !.alive = FALSE]
           d == Destroyed(sock[k])
<1>1. /\ ses \in [Ids -> Sessions] /\ ses[i] \in Sessions /\ k \in {1, 2}
      /\ sock \in [Ids -> Sockets] /\ sock[k] \in Sockets /\ Layout(sock[k])
      /\ sock[k].alive /\ ses[i].alive /\ ses[1].sock \in {1, 2} /\ ses[2].sock = 1
  BY DEF Destroy, IInv, TypeOK, Sessions, LayoutInv, PairInv
<1>2. ses' = [ses EXCEPT ![i] = r] /\ sock' = [sock EXCEPT ![k] = d] /\ timeouts' = timeouts
  BY <1>1 DEF Destroy
<1>3. /\ r \in Sessions /\ r.alive = FALSE /\ r.sock = k /\ ~r.ref
      /\ r.pc \in {"idle", "over"}
  BY <1>1 DEF Sessions, Destroy
<1>4. d \in Sockets /\ Layout(d) /\ ~d.alive /\ d.closer = sock[k].closer /\ d.fd # "open"
  BY <1>1, DestroyedFacts
<1>5. sock[k].closer = 0 /\ \A q \in Ids : sock[q].closer # i
  <2>1. \A q \in Ids : sock[q].closer # i
    BY DEF Destroy
  <2>2. sock[k].closer \in {0, 1, 2} /\ sock[k].closer # i
    BY <1>1, <2>1 DEF Sockets
  <2>3. sock[k].closer # 0 => /\ ses[sock[k].closer].alive
                              /\ ses[sock[k].closer].sock = k
    BY <1>1 DEF IInv, CloserInv
  <2>4. ses[1].alive /\ ses[2].alive => ses[1].sock # ses[2].sock
    BY <1>1 DEF IInv, PairInv
  <2>5. sock[k].closer = 0
    BY <1>1, <2>2, <2>3, <2>4
  <2>6. QED
    BY <2>1, <2>5
<1> HIDE DEF r, d
<1>6. TypeOK'
  BY <1>1, <1>2, <1>3, <1>4 DEF IInv, TypeOK
<1>7. LayoutInv'
  BY <1>1, <1>2, <1>4 DEF IInv, LayoutInv
<1>8. HeldInv'
  BY <1>1, <1>2, <1>3 DEF IInv, HeldInv
<1>9. PairInv'
  BY <1>1, <1>2, <1>3, <1>4 DEF IInv, PairInv
<1>10. CloserInv'
  BY <1>1, <1>2, <1>3, <1>4, <1>5 DEF IInv, CloserInv
<1>11. QED
  BY <1>6, <1>7, <1>8, <1>9, <1>10 DEF IInv

(* Every step preserves the invariant (Session.cpp:13-97).                 *)
LEMMA StepInv == IInv /\ [Next]_vars => IInv'
<1> SUFFICES ASSUME IInv, [Next]_vars PROVE IInv'
  OBVIOUS
<1>1. CASE UNCHANGED vars
  BY <1>1, SameKept, KeptInv DEF vars
<1>2. CASE Next
  BY <1>2, RunInv, UserInv, DestroyInv, ShutdownInv, MutateInv DEF Next
<1>3. QED
  BY <1>1, <1>2

(* The inductive invariant: how a socket is made up, who has it and who    *)
(* closes it (Session.cpp:13-97).                                          *)
THEOREM Inductive == Spec => []IInv
<1>1. QED
  BY InitInv, StepInv, PTL DEF Spec

(* Each variable keeps its type (Session.cpp:13-97).                       *)
THEOREM TypeCorrect == Spec => []TypeOK
<1>1. IInv => TypeOK
  BY DEF IInv
<1>2. QED
  BY <1>1, Inductive, PTL

(* Each socket has one owner, each transport object is deleted once, with  *)
(* the session all are, and none is pointed at when it is gone             *)
(* (TCPSocket.cpp:32-45, SSLSocket.cpp:34-65, Session.cpp:32-36, 87-97).   *)
THEOREM OwnedHolds == Spec => []Owned
<1>1. QED
  BY OwnedFacts, Inductive, PTL

-----------------------------------------------------------------------------
(* Timed: timeout(op, d).                                                  *)
(* A completion handler runs after the completion.                         *)
RanInv ==
  /\ "op" \in ran => op \in Results
  /\ "timer" \in ran => timer \in {"expired", "aborted"}

(* While the coroutine waits, at most one handler of the two has run, and  *)
(* an await without a duration has no timer.                               *)
WaitingInv ==
  pc = "waiting" =>
    /\ op # "none"
    /\ ~("op" \in ran /\ "timer" \in ran)
    /\ kind = "direct" <=> timer = "none"
    /\ kind = "direct" => ran = {}

(* A timer is aborted, and an operation asked to cancel itself, for a      *)
(* reason: the other one was first, or the coroutine is canceled.          *)
AskedInv ==
  /\ timer = "aborted" => canceled \/ "op" \in ran
  /\ opAsked => canceled \/ timer = "expired"
  /\ op = "operation_canceled" => opAsked

TimedInv == TimedTypeOK /\ Quiet /\ RanInv /\ WaitingInv /\ AskedInv

-----------------------------------------------------------------------------
(* A coroutine that has awaited nothing yet (TimedSpawn.hpp:12-51).        *)
LEMMA TimedInitInv == TimedInit => TimedInv
<1> SUFFICES ASSUME TimedInit PROVE TimedInv
  OBVIOUS
<1>1. ran = {} /\ op = "none" /\ timer = "none" /\ pc = "running" /\ ~opAsked
  BY DEF TimedInit
<1>2. TimedTypeOK
  BY <1>1 DEF TimedInit, TimedTypeOK, Kinds
<1>3. Quiet /\ RanInv /\ WaitingInv /\ AskedInv
  BY <1>1 DEF Quiet, RanInv, WaitingInv, AskedInv
<1>4. QED
  BY <1>2, <1>3 DEF TimedInv

(* The coroutine (Timed.hpp:22-100, TimedSpawn.hpp:43-59).                 *)
LEMMA CoroutineInv ==
  ASSUME TimedInv, End \/ \E k \in Kinds : Await(k)
  PROVE  TimedInv'
<1>1. CASE End
  BY <1>1 DEF End, TimedInv, TimedTypeOK, Quiet, RanInv, WaitingInv, AskedInv, Results
<1>2. ASSUME NEW k \in Kinds, Await(k) PROVE TimedInv'
  <2>1. TimedTypeOK'
    <3>1. /\ pc' = "waiting" /\ awaits' = awaits + 1 /\ kind' = k /\ outcome' = "none"
          /\ timer' \in {"none", "waiting"} /\ op' = "running" /\ opAsked' = FALSE
          /\ ran' = {} /\ canceled' = canceled
      BY <1>2 DEF Await, Launch
    <3>2. awaits' \in Nat /\ canceled' \in BOOLEAN
      BY <3>1 DEF TimedInv, TimedTypeOK
    <3>3. QED
      BY <3>1, <3>2 DEF TimedTypeOK
  <2>2. (Quiet /\ RanInv /\ WaitingInv /\ AskedInv)'
    BY <1>2 DEF Quiet, RanInv, WaitingInv, AskedInv, Await, Launch
  <2>3. QED
    BY <2>1, <2>2 DEF TimedInv
<1>3. QED
  BY <1>1, <1>2

(* The coroutine's cancellation, the clock and the operation               *)
(* (Timed.hpp:47-56).                                                      *)
LEMMA OutsideInv ==
  ASSUME TimedInv, CancelAwait \/ Expire \/ \E res \in Results : Complete(res)
  PROVE  TimedInv'
<1>1. CASE CancelAwait
  BY <1>1 DEF CancelAwait, CancelOp, CancelTimer, TimedInv, TimedTypeOK, Quiet,
              RanInv, WaitingInv, AskedInv, Results
<1>2. CASE Expire
  BY <1>2 DEF Expire, TimedInv, TimedTypeOK, Quiet, RanInv, WaitingInv, AskedInv
<1>3. ASSUME NEW res \in Results, Complete(res) PROVE TimedInv'
  BY <1>3 DEF Complete, TimedInv, TimedTypeOK, Quiet, RanInv, WaitingInv, AskedInv,
              Results
<1>4. QED
  BY <1>1, <1>2, <1>3

(* A handler of the group runs only while the coroutine waits              *)
(* (Timed.hpp:90-99).                                                      *)
LEMMA HandlerFacts ==
  ASSUME TimedInv, TimerHandler \/ OpHandler
  PROVE  pc = "waiting"
BY DEF TimedInv, Quiet, TimerHandler, OpHandler, Results

(* What the coroutine gets is an outcome (TimedError.hpp:48-70).           *)
LEMMA ResultFacts ==
  ASSUME TimedInv, op \in Results
  PROVE  Result(timer, op) \in Outcomes
BY DEF TimedInv, Result, Outcomes, Results

(* The handler that runs first cancels the other operation, the second one *)
(* resumes the coroutine (Timed.hpp:66-99).                                *)
LEMMA HandlersInv ==
  ASSUME TimedInv, TimerHandler \/ OpHandler
  PROVE  TimedInv'
<1>0. pc = "waiting"
  BY HandlerFacts
<1>1. CASE TimerHandler /\ "op" \in ran
  <2>1. op \in Results /\ timer # "none" /\ Resume /\ ran' = ran \cup {"timer"}
    BY <1>1 DEF TimedInv, RanInv, TimerHandler
  <2>2. TimedTypeOK'
    BY <2>1, ResultFacts DEF TimedInv, TimedTypeOK, Resume, Results
  <2>3. (Quiet /\ RanInv /\ WaitingInv /\ AskedInv)'
    BY <1>1, <2>1 DEF TimedInv, RanInv, AskedInv, Quiet, WaitingInv, Resume,
                      TimerHandler
  <2>4. QED
    BY <2>2, <2>3 DEF TimedInv
<1>2. CASE TimerHandler /\ "op" \notin ran
  BY <1>0, <1>2 DEF TimerHandler, CancelOp, TimedInv, TimedTypeOK, Quiet, RanInv,
                    WaitingInv,
                    AskedInv
<1>3. CASE OpHandler /\ (kind = "direct" \/ "timer" \in ran)
  <2>1. op \in Results /\ Resume /\ ran' = ran \cup {"op"}
    BY <1>3 DEF OpHandler
  <2>2. TimedTypeOK'
    BY <2>1, ResultFacts DEF TimedInv, TimedTypeOK, Resume, Results
  <2>3. (Quiet /\ RanInv /\ WaitingInv /\ AskedInv)'
    BY <1>0, <1>3, <2>1 DEF TimedInv, RanInv, AskedInv, Quiet, WaitingInv, Resume
  <2>4. QED
    BY <2>2, <2>3 DEF TimedInv
<1>4. CASE OpHandler /\ ~(kind = "direct" \/ "timer" \in ran)
  BY <1>0, <1>4 DEF OpHandler, CancelTimer, TimedInv, TimedTypeOK, Quiet, RanInv,
                    WaitingInv,
                    AskedInv, Results
<1>5. QED
  BY <1>1, <1>2, <1>3, <1>4

(* Every step preserves the invariant (Timed.hpp:22-100).                  *)
LEMMA TimedStepInv == TimedInv /\ [TimedNext]_timedVars => TimedInv'
<1> SUFFICES ASSUME TimedInv, [TimedNext]_timedVars PROVE TimedInv'
  OBVIOUS
<1>1. CASE UNCHANGED timedVars
  BY <1>1 DEF timedVars, TimedInv, TimedTypeOK, Quiet, RanInv, WaitingInv, AskedInv
<1>2. CASE TimedNext
  BY <1>2, CoroutineInv, OutsideInv, HandlersInv DEF TimedNext
<1>3. QED
  BY <1>1, <1>2

(* The inductive invariant: who has run, and why it was canceled           *)
(* (Timed.hpp:47-99).                                                      *)
THEOREM TimedInductive == TimedSpec => []TimedInv
<1>1. QED
  BY TimedInitInv, TimedStepInv, PTL DEF TimedSpec

(* Each variable keeps its type (Timed.hpp:22-100).                        *)
THEOREM TimedTypeCorrect == TimedSpec => []TimedTypeOK
<1>1. TimedInv => TimedTypeOK
  BY DEF TimedInv
<1>2. QED
  BY <1>1, TimedInductive, PTL

(* When the coroutine goes on neither timer nor operation is still running *)
(* (Timed.hpp:90-96).                                                      *)
THEOREM QuietHolds == TimedSpec => []Quiet
<1>1. TimedInv => Quiet
  BY DEF TimedInv
<1>2. QED
  BY <1>1, TimedInductive, PTL

-----------------------------------------------------------------------------
(* What groupCompletion hands over is what the promise allows              *)
(* (Timed.hpp:66-91, TimedError.hpp:48-70).                                *)
LEMMA AllowedFacts ==
  ASSUME TimedInv, pc = "waiting", op \in Results
  PROVE  Result(timer, op) \in Promise!Allowed
<1>1. CASE timer = "expired" /\ kind = "timed"
  BY <1>1 DEF Result, Promise!Allowed
<1>2. CASE ~(timer = "expired" /\ kind = "timed")
  <2>1. Result(timer, op) = op
    BY <1>2 DEF TimedInv, TimedTypeOK, WaitingInv, Kinds, Result
  <2>2. op \in {"ok", "fail"} \/ (op = "operation_canceled" /\ (canceled \/ timer = "expired"))
    BY DEF TimedInv, AskedInv, Results
  <2>3. QED
    BY <1>2, <2>1, <2>2 DEF Promise!Allowed
<1>3. QED
  BY <1>1, <1>2

(* The second handler delivers (Timed.hpp:66-99).                          *)
LEMMA ResumeDelivers ==
  ASSUME TimedInv, pc = "waiting", op \in Results, Resume
  PROVE  Promise!Deliver
BY AllowedFacts DEF Resume, Promise!Deliver

(* Each step is one of the promise's, or does not concern the coroutine    *)
(* (Timed.hpp:22-100).                                                     *)
LEMMA StepPromise ==
  ASSUME TimedInv, [TimedNext]_timedVars
  PROVE  [Promise!Next]_(Promise!vars)
<1> USE DEF Promise!Next, Promise!vars
<1>1. CASE UNCHANGED timedVars
  BY <1>1 DEF timedVars
<1>2. ASSUME NEW k \in Kinds, Await(k) PROVE Promise!Await
  BY <1>2 DEF Await, Launch, Kinds, Promise!Await
<1>3. CASE End
  BY <1>3 DEF End, Promise!End
<1>4. CASE CancelAwait
  BY <1>4 DEF CancelAwait, CancelTimer, Promise!Cancel
<1>5. CASE Expire
  <2>1. pc = "waiting" /\ kind # "direct"
    BY <1>5 DEF Expire, TimedInv, Quiet, RanInv, WaitingInv
  <2>2. QED
    BY <1>5, <2>1 DEF Expire, Promise!Expire
<1>6. ASSUME NEW res \in Results, Complete(res) PROVE UNCHANGED Promise!vars
  BY <1>6 DEF Complete
<1>7. CASE TimerHandler \/ OpHandler
  <2>1. pc = "waiting"
    BY <1>7, HandlerFacts
  <2>2. CASE op \in Results /\ Resume
    BY <2>1, <2>2, ResumeDelivers
  <2>3. CASE ~(op \in Results /\ Resume)
    BY <1>7, <2>3 DEF TimerHandler, OpHandler, CancelTimer, TimedInv, RanInv
  <2>4. QED
    BY <2>2, <2>3
<1>8. QED
  BY <1>1, <1>2, <1>3, <1>4, <1>5, <1>6, <1>7 DEF TimedNext

(* timeout(op, d) implements TimedPromise: one outcome for each await,     *)
(* TimedOut exactly when the time is up, and no operation_canceled unless  *)
(* the coroutine is canceled or the time of a plain await is up            *)
(* (Timed.hpp:22-100).                                                     *)
THEOREM ImplementsPromise == TimedSpec => Promise!Spec
<1>1. TimedInit => Promise!Init
  BY DEF TimedInit, Promise!Init
<1>2. TimedInv /\ [TimedNext]_timedVars => [Promise!Next]_(Promise!vars)
  BY StepPromise
<1>3. QED
  BY <1>1, <1>2, TimedInductive, PTL DEF TimedSpec, Promise!Spec
=============================================================================
