----------------------------- MODULE ServerProofs -----------------------------
(***************************************************************************)
(* StopReaches, for any number of sessions.  There is one answer of the    *)
(* accept at a time, and none outside of it; so after m_stopped was fired  *)
(* at most one more session is created, and every one that existed has the *)
(* stop in its queue until it takes it.                                    *)
(***************************************************************************)
EXTENDS Server, FiniteSetTheorems, TLAPS

Handlers == {"start", "stop", "emit", "ok", "error", "canceled"}
Answers == {"ok", "error", "canceled"}

Has(s, h) == \E j \in DOMAIN s : s[j] = h
Free(s) == \A h \in Answers : ~Has(s, h)
Once(s, H) == \A i, j \in DOMAIN s : s[i] \in H /\ s[j] \in H => i = j

(* One answer of the accept, and only while the loop waits for it.         *)
Answering ==
  /\ Once(strand, Answers)
  /\ Once(strand, {"start"})
  /\ Has(strand, "start") => pc = "idle"
  /\ pending => pc = "accept" /\ Free(strand)
  /\ pc # "accept" => Free(strand)
  /\ Has(strand, "ok") => Cardinality(Created) < MaxSessions

(* Sessions are created in order, and each is registered.                  *)
Counted ==
  /\ \E k \in 0..MaxSessions : Created = 1..k
  /\ stopped = Created
  /\ \A i \in Sessions : state[i] = "none" => queue[i] = <<>>

(* Who existed when m_stopped was fired has the stop in its queue; one     *)
(* accept at most may still succeed.                                       *)
Reaching ==
  /\ \A i \in reached : state[i] \in {"INITIAL", "RUNNING"} => Has(queue[i], "stop")
  /\ reached \subseteq Created /\ (task # "STOPPED" => reached = {})
  /\ task = "STOPPED" /\ pc = "accept" => Created \subseteq reached
  /\ task = "STOPPED" => \E i \in 0..MaxSessions : Created \ reached \subseteq {i}

IInv == TypeOK /\ Answering /\ Counted /\ Reaching

-----------------------------------------------------------------------------
(* Queues.                                                                 *)

LEMMA Appended ==
  ASSUME NEW S, NEW s \in Seq(S), NEW x \in S
  PROVE  /\ Append(s, x) \in Seq(S)
         /\ \A h : Has(Append(s, x), h) <=> Has(s, h) \/ x = h
         /\ \A H : Once(s, H) /\ (x \notin H \/ \A h \in H : ~Has(s, h))
                     => Once(Append(s, x), H)
  <1> DEFINE t == Append(s, x)
  <1>1. /\ t \in Seq(S)
        /\ DOMAIN t = 1..(Len(s) + 1) /\ DOMAIN s = 1..Len(s) /\ Len(s) \in Nat
        /\ \A i \in 1..Len(s) : t[i] = s[i]
        /\ t[Len(s) + 1] = x
    OBVIOUS
  <1> HIDE DEF t
  <1>2. \A h : Has(t, h) <=> Has(s, h) \/ x = h
    BY <1>1 DEF Has
  <1>3. \A H : Once(s, H) /\ (x \notin H \/ \A h \in H : ~Has(s, h)) => Once(t, H)
    BY <1>1 DEF Once, Has
  <1> QED
    BY <1>1, <1>2, <1>3 DEF t

LEMMA Taken ==
  ASSUME NEW S, NEW s \in Seq(S), s # <<>>
  PROVE  /\ Tail(s) \in Seq(S) /\ Head(s) \in S
         /\ Has(s, Head(s))
         /\ \A h : Has(Tail(s), h) => Has(s, h)
         /\ \A h : Has(s, h) /\ Head(s) # h => Has(Tail(s), h)
         /\ \A H : Once(s, H) => Once(Tail(s), H)
         /\ \A H : Once(s, H) /\ Head(s) \in H => \A h \in H : ~Has(Tail(s), h)
  <1> DEFINE t == Tail(s)
  <1>1. /\ t \in Seq(S) /\ Head(s) = s[1] /\ s[1] \in S
        /\ DOMAIN s = 1..Len(s) /\ DOMAIN t = 1..(Len(s) - 1)
        /\ Len(s) \in Nat \ {0}
        /\ \A i \in 1..(Len(s) - 1) : t[i] = s[i + 1]
    OBVIOUS
  <1> HIDE DEF t
  <1>2. Has(s, Head(s))
    BY <1>1 DEF Has
  <1>3. \A h : Has(t, h) => Has(s, h)
    <2> SUFFICES ASSUME NEW h, NEW j \in 1..(Len(s) - 1), t[j] = h
                 PROVE  Has(s, h)
      BY <1>1 DEF Has
    <2>1. j + 1 \in 1..Len(s) /\ s[j + 1] = h
      BY <1>1
    <2> QED
      BY <2>1, <1>1 DEF Has
  <1>4. \A h : Has(s, h) /\ Head(s) # h => Has(t, h)
    <2> SUFFICES ASSUME NEW h, NEW j \in 1..Len(s), s[j] = h, s[1] # h
                 PROVE  Has(t, h)
      BY <1>1 DEF Has
    <2>1. j - 1 \in 1..(Len(s) - 1) /\ t[j - 1] = s[j]
      BY <1>1
    <2> QED
      BY <2>1, <1>1 DEF Has
  <1>5. \A H : Once(s, H) => Once(t, H)
    <2> SUFFICES ASSUME NEW H, Once(s, H), NEW i \in 1..(Len(s) - 1),
                        NEW j \in 1..(Len(s) - 1), t[i] \in H, t[j] \in H
                 PROVE  i = j
      BY <1>1 DEF Once
    <2>1. i + 1 \in DOMAIN s /\ j + 1 \in DOMAIN s
      BY <1>1
    <2>2. i + 1 = j + 1
      BY <1>1, <2>1 DEF Once
    <2> QED
      BY <2>2
  <1>6. \A H : Once(s, H) /\ Head(s) \in H => \A h \in H : ~Has(t, h)
    <2> SUFFICES ASSUME NEW H, Once(s, H), s[1] \in H,
                        NEW j \in 1..(Len(s) - 1), t[j] \in H
                 PROVE  FALSE
      BY <1>1 DEF Has
    <2>1. 1 \in DOMAIN s /\ j + 1 \in DOMAIN s /\ s[j + 1] \in H
      BY <1>1
    <2>2. j + 1 = 1
      BY <2>1 DEF Once
    <2> QED
      BY <2>2
  <1> QED
    BY <1>1, <1>2, <1>3, <1>4, <1>5, <1>6 DEF t

(* What a turn of the strand leaves.                                       *)
LEMMA TurnTaken ==
  ASSUME IInv, NEW h \in Handlers, Turn(h)
  PROVE  /\ Tail(strand) \in Seq(Handlers)
         /\ Has(strand, h)
         /\ \A g : Has(Tail(strand), g) => Has(strand, g)
         /\ Free(strand) => Free(Tail(strand))
         /\ Once(Tail(strand), Answers) /\ Once(Tail(strand), {"start"})
         /\ h \in Answers => Free(Tail(strand)) /\ pc = "accept" /\ ~pending
         /\ h = "start" => ~Has(Tail(strand), "start") /\ pc = "idle" /\ ~pending
  <1>1. strand \in Seq(Handlers) /\ strand # <<>> /\ Head(strand) = h
    BY DEF IInv, TypeOK, Turn, Handlers
  <1>2. Once(strand, Answers) /\ Once(strand, {"start"})
    BY DEF IInv, Answering
  <1> HIDE DEF IInv, Turn
  <1>3. /\ Tail(strand) \in Seq(Handlers)
        /\ Has(strand, h)
        /\ \A g : Has(Tail(strand), g) => Has(strand, g)
        /\ Once(Tail(strand), Answers) /\ Once(Tail(strand), {"start"})
        /\ h \in Answers => \A g \in Answers : ~Has(Tail(strand), g)
        /\ h \in {"start"} => \A g \in {"start"} : ~Has(Tail(strand), g)
    BY <1>1, <1>2, Taken
  <1>4. h \in Answers => pc = "accept" /\ ~pending
    BY <1>3 DEF IInv, Answering, Free
  <1>5. h = "start" => pc = "idle" /\ ~pending
    BY <1>3 DEF IInv, Answering
  <1> QED
    BY <1>3, <1>4, <1>5 DEF Free

-----------------------------------------------------------------------------
(* m_stopped() is fired, or was before.                                    *)
LEMMA FireInv ==
  ASSUME IInv, Fire, UNCHANGED <<state, stopped>>, pc' \in {pc, "over"}
  PROVE  /\ task' \in {"INITIAL", "RUNNING", "DONE", "STOPPED"}
         /\ queue' \in [Sessions -> Seq({"start", "stop"})]
         /\ reached' \subseteq Sessions
         /\ Counted' /\ Reaching'
  <1>1. Created' = Created /\ Created \subseteq Sessions
    BY DEF Created
  <1>2. CASE task = "STOPPED"
    BY <1>1, <1>2 DEF Fire, IInv, TypeOK, Counted, Reaching
  <1>3. CASE task # "STOPPED"
    <2>1. task' = "STOPPED" /\ reached' = Created /\ queue' = StopAll(stopped, state, queue)
      BY <1>3 DEF Fire
    <2>2. ASSUME NEW i \in Sessions
          PROVE  /\ queue'[i] \in Seq({"start", "stop"})
                 /\ i \notin stopped => queue'[i] = queue[i]
                 /\ i \in stopped /\ state[i] # "gone" => Has(queue'[i], "stop")
      <3>1. queue[i] \in Seq({"start", "stop"})
        BY DEF IInv, TypeOK
      <3>2. queue'[i] = IF i \in stopped /\ state[i] # "gone"
                        THEN Append(queue[i], "stop") ELSE queue[i]
        BY <2>1 DEF StopAll
      <3> QED
        BY <3>1, <3>2, Appended
    <2>3. queue' \in [Sessions -> Seq({"start", "stop"})]
      BY <2>1, <2>2 DEF StopAll
    <2>4. Counted'
      BY <1>1, <2>2 DEF IInv, Counted, Created
    <2>5. \A i \in reached' : state'[i] \in {"INITIAL", "RUNNING"} => Has(queue'[i], "stop")
      BY <2>1, <2>2, <1>1 DEF IInv, Counted
    <2>6. (task = "STOPPED" => \E i \in 0..MaxSessions : Created \ reached \subseteq {i})'
      <3>1. 0 \in 0..MaxSessions /\ Created' \ reached' = {}
        BY <2>1, <1>1, Assumption
      <3> QED
        BY <3>1
    <2> QED
      BY <2>1, <2>3, <2>4, <2>5, <2>6, <1>1 DEF Reaching
  <1> QED
    BY <1>2, <1>3

(* A signal's answer to a pending accept.                                  *)
LEMMA SignalInv ==
  ASSUME IInv, NEW q \in Seq(Handlers), Signal(q), UNCHANGED <<pc, state>>,
         Once(q, Answers), Once(q, {"start"}),
         \A g : Has(q, g) => Has(strand, g)
  PROVE  /\ canceled' \in BOOLEAN /\ pending' \in BOOLEAN /\ strand' \in Seq(Handlers)
         /\ Answering'
  <1>1. Created' = Created
    BY DEF Created
  <1>2. canceled' \in BOOLEAN /\ pending' = FALSE
    BY DEF Signal, IInv, TypeOK
  <1>3. Free(strand) => Free(q)
    BY DEF Free
  <1>4. CASE ~pending
    <2>1. strand' = q
      BY <1>4 DEF Signal
    <2> QED
      BY <1>1, <1>2, <1>3, <2>1 DEF Answering, IInv
  <1>5. CASE pending
    <2>1. strand' = Append(q, "canceled") /\ pc = "accept" /\ Free(q)
      BY <1>5, <1>3 DEF Signal, IInv, Answering
    <2>2. /\ strand' \in Seq(Handlers)
          /\ \A g : Has(strand', g) <=> Has(q, g) \/ g = "canceled"
          /\ Once(strand', Answers) /\ Once(strand', {"start"})
      BY <2>1, Appended DEF Handlers, Free
    <2> QED
      BY <1>1, <1>2, <2>1, <2>2 DEF Answering, IInv
  <1> QED
    BY <1>4, <1>5

-----------------------------------------------------------------------------
(* The actions.                                                            *)

Creators ==
  [class : {"Session", "TCPSocket", "SSLSocket"},
   args : {"Socket", "other", "io, socket"}]

LEMMA InitInv == Init => IInv
  <1> SUFFICES ASSUME Init PROVE IInv
    OBVIOUS
  <1>1. TypeOK
    <2>1. types = RegisterType(RegisterType(<<>>, "Session", Creator("Session", "Socket")),
                               "TCPSocket", Creator("TCPSocket", "io, socket"))
      BY DEF Init, RegisterDefaultType
    <2>2. RegisterType(<<>>, "Session", Creator("Session", "Socket"))
            = [k \in {"Session"} |-> Creator("Session", "Socket")]
      BY DEF RegisterType
    <2>3. Creator("Session", "Socket") \in Creators
      BY DEF Creator, Creators
    <2>4. Creator("TCPSocket", "io, socket") \in Creators
      BY DEF Creator, Creators
    <2>5. types = [k \in {"Session", "TCPSocket"} |->
                     IF k = "TCPSocket" THEN Creator("TCPSocket", "io, socket")
                     ELSE Creator("Session", "Socket")]
      <3> HIDE DEF Creators
      <3> DEFINE a == Creator("Session", "Socket")
                 b == Creator("TCPSocket", "io, socket")
      <3>1. {"Session"} \cup {"TCPSocket"} = {"Session", "TCPSocket"}
        OBVIOUS
      <3> HIDE DEF a, b
      <3>2. DOMAIN [k \in {"Session"} |-> a] = {"Session"}
        OBVIOUS
      <3>3. types = RegisterType([k \in {"Session"} |-> a], "TCPSocket", b)
        BY <2>1, <2>2 DEF a, b
      <3>4. types = [k \in {"Session", "TCPSocket"} |-> IF k = "TCPSocket" THEN b ELSE a]
        BY <3>1, <3>2, <3>3 DEF RegisterType
      <3> QED
        BY <3>4 DEF a, b
    <2>6. types \in [{"Session", "TCPSocket"} -> Creators]
      BY <2>3, <2>4, <2>5
    <2>7. /\ task = "INITIAL" /\ pc = "idle" /\ strand = <<>>
          /\ canceled = FALSE /\ pending = FALSE
          /\ state = [i \in Sessions |-> "none"]
          /\ queue = [i \in Sessions |-> <<>>]
          /\ stopped = {} /\ reached = {}
      BY DEF Init
    <2> HIDE DEF Init
    <2>8. state \in [Sessions ->
            {"none", "INITIAL", "RUNNING", "DONE", "STOPPED", "gone"}]
      BY <2>7
    <2>9. queue \in [Sessions -> Seq({"start", "stop"})]
      BY <2>7
    <2>10. strand \in Seq({"start", "stop", "emit", "ok", "error", "canceled"})
      BY <2>7
    <2>11. /\ task \in {"INITIAL", "RUNNING", "DONE", "STOPPED"}
           /\ pc \in {"idle", "accept", "over"}
           /\ canceled \in BOOLEAN /\ pending \in BOOLEAN
           /\ stopped \subseteq Sessions /\ reached \subseteq Sessions
      BY <2>7
    <2> QED
      BY <2>6, <2>8, <2>9, <2>10, <2>11 DEF TypeOK, Creators
  <1>2. /\ task = "INITIAL" /\ pc = "idle" /\ pending = FALSE /\ strand = <<>>
        /\ state = [i \in Sessions |-> "none"]
        /\ queue = [i \in Sessions |-> <<>>]
        /\ stopped = {} /\ reached = {}
    BY DEF Init
  <1> HIDE DEF Init
  <1>3. Created = {} /\ 1..0 = {} /\ 0 \in 0..MaxSessions
    BY <1>2, Assumption DEF Created
  <1>4. DOMAIN strand = {}
    BY <1>2
  <1>5. Answering
    BY <1>2, <1>4 DEF Answering, Once, Free, Has
  <1>6. Counted
    BY <1>2, <1>3 DEF Counted
  <1>7. Reaching
    BY <1>2 DEF Reaching
  <1> QED
    BY <1>1, <1>5, <1>6, <1>7 DEF IInv

LEMMA TypesInv ==
  ASSUME IInv, EnableSSL \/ RegisterSession
  PROVE  IInv'
  <1>1. UNCHANGED <<task, canceled, pc, pending, strand, state, queue, stopped, reached>>
    BY DEF EnableSSL, RegisterSession
  <1>2. PICK key \in {"Session", "TCPSocket"}, c \in Creators :
          types' = RegisterType(types, key, c)
    BY DEF EnableSSL, RegisterSession, Creator, Creators
  <1>3. types \in [{"Session", "TCPSocket"} -> Creators]
    BY DEF IInv, TypeOK, Creators
  <1>4. types' \in [{"Session", "TCPSocket"} -> Creators]
    BY <1>2, <1>3 DEF RegisterType
  <1>5. TypeOK'
    BY <1>1, <1>4 DEF IInv, TypeOK, Creators
  <1> QED
    BY <1>1, <1>5 DEF IInv, Answering, Counted, Reaching, Created

LEMMA AskInv ==
  ASSUME IInv, NEW h \in {"start", "stop", "emit"}, Ask(h)
  PROVE  IInv'
  <1>1. /\ strand' = Append(strand, h) /\ ~Has(strand, h)
        /\ h = "start" => pc = "idle"
        /\ UNCHANGED <<types, task, canceled, pc, pending, state, queue, stopped, reached>>
    BY DEF Ask, Has
  <1>2. strand \in Seq(Handlers) /\ h \in Handlers
    BY DEF IInv, TypeOK, Handlers
  <1>3. /\ strand' \in Seq(Handlers)
        /\ \A g : Has(strand', g) <=> Has(strand, g) \/ g = h
        /\ \A H : Once(strand, H) /\ (h \notin H \/ \A g \in H : ~Has(strand, g))
                    => Once(strand', H)
    BY <1>1, <1>2, Appended
  <1>4. TypeOK'
    BY <1>1, <1>3 DEF IInv, TypeOK, Handlers
  <1>5. Created' = Created
    BY <1>1 DEF Created
  <1>6. Answering'
    <2>1. Once(strand', Answers)
      BY <1>3 DEF IInv, Answering, Answers
    <2>2. Once(strand', {"start"})
      BY <1>1, <1>3 DEF IInv, Answering
    <2>3. Free(strand) => Free(strand')
      BY <1>3 DEF Free, Answers
    <2> QED
      BY <1>1, <1>3, <1>5, <2>1, <2>2, <2>3 DEF IInv, Answering
  <1> QED
    BY <1>1, <1>4, <1>5, <1>6 DEF IInv, Counted, Reaching

LEMMA CompleteInv ==
  ASSUME IInv, NEW ec \in {"ok", "error"}, Complete(ec)
  PROVE  IInv'
  <1>1. /\ strand' = Append(strand, ec) /\ pending' = FALSE
        /\ pc = "accept" /\ Free(strand)
        /\ ec = "ok" => Cardinality(Created) < MaxSessions
        /\ UNCHANGED <<types, task, canceled, pc, state, queue, stopped, reached>>
    BY DEF Complete, IInv, Answering
  <1>2. strand \in Seq(Handlers) /\ ec \in Handlers
    BY DEF IInv, TypeOK, Handlers
  <1>3. /\ strand' \in Seq(Handlers)
        /\ \A g : Has(strand', g) <=> Has(strand, g) \/ g = ec
        /\ \A H : Once(strand, H) /\ (ec \notin H \/ \A g \in H : ~Has(strand, g))
                    => Once(strand', H)
    BY <1>1, <1>2, Appended
  <1>4. TypeOK'
    BY <1>1, <1>3 DEF IInv, TypeOK, Handlers
  <1>5. Created' = Created
    BY <1>1 DEF Created
  <1>6. Answering'
    <2>1. Once(strand', Answers)
      BY <1>1, <1>3 DEF IInv, Answering, Free
    <2>2. Once(strand', {"start"})
      BY <1>3 DEF IInv, Answering
    <2> QED
      BY <1>1, <1>3, <1>5, <2>1, <2>2 DEF IInv, Answering, Free, Answers
  <1> QED
    BY <1>1, <1>4, <1>5, <1>6 DEF IInv, Counted, Reaching

LEMMA CoStopInv == ASSUME IInv, CoStop PROVE IInv'
  <1>1. Turn("stop") /\ Fire /\ UNCHANGED <<types, pc, state, stopped>>
    BY DEF CoStop
  <1>2. /\ Tail(strand) \in Seq(Handlers)
        /\ \A g : Has(Tail(strand), g) => Has(strand, g)
        /\ Once(Tail(strand), Answers) /\ Once(Tail(strand), {"start"})
    BY <1>1, TurnTaken DEF Handlers
  <1>3. /\ canceled' \in BOOLEAN /\ pending' \in BOOLEAN /\ strand' \in Seq(Handlers)
        /\ Answering'
    <2>1. CASE task = "STOPPED"
      <3>1. strand' = Tail(strand) /\ UNCHANGED <<canceled, pending>>
        BY <2>1 DEF CoStop
      <3>2. Created' = Created
        BY <1>1 DEF Created
      <3>3. Free(strand) => Free(strand')
        BY <1>2, <3>1 DEF Free
      <3>4. canceled \in BOOLEAN /\ pending \in BOOLEAN
        BY DEF IInv, TypeOK
      <3> QED
        BY <1>1, <1>2, <3>1, <3>2, <3>3, <3>4 DEF IInv, Answering
    <2>2. CASE task # "STOPPED"
      BY <2>2, <1>1, <1>2, SignalInv DEF CoStop
    <2> QED
      BY <2>1, <2>2
  <1>4. /\ task' \in {"INITIAL", "RUNNING", "DONE", "STOPPED"}
        /\ queue' \in [Sessions -> Seq({"start", "stop"})]
        /\ reached' \subseteq Sessions
        /\ Counted' /\ Reaching'
    BY <1>1, FireInv
  <1>5. TypeOK'
    BY <1>1, <1>3, <1>4 DEF IInv, TypeOK, Handlers
  <1> QED
    BY <1>3, <1>4, <1>5 DEF IInv

LEMMA EmitInv == ASSUME IInv, Emit PROVE IInv'
  <1>1. /\ Turn("emit") /\ Signal(Tail(strand))
        /\ UNCHANGED <<types, task, pc, state, queue, stopped, reached>>
    BY DEF Emit
  <1>2. /\ Tail(strand) \in Seq(Handlers)
        /\ \A g : Has(Tail(strand), g) => Has(strand, g)
        /\ Once(Tail(strand), Answers) /\ Once(Tail(strand), {"start"})
    BY <1>1, TurnTaken DEF Handlers
  <1>3. /\ canceled' \in BOOLEAN /\ pending' \in BOOLEAN /\ strand' \in Seq(Handlers)
        /\ Answering'
    BY <1>1, <1>2, SignalInv
  <1>4. TypeOK'
    BY <1>1, <1>3 DEF IInv, TypeOK, Handlers
  <1> QED
    BY <1>1, <1>3, <1>4 DEF IInv, Counted, Reaching, Created

(* A turn that gives the loop up, or one that enters it.                   *)
LEMMA LoopInv ==
  ASSUME IInv, Tail(strand) \in Seq(Handlers), strand' = Tail(strand),
         \A g : Has(Tail(strand), g) => Has(strand, g),
         Once(Tail(strand), Answers), Once(Tail(strand), {"start"}),
         Free(Tail(strand)), ~Has(Tail(strand), "start"),
         UNCHANGED state, pending' => pc' = "accept"
  PROVE  Answering'
  <1>1. Created' = Created
    BY DEF Created
  <1>2. ~Has(strand', "ok")
    BY DEF Free, Answers
  <1> QED
    BY <1>1, <1>2 DEF Answering

LEMMA CoStartInv == ASSUME IInv, CoStart PROVE IInv'
  <1>1. /\ Turn("start") /\ strand' = Tail(strand)
        /\ UNCHANGED <<types, canceled, state, stopped, queue, reached>>
    BY DEF CoStart, End
  <1>2. \/ task = "INITIAL" /\ task' = "RUNNING" /\ pc' = "accept" /\ pending' = TRUE
        \/ pc' = "over" /\ task' = (IF task = "STOPPED" THEN "STOPPED" ELSE "DONE")
             /\ pending' = pending
    BY DEF CoStart, End
  <1>3. /\ Tail(strand) \in Seq(Handlers)
        /\ \A g : Has(Tail(strand), g) => Has(strand, g)
        /\ Free(strand) => Free(Tail(strand))
        /\ Once(Tail(strand), Answers) /\ Once(Tail(strand), {"start"})
        /\ ~Has(Tail(strand), "start") /\ pc = "idle" /\ ~pending
    BY <1>1, TurnTaken DEF Handlers
  <1>4. Free(Tail(strand))
    BY <1>3 DEF IInv, Answering
  <1>5. Answering'
    BY <1>1, <1>2, <1>3, <1>4, LoopInv
  <1>6. TypeOK'
    BY <1>1, <1>2, <1>3 DEF IInv, TypeOK, Handlers
  <1>7. Created' = Created
    BY <1>1 DEF Created
  <1> QED
    BY <1>1, <1>2, <1>5, <1>6, <1>7 DEF IInv, Counted, Reaching

LEMMA FailInv == ASSUME IInv, AcceptFails \/ CreateFails PROVE IInv'
  <1>1. /\ \/ Turn("error") /\ End
           \/ Turn("canceled") /\ Fire /\ pc' = "over" /\ UNCHANGED pending
           \/ Turn("ok") /\ End
        /\ pc = "accept" /\ strand' = Tail(strand)
        /\ UNCHANGED <<types, canceled, state, stopped>>
    BY DEF AcceptFails, CreateFails
  <1>2. PICK h \in Answers : Turn(h)
    BY <1>1 DEF Answers
  <1>3. /\ Tail(strand) \in Seq(Handlers)
        /\ \A g : Has(Tail(strand), g) => Has(strand, g)
        /\ Once(Tail(strand), Answers) /\ Once(Tail(strand), {"start"})
        /\ Free(Tail(strand)) /\ ~pending
    BY <1>2, TurnTaken DEF Handlers, Answers
  <1>4. ~Has(Tail(strand), "start")
    BY <1>1, <1>3 DEF IInv, Answering
  <1>5. pc' = "over" /\ pending' = pending
    BY <1>1 DEF End
  <1>6. Answering'
    BY <1>1, <1>3, <1>4, <1>5, LoopInv
  <1>7. /\ task' \in {"INITIAL", "RUNNING", "DONE", "STOPPED"}
        /\ queue' \in [Sessions -> Seq({"start", "stop"})]
        /\ reached' \subseteq Sessions
        /\ Counted' /\ Reaching'
    <2>1. CASE End
      <3>1. Created' = Created
        BY <1>1 DEF Created
      <3>2. /\ task' = (IF task = "STOPPED" THEN "STOPPED" ELSE "DONE")
            /\ UNCHANGED <<queue, reached>>
        BY <2>1 DEF End
      <3> QED
        BY <1>1, <1>5, <3>1, <3>2 DEF IInv, TypeOK, Counted, Reaching
    <2>2. CASE Fire
      BY <2>2, <1>1, <1>5, FireInv
    <2> QED
      BY <1>1, <2>1, <2>2
  <1>8. TypeOK'
    BY <1>1, <1>3, <1>5, <1>7 DEF IInv, TypeOK, Handlers
  <1> QED
    BY <1>6, <1>7, <1>8 DEF IInv

LEMMA Started ==
  ASSUME NEW q \in [Sessions -> Seq({"start", "stop"})], NEW i \in Sessions
  PROVE  LET r == [q EXCEPT ![i] = Append(@, "start")]
         IN  /\ r \in [Sessions -> Seq({"start", "stop"})]
             /\ \A j \in Sessions :
                  /\ j # i => r[j] = q[j]
                  /\ Has(q[j], "stop") => Has(r[j], "stop")
  <1>1. /\ Append(q[i], "start") \in Seq({"start", "stop"})
        /\ Has(q[i], "stop") => Has(Append(q[i], "start"), "stop")
    BY Appended
  <1> QED
    BY <1>1

LEMMA StoppedAll ==
  ASSUME NEW q \in [Sessions -> Seq({"start", "stop"})], NEW conn, NEW ss
  PROVE  LET r == StopAll(conn, ss, q)
         IN  /\ r \in [Sessions -> Seq({"start", "stop"})]
             /\ \A j \in Sessions :
                  /\ j \notin conn => r[j] = q[j]
                  /\ j \in conn /\ ss[j] # "gone" => Has(r[j], "stop")
  <1>1. \A j \in Sessions : /\ Append(q[j], "stop") \in Seq({"start", "stop"})
                            /\ Has(Append(q[j], "stop"), "stop")
    BY Appended
  <1> QED
    BY <1>1 DEF StopAll

LEMMA AcceptedInv ==
  ASSUME IInv, NEW answer \in {"start", "keep", "drop"}, NEW stops \in BOOLEAN,
         Accepted(answer, stops)
  PROVE  IInv'
  <1> DEFINE i == Cardinality(Created) + 1
             ss == [state EXCEPT ![i] = IF answer = "drop" THEN "gone" ELSE "INITIAL"]
             Start(q) == IF answer = "start"
                         THEN [q EXCEPT ![i] = Append(@, "start")] ELSE q
             Stop(q) == StopAll(stopped \cup {i}, ss, q)
             Fires == task # "STOPPED" /\ canceled'
  <1>1. /\ Turn("ok") /\ pc = "accept" /\ strand' = Tail(strand)
        /\ state' = ss /\ stopped' = stopped \cup {i}
        /\ canceled' = (canceled \/ stops)
        /\ IF Fires
           THEN /\ task' = "STOPPED" /\ reached' = Created \cup {i}
                /\ queue' = IF stops THEN Start(Stop(queue)) ELSE Stop(Start(queue))
           ELSE queue' = Start(queue) /\ UNCHANGED <<task, reached>>
        /\ pc' = (IF task' = "STOPPED" THEN "over" ELSE "accept")
        /\ pending' = (task' # "STOPPED")
        /\ UNCHANGED types
    BY DEF Accepted, RegisterStop
  <1>2. /\ Tail(strand) \in Seq(Handlers)
        /\ Has(strand, "ok")
        /\ \A g : Has(Tail(strand), g) => Has(strand, g)
        /\ Once(Tail(strand), Answers) /\ Once(Tail(strand), {"start"})
        /\ Free(Tail(strand))
    BY <1>1, TurnTaken DEF Handlers, Answers
  <1>3. PICK k \in 0..MaxSessions : Created = 1..k
    BY DEF IInv, Counted
  <1>4. i = k + 1 /\ i \in Sessions /\ i \in 0..MaxSessions
    <2>1. Cardinality(1..k) = k
      BY <1>3, Assumption, FS_Interval
    <2>2. Cardinality(Created) < MaxSessions
      BY <1>2 DEF IInv, Answering
    <2> QED
      BY <2>1, <2>2, <1>3, Assumption DEF Sessions
  <1> HIDE DEF i
  <1>5. state[i] = "none" /\ i \notin Created
    BY <1>3, <1>4, Assumption DEF Created
  <1>6. /\ state' \in [Sessions ->
                {"none", "INITIAL", "RUNNING", "DONE", "STOPPED", "gone"}]
        /\ state'[i] \in {"INITIAL", "gone"}
        /\ \A j \in Sessions \ {i} : state'[j] = state[j]
    BY <1>1, <1>4 DEF IInv, TypeOK
  <1>7. Created' = Created \cup {i} /\ Created' = 1..(k + 1)
    <2>1. Created' = Created \cup {i}
      BY <1>4, <1>6 DEF Created
    <2>2. (1..k) \cup {k + 1} = 1..(k + 1)
      BY <1>3, Assumption
    <2> QED
      BY <2>1, <2>2, <1>3, <1>4
  <1>8. queue \in [Sessions -> Seq({"start", "stop"})]
    BY DEF IInv, TypeOK
  <1>9. /\ queue' \in [Sessions -> Seq({"start", "stop"})]
        /\ \A j \in Sessions :
             /\ j \notin stopped \cup {i} => queue'[j] = queue[j]
             /\ Fires /\ j \in stopped \cup {i} /\ state'[j] # "gone"
                  => Has(queue'[j], "stop")
             /\ ~Fires /\ Has(queue[j], "stop") => Has(queue'[j], "stop")
    <2>1. \A q \in [Sessions -> Seq({"start", "stop"})] :
            /\ Start(q) \in [Sessions -> Seq({"start", "stop"})]
            /\ \A j \in Sessions :
                 /\ j # i => Start(q)[j] = q[j]
                 /\ Has(q[j], "stop") => Has(Start(q)[j], "stop")
      BY <1>4, Started
    <2>2. \A q \in [Sessions -> Seq({"start", "stop"})] :
            /\ Stop(q) \in [Sessions -> Seq({"start", "stop"})]
            /\ \A j \in Sessions :
                 /\ j \notin stopped \cup {i} => Stop(q)[j] = q[j]
                 /\ j \in stopped \cup {i} /\ ss[j] # "gone" => Has(Stop(q)[j], "stop")
      <3> HIDE DEF ss
      <3> TAKE q \in [Sessions -> Seq({"start", "stop"})]
      <3> DEFINE conn == stopped \cup {i}
      <3> HIDE DEF conn
      <3>1. LET r == StopAll(conn, ss, q)
            IN  /\ r \in [Sessions -> Seq({"start", "stop"})]
                /\ \A j \in Sessions :
                     /\ j \notin conn => r[j] = q[j]
                     /\ j \in conn /\ ss[j] # "gone" => Has(r[j], "stop")
        BY StoppedAll
      <3> QED
        BY <3>1 DEF conn
    <2> HIDE DEF Start, Stop, ss
    <2>3. CASE ~Fires
      BY <2>1, <2>3, <1>1, <1>8
    <2>4. CASE Fires /\ stops
      BY <2>1, <2>2, <2>4, <1>1, <1>8
    <2>5. CASE Fires /\ ~stops
      BY <2>1, <2>2, <2>5, <1>1, <1>8
    <2> QED
      BY <2>3, <2>4, <2>5
  <1> HIDE DEF ss, Start, Stop
  <1>10. TypeOK'
    <2>1. Created \subseteq Sessions
      BY DEF Created
    <2>2. stopped' \subseteq Sessions /\ reached' \subseteq Sessions
      BY <2>1, <1>1, <1>4 DEF IInv, TypeOK
    <2>3. /\ task' \in {"INITIAL", "RUNNING", "DONE", "STOPPED"}
          /\ pc' \in {"idle", "accept", "over"}
          /\ canceled' \in BOOLEAN /\ pending' \in BOOLEAN
      BY <1>1 DEF IInv, TypeOK
    <2> QED
      BY <2>2, <2>3, <1>1, <1>2, <1>6, <1>9 DEF IInv, TypeOK, Handlers
  <1>11. Answering'
    <2>1. ~Has(strand', "start") /\ ~Has(strand', "ok")
      BY <1>1, <1>2 DEF IInv, Answering, Free, Answers
    <2> QED
      BY <1>1, <1>2, <2>1 DEF Answering
  <1>12. Counted'
    <2>1. k + 1 \in 0..MaxSessions
      BY <1>4
    <2>2. stopped' = Created'
      BY <1>1, <1>7 DEF IInv, Counted
    <2>3. \A j \in Sessions : state'[j] = "none" => queue'[j] = <<>>
      BY <1>6, <1>9 DEF IInv, Counted, Created
    <2> QED
      BY <1>7, <2>1, <2>2, <2>3 DEF Counted
  <1>13. Reaching'
    <2>1. CASE Fires
      <3>1. task' = "STOPPED" /\ reached' = Created' /\ pc' = "over"
        BY <2>1, <1>1, <1>7
      <3>2. \A j \in reached' : state'[j] \in {"INITIAL", "RUNNING"} => Has(queue'[j], "stop")
        BY <2>1, <3>1, <1>4, <1>7, <1>9 DEF IInv, Counted, Created
      <3> QED
        BY <3>1, <3>2, <1>4 DEF Reaching
    <2>2. CASE ~Fires
      <3>1. task' = task /\ reached' = reached /\ reached \subseteq Created
        BY <2>2, <1>1 DEF IInv, Reaching
      <3>2. \A j \in reached' : state'[j] \in {"INITIAL", "RUNNING"} => Has(queue'[j], "stop")
        BY <2>2, <3>1, <1>5, <1>6, <1>9 DEF IInv, Reaching, Created
      <3>3. task = "STOPPED" => Created' \ reached' \subseteq {i}
        BY <3>1, <1>1, <1>7 DEF IInv, Reaching
      <3>4. task' = "STOPPED" => pc' = "over"
        BY <1>1
      <3> QED
        BY <3>1, <3>2, <3>3, <3>4, <1>4, <1>7 DEF IInv, Reaching
    <2> QED
      BY <2>1, <2>2
  <1> QED
    BY <1>10, <1>11, <1>12, <1>13 DEF IInv

LEMMA SessionHandleInv ==
  ASSUME IInv, NEW i \in Sessions, SessionHandle(i)
  PROVE  IInv'
  <1>1. /\ queue[i] # <<>> /\ queue' = [queue EXCEPT ![i] = Tail(@)]
        /\ state' = [state EXCEPT ![i] =
             IF Head(queue[i]) = "stop" THEN "STOPPED"
             ELSE IF @ = "INITIAL" THEN "RUNNING" ELSE @]
        /\ UNCHANGED <<types, task, canceled, pc, pending, strand, stopped, reached>>
    BY DEF SessionHandle
  <1>2. queue[i] \in Seq({"start", "stop"}) /\ state[i] # "none"
    BY <1>1 DEF IInv, TypeOK, Counted
  <1>3. /\ Tail(queue[i]) \in Seq({"start", "stop"})
        /\ Has(queue[i], "stop") /\ Head(queue[i]) # "stop"
             => Has(Tail(queue[i]), "stop")
    BY <1>1, <1>2, Taken
  <1>4. TypeOK'
    BY <1>1, <1>3 DEF IInv, TypeOK
  <1>5. Created' = Created
    <2>1. \A j \in Sessions : state'[j] = "none" <=> state[j] = "none"
      BY <1>1, <1>2 DEF IInv, TypeOK
    <2> QED
      BY <2>1 DEF Created
  <1>6. Counted'
    <2>1. \A j \in Sessions : state'[j] = "none" => queue'[j] = <<>>
      BY <1>1, <1>2 DEF IInv, TypeOK, Counted
    <2> QED
      BY <1>1, <1>5, <2>1 DEF IInv, Counted
  <1>7. Reaching'
    <2>1. \A j \in reached' : state'[j] \in {"INITIAL", "RUNNING"} => Has(queue'[j], "stop")
      <3> SUFFICES ASSUME NEW j \in reached, state'[j] \in {"INITIAL", "RUNNING"}
                   PROVE  Has(queue'[j], "stop")
        BY <1>1
      <3>1. j \in Sessions
        BY DEF IInv, TypeOK
      <3>2. CASE j = i
        <4> DEFINE s == IF state[i] = "INITIAL" THEN "RUNNING" ELSE state[i]
        <4>0. state'[i] = IF Head(queue[i]) = "stop" THEN "STOPPED" ELSE s
          BY <1>1 DEF IInv, TypeOK
        <4>1. Head(queue[i]) # "stop" /\ state[i] \in {"INITIAL", "RUNNING"}
          BY <3>2, <4>0
        <4>2. queue'[j] = Tail(queue[i])
          BY <1>1, <3>2 DEF IInv, TypeOK
        <4> QED
          BY <4>1, <4>2, <3>2, <1>3 DEF IInv, Reaching
      <3>3. CASE j # i
        BY <1>1, <3>1, <3>3 DEF IInv, TypeOK, Reaching
      <3> QED
        BY <3>2, <3>3
    <2> QED
      BY <1>1, <1>5, <2>1 DEF IInv, Reaching
  <1>8. Answering'
    BY <1>1, <1>5 DEF IInv, Answering
  <1> QED
    BY <1>4, <1>6, <1>7, <1>8 DEF IInv

LEMMA KeeperStartsInv ==
  ASSUME IInv, NEW i \in Sessions, KeeperStarts(i)
  PROVE  IInv'
  <1>1. /\ state[i] = "INITIAL" /\ queue' = [queue EXCEPT ![i] = Append(@, "start")]
        /\ UNCHANGED <<types, task, canceled, pc, pending, strand, state, stopped, reached>>
    BY DEF KeeperStarts
  <1>2. queue \in [Sessions -> Seq({"start", "stop"})]
    BY DEF IInv, TypeOK
  <1>3. /\ queue' \in [Sessions -> Seq({"start", "stop"})]
        /\ \A j \in Sessions :
             /\ j # i => queue'[j] = queue[j]
             /\ Has(queue[j], "stop") => Has(queue'[j], "stop")
    BY <1>1, <1>2, Started
  <1>4. Created' = Created
    BY <1>1 DEF Created
  <1>5. TypeOK' /\ Answering' /\ Counted'
    BY <1>1, <1>3, <1>4 DEF IInv, TypeOK, Answering, Counted
  <1>6. Reaching'
    BY <1>1, <1>3, <1>4 DEF IInv, TypeOK, Reaching
  <1> QED
    BY <1>5, <1>6 DEF IInv

LEMMA SessionLeavesInv ==
  ASSUME IInv, NEW i \in Sessions, SessionEnds(i) \/ KeeperDrops(i)
  PROVE  IInv'
  <1>1. /\ state[i] \in {"INITIAL", "RUNNING"}
        /\ \E s \in {"DONE", "gone"} : state' = [state EXCEPT ![i] = s]
        /\ UNCHANGED <<types, task, canceled, pc, pending, strand, queue, stopped, reached>>
    BY DEF SessionEnds, KeeperDrops
  <1>2. TypeOK'
    BY <1>1 DEF IInv, TypeOK
  <1>3. Created' = Created
    BY <1>1 DEF IInv, TypeOK, Created
  <1>4. \A j \in Sessions : state'[j] \in {"none", "INITIAL", "RUNNING"} => state'[j] = state[j]
    BY <1>1 DEF IInv, TypeOK
  <1> QED
    BY <1>1, <1>2, <1>3, <1>4 DEF IInv, TypeOK, Answering, Counted, Reaching

LEMMA NextInv == IInv /\ [Next]_vars => IInv'
  <1> SUFFICES ASSUME IInv, [Next]_vars PROVE IInv'
    OBVIOUS
  <1>1. CASE UNCHANGED vars
    BY <1>1 DEF vars, IInv, TypeOK, Answering, Counted, Reaching, Created
  <1>2. CASE EnableSSL \/ RegisterSession
    BY <1>2, TypesInv
  <1>3. CASE \E h \in {"start", "stop", "emit"} : Ask(h)
    BY <1>3, AskInv
  <1>4. CASE \E ec \in {"ok", "error"} : Complete(ec)
    BY <1>4, CompleteInv
  <1>5. CASE Handle
    BY <1>5, CoStartInv, CoStopInv, EmitInv, FailInv, AcceptedInv DEF Handle
  <1>6. CASE \E i \in Sessions : SessionStep(i)
    BY <1>6, SessionHandleInv, KeeperStartsInv, SessionLeavesInv DEF SessionStep
  <1> QED
    BY <1>1, <1>2, <1>3, <1>4, <1>5, <1>6 DEF Next

(* The invariant is one of the specification.                              *)
THEOREM Inductive == Spec => []IInv
  BY InitInv, NextInv, PTL DEF Spec

(* Each variable keeps its type.                                           *)
THEOREM TypeCorrect == Spec => []TypeOK
  <1>1. IInv => TypeOK
    BY DEF IInv
  <1> QED
    BY <1>1, Inductive, PTL

(* The stop reaches every session there was, and at most one escapes it    *)
(* (Server.cpp:35-50).                                                     *)
THEOREM StopReachesHolds == Spec => []StopReaches
  <1>1. IInv => StopReaches
    <2> SUFFICES ASSUME IInv PROVE StopReaches
      OBVIOUS
    <2>1. ASSUME task = "STOPPED" PROVE Cardinality(Created \ reached) <= 1
      <3>1. PICK i \in 0..MaxSessions : Created \ reached \subseteq {i}
        BY <2>1 DEF IInv, Reaching
      <3>2. IsFiniteSet({i}) /\ Cardinality({i}) = 1
        BY FS_Singleton
      <3> QED
        BY <3>1, <3>2, FS_Subset
    <2>2. \A i \in reached : state[i] \in {"INITIAL", "RUNNING"} =>
            \E j \in DOMAIN queue[i] : queue[i][j] = "stop"
      BY DEF IInv, Reaching, Has
    <2> QED
      BY <2>1, <2>2 DEF StopReaches
  <1> QED
    BY <1>1, Inductive, PTL

-----------------------------------------------------------------------------
(* Nothing hangs: what StopEnds needs besides fairness.                    *)

(* Who waits for the accept is going to be answered; a stop has canceled   *)
(* the wait.                                                               *)
Waiting ==
  /\ pc = "idle" => ~canceled
  /\ pc = "accept" =>
       /\ task \in {"RUNNING", "STOPPED"}
       /\ pending \/ ~Free(strand)
       /\ canceled => ~pending
       /\ task = "STOPPED" => canceled

GoInv == IInv /\ Waiting

(* With an empty strand the server waits for the network alone, and was    *)
(* neither stopped nor canceled; with an empty queue a session that was    *)
(* there when the server was stopped does not go on.                       *)
Rests ==
  /\ strand = <<>> /\ pc = "accept" => pending /\ ~canceled /\ task = "RUNNING"
  /\ \A i \in reached : queue[i] = <<>> => state[i] \notin {"INITIAL", "RUNNING"}

(* A signal answers the accept, or finds its answer in the strand.         *)
LEMMA SignalGoes ==
  ASSUME IInv, NEW h \in Handlers \ Answers, Turn(h), Signal(Tail(strand)),
         Waiting, UNCHANGED pc, task' \in {task, "STOPPED"}
  PROVE  Waiting'
  <1>1. /\ Tail(strand) \in Seq(Handlers)
        /\ \A g \in Answers : Has(strand, g) => Has(Tail(strand), g)
    <2>1. strand \in Seq(Handlers) /\ strand # <<>> /\ Head(strand) \notin Answers
      BY DEF Turn, IInv, TypeOK, Handlers
    <2> QED
      BY <2>1, Taken
  <1>2. /\ canceled' = (canceled \/ pc = "accept") /\ pending' = FALSE
        /\ strand' = IF pending THEN Append(Tail(strand), "canceled") ELSE Tail(strand)
    BY DEF Signal
  <1>3. ASSUME pc = "accept" PROVE ~Free(strand')
    <2>1. CASE pending
      <3>1. "canceled" \in Handlers
        BY DEF Handlers
      <3>2. Has(Append(Tail(strand), "canceled"), "canceled")
        BY ONLY <1>1, <3>1, Appended
      <3> QED
        BY <3>2, <2>1, <1>2 DEF Free, Answers
    <2>2. CASE ~pending
      BY <2>2, <1>1, <1>2, <1>3 DEF Waiting, Free
    <2> QED
      BY <2>1, <2>2
  <1> QED
    BY <1>2, <1>3 DEF Waiting

LEMMA QueuedGoes ==
  ASSUME GoInv,
         \/ \E h \in {"start", "stop", "emit"} : Ask(h)
         \/ \E ec \in {"ok", "error"} : Complete(ec)
  PROVE  Waiting'
  <1>1. PICK h \in Handlers :
          /\ strand' = Append(strand, h)
          /\ UNCHANGED <<task, canceled, pc, state, queue>>
          /\ pending' = pending \/ (h \in Answers /\ pending' = FALSE)
    BY DEF Ask, Complete, Handlers, Answers
  <1>2. \A g : Has(strand', g) <=> Has(strand, g) \/ h = g
    <2>1. strand \in Seq(Handlers)
      BY DEF GoInv, IInv, TypeOK, Handlers
    <2> QED
      BY <1>1, <2>1, Appended
  <1>3. h \in Answers \/ ~Free(strand) => ~Free(strand')
    BY <1>2 DEF Free
  <1> QED
    BY <1>1, <1>3 DEF GoInv, Waiting

LEMMA StopGoes == ASSUME GoInv, CoStop \/ Emit PROVE Waiting'
  <1>1. CASE CoStop
    <2>1. /\ Turn("stop") /\ Fire /\ UNCHANGED <<pc, state>>
          /\ IF task = "STOPPED"
             THEN strand' = Tail(strand) /\ UNCHANGED <<canceled, pending>>
             ELSE Signal(Tail(strand))
      BY <1>1 DEF CoStop
    <2>2. task' = "STOPPED"
      BY <2>1 DEF Fire
    <2>3. CASE task # "STOPPED"
      BY <2>1, <2>2, <2>3, SignalGoes DEF GoInv, Handlers, Answers
    <2>4. CASE task = "STOPPED"
      <3>1. \A g \in Answers : Has(strand, g) => Has(Tail(strand), g)
        BY <2>1, Taken DEF Turn, GoInv, IInv, TypeOK, Handlers, Answers
      <3>2. ~Free(strand) => ~Free(Tail(strand))
        BY <3>1 DEF Free
      <3> QED
        BY <2>1, <2>2, <2>4, <3>2 DEF GoInv, Waiting
    <2> QED
      BY <2>3, <2>4
  <1>2. CASE Emit
    <2>1. /\ Turn("emit") /\ Signal(Tail(strand))
          /\ UNCHANGED <<task, pc, state, queue>>
      BY <1>2 DEF Emit
    <2> QED
      BY <2>1, SignalGoes DEF GoInv, Handlers, Answers
  <1> QED
    BY <1>1, <1>2

LEMMA LoopGoes ==
  ASSUME GoInv, CoStart \/ AcceptFails \/ CreateFails
  PROVE  Waiting'
  <1>1. CASE CoStart
    <2>1. /\ Turn("start") /\ UNCHANGED <<canceled, state, queue>>
          /\ \/ task' = "RUNNING" /\ pc' = "accept" /\ pending' = TRUE
             \/ pc' = "over"
      BY <1>1 DEF CoStart, End
    <2>2. pc = "idle"
      BY <2>1, TurnTaken DEF GoInv, Handlers
    <2> QED
      BY <2>1, <2>2 DEF GoInv, Waiting
  <1>2. CASE AcceptFails \/ CreateFails
    BY <1>2 DEF AcceptFails, CreateFails, End, Waiting
  <1> QED
    BY <1>1, <1>2

LEMMA AcceptedGoes ==
  ASSUME GoInv, NEW answer \in {"start", "keep", "drop"}, NEW stops \in BOOLEAN,
         Accepted(answer, stops)
  PROVE  Waiting'
  <1>1. /\ pc = "accept" /\ canceled' = (canceled \/ stops)
        /\ IF task # "STOPPED" /\ canceled' THEN task' = "STOPPED" ELSE task' = task
        /\ pc' = (IF task' = "STOPPED" THEN "over" ELSE "accept")
        /\ pending' = (task' # "STOPPED")
    BY DEF Accepted
  <1> QED
    BY <1>1 DEF GoInv, Waiting

LEMMA SessionGoes ==
  ASSUME GoInv, NEW i \in Sessions, SessionStep(i)
  PROVE  Waiting'
  <1>1. UNCHANGED <<task, canceled, pc, pending, strand>>
    BY DEF SessionStep, SessionHandle, SessionEnds, KeeperStarts, KeeperDrops
  <1> QED
    BY <1>1 DEF GoInv, Waiting

LEMMA GoNext == GoInv /\ [Next]_vars => GoInv'
  <1> SUFFICES ASSUME GoInv, [Next]_vars PROVE GoInv'
    OBVIOUS
  <1>1. IInv'
    BY NextInv DEF GoInv
  <1>2. CASE UNCHANGED vars \/ EnableSSL \/ RegisterSession
    <2>1. UNCHANGED <<task, canceled, pc, pending, strand>>
      BY <1>2 DEF vars, EnableSSL, RegisterSession
    <2> QED
      BY <1>1, <2>1 DEF GoInv, Waiting
  <1>3. CASE \/ \E h \in {"start", "stop", "emit"} : Ask(h)
             \/ \E ec \in {"ok", "error"} : Complete(ec)
    BY <1>1, <1>3, QueuedGoes DEF GoInv
  <1>4. CASE Handle
    BY <1>1, <1>4, LoopGoes, StopGoes, AcceptedGoes DEF GoInv, Handle
  <1>5. CASE \E i \in Sessions : SessionStep(i)
    BY <1>1, <1>5, SessionGoes DEF GoInv
  <1> QED
    BY <1>2, <1>3, <1>4, <1>5 DEF Next

(* When the strands have run what was queued, no stop or cancellation is   *)
(* left undone: the server waits only where it may be connected to, and no *)
(* session that a stop was to end waits for its start or runs              *)
(* (Server.cpp:35-50, CoroutineTask.hpp:33-51).                            *)
THEOREM RestsHolds == Spec => []Rests
  <1>1. Init => GoInv
    BY InitInv DEF Init, GoInv, Waiting
  <1>2. GoInv => Rests
    <2> SUFFICES ASSUME GoInv PROVE Rests
      OBVIOUS
    <2>1. \A s, h : s = <<>> => ~Has(s, h)
      BY DEF Has
    <2>2. strand = <<>> => Free(strand)
      BY <2>1 DEF Free
    <2>3. strand = <<>> /\ pc = "accept" => pending /\ ~canceled /\ task = "RUNNING"
      BY <2>2 DEF GoInv, Waiting
    <2>4. \A i \in reached : queue[i] = <<>> => state[i] \notin {"INITIAL", "RUNNING"}
      BY <2>1 DEF GoInv, IInv, Reaching
    <2> QED
      BY <2>3, <2>4 DEF Rests
  <1> QED
    BY <1>1, <1>2, GoNext, PTL DEF Spec
=============================================================================
