---------------------- MODULE AsyncProxyProviderProofs ----------------------
(***************************************************************************)
(* Machine-checked proofs about AsyncProxyProvider, for any number of      *)
(* requests, responses and classes.                                        *)
(***************************************************************************)
EXTENDS AsyncProxyProvider, SequenceTheorems, TLAPS

NoDup(q) == \A i, j \in 1..Len(q) : q[i] = q[j] => i = j

(* The elements of q come in the order in which they are in t.             *)
Sorted(q, t) ==
  \A i, j \in 1..Len(q) : \A a, b \in 1..Len(t) :
    i < j /\ q[i] = t[a] /\ q[j] = t[b] => a < b

(* w is q without its element at p.                                        *)
Without(w, q, p) ==
  /\ Len(w) = Len(q) - 1
  /\ \A i \in 1..Len(w) : w[i] = IF i < p THEN q[i] ELSE q[i + 1]

(* At most one handler of each kind is queued for a request or a response. *)
Single(q) ==
  \A i, j \in 1..Len(q) : q[i].kind = q[j].kind /\ q[i].of = q[j].of => i = j

(* What is true of the request or the response of a handler that is queued.*)
HandlerFits(h) ==
  /\ h.kind = "get" => pc[h.of] = "posted"
  /\ h.kind = "cancel" => h.of \in called /\ ~canceled[h.of]
  /\ h.kind = "response" =>
       /\ h.of \in called /\ h.of \notin dropped
       /\ \A r \in Requests : second[r] # h.of
  /\ h.kind = "resume" =>
       /\ Live(h.of) /\ ~pending[h.of]
       /\ h.ec = "ok" /\ pc[h.of] = "wait" => second[h.of] # None
       /\ h.ec = "canceled" => canceled[h.of]
       /\ h.ec = "no" => pc[h.of] = "start"

StrandInv == Single(strand) /\ \A h \in ToSet(strand) : HandlerFits(h)

(* A request has been answered by one response, of its class, and nothing  *)
(* is awaited before it begins, after it has ended or once it is answered. *)
RequestInv ==
  \A r \in Requests :
    /\ m_set[r] <=> second[r] # None
    /\ second[r] # None =>
         /\ pc[r] \notin {"idle", "posted"}
         /\ second[r] \in called /\ Class[second[r]] = Class[r]
         /\ \A q \in Requests : second[q] = second[r] => q = r
    /\ pending[r] => Live(r)
    /\ pending[r] /\ pc[r] = "wait" => second[r] = None
    /\ canceled[r] => r \in called

(* The lists hold the live requests that are not answered, oldest first.   *)
ListInv ==
  \A c \in Classes :
    /\ NoDup(m_requests[c]) /\ Sorted(m_requests[c], arrived)
    /\ ToSet(m_requests[c]) =
         {r \in Requests : Class[r] = c /\ Live(r) /\ second[r] = None}

ArrivedInv ==
  /\ NoDup(arrived)
  /\ ToSet(arrived) = {r \in Requests : pc[r] \notin {"idle", "posted"}}

(* A response that came is queued, was dropped or has answered.            *)
ResponseInv ==
  /\ dropped \subseteq called
  /\ \A s \in Responses \cap called :
       \/ Handler("response", s, "none") \in ToSet(strand)
       \/ s \in dropped
       \/ \E r \in Requests : second[r] = s

ResultInv ==
  \A r \in Requests :
    IF pc[r] # "over" THEN result[r] = None
    ELSE \/ result[r] = second[r] /\ second[r] # None
         \/ result[r] = "canceled" /\ canceled[r]
         \/ result[r] = "no"

IInv ==
  /\ TypeOK /\ StrandInv /\ RequestInv /\ ListInv /\ ArrivedInv /\ InOrder
  /\ ResponseInv /\ ResultInv

-----------------------------------------------------------------------------
(* The elements of a sequence (SequencesExt).                              *)
LEMMA ToSetFacts ==
  ASSUME NEW S, NEW q \in Seq(S)
  PROVE  /\ \A i \in 1..Len(q) : q[i] \in ToSet(q)
         /\ \A x \in ToSet(q) : \E i \in 1..Len(q) : q[i] = x
         /\ ToSet(q) \subseteq S
<1>1. DOMAIN q = 1..Len(q)
  OBVIOUS
<1>2. QED
  BY <1>1 DEF ToSet

LEMMA AppendToSet ==
  ASSUME NEW S, NEW q \in Seq(S), NEW e \in S
  PROVE  ToSet(Append(q, e)) = ToSet(q) \cup {e}
<1> DEFINE p == Append(q, e)
<1>1. /\ p \in Seq(S) /\ Len(p) = Len(q) + 1 /\ Len(q) \in Nat /\ p[Len(p)] = e
      /\ \A i \in 1..Len(q) : p[i] = q[i]
  OBVIOUS
<1> HIDE DEF p
<1>2. ASSUME NEW x \in ToSet(p) PROVE x \in ToSet(q) \cup {e}
  <2>1. PICK i \in 1..Len(p) : p[i] = x
    BY <1>1, <1>2, ToSetFacts
  <2>2. QED
    BY <1>1, <2>1, ToSetFacts
<1>3. ASSUME NEW x \in ToSet(q) \cup {e} PROVE x \in ToSet(p)
  <2>1. CASE x = e
    BY <1>1, <2>1, ToSetFacts
  <2>2. CASE x \in ToSet(q)
    <3>1. PICK i \in 1..Len(q) : q[i] = x
      BY <2>2, ToSetFacts
    <3>2. i \in 1..Len(p) /\ p[i] = x
      BY <1>1, <3>1
    <3>3. QED
      BY <1>1, <3>2, ToSetFacts
  <2>3. QED
    BY <1>3, <2>1, <2>2
<1>4. QED
  BY <1>2, <1>3 DEF p

(* What is left of a sequence without its element at p, when each element  *)
(* is in it once.                                                          *)
LEMMA WithoutFacts ==
  ASSUME NEW S, NEW q \in Seq(S), NEW t \in Seq(S), NEW p \in 1..Len(q), NEW w \in Seq(S),
         Without(w, q, p), NoDup(q), Sorted(q, t)
  PROVE  NoDup(w) /\ Sorted(w, t) /\ ToSet(w) = ToSet(q) \ {q[p]}
<1> DEFINE f(i) == IF i < p THEN i ELSE i + 1
<1>1. Len(q) \in Nat /\ Len(w) \in Nat /\ Len(w) = Len(q) - 1
  BY DEF Without
<1>2. \A i \in 1..Len(w) : f(i) \in 1..Len(q) /\ f(i) # p /\ w[i] = q[f(i)]
  BY <1>1 DEF Without
<1>3. \A i, j \in 1..Len(w) : (f(i) = f(j) => i = j) /\ (i < j => f(i) < f(j))
  BY <1>1
<1>4. \A n \in 1..Len(q) : n = p \/ \E i \in 1..Len(w) : f(i) = n
  <2> SUFFICES ASSUME NEW n \in 1..Len(q), n # p PROVE \E i \in 1..Len(w) : f(i) = n
    OBVIOUS
  <2>1. CASE n < p
    BY <1>1, <2>1
  <2>2. CASE n > p
    <3>1. n - 1 \in 1..Len(w) /\ f(n - 1) = n
      BY <1>1, <2>2
    <3>2. QED
      BY <3>1
  <2>3. QED
    BY <1>1, <2>1, <2>2
<1> HIDE DEF f
<1>5. NoDup(w)
  BY <1>2, <1>3 DEF NoDup
<1>6. Sorted(w, t)
  <2> SUFFICES ASSUME NEW i \in 1..Len(w), NEW j \in 1..Len(w),
                      NEW a \in 1..Len(t), NEW b \in 1..Len(t),
                      i < j, w[i] = t[a], w[j] = t[b]
               PROVE  a < b
    BY DEF Sorted
  <2>1. /\ f(i) \in 1..Len(q) /\ f(j) \in 1..Len(q) /\ f(i) < f(j)
        /\ q[f(i)] = t[a] /\ q[f(j)] = t[b]
    BY <1>2, <1>3
  <2>2. QED
    BY <2>1 DEF Sorted
<1>7. ASSUME NEW x \in ToSet(w) PROVE x \in ToSet(q) \ {q[p]}
  <2>1. PICK i \in 1..Len(w) : w[i] = x
    BY <1>7, ToSetFacts
  <2>2. x = q[f(i)] /\ f(i) \in 1..Len(q) /\ f(i) # p
    BY <1>2, <2>1
  <2>3. QED
    BY <2>2, ToSetFacts DEF NoDup
<1>8. ASSUME NEW x \in ToSet(q) \ {q[p]} PROVE x \in ToSet(w)
  <2>1. PICK n \in 1..Len(q) : q[n] = x
    BY <1>8, ToSetFacts
  <2>2. PICK i \in 1..Len(w) : f(i) = n
    BY <1>4, <1>8, <2>1
  <2>3. w[i] = x
    BY <1>2, <2>1, <2>2
  <2>4. QED
    BY <2>3, ToSetFacts
<1>9. QED
  BY <1>5, <1>6, <1>7, <1>8

(* Removing the head, and removing an element (RemoveFirst of              *)
(* SequencesExt).                                                          *)
LEMMA TailFacts ==
  ASSUME NEW S, NEW q \in Seq(S), NEW t \in Seq(S), q # <<>>, NoDup(q), Sorted(q, t)
  PROVE  /\ Tail(q) \in Seq(S) /\ NoDup(Tail(q)) /\ Sorted(Tail(q), t)
         /\ ToSet(Tail(q)) = ToSet(q) \ {Head(q)}
<1> DEFINE w == Tail(q)
<1>1. /\ w \in Seq(S) /\ Len(w) = Len(q) - 1 /\ 1 \in 1..Len(q) /\ Head(q) = q[1]
      /\ \A i \in 1..Len(w) : w[i] = q[i + 1]
  BY HeadTailProperties
<1> HIDE DEF w
<1>2. Without(w, q, 1)
  BY <1>1 DEF Without
<1>3. NoDup(w) /\ Sorted(w, t) /\ ToSet(w) = ToSet(q) \ {q[1]}
  BY <1>1, <1>2, WithoutFacts
<1>4. QED
  BY <1>1, <1>3 DEF w

LEMMA RemoveFirstFacts ==
  ASSUME NEW S, NEW q \in Seq(S), NEW t \in Seq(S), NEW e, NoDup(q), Sorted(q, t)
  PROVE  LET w == RemoveFirst(q, e)
         IN  /\ w \in Seq(S) /\ NoDup(w) /\ Sorted(w, t)
             /\ ToSet(w) = ToSet(q) \ {e}
<1>1. CASE \E i \in 1..Len(q) : q[i] = e
  <2> DEFINE w == RemoveFirst(q, e)
  <2>1. PICK p \in 1..Len(q) : q[p] = e
    BY <1>1
  <2> DEFINE I == {i \in 1..Len(q) : q[i] = e}
  <2>2. I = {p}
    BY <2>1 DEF NoDup
  <2>3. Min(I) = p
    BY <2>2 DEF Min
  <2>4. SelectInSeq(q, LAMBDA v : v = e) = p
    BY <2>2, <2>3 DEF SelectInSeq
  <2>5. w = SubSeq(q, 1, p - 1) \o SubSeq(q, p + 1, Len(q))
    BY <1>1, <2>4 DEF RemoveFirst, RemoveAt
  <2>6. w \in Seq(S) /\ Without(w, q, p)
    <3> DEFINE u == SubSeq(q, 1, p - 1)
               v == SubSeq(q, p + 1, Len(q))
    <3>1. /\ u \in Seq(S) /\ Len(u) = p - 1 /\ \A i \in 1..(p - 1) : u[i] = q[i]
      OBVIOUS
    <3>2. /\ v \in Seq(S) /\ Len(v) = Len(q) - p
          /\ \A i \in 1..(Len(q) - p) : v[i] = q[p + i]
      OBVIOUS
    <3>3. w = u \o v
      BY <2>5
    <3> HIDE DEF u, v, w
    <3>4. /\ w \in Seq(S) /\ Len(w) = Len(q) - 1
          /\ \A i \in 1..Len(w) : w[i] = IF i <= p - 1 THEN u[i] ELSE v[i - (p - 1)]
      <4>1. /\ u \o v \in Seq(S) /\ Len(u \o v) = Len(u) + Len(v)
            /\ \A i \in 1..(Len(u) + Len(v)) :
                 (u \o v)[i] = IF i <= Len(u) THEN u[i] ELSE v[i - Len(u)]
        BY <3>1, <3>2, ConcatProperties
      <4>2. Len(u) + Len(v) = Len(q) - 1
        BY <3>1, <3>2
      <4>3. QED
        BY <3>1, <3>3, <4>1, <4>2
    <3>5. ASSUME NEW i \in 1..Len(w) PROVE w[i] = IF i < p THEN q[i] ELSE q[i + 1]
      <4>1. CASE i < p
        BY <3>1, <3>4, <4>1
      <4>2. CASE ~(i < p)
        <5>1. i - (p - 1) \in 1..(Len(q) - p) /\ p + (i - (p - 1)) = i + 1
          BY <3>4, <4>2
        <5>2. w[i] = IF i <= p - 1 THEN u[i] ELSE v[i - (p - 1)]
          BY ONLY <3>4, i \in 1..Len(w)
        <5>3. ~(i <= p - 1)
          BY <4>2
        <5>4. w[i] = v[i - (p - 1)]
          BY ONLY <5>2, <5>3
        <5>5. QED
          BY <3>2, <4>2, <5>1, <5>4
      <4>3. QED
        BY <4>1, <4>2
    <3>6. QED
      BY <3>4, <3>5 DEF Without
  <2> HIDE DEF w
  <2>7. NoDup(w) /\ Sorted(w, t) /\ ToSet(w) = ToSet(q) \ {q[p]}
    BY <2>6, WithoutFacts
  <2>8. QED
    BY <2>1, <2>6, <2>7 DEF w
<1>2. CASE ~ \E i \in 1..Len(q) : q[i] = e
  <2>1. RemoveFirst(q, e) = q
    BY <1>2 DEF RemoveFirst
  <2>2. e \notin ToSet(q)
    BY <1>2, ToSetFacts
  <2>3. QED
    BY <2>1, <2>2
<1>3. QED
  BY <1>1, <1>2

(* One that was not there before joins both sequences, or the longer one.  *)
LEMMA JoinFacts ==
  ASSUME NEW S, NEW q \in Seq(S), NEW t \in Seq(S), NEW e \in S, NoDup(q), Sorted(q, t),
         ToSet(q) \subseteq ToSet(t), e \notin ToSet(t)
  PROVE  /\ NoDup(Append(q, e)) /\ Sorted(Append(q, e), Append(t, e))
         /\ Sorted(q, Append(t, e))
<1> DEFINE w == Append(q, e)
           u == Append(t, e)
<1>1. /\ Len(w) = Len(q) + 1 /\ Len(q) \in Nat /\ w[Len(w)] = e
      /\ \A i \in 1..Len(q) : w[i] = q[i]
  OBVIOUS
<1>2. /\ Len(u) = Len(t) + 1 /\ Len(t) \in Nat /\ u[Len(u)] = e
      /\ \A i \in 1..Len(t) : u[i] = t[i]
  OBVIOUS
<1>3. \A i \in 1..Len(q) : q[i] # e
  BY ToSetFacts
<1>4. \A i \in 1..Len(t) : t[i] # e
  BY ToSetFacts
<1> HIDE DEF w, u
<1>5. NoDup(w)
  BY <1>1, <1>3 DEF NoDup
<1>6. Sorted(q, u)
  BY <1>2, <1>3 DEF Sorted
<1>7. Sorted(w, u)
  <2> SUFFICES ASSUME NEW i \in 1..Len(w), NEW j \in 1..Len(w),
                      NEW a \in 1..Len(u), NEW b \in 1..Len(u),
                      i < j, w[i] = u[a], w[j] = u[b]
               PROVE  a < b
    BY DEF Sorted
  <2>1. i \in 1..Len(q) /\ w[i] = q[i] /\ a \in 1..Len(t)
    BY <1>1, <1>2, <1>3
  <2>2. CASE j = Len(w)
    <3>1. b = Len(u)
      BY <1>1, <1>2, <1>4, <2>2
    <3>2. QED
      BY <1>2, <2>1, <3>1
  <2>3. CASE j # Len(w)
    <3>1. j \in 1..Len(q)
      BY <1>1, <2>3
    <3>2. w[j] = q[j]
      BY <1>1, <3>1
    <3>3. QED
      BY <1>6, <2>1, <3>1, <3>2 DEF Sorted
  <2>4. QED
    BY <2>2, <2>3
<1>8. QED
  BY <1>5, <1>6, <1>7 DEF w, u

-----------------------------------------------------------------------------
(* What a queued handler is about.                                         *)
LEMMA HandlerFacts ==
  ASSUME NEW h \in Handlers
  PROVE  /\ h = Handler(h.kind, h.of, h.ec)
         /\ h.kind \in {"get", "cancel", "response", "resume"}
         /\ h.kind # "response" => h.of \in Requests
         /\ h.kind = "response" => h.of \in Responses /\ h.ec = "none"
BY DEF Handlers, Handler

LEMMA HandlerFields ==
  ASSUME NEW k, NEW x, NEW c
  PROVE  LET h == Handler(k, x, c) IN h.kind = k /\ h.of = x /\ h.ec = c
BY DEF Handler

(* A handler of a new kind, or for another one, is queued.                 *)
LEMMA PushFacts ==
  ASSUME NEW q \in Seq(Handlers), Single(q), NEW h \in Handlers,
         \A g \in ToSet(q) : ~(g.kind = h.kind /\ g.of = h.of)
  PROVE  /\ Append(q, h) \in Seq(Handlers) /\ Single(Append(q, h))
         /\ ToSet(Append(q, h)) = ToSet(q) \cup {h}
<1> DEFINE w == Append(q, h)
<1>1. /\ w \in Seq(Handlers) /\ Len(w) = Len(q) + 1 /\ Len(q) \in Nat /\ w[Len(w)] = h
      /\ \A i \in 1..Len(q) : w[i] = q[i]
  OBVIOUS
<1>2. \A i \in 1..Len(q) : ~(q[i].kind = h.kind /\ q[i].of = h.of)
  BY ToSetFacts
<1> HIDE DEF w
<1>3. Single(w)
  BY <1>1, <1>2 DEF Single
<1>4. QED
  BY <1>1, <1>3, AppendToSet DEF w

(* The first handler is taken.                                             *)
LEMMA PopFacts ==
  ASSUME NEW q \in Seq(Handlers), Single(q), q # <<>>
  PROVE  /\ Tail(q) \in Seq(Handlers) /\ Single(Tail(q))
         /\ Head(q) \in ToSet(q)
         /\ \A g \in ToSet(Tail(q)) :
              g \in ToSet(q) /\ ~(g.kind = Head(q).kind /\ g.of = Head(q).of)
         /\ \A g \in ToSet(q) : g = Head(q) \/ g \in ToSet(Tail(q))
<1> DEFINE w == Tail(q)
<1>1. /\ w \in Seq(Handlers) /\ Len(w) = Len(q) - 1 /\ 1 \in 1..Len(q) /\ Head(q) = q[1]
      /\ \A i \in 1..Len(w) : w[i] = q[i + 1] /\ i + 1 \in 1..Len(q)
  BY HeadTailProperties
<1> HIDE DEF w
<1>2. Single(w)
  BY <1>1 DEF Single
<1>3. ASSUME NEW g \in ToSet(w)
      PROVE  g \in ToSet(q) /\ ~(g.kind = Head(q).kind /\ g.of = Head(q).of)
  <2>1. PICK i \in 1..Len(w) : w[i] = g
    BY <1>1, <1>3, ToSetFacts
  <2>2. g = q[i + 1] /\ i + 1 \in 1..Len(q) /\ i + 1 # 1
    BY <1>1, <2>1
  <2>3. g \in ToSet(q)
    BY <2>2, ToSetFacts
  <2>4. QED
    BY <1>1, <2>2, <2>3 DEF Single
<1>4. ASSUME NEW g \in ToSet(q), g # Head(q) PROVE g \in ToSet(w)
  <2>1. PICK i \in 1..Len(q) : q[i] = g
    BY <1>4, ToSetFacts
  <2>2. i # 1 /\ i - 1 \in 1..Len(w) /\ (i - 1) + 1 = i
    BY <1>1, <1>4, <2>1
  <2>3. w[i - 1] = g
    BY <1>1, <2>1, <2>2
  <2>4. QED
    BY <1>1, <2>2, <2>3, ToSetFacts
<1>5. QED
  BY <1>1, <1>2, <1>3, <1>4, ToSetFacts DEF w

(* The handler whose turn it is: what is known of it, and the rest.        *)
LEMMA TurnFacts ==
  ASSUME IInv, NEW k, NEW x, NEW c, Turn(k, x, c)
  PROVE  /\ Tail(strand) \in Seq(Handlers) /\ Single(Tail(strand))
         /\ Handler(k, x, c) \in Handlers /\ HandlerFits(Handler(k, x, c))
         /\ \A g \in ToSet(Tail(strand)) :
              /\ g \in Handlers /\ g \in ToSet(strand) /\ HandlerFits(g)
              /\ ~(g.kind = k /\ g.of = x)
         /\ \A g \in ToSet(strand) : g = Handler(k, x, c) \/ g \in ToSet(Tail(strand))
<1> DEFINE h == Handler(k, x, c)
<1>1. /\ strand \in Seq(Handlers) /\ strand # <<>> /\ Head(strand) = h /\ Single(strand)
      /\ \A g \in ToSet(strand) : HandlerFits(g)
  BY DEF IInv, TypeOK, StrandInv, Turn
<1>2. h.kind = k /\ h.of = x
  BY HandlerFields
<1>3. ToSet(strand) \subseteq Handlers
  BY <1>1, ToSetFacts
<1> HIDE DEF h
<1>4. QED
  BY <1>1, <1>2, <1>3, PopFacts DEF h

-----------------------------------------------------------------------------
(* No request has been called.                                             *)
LEMMA InitInv == Init => IInv
<1> SUFFICES ASSUME Init PROVE IInv
  OBVIOUS
<1>1. TypeOK
  BY DEF Init, TypeOK
<1>2. ToSet(strand) = {} /\ ToSet(arrived) = {} /\ \A c \in Classes : ToSet(m_requests[c]) = {}
  BY DEF Init, ToSet
<1>3. StrandInv
  BY <1>2 DEF Init, StrandInv, Single
<1>4. RequestInv
  BY DEF Init, RequestInv
<1>5. ListInv
  BY <1>2 DEF Init, ListInv, NoDup, Sorted, Live
<1>6. ArrivedInv /\ InOrder
  BY <1>2 DEF Init, ArrivedInv, NoDup, InOrder
<1>7. ResponseInv /\ ResultInv
  BY DEF Init, ResponseInv, ResultInv
<1>8. QED
  BY <1>1, <1>3, <1>4, <1>5, <1>6, <1>7 DEF IInv

(* The lists are in order if neither they nor who lives and who is         *)
(* answered change (AsyncProxyProvider.cpp:45-71).                         *)
LEMMA ListsKept ==
  ASSUME IInv, UNCHANGED <<m_requests, arrived, second>>,
         \A r \in Requests :
           /\ Live(r)' <=> Live(r)
           /\ pc'[r] \in {"idle", "posted"} <=> pc[r] \in {"idle", "posted"}
           /\ pc[r] = "over" => pc'[r] = "over"
  PROVE  ListInv' /\ ArrivedInv' /\ InOrder'
<1>1. ListInv'
  BY DEF IInv, ListInv
<1>2. ArrivedInv'
  BY DEF IInv, ArrivedInv
<1>3. InOrder'
  <2>1. \A i \in 1..Len(arrived) : arrived[i] \in Requests
    BY DEF IInv, TypeOK
  <2>2. QED
    BY <2>1 DEF IInv, InOrder
<1>4. QED
  BY <1>1, <1>2, <1>3

-----------------------------------------------------------------------------
(* A get() is called: its coroutine is posted (AsyncProxyProvider.cpp:45). *)
LEMMA CallInv ==
  ASSUME IInv, NEW r \in Requests, Call(r)
  PROVE  IInv'
<1> DEFINE h == Handler("get", r, "none")
<1> USE DEF IInv
<1>1. /\ pc[r] = "idle" /\ pc' = [pc EXCEPT ![r] = "posted"] /\ strand' = Append(strand, h)
      /\ UNCHANGED <<m_requests, second, m_set, pending, canceled, result, called,
                     arrived, dropped>>
      /\ pc \in [Requests -> {"idle", "posted", "start", "wait", "over"}]
  BY DEF Call, history, TypeOK
<1>2. h \in Handlers /\ h.kind = "get" /\ h.of = r /\ strand \in Seq(Handlers)
  BY DEF Handlers, Handler, TypeOK
<1> HIDE DEF h
<1>3. ToSet(strand) \subseteq Handlers /\ \A g \in ToSet(strand) : HandlerFits(g)
  BY <1>2, ToSetFacts DEF StrandInv
<1>4. \A g \in ToSet(strand) : ~(g.kind = h.kind /\ g.of = h.of)
  BY <1>1, <1>2, <1>3 DEF HandlerFits
<1>5. /\ strand' \in Seq(Handlers) /\ Single(strand')
      /\ ToSet(strand') = ToSet(strand) \cup {h}
  BY <1>1, <1>2, <1>4, PushFacts DEF StrandInv
<1>6. ASSUME NEW g \in ToSet(strand) PROVE HandlerFits(g)'
  BY <1>1, <1>3, HandlerFacts DEF HandlerFits, Live
<1>7. HandlerFits(h)'
  BY <1>1, <1>2 DEF HandlerFits
<1>8. StrandInv'
  BY <1>5, <1>6, <1>7 DEF StrandInv
<1>9. TypeOK'
  BY <1>1, <1>5 DEF TypeOK
<1>10. RequestInv'
  BY <1>1 DEF RequestInv, Live
<1>11. ListInv' /\ ArrivedInv' /\ InOrder'
  BY <1>1, ListsKept DEF Live
<1>12. ResponseInv' /\ ResultInv'
  BY <1>1, <1>5 DEF ResponseInv, ResultInv
<1>13. QED
  BY <1>8, <1>9, <1>10, <1>11, <1>12

(* A cancellation or a response is posted to the strand                    *)
(* (AsyncProxyProvider.cpp:18-21).                                         *)
LEMMA PostInv ==
  ASSUME IInv, NEW x, \/ x \in Requests /\ Cancel(x)
                      \/ x \in Responses /\ AsyncResponse(x)
  PROVE  IInv'
<1> DEFINE h == Handler(IF x \in Requests THEN "cancel" ELSE "response", x, "none")
<1> USE DEF IInv
<1>1. /\ x \notin called /\ called' = called \cup {x} /\ strand' = Append(strand, h)
      /\ x \in Requests \cup Responses
      /\ UNCHANGED <<m_requests, second, m_set, pc, pending, canceled, result,
                     arrived, dropped>>
  BY ProviderAssumption DEF Cancel, AsyncResponse, request, history
<1>2. /\ h \in Handlers /\ h.of = x /\ strand \in Seq(Handlers)
      /\ h.kind = IF x \in Requests THEN "cancel" ELSE "response"
  BY <1>1 DEF Handlers, Handler, TypeOK
<1> HIDE DEF h
<1>3. ToSet(strand) \subseteq Handlers /\ \A g \in ToSet(strand) : HandlerFits(g)
  BY <1>2, ToSetFacts DEF StrandInv
<1>4. \A g \in ToSet(strand) : ~(g.kind = h.kind /\ g.of = h.of)
  BY <1>1, <1>2, <1>3 DEF HandlerFits
<1>5. /\ strand' \in Seq(Handlers) /\ Single(strand')
      /\ ToSet(strand') = ToSet(strand) \cup {h}
  BY <1>1, <1>2, <1>4, PushFacts DEF StrandInv
<1>6. ASSUME NEW g \in ToSet(strand) PROVE HandlerFits(g)'
  BY <1>1, <1>3 DEF HandlerFits, Live
<1>7. HandlerFits(h)'
  <2>1. x \in Requests => ~canceled[x]
    BY <1>1 DEF RequestInv
  <2>2. x \notin Requests => x \notin dropped /\ \A r \in Requests : second[r] # x
    BY <1>1, ProviderAssumption DEF RequestInv, ResponseInv
  <2>3. QED
    BY <1>1, <1>2, <2>1, <2>2 DEF HandlerFits
<1>8. StrandInv'
  BY <1>5, <1>6, <1>7 DEF StrandInv
<1>9. TypeOK'
  BY <1>1, <1>5 DEF TypeOK
<1>10. RequestInv'
  BY <1>1 DEF RequestInv, Live
<1>11. ListInv' /\ ArrivedInv' /\ InOrder'
  BY <1>1, ListsKept DEF Live
<1>12. ResponseInv'
  <2>1. ASSUME NEW s \in Responses \cap called', s # x
        PROVE  \/ Handler("response", s, "none") \in ToSet(strand)
               \/ s \in dropped
               \/ \E r \in Requests : second[r] = s
    BY <1>1, <2>1 DEF ResponseInv
  <2>2. x \in Responses => h = Handler("response", x, "none")
    BY ProviderAssumption DEF h
  <2>3. QED
    BY <1>1, <1>5, <2>1, <2>2 DEF ResponseInv
<1>13. ResultInv'
  BY <1>1 DEF ResultInv
<1>14. QED
  BY <1>8, <1>9, <1>10, <1>11, <1>12, <1>13

(* startAsyncRequest has an answer (AsyncProxyProvider.cpp:59-61).         *)
LEMMA StartedInv ==
  ASSUME IInv, NEW r \in Requests, NEW ec \in {"ok", "no"}, Started(r, ec)
  PROVE  IInv'
<1> DEFINE h == Handler("resume", r, ec)
<1> USE DEF IInv
<1>1. /\ pc[r] = "start" /\ pending[r] /\ pending' = [pending EXCEPT ![r] = FALSE]
      /\ strand' = Append(strand, h)
      /\ UNCHANGED <<m_requests, second, m_set, pc, canceled, result, called,
                     arrived, dropped>>
      /\ pending \in [Requests -> BOOLEAN]
  BY DEF Started, history, TypeOK
<1>2. h \in Handlers /\ h.kind = "resume" /\ h.of = r /\ h.ec = ec /\ strand \in Seq(Handlers)
  BY DEF Handlers, Handler, TypeOK
<1> HIDE DEF h
<1>3. ToSet(strand) \subseteq Handlers /\ \A g \in ToSet(strand) : HandlerFits(g)
  BY <1>2, ToSetFacts DEF StrandInv
<1>4. \A g \in ToSet(strand) : ~(g.kind = h.kind /\ g.of = h.of)
  BY <1>1, <1>2, <1>3 DEF HandlerFits
<1>5. /\ strand' \in Seq(Handlers) /\ Single(strand')
      /\ ToSet(strand') = ToSet(strand) \cup {h}
  BY <1>1, <1>2, <1>4, PushFacts DEF StrandInv
<1>6. ASSUME NEW g \in ToSet(strand) PROVE HandlerFits(g)'
  BY <1>1, <1>3, HandlerFacts DEF HandlerFits, Live
<1>7. HandlerFits(h)'
  BY <1>1, <1>2 DEF HandlerFits, Live
<1>8. StrandInv'
  BY <1>5, <1>6, <1>7 DEF StrandInv
<1>9. TypeOK'
  BY <1>1, <1>5 DEF TypeOK
<1>10. RequestInv'
  BY <1>1 DEF RequestInv, Live
<1>11. ListInv' /\ ArrivedInv' /\ InOrder'
  BY <1>1, ListsKept DEF Live
<1>12. ResponseInv' /\ ResultInv'
  BY <1>1, <1>5 DEF ResponseInv, ResultInv
<1>13. QED
  BY <1>8, <1>9, <1>10, <1>11, <1>12

(* get() begins and links its request (AsyncProxyProvider.cpp:45-59).      *)
LEMMA GetInv ==
  ASSUME IInv, NEW r \in Requests, Get(r)
  PROVE  IInv'
<1> USE DEF IInv
<1>1. /\ Turn("get", r, "none") /\ pc' = [pc EXCEPT ![r] = "start"]
      /\ m_requests' = [m_requests EXCEPT ![Class[r]] = Append(@, r)]
      /\ pending' = [pending EXCEPT ![r] = TRUE] /\ arrived' = Append(arrived, r)
      /\ strand' = Tail(strand)
      /\ UNCHANGED <<second, m_set, canceled, result, called, dropped>>
  BY DEF Get, Popped
<1>2. pc[r] = "posted"
  BY <1>1, TurnFacts, HandlerFields DEF HandlerFits
<1>3. /\ strand' \in Seq(Handlers) /\ Single(strand')
      /\ \A g \in ToSet(strand') : g \in Handlers /\ HandlerFits(g)
                                   /\ ~(g.kind = "get" /\ g.of = r)
      /\ \A g \in ToSet(strand) : g = Handler("get", r, "none") \/ g \in ToSet(strand')
  BY <1>1, TurnFacts
<1>4. /\ second[r] = None /\ ~pending[r] /\ result[r] = None
      /\ Class[r] \in Classes /\ arrived \in Seq(Requests) /\ r \notin ToSet(arrived)
      /\ m_requests \in [Classes -> Seq(Requests)]
      /\ pc \in [Requests -> {"idle", "posted", "start", "wait", "over"}]
      /\ pending \in [Requests -> BOOLEAN]
  BY <1>2, ProviderAssumption DEF RequestInv, ResultInv, ArrivedInv, TypeOK, Live
<1>5. ASSUME NEW g \in ToSet(strand') PROVE HandlerFits(g)'
  <2>1. /\ g \in Handlers /\ HandlerFits(g) /\ ~(g.kind = "get" /\ g.of = r)
    BY <1>3
  <2>2. QED
    BY <1>1, <1>2, <1>4, <2>1, HandlerFacts DEF HandlerFits, Live
<1>6. StrandInv'
  BY <1>3, <1>5 DEF StrandInv
<1>7. TypeOK'
  <2>1. m_requests' \in [Classes -> Seq(Requests)] /\ arrived' \in Seq(Requests)
    BY <1>1, <1>4
  <2>2. QED
    BY <1>1, <1>3, <2>1 DEF TypeOK
<1>8. RequestInv'
  BY <1>1, <1>2, <1>4 DEF RequestInv, Live
<1>9. ASSUME NEW c \in Classes
      PROVE  /\ NoDup(m_requests'[c]) /\ Sorted(m_requests'[c], arrived')
             /\ ToSet(m_requests'[c]) =
                  {q \in Requests : Class[q] = c /\ Live(q)' /\ second'[q] = None}
  <2> DEFINE m == m_requests[c]
  <2>1. /\ m \in Seq(Requests) /\ NoDup(m) /\ Sorted(m, arrived)
        /\ ToSet(m) = {q \in Requests : Class[q] = c /\ Live(q) /\ second[q] = None}
    BY <1>4 DEF ListInv
  <2>2. ToSet(m) \subseteq ToSet(arrived)
    BY <2>1 DEF ArrivedInv, Live
  <2> HIDE DEF m
  <2>3. /\ NoDup(Append(m, r)) /\ Sorted(Append(m, r), arrived')
        /\ Sorted(m, arrived') /\ ToSet(Append(m, r)) = ToSet(m) \cup {r}
    BY <1>1, <1>4, <2>1, <2>2, JoinFacts, AppendToSet
  <2>4. CASE c = Class[r]
    <3>1. m_requests'[c] = Append(m, r)
      BY <1>1, <1>4, <2>4 DEF m
    <3>2. {q \in Requests : Class[q] = c /\ Live(q)' /\ second'[q] = None} = ToSet(m) \cup {r}
      BY <1>1, <1>4, <2>1, <2>4 DEF Live
    <3>3. QED
      BY <2>3, <3>1, <3>2
  <2>5. CASE c # Class[r]
    <3>1. m_requests'[c] = m
      BY <1>1, <1>4, <2>5 DEF m
    <3>2. {q \in Requests : Class[q] = c /\ Live(q)' /\ second'[q] = None} = ToSet(m)
      BY <1>1, <1>4, <2>1, <2>5 DEF Live
    <3>3. QED
      BY <2>1, <2>3, <3>1, <3>2
  <2>6. QED
    BY <2>4, <2>5
<1>10. ListInv'
  BY <1>9 DEF ListInv
<1>11. ArrivedInv'
  <2>1. Sorted(arrived, arrived) /\ NoDup(arrived)
    BY DEF ArrivedInv, Sorted, NoDup
  <2>2. NoDup(arrived') /\ ToSet(arrived') = ToSet(arrived) \cup {r}
    BY <1>1, <1>4, <2>1, JoinFacts, AppendToSet
  <2>3. QED
    BY <1>1, <1>2, <1>4, <2>2 DEF ArrivedInv
<1>12. InOrder'
  <2> SUFFICES ASSUME NEW j \in 1..Len(arrived'), NEW i \in 1..(j - 1),
                      Class[arrived'[i]] = Class[arrived'[j]], second'[arrived'[j]] # None
               PROVE  second'[arrived'[i]] # None \/ pc'[arrived'[i]] = "over"
    BY DEF InOrder
  <2>1. /\ Len(arrived') = Len(arrived) + 1 /\ arrived'[Len(arrived')] = r
        /\ \A n \in 1..Len(arrived) : arrived'[n] = arrived[n] /\ arrived[n] \in Requests
    BY <1>1, <1>4
  <2>2. j \in 1..Len(arrived) /\ i \in 1..Len(arrived)
    <3>1. j # Len(arrived')
      BY <1>1, <1>4, <2>1
    <3>2. Len(arrived) \in Nat
      BY <1>4
    <3>3. j \in 1..Len(arrived)
      BY <2>1, <3>1, <3>2
    <3>4. QED
      BY <3>2, <3>3
  <2>3. second[arrived[i]] # None \/ pc[arrived[i]] = "over"
    BY <1>1, <2>1, <2>2 DEF InOrder
  <2>4. QED
    BY <1>1, <1>2, <1>4, <2>1, <2>2, <2>3
<1>13. ResponseInv'
  <2>1. ASSUME NEW s \in Responses
        PROVE  Handler("response", s, "none") # Handler("get", r, "none")
    BY DEF Handler
  <2>2. QED
    BY <1>1, <1>3, <2>1 DEF ResponseInv
<1>14. ResultInv'
  BY <1>1, <1>2, <1>4 DEF ResultInv
<1>15. QED
  BY <1>6, <1>7, <1>8, <1>10, <1>11, <1>12, <1>13, <1>14

(* The signal completes what is pending (AsyncProxyProvider.cpp:57-63).    *)
LEMMA EmitInv ==
  ASSUME IInv, NEW r \in Requests, Emit(r)
  PROVE  IInv'
<1> DEFINE h == Handler("resume", r, "canceled")
           t == Tail(strand)
<1> USE DEF IInv
<1>1. /\ Turn("cancel", r, "none") /\ canceled' = [canceled EXCEPT ![r] = Live(r)]
      /\ pending' = [pending EXCEPT ![r] = FALSE]
      /\ strand' = IF pending[r] THEN Append(t, h) ELSE t
      /\ UNCHANGED <<m_requests, second, m_set, pc, result, called, arrived, dropped>>
      /\ canceled \in [Requests -> BOOLEAN] /\ pending \in [Requests -> BOOLEAN]
  BY DEF Emit, Popped, PoppedThen, history, TypeOK
<1>2. r \in called /\ ~canceled[r]
  BY <1>1, TurnFacts, HandlerFields DEF HandlerFits
<1>3. /\ t \in Seq(Handlers) /\ Single(t)
      /\ \A g \in ToSet(t) : g \in Handlers /\ HandlerFits(g)
                             /\ ~(g.kind = "cancel" /\ g.of = r)
      /\ \A g \in ToSet(strand) : g = Handler("cancel", r, "none") \/ g \in ToSet(t)
  BY <1>1, TurnFacts
<1>4. /\ h \in Handlers /\ h.kind = "resume" /\ h.of = r /\ h.ec = "canceled"
  BY DEF Handlers, Handler
<1> HIDE DEF h, t
<1>5. /\ strand' \in Seq(Handlers) /\ Single(strand')
      /\ ToSet(t) \subseteq ToSet(strand')
      /\ \A g \in ToSet(strand') : g \in ToSet(t) \/ (g = h /\ pending[r])
  <2>1. CASE pending[r]
    <3>1. \A g \in ToSet(t) : ~(g.kind = h.kind /\ g.of = h.of)
      BY <1>3, <1>4, <2>1 DEF HandlerFits
    <3>2. QED
      BY <1>1, <1>3, <1>4, <2>1, <3>1, PushFacts
  <2>2. CASE ~pending[r]
    BY <1>1, <1>3, <2>2
  <2>3. QED
    BY <2>1, <2>2
<1>6. ASSUME NEW g \in ToSet(t) PROVE HandlerFits(g)'
  <2>1. g \in Handlers /\ HandlerFits(g) /\ ~(g.kind = "cancel" /\ g.of = r)
    BY <1>3
  <2>2. QED
    BY <1>1, <1>2, <2>1, HandlerFacts DEF HandlerFits, Live
<1>7. pending[r] => HandlerFits(h)'
  BY <1>1, <1>4 DEF HandlerFits, Live, RequestInv
<1>8. StrandInv'
  BY <1>5, <1>6, <1>7 DEF StrandInv
<1>9. TypeOK'
  <2>1. canceled' \in [Requests -> BOOLEAN]
    BY <1>1 DEF Live
  <2>2. QED
    BY <1>1, <1>5, <2>1 DEF TypeOK
<1>10. RequestInv'
  BY <1>1, <1>2 DEF RequestInv, Live
<1>11. ListInv' /\ ArrivedInv' /\ InOrder'
  BY <1>1, ListsKept DEF Live
<1>12. ResponseInv'
  <2>1. ASSUME NEW s \in Responses
        PROVE  Handler("response", s, "none") # Handler("cancel", r, "none")
    BY DEF Handler
  <2>2. QED
    BY <1>1, <1>3, <1>5, <2>1 DEF ResponseInv
<1>13. ResultInv'
  BY <1>1, <1>2 DEF ResultInv
<1>14. QED
  BY <1>8, <1>9, <1>10, <1>11, <1>12, <1>13

(* The head of a list is the oldest live request of its class that is not  *)
(* answered (AsyncProxyProvider.cpp:26-28, 53).                            *)
LEMMA HeadFacts ==
  ASSUME IInv, NEW c \in Classes, m_requests[c] # <<>>
  PROVE  LET r == Head(m_requests[c])
         IN  /\ r \in Requests /\ Class[r] = c /\ Live(r) /\ second[r] = None
             /\ \A j \in 1..Len(arrived) : \A i \in 1..(j - 1) :
                  arrived[j] = r /\ Class[arrived[i]] = c =>
                    second[arrived[i]] # None \/ pc[arrived[i]] = "over"
<1> DEFINE q == m_requests[c]
           r == Head(q)
<1> USE DEF IInv
<1>1. /\ q \in Seq(Requests) /\ q # <<>> /\ Sorted(q, arrived) /\ arrived \in Seq(Requests)
      /\ ToSet(q) = {x \in Requests : Class[x] = c /\ Live(x) /\ second[x] = None}
      /\ NoDup(arrived)
  BY DEF TypeOK, ListInv, ArrivedInv
<1> HIDE DEF q
<1>2. r = q[1] /\ 1 \in 1..Len(q) /\ r \in ToSet(q)
  <2>1. r = q[1] /\ 1 \in 1..Len(q)
    BY <1>1
  <2>2. QED
    BY <1>1, <2>1, ToSetFacts
<1> HIDE DEF r
<1>3. ASSUME NEW j \in 1..Len(arrived), NEW i \in 1..(j - 1),
             arrived[j] = r, Class[arrived[i]] = c, second[arrived[i]] = None
      PROVE  pc[arrived[i]] = "over"
  <2>1. i \in 1..Len(arrived) /\ i < j /\ j \in Nat /\ i \in Nat
    BY <1>1
  <2>2. arrived[i] \in ToSet(arrived) /\ arrived[i] \in Requests
    BY <1>1, <2>1, ToSetFacts
  <2> SUFFICES ASSUME pc[arrived[i]] # "over" PROVE FALSE
    OBVIOUS
  <2>3. Live(arrived[i])
    BY <2>2 DEF ArrivedInv, TypeOK, Live
  <2>4. arrived[i] \in ToSet(q)
    BY <1>1, <1>3, <2>2, <2>3
  <2>5. PICK n \in 1..Len(q) : q[n] = arrived[i]
    BY <1>1, <2>4, ToSetFacts
  <2>6. n # 1
    BY <1>1, <1>2, <1>3, <2>1, <2>5 DEF NoDup
  <2>7. 1 < n /\ q[1] = arrived[j]
    BY <1>1, <1>2, <1>3, <2>6
  <2>8. j < i
    BY <1>1, <1>2, <2>1, <2>5, <2>7 DEF Sorted
  <2>9. QED
    BY <2>1, <2>8
<1>4. r \in Requests /\ Class[r] = c /\ Live(r) /\ second[r] = None
  BY <1>1, <1>2
<1>5. QED
  BY <1>3, <1>4 DEF r, q

(* A request is answered (AsyncProxyProvider.cpp:21-33).                   *)
LEMMA RespondInv ==
  ASSUME IInv, NEW s \in Responses, NEW r \in Requests, Turn("response", s, "none"),
         Respond(s, r), UNCHANGED <<pc, canceled, result, called, arrived, dropped>>
  PROVE  IInv'
<1> DEFINE h == Handler("resume", r, "ok")
           t == Tail(strand)
           q == m_requests[Class[s]]
<1> USE DEF IInv
<1>1. /\ q # <<>> /\ r = Head(q) /\ Class[s] \in Classes
      /\ m_requests' = [m_requests EXCEPT ![Class[s]] = Tail(@)]
      /\ second' = [second EXCEPT ![r] = s] /\ m_set' = [m_set EXCEPT ![r] = TRUE]
      /\ pending' = [pending EXCEPT ![r] = @ /\ pc[r] # "wait"]
      /\ strand' = IF pending[r] /\ pc[r] = "wait" THEN Append(t, h) ELSE t
      /\ UNCHANGED <<pc, canceled, result, called, arrived, dropped>>
  BY ProviderAssumption DEF Respond, Popped, PoppedThen
<1>2. /\ pending \in [Requests -> BOOLEAN] /\ m_set \in [Requests -> BOOLEAN]
      /\ second \in [Requests -> Responses \cup {None}] /\ s # None
      /\ m_requests \in [Classes -> Seq(Requests)] /\ arrived \in Seq(Requests)
  BY ProviderAssumption DEF TypeOK
<1>3. /\ Class[r] = Class[s] /\ Live(r) /\ second[r] = None
      /\ \A j \in 1..Len(arrived) : \A i \in 1..(j - 1) :
           arrived[j] = r /\ Class[arrived[i]] = Class[s] =>
             second[arrived[i]] # None \/ pc[arrived[i]] = "over"
  BY <1>1, HeadFacts
<1>4. s \in called /\ s \notin dropped /\ \A x \in Requests : second[x] # s
  <2>1. HandlerFits(Handler("response", s, "none"))
    BY TurnFacts
  <2>2. QED
    BY <2>1, HandlerFields DEF HandlerFits
<1>5. /\ t \in Seq(Handlers) /\ Single(t)
      /\ \A g \in ToSet(t) : g \in Handlers /\ HandlerFits(g)
                             /\ ~(g.kind = "response" /\ g.of = s)
      /\ \A g \in ToSet(strand) : g = Handler("response", s, "none") \/ g \in ToSet(t)
  BY TurnFacts
<1>6. h \in Handlers /\ h.kind = "resume" /\ h.of = r /\ h.ec = "ok"
  BY DEF Handlers, Handler
<1> HIDE DEF h, t
<1>7. /\ strand' \in Seq(Handlers) /\ Single(strand')
      /\ ToSet(t) \subseteq ToSet(strand')
      /\ \A g \in ToSet(strand') : g \in ToSet(t) \/ (g = h /\ pending[r] /\ pc[r] = "wait")
  <2>1. CASE pending[r] /\ pc[r] = "wait"
    <3>1. \A g \in ToSet(t) : ~(g.kind = h.kind /\ g.of = h.of)
      BY <1>5, <1>6, <2>1 DEF HandlerFits
    <3>2. QED
      BY <1>1, <1>5, <1>6, <2>1, <3>1, PushFacts
  <2>2. CASE ~(pending[r] /\ pc[r] = "wait")
    BY <1>1, <1>5, <2>2
  <2>3. QED
    BY <2>1, <2>2
<1>8. ASSUME NEW g \in ToSet(t) PROVE HandlerFits(g)'
  <2>1. g \in Handlers /\ HandlerFits(g) /\ ~(g.kind = "response" /\ g.of = s)
    BY <1>5
  <2>2. QED
    BY <1>1, <1>2, <2>1, HandlerFacts DEF HandlerFits, Live
<1>9. pending[r] /\ pc[r] = "wait" => HandlerFits(h)'
  BY <1>1, <1>2, <1>3, <1>6 DEF HandlerFits, Live
<1>10. StrandInv'
  BY <1>7, <1>8, <1>9 DEF StrandInv
<1>11. TypeOK'
  <2>1. /\ second' \in [Requests -> Responses \cup {None}]
        /\ m_set' \in [Requests -> BOOLEAN] /\ pending' \in [Requests -> BOOLEAN]
    BY <1>1, <1>2
  <2>2. Tail(q) \in Seq(Requests)
    BY <1>1, <1>2
  <2>3. m_requests' \in [Classes -> Seq(Requests)]
    BY <1>1, <1>2, <2>2
  <2>4. QED
    BY <1>1, <1>7, <2>1, <2>3 DEF TypeOK
<1>12. RequestInv'
  BY <1>1, <1>2, <1>3, <1>4 DEF RequestInv, Live
<1>13. ASSUME NEW c \in Classes
       PROVE  /\ NoDup(m_requests'[c]) /\ Sorted(m_requests'[c], arrived')
              /\ ToSet(m_requests'[c]) =
                   {x \in Requests : Class[x] = c /\ Live(x)' /\ second'[x] = None}
  <2> DEFINE m == m_requests[c]
  <2>1. /\ m \in Seq(Requests) /\ NoDup(m) /\ Sorted(m, arrived)
        /\ ToSet(m) = {x \in Requests : Class[x] = c /\ Live(x) /\ second[x] = None}
    BY <1>2 DEF ListInv
  <2>2. CASE c = Class[s]
    <3>1. m_requests'[c] = Tail(m) /\ m # <<>> /\ r = Head(m)
      BY <1>1, <1>2, <2>2
    <3>2. {x \in Requests : Class[x] = c /\ Live(x)' /\ second'[x] = None} = ToSet(m) \ {r}
      BY <1>1, <1>2, <2>1 DEF Live
    <3> HIDE DEF m
    <3>3. /\ NoDup(Tail(m)) /\ Sorted(Tail(m), arrived)
          /\ ToSet(Tail(m)) = ToSet(m) \ {Head(m)}
      BY <1>2, <2>1, <3>1, TailFacts
    <3>4. QED
      BY <1>1, <3>1, <3>2, <3>3
  <2>3. CASE c # Class[s]
    <3>1. m_requests'[c] = m
      BY <1>1, <1>2, <2>3
    <3>2. {x \in Requests : Class[x] = c /\ Live(x)' /\ second'[x] = None} = ToSet(m)
      BY <1>1, <1>2, <1>3, <2>1, <2>3 DEF Live
    <3>3. QED
      BY <1>1, <2>1, <3>1, <3>2
  <2>4. QED
    BY <2>2, <2>3
<1>14. ListInv'
  BY <1>13 DEF ListInv
<1>15. ArrivedInv'
  BY <1>1 DEF ArrivedInv
<1>16. InOrder'
  <2> SUFFICES ASSUME NEW j \in 1..Len(arrived), NEW i \in 1..(j - 1),
                      Class[arrived[i]] = Class[arrived[j]], second'[arrived[j]] # None
               PROVE  second'[arrived[i]] # None \/ pc[arrived[i]] = "over"
    BY <1>1 DEF InOrder
  <2>1. i \in 1..Len(arrived) /\ arrived[i] \in Requests /\ arrived[j] \in Requests
    BY <1>2
  <2>2. second[arrived[i]] # None \/ pc[arrived[i]] = "over"
    <3>1. CASE arrived[j] = r
      BY <1>3, <3>1
    <3>2. CASE arrived[j] # r
      BY <1>1, <1>2, <2>1, <3>2 DEF InOrder
    <3>3. QED
      BY <3>1, <3>2
  <2>3. QED
    BY <1>1, <1>2, <2>1, <2>2
<1>17. ResponseInv'
  <2>1. ASSUME NEW x \in Responses \cap called, x # s
        PROVE  \/ Handler("response", x, "none") \in ToSet(strand')
               \/ x \in dropped
               \/ \E y \in Requests : second'[y] = x
    <3>1. Handler("response", x, "none") # Handler("response", s, "none")
      BY <2>1 DEF Handler
    <3>2. \/ Handler("response", x, "none") \in ToSet(strand)
          \/ x \in dropped
          \/ \E y \in Requests : second[y] = x
      BY DEF ResponseInv
    <3>3. ASSUME NEW y \in Requests, second[y] = x PROVE second'[y] = x
      BY <1>1, <1>2, <1>3, <3>3, ProviderAssumption
    <3>4. QED
      BY <1>5, <1>7, <3>1, <3>2, <3>3
  <2>2. second'[r] = s
    BY <1>1, <1>2
  <2>3. QED
    BY <1>1, <2>1, <2>2 DEF ResponseInv
<1>18. ResultInv'
  BY <1>1, <1>2, <1>3 DEF ResultInv, Live
<1>19. QED
  BY <1>10, <1>11, <1>12, <1>14, <1>15, <1>16, <1>17, <1>18

(* Nobody waits for a session of its class (AsyncProxyProvider.cpp:22-26). *)
LEMMA DropInv ==
  ASSUME IInv, NEW s \in Responses, Turn("response", s, "none"),
         strand' = Tail(strand), dropped' = dropped \cup {s},
         UNCHANGED <<m_requests, second, m_set, pc, pending, canceled, result, called, arrived>>
  PROVE  IInv'
<1> USE DEF IInv
<1>1. /\ strand' \in Seq(Handlers) /\ Single(strand')
      /\ \A g \in ToSet(strand') : g \in Handlers /\ HandlerFits(g)
                                   /\ ~(g.kind = "response" /\ g.of = s)
      /\ \A g \in ToSet(strand) : g = Handler("response", s, "none") \/ g \in ToSet(strand')
  BY TurnFacts
<1>2. s \in called
  BY TurnFacts, HandlerFields DEF HandlerFits
<1>3. ASSUME NEW g \in ToSet(strand') PROVE HandlerFits(g)'
  <2>1. HandlerFits(g) /\ ~(g.kind = "response" /\ g.of = s)
    BY <1>1
  <2>2. QED
    BY <2>1 DEF HandlerFits, Live
<1>4. StrandInv'
  BY <1>1, <1>3 DEF StrandInv
<1>5. TypeOK'
  BY <1>1 DEF TypeOK
<1>6. RequestInv'
  BY DEF RequestInv, Live
<1>7. ListInv' /\ ArrivedInv' /\ InOrder'
  BY ListsKept DEF Live
<1>8. ResponseInv'
  <2>1. ASSUME NEW x \in Responses \cap called, x # s
        PROVE  \/ Handler("response", x, "none") \in ToSet(strand')
               \/ x \in dropped
               \/ \E y \in Requests : second[y] = x
    <3>1. Handler("response", x, "none") # Handler("response", s, "none")
      BY <2>1 DEF Handler
    <3>2. QED
      BY <1>1, <3>1 DEF ResponseInv
  <2>2. QED
    BY <1>2, <2>1 DEF ResponseInv
<1>9. ResultInv'
  BY DEF ResultInv
<1>10. QED
  BY <1>4, <1>5, <1>6, <1>7, <1>8, <1>9

(* The coroutine ends and unlinks its request (AsyncProxyProvider.cpp:     *)
(* 47-53, 57-71).                                                          *)
LEMMA EndInv ==
  ASSUME IInv, NEW r \in Requests, NEW c, Turn("resume", r, c), NEW res, End(r, res),
         \/ res = second[r] /\ second[r] # None
         \/ res = "canceled" /\ canceled[r]
         \/ res = "no",
         strand' = Tail(strand),
         UNCHANGED <<second, m_set, pending, canceled, called, arrived, dropped>>
  PROVE  IInv'
<1> USE DEF IInv
<1>1. /\ pc' = [pc EXCEPT ![r] = "over"] /\ result' = [result EXCEPT ![r] = res]
      /\ m_requests' = [m_requests EXCEPT ![Class[r]] = RemoveFirst(@, r)]
      /\ pc \in [Requests -> {"idle", "posted", "start", "wait", "over"}]
      /\ m_requests \in [Classes -> Seq(Requests)] /\ arrived \in Seq(Requests)
      /\ result \in [Requests -> Responses \cup {None, "no", "null", "canceled"}]
      /\ second \in [Requests -> Responses \cup {None}] /\ Class[r] \in Classes
  BY ProviderAssumption DEF End, TypeOK
<1>2. /\ strand' \in Seq(Handlers) /\ Single(strand')
      /\ \A g \in ToSet(strand') : g \in Handlers /\ HandlerFits(g)
                                   /\ ~(g.kind = "resume" /\ g.of = r)
      /\ \A g \in ToSet(strand) : g = Handler("resume", r, c) \/ g \in ToSet(strand')
  BY TurnFacts
<1>3. Live(r) /\ ~pending[r]
  BY TurnFacts, HandlerFields DEF HandlerFits
<1>4. ASSUME NEW g \in ToSet(strand') PROVE HandlerFits(g)'
  <2>1. g \in Handlers /\ HandlerFits(g) /\ ~(g.kind = "resume" /\ g.of = r)
    BY <1>2
  <2>2. QED
    BY <1>1, <1>3, <2>1, HandlerFacts DEF HandlerFits, Live
<1>5. StrandInv'
  BY <1>2, <1>4 DEF StrandInv
<1>6. ASSUME NEW x \in Classes
      PROVE  /\ m_requests'[x] \in Seq(Requests)
             /\ NoDup(m_requests'[x]) /\ Sorted(m_requests'[x], arrived)
             /\ ToSet(m_requests'[x]) =
                  {y \in Requests : Class[y] = x /\ Live(y)' /\ second[y] = None}
  <2> DEFINE m == m_requests[x]
  <2>1. /\ m \in Seq(Requests) /\ NoDup(m) /\ Sorted(m, arrived)
        /\ ToSet(m) = {y \in Requests : Class[y] = x /\ Live(y) /\ second[y] = None}
    BY <1>1 DEF ListInv
  <2>2. CASE x = Class[r]
    <3>1. m_requests'[x] = RemoveFirst(m, r)
      BY <1>1, <2>2
    <3>2. {y \in Requests : Class[y] = x /\ Live(y)' /\ second[y] = None} = ToSet(m) \ {r}
      BY <1>1, <2>1 DEF Live
    <3> HIDE DEF m
    <3>3. LET w == RemoveFirst(m, r)
          IN  /\ w \in Seq(Requests) /\ NoDup(w) /\ Sorted(w, arrived)
              /\ ToSet(w) = ToSet(m) \ {r}
      BY <1>1, <2>1, RemoveFirstFacts
    <3>4. QED
      BY <3>1, <3>2, <3>3
  <2>3. CASE x # Class[r]
    <3>1. m_requests'[x] = m
      BY <1>1, <2>3
    <3>2. {y \in Requests : Class[y] = x /\ Live(y)' /\ second[y] = None} = ToSet(m)
      BY <1>1, <2>1, <2>3 DEF Live
    <3>3. QED
      BY <2>1, <3>1, <3>2
  <2>4. QED
    BY <2>2, <2>3
<1>7. TypeOK'
  <2>1. m_requests' \in [Classes -> Seq(Requests)]
    BY <1>1, <1>6
  <2>2. QED
    BY <1>1, <1>2, <2>1 DEF TypeOK
<1>8. RequestInv'
  BY <1>1, <1>3 DEF RequestInv, Live
<1>9. ListInv'
  BY <1>6 DEF ListInv
<1>10. ArrivedInv'
  BY <1>1, <1>3 DEF ArrivedInv, Live
<1>11. InOrder'
  <2>1. /\ InOrder /\ arrived' = arrived /\ second' = second
        /\ \A i \in 1..Len(arrived) : arrived[i] \in Requests
    BY <1>1
  <2>2. \A q \in Requests : pc[q] = "over" => pc'[q] = "over"
    BY <1>1
  <2>3. \A j \in 1..Len(arrived) : \A i \in 1..(j - 1) : i \in 1..Len(arrived)
    BY <1>1
  <2>4. QED
    BY ONLY <2>1, <2>2, <2>3 DEF InOrder
<1>12. ResponseInv'
  <2>1. ASSUME NEW s \in Responses
        PROVE  Handler("response", s, "none") # Handler("resume", r, c)
    BY DEF Handler
  <2>2. QED
    BY <1>2, <2>1 DEF ResponseInv
<1>13. ResultInv'
  BY <1>1 DEF ResultInv
<1>14. QED
  BY <1>5, <1>7, <1>8, <1>9, <1>10, <1>11, <1>12, <1>13

(* co_wait() on the event of a request (AsyncProxyProvider.cpp:63).        *)
LEMMA CoWaitInv ==
  ASSUME IInv, NEW r \in Requests, pc[r] = "start", Turn("resume", r, "ok"), CoWait(r),
         UNCHANGED <<m_requests, result, second, m_set, canceled, called, arrived, dropped>>
  PROVE  IInv'
<1> DEFINE h == Handler("resume", r, "ok")
           t == Tail(strand)
<1> USE DEF IInv
<1>1. /\ pc' = [pc EXCEPT ![r] = "wait"] /\ pending' = [pending EXCEPT ![r] = ~m_set[r]]
      /\ strand' = IF m_set[r] THEN Append(t, h) ELSE t
      /\ pc \in [Requests -> {"idle", "posted", "start", "wait", "over"}]
      /\ pending \in [Requests -> BOOLEAN] /\ m_set \in [Requests -> BOOLEAN]
  BY DEF CoWait, Popped, PoppedThen, TypeOK
<1>2. /\ t \in Seq(Handlers) /\ Single(t)
      /\ \A g \in ToSet(t) : g \in Handlers /\ HandlerFits(g)
                             /\ ~(g.kind = "resume" /\ g.of = r)
      /\ \A g \in ToSet(strand) : g = h \/ g \in ToSet(t)
  BY TurnFacts
<1>3. h \in Handlers /\ h.kind = "resume" /\ h.of = r /\ h.ec = "ok"
  BY DEF Handlers, Handler
<1>4. ASSUME NEW s \in Responses PROVE Handler("response", s, "none") # h
  BY DEF Handler
<1> HIDE DEF h, t
<1>5. /\ strand' \in Seq(Handlers) /\ Single(strand')
      /\ ToSet(t) \subseteq ToSet(strand')
      /\ \A g \in ToSet(strand') : g \in ToSet(t) \/ (g = h /\ m_set[r])
  <2>1. CASE m_set[r]
    BY <1>1, <1>2, <1>3, <2>1, PushFacts
  <2>2. CASE ~m_set[r]
    BY <1>1, <1>2, <2>2
  <2>3. QED
    BY <2>1, <2>2
<1>6. ASSUME NEW g \in ToSet(t) PROVE HandlerFits(g)'
  <2>1. g \in Handlers /\ HandlerFits(g) /\ ~(g.kind = "resume" /\ g.of = r)
    BY <1>2
  <2>2. QED
    BY <1>1, <2>1, HandlerFacts DEF HandlerFits, Live
<1>7. m_set[r] => HandlerFits(h)'
  BY <1>1, <1>3 DEF HandlerFits, Live, RequestInv
<1>8. StrandInv'
  BY <1>5, <1>6, <1>7 DEF StrandInv
<1>9. TypeOK'
  <2>1. pending' \in [Requests -> BOOLEAN]
    BY <1>1
  <2>2. QED
    BY <1>1, <1>5, <2>1 DEF TypeOK
<1>10. RequestInv'
  BY <1>1 DEF RequestInv, Live
<1>11. ListInv' /\ ArrivedInv' /\ InOrder'
  BY <1>1, ListsKept DEF Live
<1>12. ResponseInv'
  BY <1>2, <1>4, <1>5 DEF ResponseInv
<1>13. ResultInv'
  BY <1>1 DEF ResultInv
<1>14. QED
  BY <1>8, <1>9, <1>10, <1>11, <1>12, <1>13

(* What the awaited delegate or event returned (AsyncProxyProvider.cpp:    *)
(* 59-71).                                                                 *)
LEMMA ResumeInv ==
  ASSUME IInv, NEW r \in Requests, ResumeStart(r) \/ ResumeWait(r)
  PROVE  IInv'
<1>1. ASSUME NEW c, Turn("resume", r, c)
      PROVE  /\ c = "canceled" => canceled[r]
             /\ c = "ok" /\ pc[r] = "wait" => second[r] # None
  BY <1>1, TurnFacts, HandlerFields DEF HandlerFits
<1>2. CASE ResumeStart(r)
  <2>1. CASE Turn("resume", r, "ok") /\ ~canceled[r] /\ CoWait(r)
             /\ UNCHANGED <<m_requests, result>>
    BY <1>2, <2>1, CoWaitInv DEF ResumeStart, history
  <2>2. CASE /\ \/ Turn("resume", r, "ok") /\ canceled[r] /\ End(r, "canceled")
                \/ Turn("resume", r, "canceled") /\ End(r, "canceled")
                \/ Turn("resume", r, "no") /\ End(r, "no")
             /\ Popped /\ UNCHANGED pending
    BY <1>1, <1>2, <2>2, EndInv DEF ResumeStart, Popped, history
  <2>3. QED
    BY <1>2, <2>1, <2>2 DEF ResumeStart
<1>3. CASE ResumeWait(r)
  <2>1. CASE Turn("resume", r, "canceled") /\ End(r, "canceled")
    BY <1>1, <1>3, <2>1, EndInv DEF ResumeWait, Popped, history
  <2>2. CASE Turn("resume", r, "ok") /\ End(r, IF second[r] = None THEN "null" ELSE second[r])
    <3>1. second[r] # None
      BY <1>1, <1>3, <2>2 DEF ResumeWait
    <3>2. QED
      BY <1>3, <2>2, <3>1, EndInv DEF ResumeWait, Popped, history
  <2>3. QED
    BY <1>3, <2>1, <2>2 DEF ResumeWait
<1>4. QED
  BY <1>2, <1>3

(* A response that is handled answers a request, or is dropped             *)
(* (AsyncProxyProvider.cpp:21-33).                                         *)
LEMMA ResponseStepInv ==
  ASSUME IInv, NEW s \in Responses, Response(s)
  PROVE  IInv'
<1>1. CASE \E r \in Requests : Respond(s, r) /\ UNCHANGED dropped
  BY <1>1, RespondInv DEF Response
<1>2. CASE /\ dropped' = dropped \cup {s} /\ Popped
           /\ UNCHANGED <<m_requests, second, m_set, pending>>
  BY <1>2, DropInv DEF Response, Popped
<1>3. QED
  BY <1>1, <1>2 DEF Response

(* Every step preserves the invariant (AsyncProxyProvider.cpp:18-71).      *)
LEMMA StepInv == IInv /\ [Next]_vars => IInv'
<1> SUFFICES ASSUME IInv, [Next]_vars PROVE IInv'
  OBVIOUS
<1>1. CASE UNCHANGED vars
  <2>1. UNCHANGED <<m_requests, second, m_set, pc, pending, canceled, result, called,
                    strand, arrived, dropped>>
    BY <1>1 DEF vars, request, history
  <2>2. TypeOK' /\ StrandInv' /\ RequestInv'
    BY <2>1 DEF IInv, TypeOK, StrandInv, HandlerFits, Live, RequestInv
  <2>3. ListInv' /\ ArrivedInv' /\ InOrder'
    BY <2>1, ListsKept DEF Live
  <2>4. ResponseInv' /\ ResultInv'
    BY <2>1 DEF IInv, ResponseInv, ResultInv
  <2>5. QED
    BY <2>2, <2>3, <2>4 DEF IInv
<1>2. CASE Next
  <2>1. CASE Handle
    BY <2>1, GetInv, EmitInv, ResumeInv, ResponseStepInv DEF Handle
  <2>2. QED
    BY <1>2, <2>1, CallInv, PostInv, StartedInv DEF Next
<1>3. QED
  BY <1>1, <1>2

(* The inductive invariant: what is queued on the strand fits the requests *)
(* and responses it is about (AsyncProxyProvider.cpp:18-71).               *)
THEOREM Inductive == Spec => []IInv
<1>1. QED
  BY InitInv, StepInv, PTL DEF Spec

(* Each variable keeps its type (AsyncProxyProvider.cpp:18-71).            *)
THEOREM TypeCorrect == Spec => []TypeOK
<1>1. IInv => TypeOK
  BY DEF IInv
<1>2. QED
  BY <1>1, Inductive, PTL

(* The lists hold no dangling pointer and nothing stale                    *)
(* (AsyncProxyProvider.cpp:26-33, 47-53).                                  *)
THEOREM LinkedHolds == Spec => []Linked
<1>1. IInv => Linked
  <2> SUFFICES ASSUME IInv, NEW c \in Classes, NEW i \in 1..Len(m_requests[c])
               PROVE  LET r == m_requests[c][i] IN
                      /\ Live(r) /\ Class[r] = c /\ second[r] = None
                      /\ \A j \in 1..Len(m_requests[c]) : m_requests[c][j] = r => i = j
    BY DEF Linked
  <2>1. m_requests[c] \in Seq(Requests)
    BY DEF IInv, TypeOK
  <2>2. m_requests[c][i] \in ToSet(m_requests[c])
    BY <2>1, ToSetFacts
  <2>3. QED
    BY <2>2 DEF IInv, ListInv, NoDup
<1>2. QED
  BY <1>1, Inductive, PTL

(* First come, first served (AsyncProxyProvider.cpp:27-28, 53).            *)
THEOREM InOrderHolds == Spec => []InOrder
<1>1. IInv => InOrder
  BY DEF IInv
<1>2. QED
  BY <1>1, Inductive, PTL

(* No session is lost and none is given to two get()s, and a get() that is *)
(* not canceled ends with its session, unless startAsyncRequest fails      *)
(* (AsyncProxyProvider.cpp:21-33, 57-71).                                  *)
THEOREM AccountedHolds == Spec => []Accounted
<1>1. IInv => Accounted
  <2> SUFFICES ASSUME IInv PROVE Accounted
    OBVIOUS
  <2>1. ASSUME NEW s \in Responses \cap called
        PROVE  \/ \E i \in 1..Len(strand) : strand[i] = Handler("response", s, "none")
               \/ s \in dropped
               \/ \E r \in Requests :
                    /\ second[r] = s /\ Class[r] = Class[s]
                    /\ \A q \in Requests : second[q] = s => q = r
    <3>1. CASE Handler("response", s, "none") \in ToSet(strand)
      BY <3>1, ToSetFacts DEF IInv, TypeOK
    <3>2. ASSUME NEW r \in Requests, second[r] = s
          PROVE  /\ second[r] = s /\ Class[r] = Class[s]
                 /\ \A q \in Requests : second[q] = s => q = r
      BY <3>2, ProviderAssumption DEF IInv, RequestInv
    <3>3. QED
      BY <3>1, <3>2 DEF IInv, ResponseInv
  <2>2. ASSUME NEW r \in Requests
        PROVE  /\ result[r] \in Responses => result[r] = second[r]
               /\ pc[r] = "over" /\ result[r] \notin Responses =>
                    canceled[r] \/ result[r] = "no"
               /\ result[r] # "null"
    <3>1. second[r] \in Responses \cup {None}
      BY DEF IInv, TypeOK
    <3>2. QED
      BY <3>1, ProviderAssumption DEF IInv, ResultInv
  <2>3. QED
    BY <2>1, <2>2 DEF Accounted
<1>2. QED
  BY <1>1, Inductive, PTL

-----------------------------------------------------------------------------
(* What co_wait() returned, by how the get() ended.                        *)
LEMMA OutcomeFacts ==
  ASSUME NEW r \in Requests
  PROVE  /\ DOMAIN Outcome(r) = {r} /\ Outcome(r) = [w \in {r} |-> Outcome(r)[r]]
         /\ result[r] \in {None, "no"} => Outcome(r)[r] = "none"
         /\ result[r] = "canceled" => Outcome(r)[r] = "canceled"
         /\ result[r] \in Responses => Outcome(r)[r] = "ok"
BY ProviderAssumption DEF Outcome

LEMMA NextOutcomeFacts ==
  ASSUME NEW r \in Requests
  PROVE  /\ DOMAIN Outcome(r)' = {r} /\ Outcome(r)' = [w \in {r} |-> Outcome(r)'[r]]
         /\ result'[r] \in {None, "no"} => Outcome(r)'[r] = "none"
         /\ result'[r] = "canceled" => Outcome(r)'[r] = "canceled"
         /\ result'[r] \in Responses => Outcome(r)'[r] = "ok"
BY ProviderAssumption DEF Outcome

(* A step sets the event of a get(), or ends a get() that has no result.   *)
LEMMA EventMoves ==
  ASSUME IInv, [Next]_vars, NEW r \in Requests
  PROVE  \/ m_set'[r] = m_set[r] /\ result'[r] = result[r]
         \/ m_set'[r] = TRUE /\ result'[r] = result[r]
         \/ m_set'[r] = m_set[r] /\ result[r] = None
<1> DEFINE Moves == \/ m_set'[r] = m_set[r] /\ result'[r] = result[r]
                    \/ m_set'[r] = TRUE /\ result'[r] = result[r]
                    \/ m_set'[r] = m_set[r] /\ result[r] = None
<1>1. m_set \in [Requests -> BOOLEAN] /\ DOMAIN result = Requests
  BY DEF IInv, TypeOK
<1>2. CASE UNCHANGED <<m_set, result>>
  BY <1>2
<1>3. ASSUME NEW s \in Responses, Response(s) PROVE Moves
  BY <1>1, <1>3 DEF Response, Respond
<1>4. ASSUME NEW q \in Requests, NEW res, End(q, res), Live(q), UNCHANGED m_set PROVE Moves
  <2>1. result' = [result EXCEPT ![q] = res] /\ result[q] = None
    BY <1>4 DEF End, IInv, ResultInv, Live
  <2>2. QED
    BY <1>1, <1>4, <2>1
<1>5. ASSUME NEW q \in Requests, ResumeStart(q) \/ ResumeWait(q) PROVE Moves
  <2>1. Live(q) /\ m_set' = m_set
    BY <1>5 DEF ResumeStart, ResumeWait, Live
  <2>2. result' = result \/ \E res : End(q, res)
    BY <1>5 DEF ResumeStart, ResumeWait
  <2>3. QED
    BY <1>4, <2>1, <2>2
<1>6. ASSUME NEW q \in Requests,
             \/ Call(q) \/ Cancel(q) \/ (\E ec \in {"ok", "no"} : Started(q, ec))
             \/ Get(q) \/ Emit(q)
      PROVE  UNCHANGED <<m_set, result>>
  BY <1>6 DEF Call, Cancel, Started, Get, Emit, request
<1>7. ASSUME NEW s \in Responses, AsyncResponse(s) PROVE UNCHANGED <<m_set, result>>
  BY <1>7 DEF AsyncResponse, request
<1>8. CASE UNCHANGED vars
  BY <1>8 DEF vars, request
<1> HIDE DEF Moves
<1>9. Moves
  BY <1>2, <1>3, <1>5, <1>6, <1>7, <1>8 DEF Next, Handle, Moves
<1>10. QED
  BY <1>9 DEF Moves

(* For each get(), a step of the provider is a step of an AwaitableEvent,  *)
(* or changes nothing of what one promises.                                *)
LEMMA EventStep ==
  ASSUME IInv, IInv', [Next]_vars, NEW r \in Requests
  PROVE  Event(r)!Next \/ UNCHANGED <<m_set[r], Outcome(r)>>
<1> DEFINE o == Outcome(r)
           p == Outcome(r)'
<1>1. /\ o = [w \in {r} |-> o[r]] /\ p = [w \in {r} |-> p[r]]
      /\ result[r] = None => o[r] = "none"
      /\ result'[r] \in {None, "no"} => p[r] = "none"
      /\ result'[r] = "canceled" => p[r] = "canceled"
      /\ result'[r] \in Responses => p[r] = "ok"
  BY OutcomeFacts, NextOutcomeFacts
<1>2. result'[r] = result[r] => p = o
  BY DEF Outcome
<1>3. /\ m_set[r] = m_set'[r] => m_set[r] = (second'[r] # None)
      /\ second'[r] \in Responses \cup {None}
      /\ \/ result'[r] = None \/ result'[r] = "canceled" \/ result'[r] = "no"
         \/ result'[r] = second'[r] /\ second'[r] # None
  <2>1. m_set[r] \in BOOLEAN /\ m_set'[r] \in BOOLEAN /\ second'[r] \in Responses \cup {None}
    BY DEF IInv, TypeOK
  <2>2. m_set'[r] <=> second'[r] # None
    BY DEF IInv, RequestInv
  <2>3. QED
    BY <2>1, <2>2 DEF IInv, ResultInv
<1> HIDE DEF o, p
<1>4. CASE m_set'[r] = m_set[r] /\ p = o
  BY <1>4 DEF o, p
<1>5. CASE m_set'[r] = TRUE /\ p = o
  BY <1>5 DEF o, p, Event!Next, Event!Set
<1>6. CASE m_set'[r] = m_set[r] /\ result[r] = None
  <2>1. CASE result'[r] \in {None, "no"}
    BY <1>1, <1>4, <1>6, <2>1
  <2>2. CASE result'[r] = "canceled"
    <3>1. o[r] = "none" /\ p = [o EXCEPT ![r] = "canceled"]
      BY <1>1, <1>6, <2>2
    <3>2. Event(r)!Abort(r)
      BY <1>6, <3>1 DEF o, p, Event!Abort
    <3>3. QED
      BY <3>2 DEF Event!Next
  <2>3. CASE result'[r] = second'[r] /\ second'[r] # None
    <3>1. o[r] = "none" /\ p = [o EXCEPT ![r] = "ok"]
      BY <1>1, <1>3, <1>6, <2>3
    <3>2. Event(r)!Succeed(r)
      BY <1>3, <1>6, <2>3, <3>1 DEF o, p, Event!Succeed
    <3>3. QED
      BY <3>2 DEF Event!Next
  <2>4. QED
    BY <1>3, <2>1, <2>2, <2>3
<1>7. QED
  BY <1>2, <1>4, <1>5, <1>6, EventMoves

(* To each get() its request's event keeps the promise of an               *)
(* AwaitableEvent (AsyncProxyProvider.cpp:33, 63).                         *)
THEOREM EventPromiseHolds == Spec => EventPromise
<1>1. ASSUME Init PROVE \A r \in Requests : Event(r)!Init
  <2> TAKE r \in Requests
  <2>1. m_set[r] = FALSE /\ result[r] = None
    BY <1>1 DEF Init
  <2>2. Outcome(r) = [w \in {r} |-> "none"]
    BY <2>1, OutcomeFacts
  <2>3. QED
    BY <2>1, <2>2 DEF Event!Init
<1>2. ASSUME IInv, IInv', [Next]_vars
      PROVE  [\A r \in Requests : Event(r)!Next \/ UNCHANGED <<m_set[r], Outcome(r)>>]_vars
  BY <1>2, EventStep
<1>3. QED
  BY <1>1, <1>2, Inductive, PTL DEF Spec, EventPromise

-----------------------------------------------------------------------------
(* Nothing is forgotten.                                                   *)

Has(q, h) == \E i \in 1..Len(q) : q[i] = h

(* A get() begins before its cancellation is handled.                      *)
Begins(q, r) ==
  \A i, j \in 1..Len(q) :
    q[i] = Handler("cancel", r, "none") /\ q[j] = Handler("get", r, "none") => j < i

(* What a get() needs to go on is pending or queued, and so is a           *)
(* cancellation that it has not seen.                                      *)
Goes(r) ==
  /\ pc[r] = "posted" => Has(strand, Handler("get", r, "none"))
  /\ r \in called =>
       /\ pc[r] # "idle"
       /\ canceled[r] \/ pc[r] = "over" \/ Has(strand, Handler("cancel", r, "none"))
  /\ canceled[r] => ~pending[r] /\ pc[r] \notin {"idle", "posted"}
  /\ Live(r) =>
       pending[r] \/ \E c \in {"ok", "no", "canceled"} : Has(strand, Handler("resume", r, c))
  /\ Begins(strand, r)

GoesInv == \A r \in Requests : Goes(r)

(* When the strand has nothing left to run, a get() that has been called   *)
(* is over, or it awaits what has not come: startAsyncRequest, or its      *)
(* answer.  It has not been canceled.                                      *)
Settled ==
  strand = <<>> =>
    \A r \in Requests :
      /\ pc[r] # "posted"
      /\ Live(r) => /\ pending[r] /\ r \notin called
                    /\ pc[r] = "wait" => second[r] = None

(* A handler is queued behind the others.                                  *)
LEMMA Pushed ==
  ASSUME NEW S, NEW q \in Seq(S), NEW h \in S
  PROVE  /\ \A g : Has(Append(q, h), g) <=> Has(q, g) \/ g = h
         /\ \A r : /\ Begins(q, r)
                   /\ h = Handler("get", r, "none") =>
                        ~Has(q, Handler("cancel", r, "none"))
                   => Begins(Append(q, h), r)
<1> DEFINE w == Append(q, h)
<1>1. /\ Len(q) \in Nat /\ Len(w) = Len(q) + 1 /\ w[Len(w)] = h
      /\ \A i \in 1..Len(q) : w[i] = q[i]
      /\ \A i \in 1..Len(w) : i \in 1..Len(q) \/ i = Len(w)
  OBVIOUS
<1> HIDE DEF w
<1>2. \A g : Has(w, g) <=> Has(q, g) \/ g = h
  BY <1>1 DEF Has
<1>3. ASSUME NEW r, Begins(q, r),
             h = Handler("get", r, "none") => ~Has(q, Handler("cancel", r, "none"))
      PROVE  Begins(w, r)
  <2> SUFFICES ASSUME NEW i \in 1..Len(w), NEW j \in 1..Len(w),
                      w[i] = Handler("cancel", r, "none"), w[j] = Handler("get", r, "none")
               PROVE  j < i
    BY DEF Begins
  <2>1. CASE i \in 1..Len(q) /\ j \in 1..Len(q)
    BY <1>1, <1>3, <2>1 DEF Begins
  <2>2. CASE i = Len(w)
    <3>1. j # i
      BY DEF Handler
    <3>2. QED
      BY <1>1, <2>2, <3>1
  <2>3. CASE i \in 1..Len(q) /\ j = Len(w)
    BY <1>1, <1>3, <2>3 DEF Has
  <2>4. QED
    BY <1>1, <2>1, <2>2, <2>3
<1>4. QED
  BY <1>2, <1>3 DEF w

(* The oldest handler is taken.                                            *)
LEMMA Taken ==
  ASSUME NEW S, NEW q \in Seq(S), q # <<>>
  PROVE  /\ Has(q, Head(q)) /\ Tail(q) \in Seq(S)
         /\ \A g : Has(q, g) => g = Head(q) \/ Has(Tail(q), g)
         /\ \A g : Has(Tail(q), g) => Has(q, g)
         /\ \A r : Begins(q, r) =>
              /\ Begins(Tail(q), r)
              /\ Head(q) = Handler("cancel", r, "none") =>
                   ~Has(q, Handler("get", r, "none"))
<1> DEFINE w == Tail(q)
<1>1. /\ Len(q) \in Nat /\ Len(q) >= 1 /\ Len(w) = Len(q) - 1 /\ Head(q) = q[1]
      /\ \A i \in 1..Len(w) : i + 1 \in 1..Len(q) /\ w[i] = q[i + 1]
      /\ w \in Seq(S)
  OBVIOUS
<1> HIDE DEF w
<1>2. 1 \in 1..Len(q) /\ Has(q, Head(q))
  BY <1>1 DEF Has
<1>3. ASSUME NEW g, Has(q, g), g # Head(q) PROVE Has(w, g)
  <2>1. PICK i \in 1..Len(q) : q[i] = g
    BY <1>3 DEF Has
  <2>2. i - 1 \in 1..Len(w) /\ (i - 1) + 1 = i
    BY <1>1, <1>3, <2>1
  <2>3. w[i - 1] = g
    BY <1>1, <2>1, <2>2
  <2>4. QED
    BY <2>2, <2>3 DEF Has
<1>4. ASSUME NEW g, Has(w, g) PROVE Has(q, g)
  BY <1>1, <1>4 DEF Has
<1>5. ASSUME NEW r, Begins(q, r)
      PROVE  /\ Begins(w, r)
             /\ Head(q) = Handler("cancel", r, "none") => ~Has(q, Handler("get", r, "none"))
  <2>1. Begins(w, r)
    <3> SUFFICES ASSUME NEW i \in 1..Len(w), NEW j \in 1..Len(w),
                        w[i] = Handler("cancel", r, "none"), w[j] = Handler("get", r, "none")
                 PROVE  j < i
      BY DEF Begins
    <3>1. j + 1 < i + 1
      BY <1>1, <1>5 DEF Begins
    <3>2. QED
      BY <3>1
  <2>2. ASSUME Head(q) = Handler("cancel", r, "none"), Has(q, Handler("get", r, "none"))
        PROVE  FALSE
    <3>1. PICK j \in 1..Len(q) : q[j] = Handler("get", r, "none")
      BY <2>2 DEF Has
    <3>2. j < 1
      BY <1>1, <1>2, <1>5, <2>2, <3>1 DEF Begins
    <3>3. QED
      BY <3>2
  <2>3. QED
    BY <2>1, <2>2
<1>6. QED
  BY <1>1, <1>2, <1>3, <1>4, <1>5 DEF w

(* What is queued fits what it is about (AsyncProxyProvider.cpp:18-71).    *)
LEMMA QueuedFits ==
  ASSUME IInv, NEW h, Has(strand, h)
  PROVE  h \in Handlers /\ HandlerFits(h)
<1>1. strand \in Seq(Handlers)
  BY DEF IInv, TypeOK
<1>2. h \in ToSet(strand)
  BY <1>1, ToSetFacts DEF Has
<1>3. QED
  BY <1>1, <1>2, ToSetFacts DEF IInv, StrandInv

LEMMA HandlerEqual ==
  ASSUME NEW k, NEW x, NEW c, NEW l, NEW y, NEW d, Handler(k, x, c) = Handler(l, y, d)
  PROVE  k = l /\ x = y /\ c = d
BY DEF Handler

(* A handler is queued for what is called, canceled, answered or started   *)
(* (AsyncProxyProvider.cpp:18-21, 45).                                     *)
LEMMA CallsGo ==
  ASSUME IInv, GoesInv, NEW q \in Requests,
         \/ \E r \in Requests :
              Call(r) \/ Cancel(r) \/ \E ec \in {"ok", "no"} : Started(r, ec)
         \/ \E s \in Responses : AsyncResponse(s)
  PROVE  Goes(q)'
<1>0. /\ strand \in Seq(Handlers) /\ Goes(q)
      /\ pc \in [Requests -> {"idle", "posted", "start", "wait", "over"}]
      /\ pending \in [Requests -> BOOLEAN] /\ canceled \in [Requests -> BOOLEAN]
  BY DEF IInv, TypeOK, GoesInv
<1>1. ASSUME NEW r \in Requests, Call(r) PROVE Goes(q)'
  <2> DEFINE h == Handler("get", r, "none")
  <2>1. /\ h \in Handlers /\ strand' = Append(strand, h) /\ pc[r] = "idle"
        /\ pc' = [pc EXCEPT ![r] = "posted"]
        /\ UNCHANGED <<pending, canceled, called>>
    BY <1>1 DEF Call, Handlers, h
  <2>2. ASSUME Has(strand, Handler("cancel", r, "none")) PROVE FALSE
    <3>1. r \in called
      BY <2>2, QueuedFits, HandlerFields DEF HandlerFits
    <3>2. QED
      BY <2>1, <3>1 DEF GoesInv, Goes
  <2>3. h = Handler("get", q, "none") => q = r
    BY HandlerEqual DEF h
  <2> HIDE DEF h
  <2>4. /\ \A g : Has(strand', g) <=> Has(strand, g) \/ g = h
        /\ Begins(strand', q)
    BY <1>0, <2>1, <2>2, <2>3, Pushed DEF Goes
  <2>5. q = r => Has(strand', Handler("get", q, "none"))
    BY <2>4 DEF h
  <2>6. QED
    BY <1>0, <2>1, <2>4, <2>5 DEF Goes, Live
<1>2. ASSUME NEW r \in Requests, Cancel(r) PROVE Goes(q)'
  <2> DEFINE h == Handler("cancel", r, "none")
  <2>1. /\ h \in Handlers /\ strand' = Append(strand, h) /\ pc[r] # "idle"
        /\ called' = called \cup {r}
        /\ UNCHANGED <<pc, pending, canceled>>
    BY <1>2 DEF Cancel, Handlers, h, request
  <2>2. h # Handler("get", q, "none")
    BY DEF Handler
  <2> HIDE DEF h
  <2>3. /\ \A g : Has(strand', g) <=> Has(strand, g) \/ g = h
        /\ Begins(strand', q)
    BY <1>0, <2>1, <2>2, Pushed DEF Goes
  <2>4. q = r => Has(strand', Handler("cancel", q, "none"))
    BY <2>3 DEF h
  <2>5. q \in called' => q \in called \/ q = r
    BY <2>1
  <2>6. QED
    BY <1>0, <2>1, <2>3, <2>4, <2>5 DEF Goes, Live
<1>3. ASSUME NEW r \in Requests, NEW ec \in {"ok", "no"}, Started(r, ec) PROVE Goes(q)'
  <2> DEFINE h == Handler("resume", r, ec)
  <2>1. /\ h \in Handlers /\ strand' = Append(strand, h)
        /\ pending' = [pending EXCEPT ![r] = FALSE]
        /\ UNCHANGED <<pc, called, canceled>>
    BY <1>3 DEF Started, Handlers, h
  <2>2. h # Handler("get", q, "none")
    BY DEF Handler
  <2> HIDE DEF h
  <2>3. /\ \A g : Has(strand', g) <=> Has(strand, g) \/ g = h
        /\ Begins(strand', q)
    BY <1>0, <2>1, <2>2, Pushed DEF Goes
  <2>4. q = r => Has(strand', Handler("resume", q, ec))
    BY <2>3 DEF h
  <2>5. QED
    BY <1>0, <2>1, <2>3, <2>4 DEF Goes, Live
<1>4. ASSUME NEW s \in Responses, AsyncResponse(s) PROVE Goes(q)'
  <2> DEFINE h == Handler("response", s, "none")
  <2>1. /\ h \in Handlers /\ strand' = Append(strand, h)
        /\ called' = called \cup {s} /\ q # s
        /\ UNCHANGED <<pc, pending, canceled>>
    BY <1>4, ProviderAssumption DEF AsyncResponse, Handlers, h, request
  <2>2. h # Handler("get", q, "none")
    BY DEF Handler
  <2> HIDE DEF h
  <2>3. /\ \A g : Has(strand', g) <=> Has(strand, g) \/ g = h
        /\ Begins(strand', q)
    BY <1>0, <2>1, <2>2, Pushed DEF Goes
  <2>4. q \in called' => q \in called
    BY <2>1
  <2>5. QED
    BY <1>0, <2>1, <2>3, <2>4 DEF Goes, Live
<1>5. QED
  BY <1>1, <1>2, <1>3, <1>4

(* A handler that runs leaves the others queued, perhaps with the rest of  *)
(* a get() behind them.                                                    *)
LEMMA TurnGoes ==
  ASSUME IInv, GoesInv, NEW k, NEW x, NEW c, Turn(k, x, c), NEW q \in Requests,
         \/ Popped
         \/ \E r \in Requests, d \in {"ok", "no", "canceled"} :
              PoppedThen(Handler("resume", r, d))
  PROVE  /\ \A g : Has(strand, g) => g = Handler(k, x, c) \/ Has(strand', g)
         /\ Begins(strand', q)
         /\ HandlerFits(Handler(k, x, c))
         /\ Handler(k, x, c) = Handler("cancel", q, "none") =>
              ~Has(strand, Handler("get", q, "none"))
<1> DEFINE h == Handler(k, x, c)
<1>1. /\ strand \in Seq(Handlers) /\ strand # <<>> /\ Head(strand) = h /\ Begins(strand, q)
  BY DEF IInv, TypeOK, GoesInv, Goes, Turn
<1>2. HandlerFits(h)
  BY TurnFacts
<1>3. /\ Tail(strand) \in Seq(Handlers)
      /\ \A g : Has(strand, g) => g = h \/ Has(Tail(strand), g)
      /\ Begins(Tail(strand), q)
      /\ h = Handler("cancel", q, "none") => ~Has(strand, Handler("get", q, "none"))
  BY <1>1, Taken
<1> HIDE DEF h
<1>5. CASE Popped
  BY <1>2, <1>3, <1>5 DEF Popped, h
<1>6. ASSUME NEW r \in Requests, NEW d \in {"ok", "no", "canceled"},
             PoppedThen(Handler("resume", r, d))
      PROVE  /\ \A g : Has(Tail(strand), g) => Has(strand', g)
             /\ Begins(strand', q)
  <2> DEFINE m == Handler("resume", r, d)
             t == Tail(strand)
  <2>1. m \in Handlers /\ m # Handler("get", q, "none")
    BY DEF Handlers, Handler
  <2>2. strand' = Append(t, m) /\ t \in Seq(Handlers) /\ Begins(t, q)
    BY <1>3, <1>6 DEF PoppedThen
  <2> HIDE DEF m, t
  <2>3. /\ \A g : Has(strand', g) <=> Has(t, g) \/ g = m
        /\ Begins(strand', q)
    BY <2>1, <2>2, Pushed
  <2>4. QED
    BY <2>3 DEF t
<1>7. QED
  BY <1>2, <1>3, <1>5, <1>6 DEF h

(* The rest of a get() is queued (AsyncProxyProvider.cpp:33, 63).          *)
LEMMA RestQueued ==
  ASSUME IInv, NEW k, NEW x, NEW c, Turn(k, x, c), NEW r \in Requests,
         NEW d \in {"ok", "no", "canceled"}, PoppedThen(Handler("resume", r, d))
  PROVE  Has(strand', Handler("resume", r, d))
<1> DEFINE m == Handler("resume", r, d)
           t == Tail(strand)
<1>1. m \in Handlers /\ strand' = Append(t, m)
  BY DEF Handlers, PoppedThen
<1>2. t \in Seq(Handlers)
  BY TurnFacts
<1> HIDE DEF m, t
<1>3. Has(strand', m)
  BY <1>1, <1>2, Pushed
<1>4. QED
  BY <1>3 DEF m

(* What runs of a get(), its cancellation and an answer to it              *)
(* (AsyncProxyProvider.cpp:21-33, 45-71).                                  *)
LEMMA HandlersGo ==
  ASSUME IInv, GoesInv, NEW q \in Requests, Handle
  PROVE  Goes(q)'
<1>0. /\ Goes(q) /\ ProviderAssumption
      /\ pc \in [Requests -> {"idle", "posted", "start", "wait", "over"}]
      /\ pending \in [Requests -> BOOLEAN] /\ canceled \in [Requests -> BOOLEAN]
      /\ second \in [Requests -> Responses \cup {None}] /\ m_set \in [Requests -> BOOLEAN]
  BY ProviderAssumption DEF IInv, TypeOK, GoesInv
<1>1. ASSUME NEW r \in Requests, Get(r) PROVE Goes(q)'
  <2>1. /\ Turn("get", r, "none") /\ Popped /\ UNCHANGED <<canceled, called>>
        /\ pc' = [pc EXCEPT ![r] = "start"] /\ pending' = [pending EXCEPT ![r] = TRUE]
    BY <1>1 DEF Get
  <2>2. /\ \A g : Has(strand, g) => g = Handler("get", r, "none") \/ Has(strand', g)
        /\ Begins(strand', q) /\ HandlerFits(Handler("get", r, "none"))
    BY <2>1, TurnGoes
  <2>3. pc[r] = "posted"
    BY <2>2, HandlerFields DEF HandlerFits
  <2>4. \A x, c : \A k \in {"cancel", "resume"} :
          Has(strand, Handler(k, x, c)) => Has(strand', Handler(k, x, c))
    BY <2>2, HandlerEqual
  <2>5. q # r => (Has(strand, Handler("get", q, "none")) => Has(strand', Handler("get", q, "none")))
    BY <2>2, HandlerEqual
  <2>6. CASE q = r
    BY <1>0, <2>1, <2>2, <2>3, <2>4, <2>6 DEF Goes, Live
  <2>7. CASE q # r
    BY <1>0, <2>1, <2>2, <2>4, <2>5, <2>7 DEF Goes, Live
  <2>8. QED
    BY <2>6, <2>7
<1>2. ASSUME NEW r \in Requests, Emit(r) PROVE Goes(q)'
  <2> DEFINE h == Handler("cancel", r, "none")
             m == Handler("resume", r, "canceled")
  <2>1. /\ Turn("cancel", r, "none") /\ UNCHANGED <<pc, called>>
        /\ canceled' = [canceled EXCEPT ![r] = Live(r)]
        /\ pending' = [pending EXCEPT ![r] = FALSE]
        /\ IF pending[r] THEN PoppedThen(m) ELSE Popped
    BY <1>2 DEF Emit
  <2>2. /\ \A g : Has(strand, g) => g = h \/ Has(strand', g)
        /\ Begins(strand', q) /\ HandlerFits(h)
        /\ h = Handler("cancel", q, "none") => ~Has(strand, Handler("get", q, "none"))
    BY <2>1, TurnGoes
  <2>3. r \in called
    BY <2>2, HandlerFields DEF HandlerFits
  <2>4. \A x, c : \A k \in {"get", "resume"} :
          Has(strand, Handler(k, x, c)) => Has(strand', Handler(k, x, c))
    BY <2>2, HandlerEqual
  <2>5. q # r => (Has(strand, Handler("cancel", q, "none")) => Has(strand', Handler("cancel", q, "none")))
    BY <2>2, HandlerEqual
  <2>6. pending[r] => Has(strand', m)
    BY <2>1, RestQueued
  <2>7. CASE q = r
    <3>1. pc[r] \in {"start", "wait", "over"}
      BY <1>0, <2>2, <2>3, <2>7 DEF Goes
    <3>2. canceled'[r] = Live(r) /\ pending'[r] = FALSE
      BY <1>0, <2>1
    <3>3. Live(r) => \E c \in {"ok", "no", "canceled"} : Has(strand', Handler("resume", r, c))
      BY <1>0, <2>4, <2>6, <2>7 DEF Goes
    <3>4. QED
      BY <1>0, <2>1, <2>2, <2>7, <3>1, <3>2, <3>3 DEF Goes, Live
  <2>8. CASE q # r
    BY <1>0, <2>1, <2>2, <2>4, <2>5, <2>8 DEF Goes, Live
  <2>9. QED
    BY <2>7, <2>8
<1>3. ASSUME NEW r \in Requests, ResumeStart(r) \/ ResumeWait(r) PROVE Goes(q)'
  <2>1. PICK c \in {"ok", "no", "canceled"} : Turn("resume", r, c)
    BY <1>3 DEF ResumeStart, ResumeWait
  <2>2. /\ UNCHANGED <<canceled, called>> /\ pc[r] \in {"start", "wait"}
        /\ \/ pc' = [pc EXCEPT ![r] = "over"] /\ Popped /\ UNCHANGED pending
           \/ pc[r] = "start" /\ ~canceled[r] /\ CoWait(r)
    BY <1>3 DEF ResumeStart, ResumeWait, End
  <2>3. Popped \/ PoppedThen(Handler("resume", r, "ok"))
    BY <2>2 DEF CoWait
  <2>4. /\ \A g : Has(strand, g) => g = Handler("resume", r, c) \/ Has(strand', g)
        /\ Begins(strand', q) /\ HandlerFits(Handler("resume", r, c))
    BY <2>1, <2>3, TurnGoes
  <2>5. ~pending[r]
    BY <2>4, HandlerFields DEF HandlerFits
  <2>6. \A x, d : \A k \in {"get", "cancel"} :
          Has(strand, Handler(k, x, d)) => Has(strand', Handler(k, x, d))
    BY <2>4, HandlerEqual
  <2>7. q # r => \A d : Has(strand, Handler("resume", q, d)) => Has(strand', Handler("resume", q, d))
    BY <2>4, HandlerEqual
  <2>8. CASE pc' = [pc EXCEPT ![r] = "over"] /\ Popped /\ UNCHANGED pending
    BY <1>0, <2>2, <2>4, <2>5, <2>6, <2>7, <2>8 DEF Goes, Live
  <2>9. CASE pc[r] = "start" /\ ~canceled[r] /\ CoWait(r)
    <3> DEFINE m == Handler("resume", r, "ok")
    <3>1. /\ pc' = [pc EXCEPT ![r] = "wait"] /\ pending' = [pending EXCEPT ![r] = ~m_set[r]]
          /\ IF m_set[r] THEN PoppedThen(m) ELSE Popped
      BY <2>9 DEF CoWait
    <3>2. m_set[r] => Has(strand', m)
      BY <2>1, <3>1, RestQueued
    <3>3. CASE q = r
      <4>1. pending'[q] \/ \E d \in {"ok", "no", "canceled"} : Has(strand', Handler("resume", q, d))
        BY <1>0, <3>1, <3>2, <3>3
      <4>2. QED
        BY <1>0, <2>2, <2>4, <2>6, <2>9, <3>1, <3>3, <4>1 DEF Goes, Live
    <3>4. CASE q # r
      BY <1>0, <2>2, <2>4, <2>6, <2>7, <3>1, <3>4 DEF Goes, Live
    <3>5. QED
      BY <3>3, <3>4
  <2>10. QED
    BY <2>2, <2>8, <2>9
<1>4. ASSUME NEW s \in Responses, Response(s) PROVE Goes(q)'
  <2>1. /\ Turn("response", s, "none") /\ UNCHANGED <<pc, canceled, called>>
        /\ \/ Popped /\ UNCHANGED pending
           \/ \E r \in Requests :
                /\ pending' = [pending EXCEPT ![r] = @ /\ pc[r] # "wait"]
                /\ IF pending[r] /\ pc[r] = "wait"
                   THEN PoppedThen(Handler("resume", r, "ok")) ELSE Popped
    BY <1>4 DEF Response, Respond
  <2>2. Popped \/ \E r \in Requests, d \in {"ok", "no", "canceled"} : PoppedThen(Handler("resume", r, d))
    BY <2>1
  <2>3. /\ \A g : Has(strand, g) => g = Handler("response", s, "none") \/ Has(strand', g)
        /\ Begins(strand', q)
    BY <2>1, <2>2, TurnGoes
  <2>4. \A x, d : \A k \in {"get", "cancel", "resume"} :
          Has(strand, Handler(k, x, d)) => Has(strand', Handler(k, x, d))
    BY <2>3, HandlerEqual
  <2>5. pending[q] => pending'[q] \/ Has(strand', Handler("resume", q, "ok"))
    <3>1. CASE UNCHANGED pending
      BY <3>1
    <3>2. ASSUME NEW r \in Requests,
                 pending' = [pending EXCEPT ![r] = @ /\ pc[r] # "wait"],
                 IF pending[r] /\ pc[r] = "wait"
                 THEN PoppedThen(Handler("resume", r, "ok")) ELSE Popped
          PROVE  pending[q] => pending'[q] \/ Has(strand', Handler("resume", q, "ok"))
      <4>1. q # r => pending'[q] = pending[q]
        BY <1>0, <3>2
      <4>2. q = r /\ pending[q] /\ pc[q] # "wait" => pending'[q]
        BY <1>0, <3>2
      <4>3. q = r /\ pending[q] /\ pc[q] = "wait" => Has(strand', Handler("resume", q, "ok"))
        BY <2>1, <3>2, RestQueued
      <4>4. QED
        BY <4>1, <4>2, <4>3
    <3>3. QED
      BY <2>1, <3>1, <3>2
  <2>6. ~pending[q] => ~pending'[q]
    BY <1>0, <2>1
  <2>7. QED
    BY <1>0, <2>1, <2>3, <2>4, <2>5, <2>6 DEF Goes, Live
<1>5. QED
  BY <1>1, <1>2, <1>3, <1>4 DEF Handle

(* A get() does not hang: when the strand has come to rest, none has been  *)
(* answered or canceled and still waits (AsyncProxyProvider.cpp:32-33,     *)
(* 57-71).                                                                 *)
THEOREM SettledHolds == Spec => []Settled
<1>1. Init => GoesInv
  <2> SUFFICES ASSUME Init, NEW r \in Requests PROVE Goes(r)
    BY DEF GoesInv
  <2>1. Begins(strand, r)
    BY DEF Init, Begins
  <2>2. QED
    BY <2>1 DEF Init, Goes, Live
<1>2. IInv /\ GoesInv /\ [Next]_vars => GoesInv'
  <2> SUFFICES ASSUME IInv, GoesInv, [Next]_vars, NEW q \in Requests PROVE Goes(q)'
    BY DEF GoesInv
  <2>1. CASE Next
    BY <2>1, CallsGo, HandlersGo DEF Next
  <2>2. CASE UNCHANGED vars
    BY <2>2 DEF vars, request, GoesInv, Goes, Live
  <2>3. QED
    BY <2>1, <2>2
<1>3. IInv /\ GoesInv => Settled
  <2> SUFFICES ASSUME IInv, GoesInv, strand = <<>>, NEW r \in Requests
               PROVE  /\ pc[r] # "posted"
                      /\ Live(r) => /\ pending[r] /\ r \notin called
                                    /\ pc[r] = "wait" => second[r] = None
    BY DEF Settled
  <2>1. \A h : ~Has(strand, h)
    BY DEF Has
  <2>2. pc[r] # "posted" /\ (Live(r) => pending[r] /\ r \notin called)
    BY <2>1 DEF GoesInv, Goes, Live
  <2>3. QED
    BY <2>2 DEF IInv, RequestInv
<1>4. QED
  BY <1>1, <1>2, <1>3, Inductive, PTL DEF Spec
=============================================================================
