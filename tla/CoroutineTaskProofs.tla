------------------------- MODULE CoroutineTaskProofs -------------------------
(***************************************************************************)
(* Machine-checked proofs about CoroutineTask, for any set of tasks, any   *)
(* way they await and register each other, and any bounds.                 *)
(***************************************************************************)
EXTENDS CoroutineTask, TLAPS

Queues == [Tasks -> Seq(Handler)]

-----------------------------------------------------------------------------
(* What the operators on strands return.                                   *)

(* The handlers the code posts are well formed (CoroutineTask.hpp:22-52).  *)
LEMMA HandlerTypes ==
  /\ \A n \in Nat \ {0}, p \in Tasks \cup {NoTask} : StartHandler(n, p) \in Handler
  /\ StopHandler \in Handler
  /\ \A n \in Nat : EmitHandler(n) \in Handler
  /\ \A ec \in Codes : ResumeHandler(ec) \in Handler
BY DEF Handler, StartHandler, StopHandler, EmitHandler, ResumeHandler

(* Posting keeps the strands well formed.                                  *)
LEMMA PostType ==
  ASSUME NEW q \in Queues, NEW t, NEW h \in Handler
  PROVE  Post(q, t, h) \in Queues
<1>1. CASE t \in Tasks
  <2>1. Append(q[t], h) \in Seq(Handler)
    BY <1>1 DEF Queues
  <2>2. QED
    BY <1>1, <2>1 DEF Queues, Post
<1>2. CASE t \notin Tasks
  BY <1>2 DEF Queues, Post
<1>3. QED
  BY <1>1, <1>2

(* Taking the oldest handler keeps the strands well formed.                *)
LEMMA PoppedType ==
  ASSUME strand \in Queues, NEW t \in Tasks, strand[t] # <<>>
  PROVE  Popped(t) \in Queues
<1>1. Tail(strand[t]) \in Seq(Handler)
  BY DEF Queues
<1>2. QED
  BY <1>1 DEF Queues, Popped

(* The strand of t hands out a well-formed handler.                        *)
LEMMA HeadType ==
  ASSUME strand \in Queues, NEW t \in Tasks, strand[t] # <<>>
  PROVE  /\ Head(strand[t]) \in Handler
         /\ Head(strand[t]).kind = "start" =>
              Head(strand[t]).id \in Nat \ {0} /\ Head(strand[t]).by \in Tasks \cup {NoTask}
<1>1. Head(strand[t]) \in Handler
  BY DEF Queues
<1>2. QED
  BY <1>1 DEF Handler

(* m_stopped() keeps the strands well formed.                              *)
LEMMA PostStopsType ==
  ASSUME NEW q \in Queues, NEW R
  PROVE  PostStops(q, R) \in Queues
BY HandlerTypes DEF Queues, PostStops

(* A completion keeps the strands well formed.                             *)
LEMMA PostCompletionType ==
  ASSUME NEW q \in Queues, NEW p, NEW ec \in Codes
  PROVE  PostCompletion(q, p, ec) \in Queues
BY HandlerTypes, PostType DEF PostCompletion

(* A fired signal keeps the strands well formed.                           *)
LEMMA PostEmitType ==
  ASSUME TypeOK, NEW q \in Queues, NEW t \in Tasks
  PROVE  PostEmit(q, t) \in Queues
<1>1. ResumeHandler("canceled") \in Handler /\ EmitHandler(childStart[t]) \in Handler
  BY HandlerTypes DEF TypeOK, Codes
<1>2. QED
  BY <1>1, PostType DEF PostEmit

(* A completion, and a fired signal, keep pc in its type.                  *)
LEMMA PcTypes ==
  ASSUME TypeOK
  PROVE  /\ \A p : Completed(p) \in [Tasks -> PCs]
         /\ \A t \in Tasks : Emitted(t) \in [Tasks -> PCs]
BY DEF TypeOK, Completed, Emitted, PCs

-----------------------------------------------------------------------------
(* Type correctness.                                                       *)

(* A handler of a strand keeps the variables in their types                *)
(* (CoroutineTask.hpp:34-107).                                             *)
LEMMA HandleType ==
  ASSUME TypeOK, NEW t \in Tasks, Handle(t)
  PROVE  TypeOK'
<1>0. strand \in Queues
  BY DEF TypeOK, Queues
<1>1. CASE Refuse(t)
  <2>1. strand' \in Queues
    BY <1>0, <1>1, PoppedType, PostCompletionType DEF Refuse, Turn, Codes
  <2>2. pc' \in [Tasks -> PCs]
    BY <1>1, PcTypes DEF Refuse
  <2>3. QED
    BY <1>1, <2>1, <2>2 DEF Refuse, TypeOK, Queues
<1>2. CASE Work(t)
  <2>1. strand' \in Queues
    BY <1>0, <1>2, PoppedType DEF Work, Turn
  <2>2. Head(strand[t]).id \in Nat /\ Head(strand[t]).by \in Tasks \cup {NoTask}
    BY <1>0, <1>2, HeadType DEF Work, Turn
  <2>3. QED
    BY <1>2, <2>1, <2>2 DEF Work, TypeOK, Queues, States, PCs
<1>3. CASE CoStop(t)
  <2>1. Popped(t) \in Queues
    BY <1>0, <1>3, PoppedType DEF CoStop, Turn
  <2>2. strand' \in Queues
    BY <1>3, <2>1, PostEmitType, PostStopsType DEF CoStop
  <2>3. pc' \in [Tasks -> PCs]
    BY <1>3, PcTypes, SMTT(30) DEF CoStop, TypeOK
  <2>4. m_state' \in [Tasks -> States] /\ canceled' \in [Tasks -> BOOLEAN]
    BY <1>3 DEF CoStop, TypeOK, States
  <2>5. QED
    BY <1>3, <2>2, <2>3, <2>4 DEF CoStop, TypeOK, Queues
<1>4. CASE Emit(t)
  <2>1. Popped(t) \in Queues
    BY <1>0, <1>4, PoppedType DEF Emit, Turn
  <2>2. strand' \in Queues
    BY <1>4, <2>1, PostEmitType DEF Emit
  <2>3. pc' \in [Tasks -> PCs]
    BY <1>4, PcTypes, ZenonT(30) DEF Emit, TypeOK
  <2>4. canceled' \in [Tasks -> BOOLEAN]
    BY <1>4 DEF Emit, TypeOK
  <2>5. QED
    BY <1>4, <2>2, <2>3, <2>4 DEF Emit, TypeOK, Queues
<1>5. CASE Resume(t)
  <2>1. strand' \in Queues
    BY <1>0, <1>5, PoppedType DEF Resume, Turn
  <2>2. QED
    BY <1>5, <2>1 DEF Resume, TypeOK, Queues, PCs
<1>6. QED
  BY <1>1, <1>2, <1>3, <1>4, <1>5 DEF Handle

(* A step of run() keeps the variables in their types                      *)
(* (CoroutineTask.hpp:76-107).                                             *)
LEMMA RunType ==
  ASSUME TypeOK, NEW t \in Tasks, Run(t)
  PROVE  TypeOK'
<1>0. strand \in Queues
  BY DEF TypeOK, Queues
<1>1. CASE AwaitOp(t)
  BY <1>1 DEF AwaitOp, TypeOK, PCs
<1>2. ASSUME NEW c \in Awaits[t], AwaitTask(t, c) PROVE TypeOK'
  <2>1. c \in Tasks
    BY TaskAssumption
  <2>2. starts[c] + 1 \in Nat \ {0}
    BY <2>1 DEF TypeOK
  <2>3. StartHandler(starts[c] + 1, t) \in Handler
    BY <2>2, HandlerTypes
  <2>4. strand' \in Queues
    BY <1>0, <1>2, <2>3, PostType DEF AwaitTask
  <2>5. QED
    BY <1>2, <2>1, <2>2, <2>4 DEF AwaitTask, TypeOK, Queues, PCs
<1>3. ASSUME NEW c \in Registers[t], RegisterStop(t, c) PROVE TypeOK'
  <2>1. c \in Tasks
    BY TaskAssumption
  <2>2. starts[c] + 1 \in Nat \ {0}
    BY <2>1 DEF TypeOK
  <2>3. StartHandler(starts[c] + 1, NoTask) \in Handler
    BY <2>2, HandlerTypes
  <2>4. strand' \in Queues
    BY <1>0, <1>3, <2>3, PostType DEF RegisterStop
  <2>5. QED
    BY <1>3, <2>1, <2>2, <2>4 DEF RegisterStop, TypeOK, Queues
<1>4. ASSUME NEW ec \in {"ok", "error"}, Finish(t, ec) PROVE TypeOK'
  <2>1. strand' \in Queues
    BY <1>0, <1>4, PostCompletionType DEF Finish, Codes
  <2>2. pc' \in [Tasks -> PCs]
    BY <1>4, PcTypes DEF Finish, End, PCs
  <2>3. m_state' \in [Tasks -> States]
    BY <1>4 DEF Finish, TypeOK, States
  <2>4. QED
    BY <1>4, <2>1, <2>2, <2>3 DEF Finish, End, TypeOK, Queues
<1>5. CASE Unwind(t)
  <2>1. strand' \in Queues
    BY <1>0, <1>5, PostStopsType, PostCompletionType DEF Unwind, Codes
  <2>2. pc' \in [Tasks -> PCs]
    BY <1>5, PcTypes DEF Unwind, End, PCs
  <2>3. m_state' \in [Tasks -> States]
    BY <1>5 DEF Unwind, TypeOK, States
  <2>4. QED
    BY <1>5, <2>1, <2>2, <2>3 DEF Unwind, End, TypeOK, Queues
<1>6. QED
  BY <1>1, <1>2, <1>3, <1>4, <1>5 DEF Run

(* A call of start() or stop(), or the end of an operation, keeps the      *)
(* variables in their types (CoroutineTask.hpp:18-52).                     *)
LEMMA UserType ==
  ASSUME TypeOK, NEW t \in Tasks,
         Start(t) \/ Stop(t) \/ \E ec \in {"ok", "error"} : Complete(t, ec)
  PROVE  TypeOK'
<1>0. strand \in Queues
  BY DEF TypeOK, Queues
<1>1. CASE Start(t)
  <2>1. starts[t] + 1 \in Nat \ {0}
    BY DEF TypeOK
  <2>2. StartHandler(starts[t] + 1, NoTask) \in Handler
    BY <2>1, HandlerTypes
  <2>3. strand' \in Queues
    BY <1>0, <1>1, <2>2, PostType DEF Start
  <2>4. QED
    BY <1>1, <2>1, <2>3 DEF Start, TypeOK, Queues
<1>2. CASE Stop(t)
  <2>1. strand' \in Queues
    BY <1>0, <1>2, HandlerTypes, PostType DEF Stop
  <2>2. stops' \in [Tasks -> Nat]
    BY <1>2 DEF Stop, TypeOK
  <2>3. QED
    BY <1>2, <2>1, <2>2 DEF Stop, TypeOK, Queues
<1>3. ASSUME NEW ec \in {"ok", "error"}, Complete(t, ec) PROVE TypeOK'
  <2>1. ResumeHandler(ec) \in Handler
    BY HandlerTypes DEF Codes
  <2>2. strand' \in Queues
    BY <1>0, <1>3, <2>1, PostType DEF Complete
  <2>3. QED
    BY <1>3, <2>2 DEF Complete, TypeOK, Queues, PCs
<1>4. QED
  BY <1>1, <1>2, <1>3

(* The initial state has the types.                                        *)
LEMMA InitType == Init => TypeOK
<1> SUFFICES ASSUME Init PROVE TypeOK
  OBVIOUS
<1>1. strand \in [Tasks -> Seq(Handler)]
  BY DEF Init
<1>2. QED
  BY <1>1 DEF Init, TypeOK, States, PCs

(* Every step keeps the types (CoroutineTask.hpp:18-107).                  *)
LEMMA TypeStep == TypeOK /\ [Next]_vars => TypeOK'
<1> SUFFICES ASSUME TypeOK, [Next]_vars PROVE TypeOK'
  OBVIOUS
<1>1. ASSUME NEW t \in Tasks, Handle(t) PROVE TypeOK'
  BY <1>1, HandleType
<1>2. ASSUME NEW t \in Tasks, Run(t) PROVE TypeOK'
  BY <1>2, RunType
<1>3. ASSUME NEW t \in Tasks,
             Start(t) \/ Stop(t) \/ \E ec \in {"ok", "error"} : Complete(t, ec)
      PROVE  TypeOK'
  BY <1>3, UserType
<1>4. CASE UNCHANGED vars
  BY <1>4 DEF TypeOK, vars
<1>5. QED
  BY <1>1, <1>2, <1>3, <1>4 DEF Next

(* The variables always have their types, whatever the tasks do            *)
(* (CoroutineTask.hpp:18-107).                                             *)
THEOREM TypeCorrect == Spec => []TypeOK
BY InitType, TypeStep, PTL DEF Spec

(* A task that is RUNNING has a coroutine, and m_cancellation is that      *)
(* coroutine's signal: a later co_start(), which work() refuses, never     *)
(* takes the signal away from stop() (CoroutineTask.hpp:76-93).            *)
Cancellable ==
  \A t \in Tasks :
    /\ m_state[t] = "RUNNING" => body[t] # 0
    /\ body[t] # 0 => m_cancellation[t] = body[t]

-----------------------------------------------------------------------------
(* Stopping.  Cancellable is what lets StopCancels go through a step of    *)
(* CoStop: the signal that stop() emits is the running coroutine's.        *)
IInv == TypeOK /\ Cancellable /\ StopCancels

(* Every step keeps the two properties (CoroutineTask.hpp:34-107).         *)
LEMMA StepIInv == IInv /\ [Next]_vars => IInv'
<1> SUFFICES ASSUME IInv, [Next]_vars PROVE Cancellable' /\ StopCancels'
  BY TypeStep DEF IInv
<1> USE DEF IInv
<1>1. ASSUME NEW t \in Tasks, Work(t) PROVE Cancellable' /\ StopCancels'
  <2> DEFINE n == Head(strand[t]).id
  <2>1. n # 0
    BY <1>1, HeadType DEF TypeOK, Queues, Work, Turn
  <2>2. /\ m_state' = [m_state EXCEPT ![t] = "RUNNING"]
        /\ body' = [body EXCEPT ![t] = n]
        /\ m_cancellation' = [m_cancellation EXCEPT ![t] = n]
        /\ UNCHANGED canceled
    BY <1>1 DEF Work
  <2>3. Cancellable'
    BY <2>1, <2>2 DEF Cancellable, TypeOK
  <2>4. StopCancels'
    BY <2>2 DEF StopCancels, TypeOK
  <2>5. QED
    BY <2>3, <2>4
<1>2. ASSUME NEW t \in Tasks, CoStop(t) PROVE Cancellable' /\ StopCancels'
  <2>1. UNCHANGED <<body, m_cancellation>>
    BY <1>2 DEF CoStop
  <2>2. CASE m_state[t] = "STOPPED"
    BY <1>2, <2>1, <2>2 DEF CoStop, Cancellable, StopCancels, TypeOK
  <2>3. CASE m_state[t] # "STOPPED"
    <3>1. m_state' = [m_state EXCEPT ![t] = "STOPPED"]
      BY <1>2, <2>3 DEF CoStop
    <3>2. Cancellable'
      BY <2>1, <3>1 DEF Cancellable, TypeOK
    <3>3. body[t] # 0 => canceled' = [canceled EXCEPT ![t] = TRUE]
      BY <1>2, <2>3 DEF CoStop, Cancellable
    <3>4. canceled' = canceled \/ canceled' = [canceled EXCEPT ![t] = TRUE]
      BY <1>2, <2>3 DEF CoStop
    <3>5. StopCancels'
      BY <2>1, <3>1, <3>3, <3>4 DEF StopCancels, TypeOK
    <3>6. QED
      BY <3>2, <3>5
  <2>4. QED
    BY <2>2, <2>3
<1>3. ASSUME NEW t \in Tasks, Emit(t) PROVE Cancellable' /\ StopCancels'
  <2>1. UNCHANGED <<m_state, body, m_cancellation>>
    BY <1>3 DEF Emit
  <2>2. canceled' = canceled \/ canceled' = [canceled EXCEPT ![t] = TRUE]
    BY <1>3 DEF Emit
  <2>3. QED
    BY <2>1, <2>2 DEF Cancellable, StopCancels, TypeOK
<1>4. ASSUME NEW t \in Tasks, (\E ec \in {"ok", "error"} : Finish(t, ec)) \/ Unwind(t)
      PROVE  Cancellable' /\ StopCancels'
  <2>1. /\ body' = [body EXCEPT ![t] = 0]
        /\ canceled' = [canceled EXCEPT ![t] = FALSE]
        /\ UNCHANGED m_cancellation
    BY <1>4 DEF Finish, Unwind, End
  <2>2. PICK s \in {"DONE", "STOPPED"} : m_state' = [m_state EXCEPT ![t] = s]
    BY <1>4 DEF Finish, Unwind
  <2>3. Cancellable'
    BY <2>1, <2>2 DEF Cancellable, TypeOK
  <2>4. StopCancels'
    BY <2>1, <2>2 DEF StopCancels, TypeOK
  <2>5. QED
    BY <2>3, <2>4
<1>5. ASSUME UNCHANGED <<m_state, body, m_cancellation, canceled>>
      PROVE  Cancellable' /\ StopCancels'
  BY <1>5 DEF Cancellable, StopCancels
<1>6. ASSUME NEW t \in Tasks,
             \/ Start(t) \/ Stop(t) \/ Refuse(t) \/ Resume(t) \/ AwaitOp(t)
             \/ \E ec \in {"ok", "error"} : Complete(t, ec)
             \/ \E c \in Awaits[t] : AwaitTask(t, c)
             \/ \E c \in Registers[t] : RegisterStop(t, c)
      PROVE  UNCHANGED <<m_state, body, m_cancellation, canceled>>
  BY <1>6 DEF Start, Stop, Refuse, Resume, AwaitOp, Complete, AwaitTask, RegisterStop
<1>7. UNCHANGED vars => UNCHANGED <<m_state, body, m_cancellation, canceled>>
  BY DEF vars
<1>8. QED
  BY <1>1, <1>2, <1>3, <1>4, <1>5, <1>6, <1>7 DEF Next, Handle, Run

(* The strengthened invariant holds in every reachable state               *)
(* (CoroutineTask.hpp:34-107).                                             *)
THEOREM Inductive == Spec => []IInv
<1>1. Init => IInv
  BY InitType DEF Init, IInv, Cancellable, StopCancels
<1>2. QED
  BY <1>1, StepIInv, PTL DEF Spec

(* A RUNNING task has a coroutine and m_cancellation is its signal         *)
(* (CoroutineTask.hpp:76-93).                                              *)
THEOREM CancellableHolds == Spec => []Cancellable
BY Inductive, PTL DEF IInv

(* A stopped task's coroutine can start no further co_await                *)
(* (CoroutineTask.hpp:34-52).                                              *)
THEOREM StopCancelsHolds == Spec => []StopCancels
BY Inductive, PTL DEF IInv

-----------------------------------------------------------------------------
(* Who waits for whom.  A start that a task awaits is in the strand of its *)
(* child until the child's run() begins, and then the child knows its      *)
(* awaiter; a signal queued for a start is behind it.                      *)

Has(s, h) == \E i \in DOMAIN s : s[i] = h
HasKind(s, k) == \E i \in DOMAIN s : s[i].kind = k

(* A strand s of a task with n starts so far and the coroutine b.          *)
Sound(s, n, b) ==
  /\ \A i \in DOMAIN s :
       /\ s[i].kind = "start" => s[i].id <= n /\ s[i].id # b
       /\ s[i].kind = "emit" => s[i].id <= n
  /\ \A i, j \in DOMAIN s :
       /\ s[i].kind = "start" /\ s[j].kind = "start" /\ s[i].id = s[j].id => i = j
       /\ s[i].kind = "emit" /\ s[j].kind = "start" /\ s[i].id = s[j].id => j < i
       /\ s[i].kind = "resume" /\ s[j].kind = "resume" => i = j

Waits(p, t, c, n) == p[t] = "child" /\ child[t] = c /\ childStart[t] = n

(* With the strands q, and run() of each task where p says.                *)
Linked(q, p) ==
  /\ \A c \in Tasks : Sound(q[c], starts[c], body[c]) /\ body[c] <= starts[c]
  /\ \A c \in Tasks : HasKind(q[c], "resume") <=> p[c] = "queued"
  /\ \A c \in Tasks : body[c] # 0 <=> p[c] # "none"
  /\ \A c, t \in Tasks : \A n \in Nat :
       Has(q[c], StartHandler(n, t)) => Waits(p, t, c, n)
  /\ \A c \in Tasks : awaiter[c] # NoTask =>
       body[c] # 0 /\ Waits(p, awaiter[c], c, body[c])
  /\ \A t \in Tasks : p[t] = "child" =>
       /\ child[t] \in Tasks
       /\ \/ Has(q[child[t]], StartHandler(childStart[t], t))
          \/ awaiter[child[t]] = t /\ body[child[t]] = childStart[t]

(* The signals of the canceled tasks cn.                                   *)
Follow(q, p, cn) ==
  \A t \in Tasks : cn[t] /\ p[t] = "child" =>
    \/ body[child[t]] = childStart[t] /\ cn[child[t]]
    \/ Has(q[child[t]], EmitHandler(childStart[t]))

Initial == \A t \in Tasks : m_state[t] = "INITIAL" => body[t] = 0

WInv == IInv /\ Initial /\ Linked(strand, pc) /\ Follow(strand, pc, canceled)

-----------------------------------------------------------------------------
(* What posting to a strand, and taking from it, does.                     *)

LEMMA AppendHas ==
  ASSUME NEW s \in Seq(Handler), NEW h \in Handler
  PROVE  /\ Append(s, h) \in Seq(Handler)
         /\ \A g : Has(Append(s, h), g) <=> Has(s, g) \/ g = h
         /\ \A k : HasKind(Append(s, h), k) <=> HasKind(s, k) \/ h.kind = k
<1> DEFINE t == Append(s, h)
<1>1. /\ t \in Seq(Handler) /\ Len(s) \in Nat
      /\ DOMAIN t = 1..(Len(s) + 1) /\ DOMAIN s = 1..Len(s)
      /\ \A i \in 1..Len(s) : t[i] = s[i]
      /\ t[Len(s) + 1] = h
  OBVIOUS
<1> HIDE DEF t
<1>2. \A g : Has(t, g) <=> Has(s, g) \/ g = h
  BY <1>1 DEF Has
<1>3. \A k : HasKind(t, k) <=> HasKind(s, k) \/ h.kind = k
  BY <1>1 DEF HasKind
<1>4. QED
  BY <1>1, <1>2, <1>3 DEF t

LEMMA TailHas ==
  ASSUME NEW s \in Seq(Handler), s # <<>>
  PROVE  /\ Tail(s) \in Seq(Handler) /\ Head(s) \in Handler
         /\ Has(s, Head(s)) /\ HasKind(s, Head(s).kind)
         /\ \A g : Has(s, g) <=> Has(Tail(s), g) \/ g = Head(s)
         /\ \A k : HasKind(s, k) <=> HasKind(Tail(s), k) \/ k = Head(s).kind
<1> DEFINE t == Tail(s)
<1>1. /\ t \in Seq(Handler) /\ Head(s) = s[1] /\ s[1] \in Handler
      /\ DOMAIN s = 1..Len(s) /\ DOMAIN t = 1..(Len(s) - 1) /\ Len(s) \in Nat \ {0}
      /\ \A i \in 1..(Len(s) - 1) : t[i] = s[i + 1]
  OBVIOUS
<1> HIDE DEF t
<1>2. \A i \in DOMAIN s : i = 1 \/ (i - 1 \in DOMAIN t /\ s[i] = t[i - 1])
  BY <1>1
<1>3. \A i \in DOMAIN t : i + 1 \in DOMAIN s /\ t[i] = s[i + 1]
  BY <1>1
<1>4. 1 \in DOMAIN s
  BY <1>1
<1>5. \A g : Has(s, g) <=> Has(t, g) \/ g = Head(s)
  BY <1>1, <1>2, <1>3, <1>4 DEF Has
<1>6. \A k : HasKind(s, k) <=> HasKind(t, k) \/ k = Head(s).kind
  BY <1>1, <1>2, <1>3, <1>4 DEF HasKind
<1>7. QED
  BY <1>1, <1>5, <1>6 DEF t

LEMMA TailSound ==
  ASSUME NEW s \in Seq(Handler), s # <<>>, NEW n \in Nat, NEW b \in Nat, Sound(s, n, b)
  PROVE  /\ Sound(Tail(s), n, b)
         /\ Head(s).kind = "start" => Sound(Tail(s), n, Head(s).id) /\ Head(s).id <= n
         /\ Head(s).kind = "resume" => ~HasKind(Tail(s), "resume")
         /\ Head(s).kind = "emit" =>
              \A i \in DOMAIN s : s[i].kind = "start" => s[i].id # Head(s).id
<1> DEFINE t == Tail(s)
<1>1. /\ Head(s) = s[1] /\ 1 \in DOMAIN s
      /\ \A i \in DOMAIN t : /\ i \in Nat /\ i + 1 \in DOMAIN s /\ i + 1 # 1
                             /\ t[i] = s[i + 1]
      /\ \A i \in DOMAIN s : i \in Nat \ {0}
  OBVIOUS
<1> HIDE DEF t
<1>2. Sound(t, n, b)
  BY <1>1 DEF Sound
<1>3. Head(s).kind = "start" => Sound(t, n, Head(s).id) /\ Head(s).id <= n
  BY <1>1, <1>2 DEF Sound
<1>4. Head(s).kind = "resume" => ~HasKind(t, "resume")
  BY <1>1 DEF Sound, HasKind
<1>5. Head(s).kind = "emit" => \A i \in DOMAIN s : s[i].kind = "start" => s[i].id # Head(s).id
  BY <1>1 DEF Sound
<1>6. QED
  BY <1>2, <1>3, <1>4, <1>5 DEF t

LEMMA AppendSound ==
  ASSUME NEW s \in Seq(Handler), NEW n \in Nat, NEW b \in Nat, Sound(s, n, b)
  PROVE  /\ Sound(Append(s, StopHandler), n, b)
         /\ \A m \in Nat : m <= n => Sound(Append(s, EmitHandler(m)), n, b)
         /\ \A ec \in Codes : ~HasKind(s, "resume") =>
              Sound(Append(s, ResumeHandler(ec)), n, b)
         /\ \A p \in Tasks \cup {NoTask} : b <= n =>
              Sound(Append(s, StartHandler(n + 1, p)), n + 1, b)
<1>1. ASSUME NEW h \in Handler
      PROVE  LET t == Append(s, h) IN
             /\ \A i \in DOMAIN t : (i \in DOMAIN s /\ t[i] = s[i]) \/ (i = Len(s) + 1 /\ t[i] = h)
             /\ \A i \in DOMAIN s : i \in Nat /\ i < Len(s) + 1 /\ i # Len(s) + 1
  OBVIOUS
<1>2. Sound(Append(s, StopHandler), n, b)
  BY <1>1, HandlerTypes DEF Sound, StopHandler
<1>3. ASSUME NEW m \in Nat, m <= n PROVE Sound(Append(s, EmitHandler(m)), n, b)
  BY <1>1, <1>3, HandlerTypes DEF Sound, EmitHandler
<1>4. ASSUME NEW ec \in Codes, ~HasKind(s, "resume")
      PROVE  Sound(Append(s, ResumeHandler(ec)), n, b)
  BY <1>1, <1>4, HandlerTypes DEF Sound, HasKind, ResumeHandler
<1>5. ASSUME NEW p \in Tasks \cup {NoTask}, b <= n
      PROVE  Sound(Append(s, StartHandler(n + 1, p)), n + 1, b)
  <2> DEFINE h == StartHandler(n + 1, p)
             t == Append(s, h)
  <2>1. h \in Handler /\ h.kind = "start" /\ h.id = n + 1
    BY HandlerTypes DEF StartHandler
  <2>2. \A i \in DOMAIN s : s[i].kind \in {"start", "emit"} => s[i].id \in Nat
    BY DEF Handler
  <2> HIDE DEF h
  <2>3. /\ \A i \in DOMAIN t : (i \in DOMAIN s /\ t[i] = s[i]) \/ (i = Len(s) + 1 /\ t[i] = h)
        /\ \A i \in DOMAIN s : i \in Nat /\ i < Len(s) + 1 /\ i # Len(s) + 1
    BY <1>1, <2>1
  <2> HIDE DEF t
  <2>4. \A i \in DOMAIN t :
          /\ t[i].kind = "start" => t[i].id <= n + 1 /\ t[i].id # b
          /\ t[i].kind = "emit" => t[i].id <= n + 1
    BY <1>5, <2>1, <2>2, <2>3 DEF Sound
  <2>5. \A i, j \in DOMAIN t :
          /\ t[i].kind = "start" /\ t[j].kind = "start" /\ t[i].id = t[j].id => i = j
          /\ t[i].kind = "emit" /\ t[j].kind = "start" /\ t[i].id = t[j].id => j < i
          /\ t[i].kind = "resume" /\ t[j].kind = "resume" => i = j
    BY <2>1, <2>2, <2>3 DEF Sound
  <2>6. Sound(t, n + 1, b)
    BY <2>4, <2>5 DEF Sound
  <2>7. QED
    BY <2>6 DEF t, h
<1>6. QED
  BY <1>2, <1>3, <1>4, <1>5

LEMMA SoundZero ==
  ASSUME NEW s \in Seq(Handler), NEW n, NEW b, Sound(s, n, b)
  PROVE  Sound(s, n, 0)
<1>1. \A i \in DOMAIN s : s[i].kind = "start" => s[i].id # 0
  BY DEF Handler
<1>2. QED
  BY <1>1 DEF Sound

(* What Linked and Follow look at in the strands.                          *)
Similar(q, r) ==
  \A c \in Tasks :
    /\ Sound(q[c], starts[c], body[c]) => Sound(r[c], starts[c], body[c])
    /\ HasKind(r[c], "resume") <=> HasKind(q[c], "resume")
    /\ \A n, t : Has(r[c], StartHandler(n, t)) <=> Has(q[c], StartHandler(n, t))

Keeps(q, r) ==
  \A c \in Tasks : \A n : Has(q[c], EmitHandler(n)) => Has(r[c], EmitHandler(n))

LEMMA SimilarLinked ==
  ASSUME NEW q, NEW r, NEW p, Similar(q, r), Linked(q, p)
  PROVE  Linked(r, p)
BY DEF Similar, Linked

LEMMA KeepsFollow ==
  ASSUME NEW q, NEW r, NEW p, NEW cn, Keeps(q, r), Follow(q, p, cn),
         \A t \in Tasks : p[t] = "child" => child[t] \in Tasks
  PROVE  Follow(r, p, cn)
BY DEF Keeps, Follow

(* Handlers of different kinds are different.                              *)
LEMMA Kinds ==
  /\ \A n, t : StartHandler(n, t).kind = "start" /\ StartHandler(n, t).id = n
                 /\ StartHandler(n, t).by = t
  /\ StopHandler.kind = "stop"
  /\ \A n : EmitHandler(n).kind = "emit" /\ EmitHandler(n).id = n
  /\ \A ec : ResumeHandler(ec).kind = "resume"
BY DEF StartHandler, StopHandler, EmitHandler, ResumeHandler

LEMMA StopsSimilar ==
  ASSUME TypeOK, NEW q \in Queues, NEW R
  PROVE  Similar(q, PostStops(q, R)) /\ Keeps(q, PostStops(q, R))
<1> DEFINE r == PostStops(q, R)
<1>1. SUFFICES ASSUME NEW c \in Tasks
               PROVE  /\ Sound(q[c], starts[c], body[c]) => Sound(r[c], starts[c], body[c])
                      /\ HasKind(r[c], "resume") <=> HasKind(q[c], "resume")
                      /\ \A n, t : Has(r[c], StartHandler(n, t)) <=> Has(q[c], StartHandler(n, t))
                      /\ \A n : Has(q[c], EmitHandler(n)) => Has(r[c], EmitHandler(n))
  BY DEF Similar, Keeps
<1>2. r[c] = q[c] \/ r[c] = Append(q[c], StopHandler)
  BY DEF PostStops
<1>3. q[c] \in Seq(Handler) /\ starts[c] \in Nat /\ body[c] \in Nat
  BY DEF Queues, TypeOK
<1> HIDE DEF r
<1>4. CASE r[c] = q[c]
  BY <1>4
<1>5. CASE r[c] = Append(q[c], StopHandler)
  <2>1. Sound(q[c], starts[c], body[c]) => Sound(r[c], starts[c], body[c])
    BY <1>3, <1>5, AppendSound
  <2>2. /\ \A g : Has(r[c], g) <=> Has(q[c], g) \/ g = StopHandler
        /\ HasKind(r[c], "resume") <=> HasKind(q[c], "resume") \/ StopHandler.kind = "resume"
    BY <1>3, <1>5, AppendHas, HandlerTypes
  <2>3. QED
    BY <2>1, <2>2, Kinds
<1>6. QED
  BY <1>2, <1>4, <1>5

(* A signal for the start that a task awaits.                              *)
LEMMA EmitSimilar ==
  ASSUME TypeOK, NEW q \in Queues, NEW p, Linked(q, p), NEW t \in Tasks, p[t] = "child"
  PROVE  LET r == Post(q, child[t], EmitHandler(childStart[t]))
         IN  /\ r \in Queues /\ Similar(q, r) /\ Keeps(q, r)
             /\ Has(r[child[t]], EmitHandler(childStart[t]))
<1> DEFINE c == child[t]
           n == childStart[t]
           r == Post(q, c, EmitHandler(n))
<1>1. /\ c \in Tasks /\ n \in Nat /\ starts[c] \in Nat /\ body[c] \in Nat
      /\ q[c] \in Seq(Handler) /\ Sound(q[c], starts[c], body[c])
  BY DEF TypeOK, Queues, Linked
<1>2. n <= starts[c]
  <2>1. CASE Has(q[c], StartHandler(n, t))
    BY <1>1, <2>1, Kinds DEF Has, Sound
  <2>2. CASE body[c] = n
    BY <1>1, <2>2 DEF Linked
  <2>3. QED
    BY <2>1, <2>2 DEF Linked
<1> HIDE DEF c, n
<1>3. r[c] = Append(q[c], EmitHandler(n)) /\ \A d \in Tasks \ {c} : r[d] = q[d]
  BY <1>1 DEF Post, Queues
<1>4. r \in Queues
  BY <1>1, PostType, HandlerTypes
<1> HIDE DEF r
<1>5. /\ Sound(r[c], starts[c], body[c])
      /\ \A g : Has(r[c], g) <=> Has(q[c], g) \/ g = EmitHandler(n)
      /\ HasKind(r[c], "resume") <=> HasKind(q[c], "resume") \/ EmitHandler(n).kind = "resume"
  BY <1>1, <1>2, <1>3, AppendHas, AppendSound, HandlerTypes
<1>6. Similar(q, r)
  <2>1. ASSUME NEW d \in Tasks
        PROVE  /\ Sound(q[d], starts[d], body[d]) => Sound(r[d], starts[d], body[d])
               /\ HasKind(r[d], "resume") <=> HasKind(q[d], "resume")
               /\ \A m, u : Has(r[d], StartHandler(m, u)) <=> Has(q[d], StartHandler(m, u))
    <3>1. CASE d = c
      BY <1>5, <3>1, Kinds
    <3>2. CASE d # c
      BY <1>3, <3>2
    <3>3. QED
      BY <3>1, <3>2
  <2>2. QED
    BY <2>1 DEF Similar
<1>7. Keeps(q, r)
  BY <1>3, <1>5 DEF Keeps
<1>8. QED
  BY <1>4, <1>5, <1>6, <1>7 DEF r, c, n

(* A completion for a task that has none yet.                              *)
LEMMA ResumePosted ==
  ASSUME TypeOK, NEW q \in Queues, NEW t \in Tasks, NEW ec \in Codes,
         ~HasKind(q[t], "resume")
  PROVE  LET r == Post(q, t, ResumeHandler(ec))
         IN  /\ r \in Queues /\ Keeps(q, r)
             /\ \A c \in Tasks :
                  /\ \A b \in Nat : Sound(q[c], starts[c], b) => Sound(r[c], starts[c], b)
                  /\ HasKind(r[c], "resume") <=> c = t \/ HasKind(q[c], "resume")
                  /\ \A n, u : Has(r[c], StartHandler(n, u)) <=> Has(q[c], StartHandler(n, u))
<1> DEFINE r == Post(q, t, ResumeHandler(ec))
<1>1. q[t] \in Seq(Handler) /\ starts[t] \in Nat
  BY DEF TypeOK, Queues
<1>2. r[t] = Append(q[t], ResumeHandler(ec)) /\ \A d \in Tasks \ {t} : r[d] = q[d]
  BY DEF Post, Queues
<1>3. r \in Queues
  BY PostType, HandlerTypes
<1> HIDE DEF r
<1>4. /\ \A b \in Nat : Sound(q[t], starts[t], b) => Sound(r[t], starts[t], b)
      /\ \A g : Has(r[t], g) <=> Has(q[t], g) \/ g = ResumeHandler(ec)
      /\ HasKind(r[t], "resume") <=> HasKind(q[t], "resume") \/ ResumeHandler(ec).kind = "resume"
  BY <1>1, <1>2, AppendHas, AppendSound, HandlerTypes
<1>5. ASSUME NEW c \in Tasks
      PROVE  /\ \A b \in Nat : Sound(q[c], starts[c], b) => Sound(r[c], starts[c], b)
             /\ HasKind(r[c], "resume") <=> c = t \/ HasKind(q[c], "resume")
             /\ \A n, u : Has(r[c], StartHandler(n, u)) <=> Has(q[c], StartHandler(n, u))
             /\ \A n : Has(q[c], EmitHandler(n)) => Has(r[c], EmitHandler(n))
  <2>1. CASE c = t
    BY <1>4, <2>1, Kinds
  <2>2. CASE c # t
    BY <1>2, <2>2
  <2>3. QED
    BY <2>1, <2>2
<1>6. QED
  BY <1>3, <1>5 DEF r, Keeps

(* A start of c, awaited by w or by nobody.                                *)
LEMMA StartPosted ==
  ASSUME WInv, NEW c \in Tasks, NEW w \in Tasks \cup {NoTask},
         starts' = [starts EXCEPT ![c] = @ + 1],
         strand' = Post(strand, c, StartHandler(starts[c] + 1, w))
  PROVE  /\ \A d \in Tasks : /\ Sound(strand'[d], starts'[d], body[d])
                             /\ body[d] <= starts'[d]
                             /\ HasKind(strand'[d], "resume") <=> HasKind(strand[d], "resume")
         /\ \A d \in Tasks : \A n, t :
              Has(strand'[d], StartHandler(n, t)) <=>
                \/ Has(strand[d], StartHandler(n, t))
                \/ d = c /\ n = starts[c] + 1 /\ t = w
         /\ Keeps(strand, strand')
<1>1. /\ strand[c] \in Seq(Handler) /\ starts[c] \in Nat /\ body[c] \in Nat
      /\ Sound(strand[c], starts[c], body[c]) /\ body[c] <= starts[c]
      /\ starts[c] + 1 \in Nat \ {0}
  BY DEF WInv, IInv, TypeOK, Linked
<1>2. /\ strand'[c] = Append(strand[c], StartHandler(starts[c] + 1, w))
      /\ \A d \in Tasks \ {c} : strand'[d] = strand[d] /\ starts'[d] = starts[d]
      /\ starts'[c] = starts[c] + 1
  BY DEF Post, WInv, IInv, TypeOK
<1>3. /\ Sound(strand'[c], starts[c] + 1, body[c])
      /\ \A g : Has(strand'[c], g) <=> Has(strand[c], g) \/ g = StartHandler(starts[c] + 1, w)
      /\ HasKind(strand'[c], "resume") <=>
           HasKind(strand[c], "resume") \/ StartHandler(starts[c] + 1, w).kind = "resume"
  <2> DEFINE h == StartHandler(starts[c] + 1, w)
  <2>1. h \in Handler
    BY <1>1, HandlerTypes
  <2>2. Sound(Append(strand[c], h), starts[c] + 1, body[c])
    BY <1>1, AppendSound
  <2> HIDE DEF h
  <2>3. /\ \A g : Has(Append(strand[c], h), g) <=> Has(strand[c], g) \/ g = h
        /\ \A k : HasKind(Append(strand[c], h), k) <=> HasKind(strand[c], k) \/ h.kind = k
    BY <1>1, <2>1, AppendHas
  <2>4. strand'[c] = Append(strand[c], h)
    BY <1>2 DEF h
  <2>5. QED
    BY <2>2, <2>3, <2>4 DEF h
<1>4. \A d \in Tasks : /\ Sound(strand'[d], starts'[d], body[d])
                       /\ body[d] <= starts'[d]
                       /\ HasKind(strand'[d], "resume") <=> HasKind(strand[d], "resume")
  <2>1. ASSUME NEW d \in Tasks
        PROVE  /\ Sound(strand'[d], starts'[d], body[d])
               /\ body[d] <= starts'[d]
               /\ HasKind(strand'[d], "resume") <=> HasKind(strand[d], "resume")
    <3>1. CASE d = c
      <4>1. body[c] <= starts[c] + 1
        BY <1>1
      <4>2. QED
        BY <1>2, <1>3, <3>1, <4>1, Kinds
    <3>2. CASE d # c
      BY <1>2, <3>2 DEF WInv, Linked
    <3>3. QED
      BY <3>1, <3>2
  <2>2. QED
    BY <2>1
<1>5. \A n, t : StartHandler(n, t) = StartHandler(starts[c] + 1, w) <=> n = starts[c] + 1 /\ t = w
  BY Kinds
<1>6. \A d \in Tasks : \A n, t :
        Has(strand'[d], StartHandler(n, t)) <=>
          \/ Has(strand[d], StartHandler(n, t))
          \/ d = c /\ n = starts[c] + 1 /\ t = w
  BY <1>2, <1>3, <1>5
<1>7. Keeps(strand, strand')
  BY <1>2, <1>3 DEF Keeps
<1>8. QED
  BY <1>4, <1>6, <1>7

-----------------------------------------------------------------------------
(* The links and the signals, step by step: the calls of the users.        *)

(* A detached start awakens nobody's wait (CoroutineTask.hpp:22-32).       *)
LEMMA DetachedStep ==
  ASSUME WInv, NEW c \in Tasks,
         starts' = [starts EXCEPT ![c] = @ + 1],
         strand' = Post(strand, c, StartHandler(starts[c] + 1, NoTask)),
         UNCHANGED <<body, awaiter, canceled, pc, child, childStart>>
  PROVE  Linked(strand, pc)' /\ Follow(strand, pc, canceled)'
<1>1. NoTask \notin Tasks
  BY TaskAssumption
<1>2. /\ \A d \in Tasks : /\ Sound(strand'[d], starts'[d], body[d])
                          /\ body[d] <= starts'[d]
                          /\ HasKind(strand'[d], "resume") <=> HasKind(strand[d], "resume")
      /\ \A d, t \in Tasks : \A n :
           Has(strand'[d], StartHandler(n, t)) <=> Has(strand[d], StartHandler(n, t))
      /\ Keeps(strand, strand')
  BY <1>1, StartPosted, ZenonT(30)
<1>3. Linked(strand, pc)'
  BY <1>2 DEF WInv, Linked, Waits
<1>4. Follow(strand, pc, canceled)'
  BY <1>2 DEF WInv, Linked, Keeps, Follow
<1>5. QED
  BY <1>3, <1>4

(* co_await of a task: its start, and the wait, are new                    *)
(* (CancellableSpawn.hpp:22-48).                                           *)
LEMMA AwaitTaskStep ==
  ASSUME WInv, NEW t \in Tasks, NEW c \in Tasks, AwaitTask(t, c)
  PROVE  Linked(strand, pc)' /\ Follow(strand, pc, canceled)'
<1>1. /\ pc[t] = "ready" /\ ~canceled[t]
      /\ starts' = [starts EXCEPT ![c] = @ + 1]
      /\ strand' = Post(strand, c, StartHandler(starts[c] + 1, t))
      /\ UNCHANGED <<body, awaiter, canceled>>
  BY DEF AwaitTask
<1>2. /\ pc'[t] = "child" /\ child'[t] = c /\ childStart'[t] = starts[c] + 1
      /\ \A u \in Tasks \ {t} : /\ pc'[u] = pc[u] /\ child'[u] = child[u]
                                /\ childStart'[u] = childStart[u]
  BY DEF AwaitTask, WInv, IInv, TypeOK
<1>3. /\ \A d \in Tasks : /\ Sound(strand'[d], starts'[d], body[d])
                          /\ body[d] <= starts'[d]
                          /\ HasKind(strand'[d], "resume") <=> HasKind(strand[d], "resume")
      /\ \A d, u \in Tasks : \A n :
           Has(strand'[d], StartHandler(n, u)) <=>
             \/ Has(strand[d], StartHandler(n, u))
             \/ d = c /\ n = starts[c] + 1 /\ u = t
      /\ Keeps(strand, strand')
  BY <1>1, StartPosted, ZenonT(30)
<1>4. Linked(strand, pc)
  BY DEF WInv
<1>5. \A d, u \in Tasks : \A n : Waits(pc, u, d, n) => u # t /\ Waits(pc, u, d, n)'
  BY <1>1, <1>2 DEF Waits
<1>6. \A d, u \in Tasks : \A n \in Nat :
        Has(strand'[d], StartHandler(n, u)) => Waits(pc, u, d, n)'
  BY <1>2, <1>3, <1>4, <1>5 DEF Linked, Waits
<1>7. \A d \in Tasks : awaiter'[d] # NoTask =>
        body'[d] # 0 /\ Waits(pc, awaiter[d], d, body[d])'
  <2>1. \A d \in Tasks : awaiter[d] # NoTask =>
          /\ awaiter[d] \in Tasks /\ body[d] # 0
          /\ Waits(pc, awaiter[d], d, body[d])
    BY <1>4 DEF Linked, WInv, IInv, TypeOK
  <2>2. \A d \in Tasks : awaiter[d] # NoTask =>
          /\ pc'[awaiter[d]] = "child" /\ child'[awaiter[d]] = d
          /\ childStart'[awaiter[d]] = body[d]
    BY <1>1, <1>2, <2>1 DEF Waits
  <2>3. QED
    BY <1>1, <2>1, <2>2 DEF Waits
<1>8. \A u \in Tasks : pc'[u] = "child" =>
        /\ child'[u] \in Tasks
        /\ \/ Has(strand'[child'[u]], StartHandler(childStart'[u], u))
           \/ awaiter'[child'[u]] = u /\ body'[child'[u]] = childStart'[u]
  BY <1>1, <1>2, <1>3, <1>4 DEF Linked
<1>9. \A d \in Tasks : /\ HasKind(strand'[d], "resume") <=> pc'[d] = "queued"
                       /\ body'[d] # 0 <=> pc'[d] # "none"
  BY <1>1, <1>2, <1>3, <1>4 DEF Linked
<1>10. Linked(strand, pc)'
  BY <1>1, <1>3, <1>6, <1>7, <1>8, <1>9 DEF Linked
<1>11. Follow(strand, pc, canceled)'
  BY <1>1, <1>2, <1>3, <1>4 DEF WInv, Linked, Keeps, Follow
<1>12. QED
  BY <1>10, <1>11

(* Where the strands and pc change and the waits do not, the links and the *)
(* signals of the new strands are what is left to show.                    *)
LEMMA Unmoved ==
  ASSUME UNCHANGED <<starts, body, awaiter, child, childStart>>
  PROVE  /\ Linked(strand', pc') => Linked(strand, pc)'
         /\ Follow(strand', pc', canceled') => Follow(strand, pc, canceled)'
BY DEF Linked, Follow, Waits

(* The same waits, with other completions in the strands.                  *)
LEMMA Relinked ==
  ASSUME TypeOK, NEW q, NEW r, NEW p, Linked(q, pc),
         \A c \in Tasks :
           /\ Sound(q[c], starts[c], body[c]) => Sound(r[c], starts[c], body[c])
           /\ HasKind(r[c], "resume") <=> p[c] = "queued"
           /\ \A n, u : Has(r[c], StartHandler(n, u)) <=> Has(q[c], StartHandler(n, u))
           /\ p[c] = "child" <=> pc[c] = "child"
           /\ p[c] = "none" <=> pc[c] = "none"
  PROVE  Linked(r, p)
<1>1. \A d, u \in Tasks : \A n : Waits(p, u, d, n) <=> Waits(pc, u, d, n)
  BY DEF Waits
<1>2. \A d \in Tasks : awaiter[d] # NoTask => awaiter[d] \in Tasks
  BY DEF TypeOK
<1>3. /\ \A c \in Tasks : Sound(r[c], starts[c], body[c]) /\ body[c] <= starts[c]
      /\ \A c \in Tasks : body[c] # 0 <=> p[c] # "none"
  BY DEF Linked
<1>4. \A c, t \in Tasks : \A n \in Nat :
        Has(r[c], StartHandler(n, t)) => Waits(p, t, c, n)
  BY <1>1 DEF Linked
<1>5. \A c \in Tasks : awaiter[c] # NoTask =>
        body[c] # 0 /\ Waits(p, awaiter[c], c, body[c])
  BY <1>1, <1>2 DEF Linked
<1>6. \A t \in Tasks : p[t] = "child" =>
        /\ child[t] \in Tasks
        /\ \/ Has(r[child[t]], StartHandler(childStart[t], t))
           \/ awaiter[child[t]] = t /\ body[child[t]] = childStart[t]
  BY DEF Linked
<1>7. QED
  BY <1>3, <1>4, <1>5, <1>6 DEF Linked

(* A completion for a task that is suspended on an operation               *)
(* (CancellableSpawn.hpp:47-48).                                           *)
LEMMA OpCompletes ==
  ASSUME TypeOK, NEW q \in Queues, Linked(q, pc),
         NEW t \in Tasks, pc[t] = "op", NEW ec \in Codes
  PROVE  /\ Linked(Post(q, t, ResumeHandler(ec)), [pc EXCEPT ![t] = "queued"])
         /\ Keeps(q, Post(q, t, ResumeHandler(ec)))
<1> DEFINE r == Post(q, t, ResumeHandler(ec))
<1> DEFINE p == [pc EXCEPT ![t] = "queued"]
<1>1. ~HasKind(q[t], "resume")
  BY DEF Linked
<1>2. /\ Keeps(q, r)
      /\ \A c \in Tasks :
           /\ Sound(q[c], starts[c], body[c]) => Sound(r[c], starts[c], body[c])
           /\ HasKind(r[c], "resume") <=> c = t \/ HasKind(q[c], "resume")
           /\ \A n, u : Has(r[c], StartHandler(n, u)) <=> Has(q[c], StartHandler(n, u))
  BY <1>1, ResumePosted DEF TypeOK
<1>3. \A u \in Tasks : p[u] = IF u = t THEN "queued" ELSE pc[u]
  BY DEF TypeOK
<1>4. \A c \in Tasks : HasKind(q[c], "resume") <=> pc[c] = "queued"
  BY DEF Linked
<1>5. ASSUME NEW c \in Tasks
      PROVE  /\ Sound(q[c], starts[c], body[c]) => Sound(r[c], starts[c], body[c])
             /\ HasKind(r[c], "resume") <=> p[c] = "queued"
             /\ \A n, u : Has(r[c], StartHandler(n, u)) <=> Has(q[c], StartHandler(n, u))
             /\ p[c] = "child" <=> pc[c] = "child"
             /\ p[c] = "none" <=> pc[c] = "none"
  <2>1. /\ Sound(q[c], starts[c], body[c]) => Sound(r[c], starts[c], body[c])
        /\ \A n, u : Has(r[c], StartHandler(n, u)) <=> Has(q[c], StartHandler(n, u))
    BY <1>2
  <2>2. HasKind(r[c], "resume") <=> c = t \/ HasKind(q[c], "resume")
    BY <1>2
  <2>3. /\ HasKind(r[c], "resume") <=> p[c] = "queued"
        /\ p[c] = "child" <=> pc[c] = "child"
        /\ p[c] = "none" <=> pc[c] = "none"
    BY <1>3, <1>4, <2>2
  <2>4. QED
    BY <2>1, <2>3
<1>6. \A c \in Tasks :
         /\ Sound(q[c], starts[c], body[c]) => Sound(r[c], starts[c], body[c])
         /\ HasKind(r[c], "resume") <=> p[c] = "queued"
         /\ \A n, u : Has(r[c], StartHandler(n, u)) <=> Has(q[c], StartHandler(n, u))
         /\ p[c] = "child" <=> pc[c] = "child"
         /\ p[c] = "none" <=> pc[c] = "none"
  BY <1>5
<1> HIDE DEF r, p
<1>7. Linked(r, p)
  BY <1>6, Relinked
<1>8. QED
  BY <1>2, <1>7 DEF r, p

(* A signal fires: the coroutine's own wait is served, and whoever waited  *)
(* with a fired signal is still served (CancellableSpawn.hpp:26-37).       *)
LEMMA SignalFires ==
  ASSUME TypeOK, NEW q \in Queues, Linked(q, pc), NEW t \in Tasks, NEW cn,
         \A u \in Tasks \ {t} : cn[u] /\ pc[u] = "child" =>
           \/ body[child[u]] = childStart[u] /\ cn[child[u]]
           \/ Has(q[child[u]], EmitHandler(childStart[u]))
  PROVE  /\ Linked(PostEmit(q, t), Emitted(t))
         /\ Follow(PostEmit(q, t), Emitted(t), cn)
<1>1. \A u \in Tasks : pc[u] = "child" => child[u] \in Tasks
  BY DEF Linked
<1>2. CASE pc[t] = "op"
  <2>1. /\ PostEmit(q, t) = Post(q, t, ResumeHandler("canceled"))
        /\ Emitted(t) = [pc EXCEPT ![t] = "queued"]
    BY <1>2 DEF PostEmit, Emitted
  <2>2. Linked(PostEmit(q, t), Emitted(t)) /\ Keeps(q, PostEmit(q, t))
    BY <1>2, <2>1, OpCompletes DEF Codes
  <2>3. \A u \in Tasks : Emitted(t)[u] = IF u = t THEN "queued" ELSE pc[u]
    BY <2>1 DEF TypeOK
  <2>4. QED
    BY <1>1, <2>2, <2>3 DEF Keeps, Follow
<1>3. CASE pc[t] = "child"
  <2>1. /\ PostEmit(q, t) = Post(q, child[t], EmitHandler(childStart[t]))
        /\ Emitted(t) = pc
    BY <1>3 DEF PostEmit, Emitted
  <2>2. /\ Similar(q, PostEmit(q, t)) /\ Keeps(q, PostEmit(q, t))
        /\ Has(PostEmit(q, t)[child[t]], EmitHandler(childStart[t]))
    BY <1>3, <2>1, EmitSimilar
  <2>3. Linked(PostEmit(q, t), Emitted(t))
    BY <2>1, <2>2, SimilarLinked
  <2>4. Follow(PostEmit(q, t), Emitted(t), cn)
    BY <1>1, <2>1, <2>2 DEF Keeps, Follow
  <2>5. QED
    BY <2>3, <2>4
<1>4. CASE pc[t] \notin {"op", "child"}
  <2>1. PostEmit(q, t) = q /\ Emitted(t) = pc
    BY <1>4 DEF PostEmit, Emitted
  <2>2. QED
    BY <1>4, <2>1 DEF Follow
<1>5. QED
  BY <1>2, <1>3, <1>4

(* The calls of the users, and the end of an operation.                    *)
LEMMA UserStep ==
  ASSUME WInv, NEW t \in Tasks,
         Start(t) \/ Stop(t) \/ (\E ec \in {"ok", "error"} : Complete(t, ec)) \/ AwaitOp(t)
  PROVE  Linked(strand, pc)' /\ Follow(strand, pc, canceled)'
<1>0. TypeOK /\ strand \in Queues /\ Linked(strand, pc) /\ Follow(strand, pc, canceled)
  BY DEF WInv, IInv, TypeOK, Queues
<1>1. CASE Start(t)
  BY <1>1, DetachedStep DEF Start
<1>2. CASE Stop(t)
  <2>1. strand' = PostStops(strand, {t})
    BY <1>0, <1>2 DEF Stop, Post, PostStops, Queues
  <2>2. Similar(strand, strand') /\ Keeps(strand, strand')
    BY <1>0, <2>1, StopsSimilar
  <2>3. Linked(strand', pc) /\ Follow(strand', pc, canceled)
    BY <1>0, <2>2, SimilarLinked, KeepsFollow DEF Linked
  <2>4. QED
    BY <1>2, <2>3, Unmoved DEF Stop
<1>3. ASSUME NEW ec \in {"ok", "error"}, Complete(t, ec)
      PROVE  Linked(strand, pc)' /\ Follow(strand, pc, canceled)'
  <2>1. Linked(strand', pc') /\ Keeps(strand, strand')
    BY <1>0, <1>3, OpCompletes DEF Complete, Codes
  <2>2. \A u \in Tasks : pc'[u] = IF u = t THEN "queued" ELSE pc[u]
    BY <1>0, <1>3 DEF Complete, TypeOK
  <2>3. Follow(strand', pc', canceled)
    BY <1>0, <2>1, <2>2 DEF Keeps, Follow, Linked
  <2>4. QED
    BY <1>3, <2>1, <2>3, Unmoved DEF Complete
<1>4. CASE AwaitOp(t)
  <2>1. /\ pc[t] = "ready" /\ pc' = [pc EXCEPT ![t] = "op"]
        /\ UNCHANGED <<starts, body, awaiter, child, childStart, strand, canceled>>
    BY <1>4 DEF AwaitOp
  <2>2. \A u \in Tasks : pc'[u] = IF u = t THEN "op" ELSE pc[u]
    BY <1>0, <2>1 DEF TypeOK
  <2>3. \A c \in Tasks : HasKind(strand'[c], "resume") <=> pc'[c] = "queued"
    BY <1>0, <2>1, <2>2 DEF Linked
  <2>4. Linked(strand', pc')
    <3>1. \A c \in Tasks :
             /\ Sound(strand[c], starts[c], body[c]) => Sound(strand'[c], starts[c], body[c])
             /\ HasKind(strand'[c], "resume") <=> pc'[c] = "queued"
             /\ \A n, u :
                  Has(strand'[c], StartHandler(n, u)) <=> Has(strand[c], StartHandler(n, u))
             /\ pc'[c] = "child" <=> pc[c] = "child"
             /\ pc'[c] = "none" <=> pc[c] = "none"
      BY <2>1, <2>2, <2>3
    <3>2. QED
      BY <1>0, <3>1, Relinked
  <2>5. Follow(strand', pc', canceled')
    BY <1>0, <2>1, <2>2 DEF Follow
  <2>6. QED
    BY <2>1, <2>4, <2>5, Unmoved
<1>5. QED
  BY <1>1, <1>2, <1>3, <1>4

-----------------------------------------------------------------------------
(* The handlers of a strand.                                               *)

(* What taking the oldest handler leaves.                                  *)
LEMMA TakeOne ==
  ASSUME TypeOK, Linked(strand, pc), NEW t \in Tasks, strand[t] # <<>>
  PROVE  /\ Popped(t) \in Queues /\ Head(strand[t]) \in Handler
         /\ Has(strand[t], Head(strand[t]))
         /\ \A c \in Tasks :
              /\ Sound(Popped(t)[c], starts[c], body[c])
              /\ \A k : HasKind(strand[c], k) <=>
                   HasKind(Popped(t)[c], k) \/ (c = t /\ k = Head(strand[t]).kind)
              /\ \A g : Has(strand[c], g) <=>
                   Has(Popped(t)[c], g) \/ (c = t /\ g = Head(strand[t]))
<1>1. /\ strand \in Queues /\ strand[t] \in Seq(Handler)
      /\ starts[t] \in Nat /\ body[t] \in Nat /\ Sound(strand[t], starts[t], body[t])
  BY DEF TypeOK, Queues, Linked
<1>2. /\ Popped(t) \in Queues /\ Popped(t)[t] = Tail(strand[t])
      /\ \A c \in Tasks \ {t} : Popped(t)[c] = strand[c]
  BY <1>1, PoppedType DEF Popped, Queues
<1>3. /\ Head(strand[t]) \in Handler /\ Has(strand[t], Head(strand[t]))
      /\ \A g : Has(strand[t], g) <=> Has(Tail(strand[t]), g) \/ g = Head(strand[t])
      /\ \A k : HasKind(strand[t], k) <=>
                  HasKind(Tail(strand[t]), k) \/ k = Head(strand[t]).kind
  BY <1>1, TailHas
<1>4. Sound(Tail(strand[t]), starts[t], body[t])
  BY <1>1, TailSound
<1>5. ASSUME NEW c \in Tasks
      PROVE  /\ Sound(Popped(t)[c], starts[c], body[c])
             /\ \A k : HasKind(strand[c], k) <=>
                  HasKind(Popped(t)[c], k) \/ (c = t /\ k = Head(strand[t]).kind)
             /\ \A g : Has(strand[c], g) <=>
                  Has(Popped(t)[c], g) \/ (c = t /\ g = Head(strand[t]))
  <2>1. CASE c = t
    BY <1>2, <1>3, <1>4, <2>1
  <2>2. CASE c # t
    BY <1>2, <2>2 DEF Linked
  <2>3. QED
    BY <2>1, <2>2
<1>6. QED
  BY <1>2, <1>3, <1>5

(* Taking a stop or a signal changes no wait.                              *)
LEMMA TakeSimilar ==
  ASSUME TypeOK, Linked(strand, pc), NEW t \in Tasks, strand[t] # <<>>,
         Head(strand[t]).kind \in {"stop", "emit"}
  PROVE  /\ Popped(t) \in Queues /\ Similar(strand, Popped(t))
         /\ Head(strand[t]).kind = "stop" => Keeps(strand, Popped(t))
<1> DEFINE q == Popped(t)
           h == Head(strand[t])
<1>1. /\ q \in Queues
      /\ \A c \in Tasks :
           /\ Sound(q[c], starts[c], body[c])
           /\ \A k : HasKind(strand[c], k) <=> HasKind(q[c], k) \/ (c = t /\ k = h.kind)
           /\ \A g : Has(strand[c], g) <=> Has(q[c], g) \/ (c = t /\ g = h)
  BY TakeOne
<1> HIDE DEF q, h
<1>2. h.kind \in {"stop", "emit"}
  BY DEF h
<1>3. ASSUME NEW c \in Tasks
      PROVE  /\ Sound(strand[c], starts[c], body[c]) => Sound(q[c], starts[c], body[c])
             /\ HasKind(q[c], "resume") <=> HasKind(strand[c], "resume")
             /\ \A n, u : Has(q[c], StartHandler(n, u)) <=> Has(strand[c], StartHandler(n, u))
             /\ h.kind = "stop" =>
                  \A n : Has(strand[c], EmitHandler(n)) => Has(q[c], EmitHandler(n))
  <2>1. \A n, u : StartHandler(n, u) # h
    BY <1>2, Kinds
  <2>2. h.kind = "stop" => \A n : EmitHandler(n) # h
    BY Kinds
  <2>3. QED
    BY <1>1, <1>2, <2>1, <2>2
<1>4. QED
  BY <1>1, <1>3 DEF Similar, Keeps, q, h

(* A refused or forwarded signal, fired or not, and a stop                 *)
(* (CoroutineTask.hpp:34-52, CancellableSpawn.hpp:26-37).                  *)
LEMMA StopStep ==
  ASSUME WInv, NEW t \in Tasks, CoStop(t)
  PROVE  Linked(strand, pc)' /\ Follow(strand, pc, canceled)'
<1> DEFINE q == Popped(t)
<1>0. /\ TypeOK /\ Linked(strand, pc) /\ Follow(strand, pc, canceled)
      /\ \A u \in Tasks : pc[u] = "child" => child[u] \in Tasks
  BY DEF WInv, IInv, Linked
<1>1. /\ q \in Queues /\ Similar(strand, q) /\ Keeps(strand, q)
  BY <1>0, TakeSimilar DEF CoStop, Turn
<1>2. Linked(q, pc) /\ Follow(q, pc, canceled)
  BY <1>0, <1>1, SimilarLinked, KeepsFollow
<1>3. UNCHANGED <<starts, body, awaiter, child, childStart>>
  BY DEF CoStop
<1> HIDE DEF q
<1>4. CASE strand' = q /\ UNCHANGED <<canceled, pc>>
  BY <1>2, <1>3, <1>4, Unmoved
<1>5. CASE strand' = PostStops(q, m_stopped[t]) /\ UNCHANGED <<canceled, pc>>
  <2>1. Linked(strand', pc) /\ Follow(strand', pc, canceled)
    BY <1>0, <1>1, <1>2, <1>5, StopsSimilar, SimilarLinked, KeepsFollow
  <2>2. QED
    BY <1>3, <1>5, <2>1, Unmoved
<1>6. CASE /\ canceled' = [canceled EXCEPT ![t] = TRUE]
           /\ pc' = Emitted(t)
           /\ strand' = PostStops(PostEmit(q, t), m_stopped[t])
  <2>1. \A u \in Tasks \ {t} : canceled'[u] /\ pc[u] = "child" =>
           \/ body[child[u]] = childStart[u] /\ canceled'[child[u]]
           \/ Has(q[child[u]], EmitHandler(childStart[u]))
    BY <1>0, <1>2, <1>6 DEF Follow, TypeOK
  <2>2. Linked(PostEmit(q, t), pc') /\ Follow(PostEmit(q, t), pc', canceled')
    BY <1>0, <1>1, <1>2, <1>6, <2>1, SignalFires
  <2>3. PostEmit(q, t) \in Queues
    BY <1>0, <1>1, PostEmitType
  <2>4. \A u \in Tasks : pc'[u] = "child" => child[u] \in Tasks
    BY <2>2 DEF Linked
  <2>5. Similar(PostEmit(q, t), strand') /\ Keeps(PostEmit(q, t), strand')
    BY <1>0, <1>6, <2>3, StopsSimilar
  <2>6. Linked(strand', pc') /\ Follow(strand', pc', canceled')
    BY <2>2, <2>4, <2>5, SimilarLinked, KeepsFollow
  <2>7. QED
    BY <1>3, <2>6, Unmoved
<1>7. QED
  BY <1>4, <1>5, <1>6 DEF CoStop, q

(* A signal that is not for the coroutine that runs has nobody waiting     *)
(* behind it; one that is cancels it (CancellableSpawn.hpp:26-37).         *)
LEMMA EmitStep ==
  ASSUME WInv, NEW t \in Tasks, Emit(t)
  PROVE  Linked(strand, pc)' /\ Follow(strand, pc, canceled)'
<1> DEFINE q == Popped(t)
           h == Head(strand[t])
<1>0. /\ TypeOK /\ Linked(strand, pc) /\ Follow(strand, pc, canceled)
      /\ \A u \in Tasks : pc[u] = "child" =>
           /\ child[u] \in Tasks
           /\ \/ Has(strand[child[u]], StartHandler(childStart[u], u))
              \/ body[child[u]] = childStart[u]
  BY DEF WInv, IInv, Linked
<1>1. strand[t] # <<>> /\ h.kind = "emit"
  BY DEF Emit, Turn
<1>2. /\ q \in Queues /\ Similar(strand, q)
      /\ \A c \in Tasks : \A g : Has(strand[c], g) <=> Has(q[c], g) \/ (c = t /\ g = h)
  BY <1>0, <1>1, TakeSimilar, TakeOne
<1>3. Linked(q, pc)
  BY <1>0, <1>2, SimilarLinked
<1>4. UNCHANGED <<starts, body, awaiter, child, childStart>>
  BY DEF Emit
<1>5. ASSUME NEW u \in Tasks, pc[u] = "child", child[u] = t, EmitHandler(childStart[u]) = h
      PROVE  body[t] = h.id
  <2>1. h.id = childStart[u]
    BY <1>5, Kinds
  <2>2. \A i \in DOMAIN strand[t] : strand[t][i].kind = "start" => strand[t][i].id # h.id
    <3>1. /\ strand[t] \in Seq(Handler) /\ starts[t] \in Nat /\ body[t] \in Nat
          /\ Sound(strand[t], starts[t], body[t])
      BY <1>0 DEF TypeOK, Linked
    <3>2. QED
      BY <1>1, <3>1, TailSound
  <2>3. ~Has(strand[t], StartHandler(childStart[u], u))
    BY <2>1, <2>2, Kinds DEF Has
  <2>4. QED
    BY <1>0, <1>5, <2>1, <2>3
<1> HIDE DEF q, h
<1>6. CASE h.id = body[t] /\ canceled' = [canceled EXCEPT ![t] = TRUE]
           /\ pc' = Emitted(t) /\ strand' = PostEmit(q, t)
  <2>1. ASSUME NEW u \in Tasks \ {t}, canceled'[u], pc[u] = "child"
        PROVE  \/ body[child[u]] = childStart[u] /\ canceled'[child[u]]
               \/ Has(q[child[u]], EmitHandler(childStart[u]))
    <3>1. canceled[u] /\ canceled'[t] /\ (canceled[child[u]] => canceled'[child[u]])
      BY <1>0, <1>6, <2>1 DEF TypeOK
    <3>2. CASE body[child[u]] = childStart[u] /\ canceled[child[u]]
      BY <3>1, <3>2
    <3>3. CASE Has(strand[child[u]], EmitHandler(childStart[u]))
      <4>1. Has(q[child[u]], EmitHandler(childStart[u]))
              \/ (child[u] = t /\ EmitHandler(childStart[u]) = h)
        BY <1>0, <1>2, <2>1, <3>3
      <4>2. EmitHandler(childStart[u]) = h => childStart[u] = h.id
        BY Kinds
      <4>3. QED
        BY <1>6, <3>1, <4>1, <4>2
    <3>4. QED
      BY <1>0, <2>1, <3>1, <3>2, <3>3 DEF Follow
  <2>2. Linked(strand', pc') /\ Follow(strand', pc', canceled')
    BY <1>0, <1>2, <1>3, <1>6, <2>1, SignalFires
  <2>3. QED
    BY <1>4, <2>2, Unmoved
<1>7. CASE h.id # body[t] /\ UNCHANGED <<canceled, pc>> /\ strand' = q
  <2>1. Follow(q, pc, canceled)
    BY <1>0, <1>2, <1>5, <1>7 DEF Follow
  <2>2. QED
    BY <1>3, <1>4, <1>7, <2>1, Unmoved
<1>8. QED
  BY <1>6, <1>7 DEF Emit, q, h

(* run() goes on: its completion was the only one (CoroutineTask.hpp:76).  *)
LEMMA ResumeStep ==
  ASSUME WInv, NEW t \in Tasks, Resume(t)
  PROVE  Linked(strand, pc)' /\ Follow(strand, pc, canceled)'
<1> DEFINE q == Popped(t)
           h == Head(strand[t])
<1>0. TypeOK /\ Linked(strand, pc) /\ Follow(strand, pc, canceled)
  BY DEF WInv, IInv
<1>1. strand[t] # <<>> /\ h.kind = "resume" /\ strand' = q
  BY DEF Resume, Turn
<1>2. /\ \A c \in Tasks :
           /\ Sound(q[c], starts[c], body[c])
           /\ \A k : HasKind(strand[c], k) <=> HasKind(q[c], k) \/ (c = t /\ k = h.kind)
           /\ \A g : Has(strand[c], g) <=> Has(q[c], g) \/ (c = t /\ g = h)
  BY <1>0, <1>1, TakeOne
<1>3. ~HasKind(q[t], "resume")
  <2>1. /\ strand[t] \in Seq(Handler) /\ starts[t] \in Nat /\ body[t] \in Nat
        /\ Sound(strand[t], starts[t], body[t]) /\ q[t] = Tail(strand[t])
    BY <1>0 DEF TypeOK, Linked, Popped
  <2>2. QED
    BY <1>1, <2>1, TailSound
<1> HIDE DEF q, h
<1>4. pc[t] = "queued"
  BY <1>0, <1>1, <1>2 DEF Linked
<1>5. /\ UNCHANGED <<starts, body, awaiter, canceled>>
      /\ pc'[t] \in {"unwind", "ready"}
      /\ \A u \in Tasks \ {t} : /\ pc'[u] = pc[u] /\ child'[u] = child[u]
                                /\ childStart'[u] = childStart[u]
  BY <1>0 DEF Resume, TypeOK
<1>6. \A d, u \in Tasks : \A n : Waits(pc, u, d, n) => Waits(pc, u, d, n)'
  BY <1>4, <1>5 DEF Waits
<1>7. \A c \in Tasks : HasKind(q[c], "resume") <=> pc'[c] = "queued"
  BY <1>0, <1>1, <1>2, <1>3, <1>5 DEF Linked
<1>8. \A c, u \in Tasks : \A n :
        Has(q[c], StartHandler(n, u)) <=> Has(strand[c], StartHandler(n, u))
  BY <1>1, <1>2, Kinds
<1>9. \A c \in Tasks : \A n : Has(q[c], EmitHandler(n)) <=> Has(strand[c], EmitHandler(n))
  BY <1>1, <1>2, Kinds
<1>10. \A c \in Tasks : awaiter[c] # NoTask => body[c] # 0 /\ Waits(pc, awaiter[c], c, body[c])'
  <2>1. \A c \in Tasks : awaiter[c] # NoTask =>
          awaiter[c] \in Tasks /\ body[c] # 0 /\ Waits(pc, awaiter[c], c, body[c])
    BY <1>0 DEF Linked, TypeOK
  <2>2. QED
    BY <1>4, <1>5, <2>1 DEF Waits
<1>11. \A u \in Tasks : pc'[u] = "child" =>
         /\ child'[u] \in Tasks
         /\ \/ Has(q[child'[u]], StartHandler(childStart'[u], u))
            \/ awaiter[child'[u]] = u /\ body[child'[u]] = childStart'[u]
  BY <1>0, <1>5, <1>8 DEF Linked
<1>12. Linked(strand, pc)'
  <2>1. \A c, u \in Tasks : \A n \in Nat :
          Has(q[c], StartHandler(n, u)) => Waits(pc, u, c, n)'
    BY <1>0, <1>6, <1>8 DEF Linked
  <2>2. \A c \in Tasks : body[c] <= starts[c] /\ (body[c] # 0 <=> pc'[c] # "none")
    BY <1>0, <1>4, <1>5 DEF Linked
  <2>3. QED
    BY <1>1, <1>2, <1>5, <1>7, <1>10, <1>11, <2>1, <2>2 DEF Linked
<1>13. Follow(strand, pc, canceled)'
  BY <1>0, <1>1, <1>5, <1>9, <1>11 DEF Follow
<1>14. QED
  BY <1>12, <1>13

(* work() of an INITIAL task: the start leaves the strand and the new      *)
(* coroutine knows who awaits it (CoroutineTask.hpp:76-93).                *)
LEMMA WorkStep ==
  ASSUME WInv, NEW t \in Tasks, Work(t)
  PROVE  Linked(strand, pc)' /\ Follow(strand, pc, canceled)'
<1> DEFINE q == Popped(t)
           h == Head(strand[t])
           n == h.id
           w == h.by
<1>0. TypeOK /\ Linked(strand, pc) /\ Follow(strand, pc, canceled)
  BY DEF WInv, IInv
<1>1. strand[t] # <<>> /\ h.kind = "start" /\ strand' = q
  BY DEF Work, Turn
<1>2. /\ Has(strand[t], h)
      /\ \A c \in Tasks :
           /\ Sound(q[c], starts[c], body[c])
           /\ \A k : HasKind(strand[c], k) <=> HasKind(q[c], k) \/ (c = t /\ k = h.kind)
           /\ \A g : Has(strand[c], g) <=> Has(q[c], g) \/ (c = t /\ g = h)
  BY <1>0, <1>1, TakeOne
<1>3. h \in Handler /\ n \in Nat \ {0} /\ w \in Tasks \cup {NoTask} /\ h = StartHandler(n, w)
  <2>1. h \in Handler
    BY <1>0, <1>1, TakeOne
  <2>2. QED
    BY <1>1, <2>1 DEF Handler, StartHandler
<1>4. Sound(q[t], starts[t], n) /\ n <= starts[t]
  <2>1. /\ strand[t] \in Seq(Handler) /\ starts[t] \in Nat /\ body[t] \in Nat
        /\ Sound(strand[t], starts[t], body[t]) /\ q[t] = Tail(strand[t])
    BY <1>0 DEF TypeOK, Linked, Popped
  <2>2. QED
    BY <1>1, <2>1, TailSound
<1>5. body[t] = 0 /\ pc[t] = "none" /\ awaiter[t] = NoTask
  <2>1. body[t] = 0
    BY DEF Work, WInv, Initial
  <2>2. QED
    BY <1>0, <2>1 DEF Linked
<1>6. /\ UNCHANGED <<starts, canceled, child, childStart>>
      /\ pc'[t] = "ready" /\ body'[t] = n /\ awaiter'[t] = w
      /\ \A u \in Tasks \ {t} : /\ pc'[u] = pc[u] /\ body'[u] = body[u]
                                /\ awaiter'[u] = awaiter[u]
  BY <1>0 DEF Work, TypeOK
<1> HIDE DEF q, h, n, w
<1>7. \A d, u \in Tasks : \A m : Waits(pc, u, d, m) => u # t /\ Waits(pc, u, d, m)'
  BY <1>5, <1>6 DEF Waits
<1>8. \A c \in Tasks : HasKind(q[c], "resume") <=> pc'[c] = "queued"
  BY <1>0, <1>1, <1>2, <1>5, <1>6 DEF Linked
<1>9. \A c \in Tasks : \A m : Has(q[c], EmitHandler(m)) <=> Has(strand[c], EmitHandler(m))
  BY <1>1, <1>2, Kinds
<1>10. \A c, u \in Tasks : \A m \in Nat :
          Has(q[c], StartHandler(m, u)) => Waits(pc, u, c, m)'
  BY <1>0, <1>2, <1>7 DEF Linked
<1>11. ASSUME NEW c \in Tasks, awaiter'[c] # NoTask
       PROVE  body'[c] # 0 /\ awaiter'[c] \in Tasks
              /\ pc'[awaiter'[c]] = "child" /\ child'[awaiter'[c]] = c
              /\ childStart'[awaiter'[c]] = body'[c]
  <2>1. CASE c = t
    <3>1. Waits(pc, w, t, n) /\ w \in Tasks
      BY <1>0, <1>2, <1>3, <1>6, <1>11, <2>1 DEF Linked
    <3>2. QED
      BY <1>3, <1>6, <1>7, <2>1, <3>1 DEF Waits
  <2>2. CASE c # t
    <3>1. Waits(pc, awaiter[c], c, body[c]) /\ awaiter[c] \in Tasks /\ body[c] # 0
      BY <1>0, <1>6, <1>11, <2>2 DEF Linked, TypeOK
    <3>2. QED
      BY <1>6, <1>7, <2>2, <3>1 DEF Waits
  <2>3. QED
    BY <2>1, <2>2
<1>12. ASSUME NEW u \in Tasks, pc'[u] = "child"
       PROVE  /\ child[u] \in Tasks /\ pc[u] = "child" /\ u # t
              /\ \/ Has(q[child[u]], StartHandler(childStart[u], u))
                 \/ awaiter'[child[u]] = u /\ body'[child[u]] = childStart[u]
  <2>1. u # t /\ pc[u] = "child" /\ child[u] \in Tasks
    BY <1>0, <1>6, <1>12 DEF Linked
  <2>2. CASE Has(strand[child[u]], StartHandler(childStart[u], u))
    <3>1. Has(q[child[u]], StartHandler(childStart[u], u))
            \/ (child[u] = t /\ StartHandler(childStart[u], u) = h)
      BY <1>2, <2>1, <2>2
    <3>2. StartHandler(childStart[u], u) = h => childStart[u] = n /\ u = w
      BY <1>3, Kinds
    <3>3. QED
      BY <1>6, <2>1, <3>1, <3>2
  <2>3. CASE awaiter[child[u]] = u /\ body[child[u]] = childStart[u]
    <3>1. child[u] # t
      BY <1>5, <2>3, TaskAssumption
    <3>2. QED
      BY <1>6, <2>1, <2>3, <3>1
  <2>4. QED
    BY <1>0, <2>1, <2>2, <2>3 DEF Linked
<1>13. Linked(strand, pc)'
  <2>1. \A c \in Tasks : /\ Sound(q[c], starts[c], body'[c]) /\ body'[c] <= starts[c]
                         /\ body'[c] # 0 <=> pc'[c] # "none"
    BY <1>0, <1>2, <1>3, <1>4, <1>6 DEF Linked
  <2>2. \A c \in Tasks : awaiter'[c] # NoTask =>
          body'[c] # 0 /\ Waits(pc, awaiter[c], c, body[c])'
    BY <1>11 DEF Waits
  <2>3. \A u \in Tasks : pc'[u] = "child" =>
          /\ child'[u] \in Tasks
          /\ \/ Has(q[child'[u]], StartHandler(childStart'[u], u))
             \/ awaiter'[child'[u]] = u /\ body'[child'[u]] = childStart'[u]
    BY <1>6, <1>12
  <2>4. QED
    BY <1>1, <1>6, <1>8, <1>10, <2>1, <2>2, <2>3 DEF Linked
<1>14. Follow(strand, pc, canceled)'
  <2>1. SUFFICES ASSUME NEW u \in Tasks, canceled[u], pc'[u] = "child"
                 PROVE  \/ body'[child[u]] = childStart[u] /\ canceled[child[u]]
                        \/ Has(q[child[u]], EmitHandler(childStart[u]))
    BY <1>1, <1>6 DEF Follow
  <2>2. /\ child[u] \in Tasks /\ pc[u] = "child"
        /\ \/ Has(q[child[u]], StartHandler(childStart[u], u))
           \/ awaiter'[child[u]] = u /\ body'[child[u]] = childStart[u]
    BY <1>12, <2>1
  <2>3. \/ body[child[u]] = childStart[u] /\ canceled[child[u]]
        \/ Has(q[child[u]], EmitHandler(childStart[u]))
    BY <1>0, <1>9, <2>1, <2>2 DEF Follow
  <2>4. body[child[u]] = childStart[u] => body'[child[u]] = childStart[u]
    <3>1. CASE child[u] = t /\ body[t] = childStart[u]
      <4>1. ~Has(q[t], StartHandler(childStart[u], u))
        BY <1>2, <3>1, Kinds DEF Has, Sound
      <4>2. QED
        BY <2>2, <3>1, <4>1
    <3>2. QED
      BY <1>6, <2>2, <3>1
  <2>5. QED
    BY <2>3, <2>4
<1>15. QED
  BY <1>13, <1>14

(* work() of a task that is not INITIAL: whoever awaits the start has its  *)
(* only completion (CoroutineTask.hpp:76-80).                              *)
LEMMA RefuseStep ==
  ASSUME WInv, NEW t \in Tasks, Refuse(t)
  PROVE  Linked(strand, pc)' /\ Follow(strand, pc, canceled)'
<1> DEFINE q == Popped(t)
           h == Head(strand[t])
           n == h.id
           w == h.by
<1>0. TypeOK /\ Linked(strand, pc) /\ Follow(strand, pc, canceled)
  BY DEF WInv, IInv
<1>1. /\ strand[t] # <<>> /\ h.kind = "start"
      /\ strand' = PostCompletion(q, w, "error") /\ pc' = Completed(w)
      /\ UNCHANGED <<starts, body, awaiter, canceled, child, childStart>>
  BY DEF Refuse, Turn
<1>2. /\ q \in Queues /\ Has(strand[t], h)
      /\ \A c \in Tasks :
           /\ Sound(q[c], starts[c], body[c])
           /\ \A k : HasKind(strand[c], k) <=> HasKind(q[c], k) \/ (c = t /\ k = h.kind)
           /\ \A g : Has(strand[c], g) <=> Has(q[c], g) \/ (c = t /\ g = h)
  BY <1>0, <1>1, TakeOne
<1>3. n \in Nat \ {0} /\ w \in Tasks \cup {NoTask} /\ h = StartHandler(n, w)
  <2>1. h \in Handler
    BY <1>0, <1>1, TakeOne
  <2>2. QED
    BY <1>1, <2>1 DEF Handler, StartHandler
<1>4. Sound(q[t], starts[t], n) /\ n # body[t]
  <2>1. /\ strand[t] \in Seq(Handler) /\ starts[t] \in Nat /\ body[t] \in Nat
        /\ Sound(strand[t], starts[t], body[t]) /\ q[t] = Tail(strand[t])
    BY <1>0 DEF TypeOK, Linked, Popped
  <2>2. Sound(q[t], starts[t], n)
    BY <1>1, <2>1, TailSound
  <2>3. n # body[t]
    BY <1>1, <1>2, <2>1 DEF Has, Sound
  <2>4. QED
    BY <2>2, <2>3
<1> HIDE DEF q, h, n, w
<1>5. \A c \in Tasks : HasKind(q[c], "resume") <=> pc[c] = "queued"
  BY <1>0, <1>1, <1>2 DEF Linked
<1>6. \A c, u \in Tasks : \A m : StartHandler(m, u) # h =>
        (Has(q[c], StartHandler(m, u)) <=> Has(strand[c], StartHandler(m, u)))
  BY <1>2
<1>7. Keeps(strand, q)
  BY <1>1, <1>2, Kinds DEF Keeps
<1>8. CASE w = NoTask
  <2>1. strand' = q /\ pc' = pc
    BY <1>1, <1>8 DEF PostCompletion, Completed
  <2>2. \A u \in Tasks : \A m : StartHandler(m, u) # h
    BY <1>3, <1>8, Kinds, TaskAssumption
  <2>3. ASSUME NEW c \in Tasks
        PROVE  /\ Sound(q[c], starts[c], body[c]) /\ body[c] <= starts[c]
               /\ HasKind(q[c], "resume") <=> pc[c] = "queued"
               /\ \A u \in Tasks : \A m :
                    Has(q[c], StartHandler(m, u)) <=> Has(strand[c], StartHandler(m, u))
    BY <1>0, <1>2, <1>5, <1>6, <2>2 DEF Linked
  <2>4. Linked(q, pc)
    BY <1>0, <2>3 DEF Linked
  <2>5. Follow(q, pc, canceled)
    BY <1>0, <1>7, KeepsFollow DEF Linked
  <2>6. QED
    BY <1>1, <2>1, <2>4, <2>5, Unmoved
<1>9. CASE w \in Tasks
  <2>1. Waits(pc, w, t, n)
    BY <1>0, <1>2, <1>3, <1>9 DEF Linked
  <2>2. /\ strand' = Post(q, w, ResumeHandler("error"))
        /\ \A u \in Tasks : pc'[u] = IF u = w THEN "queued" ELSE pc[u]
    BY <1>0, <1>1, <1>9, TaskAssumption DEF PostCompletion, Completed, TypeOK
  <2>3. ~HasKind(q[w], "resume")
    BY <1>5, <1>9, <2>1 DEF Waits
  <2>4. /\ Keeps(q, strand')
        /\ \A c \in Tasks :
             /\ Sound(q[c], starts[c], body[c]) => Sound(strand'[c], starts[c], body[c])
             /\ HasKind(strand'[c], "resume") <=> c = w \/ HasKind(q[c], "resume")
             /\ \A m, u :
                  Has(strand'[c], StartHandler(m, u)) <=> Has(q[c], StartHandler(m, u))
    BY <1>0, <1>2, <1>9, <2>2, <2>3, ResumePosted DEF TypeOK, Codes
  <2>5. ASSUME NEW c \in Tasks, NEW m \in Nat PROVE ~Has(q[c], StartHandler(m, w))
    <3>1. SUFFICES ASSUME Has(q[c], StartHandler(m, w)) PROVE FALSE
      OBVIOUS
    <3>2. Waits(pc, w, c, m)
      BY <1>0, <1>2, <1>9, <3>1 DEF Linked
    <3>3. c = t /\ m = n
      BY <2>1, <3>2 DEF Waits
    <3>4. QED
      BY <1>4, <3>1, <3>3, Kinds DEF Has, Sound
  <2>6. ASSUME NEW c \in Tasks, awaiter[c] # NoTask
        PROVE  /\ body[c] # 0 /\ awaiter[c] \in Tasks /\ awaiter[c] # w
               /\ Waits(pc, awaiter[c], c, body[c])
    <3>1. /\ body[c] # 0 /\ awaiter[c] \in Tasks
          /\ Waits(pc, awaiter[c], c, body[c])
      BY <1>0, <2>6 DEF Linked, TypeOK
    <3>2. awaiter[c] # w
      BY <1>4, <2>1, <3>1 DEF Waits
    <3>3. QED
      BY <3>1, <3>2
  <2>7. ASSUME NEW u \in Tasks, pc'[u] = "child"
        PROVE  /\ child[u] \in Tasks /\ pc[u] = "child" /\ u # w
               /\ \/ Has(q[child[u]], StartHandler(childStart[u], u))
                  \/ awaiter[child[u]] = u /\ body[child[u]] = childStart[u]
    <3>1. u # w /\ pc[u] = "child"
      BY <2>2, <2>7
    <3>2. StartHandler(childStart[u], u) # h
      BY <1>3, <3>1, Kinds
    <3>3. QED
      BY <1>0, <1>6, <3>1, <3>2 DEF Linked
  <2>8. Linked(strand', pc')
    <3>1. \A c \in Tasks : /\ Sound(strand'[c], starts[c], body[c]) /\ body[c] <= starts[c]
                           /\ body[c] # 0 <=> pc'[c] # "none"
      BY <1>0, <1>2, <2>1, <2>2, <2>4 DEF Linked, Waits
    <3>2. \A c \in Tasks : HasKind(strand'[c], "resume") <=> pc'[c] = "queued"
      BY <1>5, <2>2, <2>4
    <3>3. \A c, u \in Tasks : \A m \in Nat :
            Has(strand'[c], StartHandler(m, u)) => Waits(pc', u, c, m)
      <4>1. SUFFICES ASSUME NEW c \in Tasks, NEW u \in Tasks, NEW m \in Nat,
                            Has(strand'[c], StartHandler(m, u))
                     PROVE  Waits(pc', u, c, m)
        OBVIOUS
      <4>2. Has(q[c], StartHandler(m, u)) /\ u # w
        BY <2>4, <2>5, <4>1
      <4>3. Waits(pc, u, c, m)
        BY <1>0, <1>2, <4>2 DEF Linked
      <4>4. QED
        BY <2>2, <4>2, <4>3 DEF Waits
    <3>4. \A c \in Tasks : awaiter[c] # NoTask =>
            body[c] # 0 /\ Waits(pc', awaiter[c], c, body[c])
      BY <2>2, <2>6 DEF Waits
    <3>5. \A u \in Tasks : pc'[u] = "child" =>
            /\ child[u] \in Tasks
            /\ \/ Has(strand'[child[u]], StartHandler(childStart[u], u))
               \/ awaiter[child[u]] = u /\ body[child[u]] = childStart[u]
      BY <2>4, <2>7
    <3>6. QED
      BY <3>1, <3>2, <3>3, <3>4, <3>5 DEF Linked
  <2>9. Follow(strand', pc', canceled')
    BY <1>0, <1>1, <1>7, <2>4, <2>7 DEF Follow, Keeps
  <2>10. QED
    BY <1>1, <2>8, <2>9, Unmoved
<1>10. QED
  BY <1>3, <1>8, <1>9

-----------------------------------------------------------------------------
(* The end of a coroutine.                                                 *)

(* Its awaiter, if there is one, waits for it and gets its only            *)
(* completion (CoroutineTask.hpp:82-107).                                  *)
LEMMA EndStep ==
  ASSUME WInv, NEW t \in Tasks, pc[t] \in {"ready", "unwind"}, NEW ec \in Codes,
         NEW q \in Queues, Similar(strand, q), Keeps(strand, q),
         End(t), strand' = PostCompletion(q, awaiter[t], ec),
         UNCHANGED <<starts, child, childStart>>
  PROVE  Linked(strand, pc)' /\ Follow(strand, pc, canceled)'
<1> DEFINE w == awaiter[t]
           b == body[t]
<1>0. /\ TypeOK /\ Linked(q, pc) /\ Follow(q, pc, canceled)
      /\ w \in Tasks \cup {NoTask} /\ b \in Nat
  <2>1. Linked(strand, pc) /\ \A u \in Tasks : pc[u] = "child" => child[u] \in Tasks
    BY DEF WInv, Linked
  <2>2. TypeOK /\ Follow(strand, pc, canceled)
    BY DEF WInv, IInv
  <2>3. Linked(q, pc) /\ Follow(q, pc, canceled)
    BY <2>1, <2>2, SimilarLinked, KeepsFollow
  <2>4. QED
    BY <2>2, <2>3 DEF TypeOK
<1>1. /\ body'[t] = 0 /\ awaiter'[t] = NoTask /\ ~canceled'[t] /\ pc'[t] = "none"
      /\ \A u \in Tasks \ {t} :
           /\ body'[u] = body[u] /\ awaiter'[u] = awaiter[u] /\ canceled'[u] = canceled[u]
           /\ pc'[u] = IF u = w THEN "queued" ELSE pc[u]
  BY <1>0, TaskAssumption DEF End, Completed, TypeOK
<1>2. w \in Tasks => Waits(pc, w, t, b) /\ w # t /\ b # 0
  BY <1>0, TaskAssumption DEF Linked, Waits
<1> HIDE DEF w, b
<1>3. /\ Keeps(q, strand')
      /\ \A c \in Tasks :
           /\ \A m \in Nat : Sound(q[c], starts[c], m) => Sound(strand'[c], starts[c], m)
           /\ HasKind(strand'[c], "resume") <=> c = w \/ HasKind(q[c], "resume")
           /\ \A m, u : Has(strand'[c], StartHandler(m, u)) <=> Has(q[c], StartHandler(m, u))
  <2>1. CASE w = NoTask
    <3>1. strand' = q
      BY <2>1 DEF w, PostCompletion
    <3>2. QED
      BY <2>1, <3>1, TaskAssumption DEF Keeps
  <2>2. CASE w \in Tasks
    <3>1. strand' = Post(q, w, ResumeHandler(ec))
      BY <2>2, TaskAssumption DEF w, PostCompletion
    <3>2. ~HasKind(q[w], "resume")
      BY <1>0, <1>2, <2>2 DEF Linked, Waits
    <3>3. QED
      BY <1>0, <2>2, <3>1, <3>2, ResumePosted
  <2>3. QED
    BY <1>0, <2>1, <2>2
<1>4. ASSUME NEW c \in Tasks, NEW m \in Nat, NEW u \in Tasks,
             Has(q[c], StartHandler(m, u))
      PROVE  /\ Waits(pc, u, c, m) /\ u # t /\ u # w
             /\ ~(c = t /\ m = b)
  <2>1. Waits(pc, u, c, m)
    BY <1>0, <1>4 DEF Linked
  <2>2. ~(c = t /\ m = b)
    <3>1. Sound(q[t], starts[t], b)
      BY <1>0 DEF Linked, b
    <3>2. QED
      BY <1>4, <3>1, Kinds DEF Has, Sound
  <2>3. u # t
    BY <2>1 DEF Waits
  <2>4. u # w
    BY <1>2, <2>1, <2>2 DEF Waits
  <2>5. QED
    BY <2>1, <2>2, <2>3, <2>4
<1>5. ASSUME NEW c \in Tasks, c # t, awaiter[c] # NoTask
      PROVE  /\ body[c] # 0 /\ awaiter[c] \in Tasks \ {t, w}
             /\ Waits(pc, awaiter[c], c, body[c])
  <2>1. /\ body[c] # 0 /\ awaiter[c] \in Tasks
        /\ Waits(pc, awaiter[c], c, body[c])
    BY <1>0, <1>5 DEF Linked, TypeOK
  <2>2. awaiter[c] # t /\ awaiter[c] # w
    BY <1>2, <1>5, <2>1 DEF Waits
  <2>3. QED
    BY <2>1, <2>2
<1>6. ASSUME NEW u \in Tasks, pc'[u] = "child"
      PROVE  /\ child[u] \in Tasks /\ pc[u] = "child" /\ u # t /\ u # w
             /\ \/ Has(q[child[u]], StartHandler(childStart[u], u))
                \/ /\ child[u] # t
                   /\ awaiter[child[u]] = u /\ body[child[u]] = childStart[u]
  <2>1. u # t /\ u # w /\ pc[u] = "child" /\ child[u] \in Tasks
    BY <1>0, <1>1, <1>6 DEF Linked
  <2>2. child[u] = t => awaiter[child[u]] # u
    BY <2>1 DEF w
  <2>3. QED
    BY <1>0, <2>1, <2>2 DEF Linked
<1>7. Linked(strand, pc)'
  <2>1. \A c \in Tasks : /\ Sound(strand'[c], starts[c], body'[c]) /\ body'[c] <= starts[c]
                         /\ body'[c] # 0 <=> pc'[c] # "none"
    <3>1. SUFFICES ASSUME NEW c \in Tasks
                   PROVE  /\ Sound(strand'[c], starts[c], body'[c]) /\ body'[c] <= starts[c]
                          /\ body'[c] # 0 <=> pc'[c] # "none"
      OBVIOUS
    <3>2. /\ Sound(q[c], starts[c], body[c]) /\ body[c] <= starts[c]
          /\ body[c] # 0 <=> pc[c] # "none"
          /\ q[c] \in Seq(Handler) /\ starts[c] \in Nat /\ body[c] \in Nat
      BY <1>0 DEF Linked, TypeOK, Queues
    <3>3. CASE c = t
      <4>1. Sound(q[c], starts[c], 0)
        BY <3>2, SoundZero
      <4>2. Sound(strand'[c], starts[c], 0)
        BY <1>3, <4>1
      <4>3. body'[c] = 0 /\ pc'[c] = "none"
        BY <1>1, <3>3
      <4>4. QED
        BY <3>2, <4>2, <4>3
    <3>4. CASE c # t
      <4>1. c = w => pc[c] = "child"
        BY <1>2 DEF Waits
      <4>2. QED
        BY <1>1, <1>3, <3>2, <3>4, <4>1
    <3>5. QED
      BY <3>3, <3>4
  <2>2. \A c \in Tasks : HasKind(strand'[c], "resume") <=> pc'[c] = "queued"
    <3>1. \A c \in Tasks : HasKind(q[c], "resume") <=> pc[c] = "queued"
      BY <1>0 DEF Linked
    <3>2. QED
      BY <1>1, <1>2, <1>3, <3>1
  <2>3. \A c, u \in Tasks : \A m \in Nat :
          Has(strand'[c], StartHandler(m, u)) => Waits(pc, u, c, m)'
    <3>1. SUFFICES ASSUME NEW c \in Tasks, NEW u \in Tasks, NEW m \in Nat,
                          Has(strand'[c], StartHandler(m, u))
                   PROVE  Waits(pc, u, c, m)'
      OBVIOUS
    <3>2. Has(q[c], StartHandler(m, u))
      BY <1>3, <3>1
    <3>3. Waits(pc, u, c, m) /\ u # t /\ u # w
      BY <1>4, <3>2
    <3>4. QED
      BY <1>1, <3>3 DEF Waits
  <2>4. \A c \in Tasks : awaiter'[c] # NoTask =>
          body'[c] # 0 /\ Waits(pc, awaiter[c], c, body[c])'
    <3>1. SUFFICES ASSUME NEW c \in Tasks, awaiter'[c] # NoTask
                   PROVE  body'[c] # 0 /\ Waits(pc, awaiter[c], c, body[c])'
      OBVIOUS
    <3>2. c # t /\ awaiter[c] # NoTask /\ awaiter'[c] = awaiter[c] /\ body'[c] = body[c]
      BY <1>1, <3>1
    <3>3. /\ body[c] # 0 /\ awaiter[c] \in Tasks \ {t, w}
          /\ Waits(pc, awaiter[c], c, body[c])
      BY <1>5, <3>2
    <3>4. QED
      BY <1>1, <3>2, <3>3 DEF Waits
  <2>5. \A u \in Tasks : pc'[u] = "child" =>
          /\ child'[u] \in Tasks
          /\ \/ Has(strand'[child'[u]], StartHandler(childStart'[u], u))
             \/ awaiter'[child'[u]] = u /\ body'[child'[u]] = childStart'[u]
    BY <1>1, <1>3, <1>6
  <2>6. starts' = starts
    OBVIOUS
  <2>7. QED
    BY <2>1, <2>2, <2>3, <2>4, <2>5, <2>6 DEF Linked
<1>8. Follow(strand, pc, canceled)'
  <2>1. SUFFICES ASSUME NEW u \in Tasks, canceled'[u], pc'[u] = "child"
                 PROVE  \/ body'[child[u]] = childStart[u] /\ canceled'[child[u]]
                        \/ Has(strand'[child[u]], EmitHandler(childStart[u]))
    BY DEF Follow
  <2>2. /\ child[u] \in Tasks /\ pc[u] = "child" /\ u # t
        /\ \/ Has(q[child[u]], StartHandler(childStart[u], u))
           \/ child[u] # t
    BY <1>6, <2>1
  <2>3. \/ body[child[u]] = childStart[u] /\ canceled[child[u]]
        \/ Has(q[child[u]], EmitHandler(childStart[u]))
    BY <1>0, <1>1, <2>1, <2>2 DEF Follow
  <2>4. child[u] = t => childStart[u] # b
    <3>1. childStart[u] \in Nat
      BY <1>0 DEF TypeOK
    <3>2. QED
      BY <1>4, <2>2, <3>1
  <2>5. QED
    BY <1>1, <1>3, <2>2, <2>3, <2>4 DEF Keeps, b
<1>9. QED
  BY <1>7, <1>8

(* A coroutine that returns or throws, and one that operation_canceled     *)
(* leaves (CoroutineTask.hpp:82-107).                                      *)
LEMMA FinishStep ==
  ASSUME WInv, NEW t \in Tasks,
         (\E ec \in {"ok", "error"} : Finish(t, ec)) \/ Unwind(t)
  PROVE  Linked(strand, pc)' /\ Follow(strand, pc, canceled)'
<1>0. TypeOK /\ strand \in Queues
  BY DEF WInv, IInv, TypeOK, Queues
<1>1. Similar(strand, strand) /\ Keeps(strand, strand)
  BY DEF Similar, Keeps
<1>2. ASSUME NEW ec \in {"ok", "error"}, Finish(t, ec)
      PROVE  Linked(strand, pc)' /\ Follow(strand, pc, canceled)'
  BY <1>0, <1>1, <1>2, EndStep DEF Finish, Codes
<1>3. CASE Unwind(t)
  <2>1. PICK q \in {strand, PostStops(strand, m_stopped[t])} :
          strand' = PostCompletion(q, awaiter[t], "canceled")
    BY <1>3 DEF Unwind
  <2>2. q \in Queues /\ Similar(strand, q) /\ Keeps(strand, q)
    BY <1>0, <1>1, <2>1, StopsSimilar, PostStopsType
  <2>3. QED
    BY <1>3, <2>1, <2>2, EndStep DEF Unwind, Codes
<1>4. QED
  BY <1>2, <1>3

-----------------------------------------------------------------------------
(* The whole.                                                              *)

(* Every step keeps the links and the signals.                             *)
LEMMA WaitStep == WInv /\ [Next]_vars => WInv'
<1> SUFFICES ASSUME WInv, [Next]_vars PROVE WInv'
  OBVIOUS
<1>1. IInv'
  BY StepIInv DEF WInv
<1>2. Initial'
  <2>1. \A t \in Tasks : m_state[t] = "INITIAL" => body[t] = 0
    BY DEF WInv, Initial
  <2>2. ASSUME NEW t \in Tasks, Work(t) PROVE Initial'
    <3>1. /\ m_state' = [m_state EXCEPT ![t] = "RUNNING"]
          /\ \A u \in Tasks \ {t} : body'[u] = body[u]
      BY <2>2 DEF Work, WInv, IInv, TypeOK
    <3>2. QED
      BY <2>1, <3>1 DEF Initial, WInv, IInv, TypeOK
  <2>3. ASSUME NEW t \in Tasks,
               CoStop(t) \/ (\E ec \in {"ok", "error"} : Finish(t, ec)) \/ Unwind(t)
        PROVE  Initial'
    <3>1. body' = body \/ body' = [body EXCEPT ![t] = 0]
      BY <2>3 DEF CoStop, Finish, Unwind, End
    <3>2. m_state' = m_state \/ \E s \in {"STOPPED", "DONE"} : m_state' = [m_state EXCEPT ![t] = s]
      BY <2>3 DEF CoStop, Finish, Unwind
    <3>3. QED
      BY <2>1, <3>1, <3>2 DEF Initial, WInv, IInv, TypeOK
  <2>4. ASSUME UNCHANGED <<m_state, body>> PROVE Initial'
    BY <2>1, <2>4 DEF Initial
  <2>5. ASSUME NEW t \in Tasks,
               \/ Start(t) \/ Stop(t) \/ Refuse(t) \/ Emit(t) \/ Resume(t) \/ AwaitOp(t)
               \/ \E ec \in {"ok", "error"} : Complete(t, ec)
               \/ \E c \in Awaits[t] : AwaitTask(t, c)
               \/ \E c \in Registers[t] : RegisterStop(t, c)
        PROVE  UNCHANGED <<m_state, body>>
    BY <2>5 DEF Start, Stop, Refuse, Emit, Resume, AwaitOp, Complete, AwaitTask, RegisterStop
  <2>6. UNCHANGED vars => UNCHANGED <<m_state, body>>
    BY DEF vars
  <2>7. QED
    BY <2>2, <2>3, <2>4, <2>5, <2>6 DEF Next, Handle, Run
<1>3. Linked(strand, pc)' /\ Follow(strand, pc, canceled)'
  <2>1. ASSUME NEW t \in Tasks, NEW c \in Registers[t], RegisterStop(t, c)
        PROVE  Linked(strand, pc)' /\ Follow(strand, pc, canceled)'
    <3>1. c \in Tasks
      BY TaskAssumption
    <3>2. QED
      BY <2>1, <3>1, DetachedStep DEF RegisterStop
  <2>2. ASSUME NEW t \in Tasks, NEW c \in Awaits[t], AwaitTask(t, c)
        PROVE  Linked(strand, pc)' /\ Follow(strand, pc, canceled)'
    <3>1. c \in Tasks
      BY TaskAssumption
    <3>2. QED
      BY <2>2, <3>1, AwaitTaskStep
  <2>3. CASE UNCHANGED vars
    BY <2>3 DEF vars, WInv, Linked, Follow, Waits
  <2>4. QED
    BY <2>1, <2>2, <2>3, UserStep, StopStep, EmitStep, ResumeStep, WorkStep, RefuseStep,
       FinishStep DEF Next, Handle, Run
<1>4. QED
  BY <1>1, <1>2, <1>3 DEF WInv

(* Initially nobody waits.                                                 *)
LEMMA InitWait == Init => WInv
<1> SUFFICES ASSUME Init PROVE WInv
  OBVIOUS
<1>1. IInv
  BY InitType DEF Init, IInv, Cancellable, StopCancels
<1>2. \A t \in Tasks : DOMAIN strand[t] = {}
  <2>1. \A t \in Tasks : strand[t] = <<>>
    BY DEF Init
  <2>2. DOMAIN <<>> = {}
    OBVIOUS
  <2>3. QED
    BY <2>1, <2>2
<1>3. Initial /\ Linked(strand, pc) /\ Follow(strand, pc, canceled)
  <2>1. \A t \in Tasks : /\ Sound(strand[t], starts[t], body[t])
                         /\ \A k : ~HasKind(strand[t], k)
                         /\ \A h : ~Has(strand[t], h)
    BY <1>2 DEF Sound, Has, HasKind
  <2>2. \A t \in Tasks : /\ body[t] = 0 /\ starts[t] = 0 /\ pc[t] = "none"
                         /\ awaiter[t] = NoTask
    BY DEF Init
  <2>3. Linked(strand, pc)
    BY <2>1, <2>2 DEF Linked
  <2>4. Initial /\ Follow(strand, pc, canceled)
    BY <2>2 DEF Initial, Follow
  <2>5. QED
    BY <2>3, <2>4
<1>4. QED
  BY <1>1, <1>3 DEF WInv

(* Whoever awaits a task waits for a start that is queued or for the       *)
(* coroutine that runs, and hears of it once (CancellableSpawn.hpp:22-48). *)
THEOREM WaitInductive == Spec => []WInv
BY InitWait, WaitStep, PTL DEF Spec

(* A coroutine waits for exactly one resumption                            *)
(* (CancellableSpawn.hpp:47-48).                                           *)
THEOREM OneResumptionHolds == Spec => []OneResumption
<1>1. WInv => OneResumption
  <2> SUFFICES ASSUME WInv, NEW t \in Tasks
               PROVE  LET r == {i \in 1..Len(strand[t]) : strand[t][i].kind = "resume"}
                      IN  /\ \A i, j \in r : i = j
                          /\ r # {} <=> pc[t] = "queued"
    BY DEF OneResumption
  <2>1. DOMAIN strand[t] = 1..Len(strand[t])
    BY DEF WInv, IInv, TypeOK
  <2>2. /\ Sound(strand[t], starts[t], body[t])
        /\ HasKind(strand[t], "resume") <=> pc[t] = "queued"
    BY DEF WInv, Linked
  <2>3. QED
    BY <2>1, <2>2 DEF Sound, HasKind
<1>2. QED
  BY <1>1, WaitInductive, PTL

(* A fired signal follows the chain of awaits (CancellableSpawn.hpp:26-37).*)
THEOREM CancelFollowsAwaitHolds == Spec => []CancelFollowsAwait
<1>1. WInv => CancelFollowsAwait
  <2> SUFFICES ASSUME WInv, NEW t \in Tasks, canceled[t], pc[t] = "child"
               PROVE  \/ body[child[t]] = childStart[t] /\ canceled[child[t]]
                      \/ \E i \in 1..Len(strand[child[t]]) :
                           strand[child[t]][i] = EmitHandler(childStart[t])
    BY DEF CancelFollowsAwait
  <2>1. child[t] \in Tasks
    BY DEF WInv, Linked
  <2>2. DOMAIN strand[child[t]] = 1..Len(strand[child[t]])
    BY <2>1 DEF WInv, IInv, TypeOK
  <2>3. QED
    BY <2>2 DEF WInv, Follow, Has
<1>2. QED
  BY <1>1, WaitInductive, PTL

(* Each task lives the life that TaskLifecycle promises, whatever the      *)
(* strands, the signals and the other tasks do (CoroutineTask.hpp:34-107). *)
THEOREM ImplementsLifecycle == Spec => LifecycleSpec
<1> DEFINE runs == [t \in Tasks |-> body[t] # 0]
<1>1. Init => Lifecycle!Init
  BY DEF Init, Lifecycle!Init
<1>2. WInv /\ [Next]_vars => [Lifecycle!Next]_<<m_state, runs>>
  <2> SUFFICES ASSUME WInv, [Next]_vars
               PROVE  Lifecycle!Next \/ UNCHANGED <<m_state, runs>>
    OBVIOUS
  <2>0. /\ m_state \in [Tasks -> States] /\ body \in [Tasks -> Nat]
        /\ \A t \in Tasks : body[t] # 0 <=> pc[t] # "none"
    BY DEF WInv, IInv, TypeOK, Linked
  <2>1. ASSUME NEW t \in Tasks, Work(t) PROVE Lifecycle!Enter(t)
    <3>1. Head(strand[t]).id # 0
      BY <2>1, HeadType DEF WInv, IInv, TypeOK, Queues, Work, Turn
    <3>2. runs' = [runs EXCEPT ![t] = TRUE]
      BY <2>0, <2>1, <3>1 DEF Work
    <3>3. QED
      BY <2>1, <3>2 DEF Work, Lifecycle!Enter
  <2>2. ASSUME NEW t \in Tasks, CoStop(t)
        PROVE  Lifecycle!Stop(t) \/ UNCHANGED <<m_state, runs>>
    BY <2>2 DEF CoStop, Lifecycle!Stop
  <2>3. ASSUME NEW t \in Tasks, (\E ec \in {"ok", "error"} : Finish(t, ec)) \/ Unwind(t)
        PROVE  Lifecycle!Leave(t) \/ Lifecycle!Abort(t)
    <3>1. runs[t] /\ runs' = [runs EXCEPT ![t] = FALSE]
      BY <2>0, <2>3 DEF Finish, Unwind, End
    <3>2. \/ m_state' = [m_state EXCEPT ![t] = IF @ = "STOPPED" THEN "STOPPED" ELSE "DONE"]
          \/ m_state' = [m_state EXCEPT ![t] = "STOPPED"]
      BY <2>0, <2>3 DEF Finish, Unwind
    <3>3. QED
      BY <3>1, <3>2 DEF Lifecycle!Leave, Lifecycle!Abort
  <2>4. ASSUME NEW t \in Tasks,
               \/ Start(t) \/ Stop(t) \/ Refuse(t) \/ Emit(t) \/ Resume(t) \/ AwaitOp(t)
               \/ \E ec \in {"ok", "error"} : Complete(t, ec)
               \/ \E c \in Awaits[t] : AwaitTask(t, c)
               \/ \E c \in Registers[t] : RegisterStop(t, c)
        PROVE  UNCHANGED <<m_state, body>>
    BY <2>4 DEF Start, Stop, Refuse, Emit, Resume, AwaitOp, Complete, AwaitTask, RegisterStop
  <2>5. UNCHANGED <<m_state, body>> => UNCHANGED <<m_state, runs>>
    OBVIOUS
  <2>6. UNCHANGED vars => UNCHANGED <<m_state, body>>
    BY DEF vars
  <2>7. QED
    BY <2>1, <2>2, <2>3, <2>4, <2>5, <2>6 DEF Next, Handle, Run, Lifecycle!Next
<1>3. QED
  BY <1>1, <1>2, WaitInductive, PTL DEF Spec, LifecycleSpec, Lifecycle!Spec
=============================================================================
