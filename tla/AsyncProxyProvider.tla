------------------------- MODULE AsyncProxyProvider -------------------------
(***************************************************************************)
(* An AsyncProxyProvider matches sessions that arrive by asyncResponse()   *)
(* with the calls of get() that wait for a session of that class.          *)
(*                                                                         *)
(* All of its code runs on its strand, a FIFO of the handlers              *)
(*   get        the coroutine of a get() begins                            *)
(*   cancel     its cancellation signal, from whoever awaits it            *)
(*   response   the lambda posted by asyncResponse                         *)
(*   resume     completion of what the coroutine awaits: the delegate's    *)
(*              startAsyncRequest, then co_wait() of the request's event   *)
(*                                                                         *)
(* An AwaitableEvent whose executor is this strand is a flag and, while    *)
(* "pending", one linked operation.                                        *)
(***************************************************************************)
EXTENDS FiniteSets, Naturals, SequencesExt

CONSTANTS
  Requests,     \* calls of get(); also their TRequest
  Responses,    \* sessions given to asyncResponse()
  Classes,      \* TSessionClass
  Class,        \* what the delegate classifies requests and responses as
  None

ASSUME ProviderAssumption ==
  /\ Class \in [Requests \cup Responses -> Classes]
  /\ Requests \cap Responses = {}
  /\ None \notin Responses
  /\ {"no", "null", "canceled"} \cap (Responses \cup {None}) = {}

VARIABLES
  m_requests,   \* per class, the linked requests, oldest first
  second,       \* TRequest::second
  m_set,        \* m_set of TRequest::event
  pc,           \* get(): "idle", "posted", awaits "start" or "wait", "over"
  pending,      \* what it awaits has not completed
  canceled,     \* its signal has fired
  result,       \* how it ended
  called,       \* the get()s that were canceled and the responses that came
  strand,
  arrived,      \* the requests in the order in which they were linked
  dropped       \* the responses that no request waited for

request == <<pc, pending, canceled, result>>
history == <<arrived, dropped>>
vars == <<m_requests, second, m_set, request, called, strand, history>>

Live(r) == pc[r] \in {"start", "wait"}

Handler(k, x, c) == [kind |-> k, of |-> x, ec |-> c]

Handlers ==
  {Handler(k, r, "none") : k \in {"get", "cancel"}, r \in Requests}
    \cup {Handler("response", s, "none") : s \in Responses}
    \cup {Handler("resume", r, c) : r \in Requests, c \in {"ok", "no", "canceled"}}

TypeOK ==
  /\ m_requests \in [Classes -> Seq(Requests)]
  /\ second \in [Requests -> Responses \cup {None}]
  /\ m_set \in [Requests -> BOOLEAN]
  /\ pc \in [Requests -> {"idle", "posted", "start", "wait", "over"}]
  /\ pending \in [Requests -> BOOLEAN]
  /\ canceled \in [Requests -> BOOLEAN]
  /\ result \in [Requests -> Responses \cup {None, "no", "null", "canceled"}]
  /\ called \subseteq Requests \cup Responses
  /\ strand \in Seq(Handlers)
  /\ arrived \in Seq(Requests)
  /\ dropped \subseteq Responses

Init ==
  /\ m_requests = [c \in Classes |-> <<>>]
  /\ second = [r \in Requests |-> None]
  /\ m_set = [r \in Requests |-> FALSE]
  /\ pc = [r \in Requests |-> "idle"]
  /\ pending = [r \in Requests |-> FALSE]
  /\ canceled = [r \in Requests |-> FALSE]
  /\ result = [r \in Requests |-> None]
  /\ called = {}
  /\ strand = <<>>
  /\ arrived = <<>>
  /\ dropped = {}

-----------------------------------------------------------------------------
(* Calls from other strands, and the delegate.                             *)

Call(r) ==
  /\ pc[r] = "idle"
  /\ pc' = [pc EXCEPT ![r] = "posted"]
  /\ strand' = Append(strand, Handler("get", r, "none"))
  /\ UNCHANGED <<m_requests, second, m_set, pending, canceled, result, called, history>>

(* Whoever awaits the get() is canceled or does not wait any longer.       *)
Cancel(r) ==
  /\ pc[r] \notin {"idle", "over"} /\ r \notin called
  /\ called' = called \cup {r}
  /\ strand' = Append(strand, Handler("cancel", r, "none"))
  /\ UNCHANGED <<m_requests, second, m_set, request, history>>

AsyncResponse(s) ==
  /\ s \notin called
  /\ called' = called \cup {s}
  /\ strand' = Append(strand, Handler("response", s, "none"))
  /\ UNCHANGED <<m_requests, second, m_set, request, history>>

(* startAsyncRequest returns true ("ok"), or returns false or throws.      *)
Started(r, ec) ==
  /\ pc[r] = "start" /\ pending[r]
  /\ pending' = [pending EXCEPT ![r] = FALSE]
  /\ strand' = Append(strand, Handler("resume", r, ec))
  /\ UNCHANGED <<m_requests, second, m_set, pc, canceled, result, called, history>>

-----------------------------------------------------------------------------
(* The handlers.                                                           *)

Turn(k, x, c) == strand # <<>> /\ Head(strand) = Handler(k, x, c)

Popped == strand' = Tail(strand)

PoppedThen(h) == strand' = Append(Tail(strand), h)

(* get() links a request and awaits startAsyncRequest.                     *)
Get(r) ==
  /\ Turn("get", r, "none")
  /\ m_requests' = [m_requests EXCEPT ![Class[r]] = Append(@, r)]
  /\ pc' = [pc EXCEPT ![r] = "start"]
  /\ pending' = [pending EXCEPT ![r] = TRUE]
  /\ arrived' = Append(arrived, r)
  /\ Popped
  /\ UNCHANGED <<second, m_set, canceled, result, called, dropped>>

(* A mutant of the next definition: the operation is not told.             *)
EmitLost(r) ==
  /\ Turn("cancel", r, "none")
  /\ canceled' = [canceled EXCEPT ![r] = Live(r)]
  /\ Popped
  /\ UNCHANGED <<m_requests, second, m_set, pc, pending, result, called, history>>

(* The signal completes what is pending, and sticks.                       *)
Emit(r) ==
  /\ Turn("cancel", r, "none")
  /\ canceled' = [canceled EXCEPT ![r] = Live(r)]
  /\ pending' = [pending EXCEPT ![r] = FALSE]
  /\ IF pending[r] THEN PoppedThen(Handler("resume", r, "canceled")) ELSE Popped
  /\ UNCHANGED <<m_requests, second, m_set, pc, result, called, history>>

(* Mutants of Respond below: the request stays in the list ...             *)
RespondKeeps(s, r) ==
  /\ m_requests[Class[s]] # <<>> /\ r = Head(m_requests[Class[s]])
  /\ second' = [second EXCEPT ![r] = s]
  /\ m_set' = [m_set EXCEPT ![r] = TRUE]
  /\ pending' = [pending EXCEPT ![r] = @ /\ pc[r] # "wait"]
  /\ IF pending[r] /\ pc[r] = "wait"
     THEN PoppedThen(Handler("resume", r, "ok")) ELSE Popped
  /\ UNCHANGED m_requests

(* ... or the youngest request is taken.                                   *)
RespondLast(s, r) ==
  /\ m_requests[Class[s]] # <<>> /\ r = Last(m_requests[Class[s]])
  /\ m_requests' = [m_requests EXCEPT ![Class[s]] = Front(@)]
  /\ second' = [second EXCEPT ![r] = s]
  /\ m_set' = [m_set EXCEPT ![r] = TRUE]
  /\ pending' = [pending EXCEPT ![r] = @ /\ pc[r] # "wait"]
  /\ IF pending[r] /\ pc[r] = "wait"
     THEN PoppedThen(Handler("resume", r, "ok")) ELSE Popped

(* The oldest request of the class gets the session; its event is set,     *)
(* which resumes a get() that is already inside co_wait().                 *)
Respond(s, r) ==
  /\ m_requests[Class[s]] # <<>> /\ r = Head(m_requests[Class[s]])
  /\ m_requests' = [m_requests EXCEPT ![Class[s]] = Tail(@)]
  /\ second' = [second EXCEPT ![r] = s]
  /\ m_set' = [m_set EXCEPT ![r] = TRUE]
  /\ pending' = [pending EXCEPT ![r] = @ /\ pc[r] # "wait"]
  /\ IF pending[r] /\ pc[r] = "wait"
     THEN PoppedThen(Handler("resume", r, "ok")) ELSE Popped

Response(s) ==
  /\ Turn("response", s, "none")
  /\ \/ /\ \E r \in Requests : Respond(s, r)
        /\ UNCHANGED dropped
     \/ /\ m_requests[Class[s]] = <<>>
        /\ dropped' = dropped \cup {s}
        /\ Popped
        /\ UNCHANGED <<m_requests, second, m_set, pending>>
  /\ UNCHANGED <<pc, canceled, result, called, arrived>>

(* A mutant of the next definition: the request is not unlinked.           *)
EndLinked(r, res) ==
  /\ pc' = [pc EXCEPT ![r] = "over"]
  /\ result' = [result EXCEPT ![r] = res]
  /\ UNCHANGED m_requests

(* The coroutine ends: ~TRequest unlinks the request, if it still is.      *)
End(r, res) ==
  /\ pc' = [pc EXCEPT ![r] = "over"]
  /\ result' = [result EXCEPT ![r] = res]
  /\ m_requests' = [m_requests EXCEPT ![Class[r]] = RemoveFirst(@, r)]

(* Mutants of CoWait below: co_wait() does not suspend ...                 *)
CoWaitEager(r) ==
  /\ pc' = [pc EXCEPT ![r] = "wait"]
  /\ pending' = [pending EXCEPT ![r] = FALSE]
  /\ PoppedThen(Handler("resume", r, "ok"))

(* ... or links its operation although the event has been set.             *)
CoWaitBlind(r) ==
  /\ pc' = [pc EXCEPT ![r] = "wait"]
  /\ pending' = [pending EXCEPT ![r] = TRUE]
  /\ Popped

(* co_wait() on the event of the request.                                  *)
CoWait(r) ==
  /\ pc' = [pc EXCEPT ![r] = "wait"]
  /\ pending' = [pending EXCEPT ![r] = ~m_set[r]]
  /\ IF m_set[r] THEN PoppedThen(Handler("resume", r, "ok")) ELSE Popped

(* After startAsyncRequest: co_wait(), which throws if get() is canceled.  *)
ResumeStart(r) ==
  /\ pc[r] = "start"
  /\ \/ Turn("resume", r, "ok") /\ ~canceled[r]
        /\ CoWait(r)
        /\ UNCHANGED <<m_requests, result>>
     \/ /\ \/ Turn("resume", r, "ok") /\ canceled[r] /\ End(r, "canceled")
           \/ Turn("resume", r, "canceled") /\ End(r, "canceled")
           \/ Turn("resume", r, "no") /\ End(r, "no")
        /\ Popped
        /\ UNCHANGED pending
  /\ UNCHANGED <<second, m_set, canceled, called, history>>

(* After co_wait(): nothing is awaited any more.                           *)
ResumeWait(r) ==
  /\ pc[r] = "wait"
  /\ \/ Turn("resume", r, "canceled") /\ End(r, "canceled")
     \/ /\ Turn("resume", r, "ok")
        /\ End(r, IF second[r] = None THEN "null" ELSE second[r])
  /\ Popped
  /\ UNCHANGED <<second, m_set, pending, canceled, called, history>>

-----------------------------------------------------------------------------
Handle ==
  \/ \E r \in Requests : Get(r) \/ Emit(r) \/ ResumeStart(r) \/ ResumeWait(r)
  \/ \E s \in Responses : Response(s)

Next ==
  \/ \E r \in Requests :
       Call(r) \/ Cancel(r) \/ \E ec \in {"ok", "no"} : Started(r, ec)
  \/ \E s \in Responses : AsyncResponse(s)
  \/ Handle

(* The strand runs what is queued.  Nobody has to call, cancel or respond, *)
(* and startAsyncRequest may take for ever.                                *)
Fairness == WF_vars(Handle)

Spec == Init /\ [][Next]_vars
FairSpec == Spec /\ Fairness

-----------------------------------------------------------------------------
(* The lists hold no dangling pointer and nothing stale: what is linked is *)
(* the request of a live get() of that class, once, and not answered yet   *)
(* (AsyncProxyProvider.cpp:26-33, 47-53).                                  *)
Linked ==
  \A c \in Classes :
    \A i \in 1..Len(m_requests[c]) :
      LET r == m_requests[c][i] IN
      /\ Live(r) /\ Class[r] = c /\ second[r] = None
      /\ \A j \in 1..Len(m_requests[c]) : m_requests[c][j] = r => i = j

(* First come, first served: a get() is answered only if each earlier one  *)
(* of its class is answered or over (AsyncProxyProvider.cpp:27-28, 53).    *)
InOrder ==
  \A j \in 1..Len(arrived) : \A i \in 1..(j - 1) :
    Class[arrived[i]] = Class[arrived[j]] /\ second[arrived[j]] # None =>
      second[arrived[i]] # None \/ pc[arrived[i]] = "over"

(* A session that came is still queued, was dropped since nobody waited    *)
(* for its class, or belongs to exactly one request, of its class, whose   *)
(* get() returns it unless it was canceled or startAsyncRequest has        *)
(* failed; and no get() returns without one (AsyncProxyProvider.cpp:21-33, *)
(* 57-71).                                                                 *)
Accounted ==
  /\ \A s \in Responses \cap called :
       \/ \E i \in 1..Len(strand) : strand[i] = Handler("response", s, "none")
       \/ s \in dropped
       \/ \E r \in Requests :
            /\ second[r] = s /\ Class[r] = Class[s]
            /\ \A q \in Requests : second[q] = s => q = r
  /\ \A r \in Requests :
       /\ result[r] \in Responses => result[r] = second[r]
       /\ pc[r] = "over" /\ result[r] \notin Responses =>
            canceled[r] \/ result[r] = "no"
       /\ result[r] # "null"

(* A get() that waits and is answered ends, no matter whether the answer   *)
(* came before co_wait() (AsyncProxyProvider.cpp:32-33, 63).               *)
AnswerEnds ==
  \A r \in Requests : (second[r] # None /\ pc[r] = "wait") ~> pc[r] = "over"

(* A canceled get() ends although nobody answers or starts anything        *)
(* (AsyncProxyProvider.cpp:57-63).                                         *)
CancelEnds ==
  \A r \in Requests : canceled[r] ~> pc[r] = "over"

-----------------------------------------------------------------------------
(* What co_wait() returned to a get().                                     *)
Outcome(r) ==
  [w \in {r} |-> CASE result[w] \in Responses \cup {"null"} -> "ok"
                   [] result[w] = "canceled" -> "canceled"
                   [] OTHER -> "none"]

Event(r) ==
  INSTANCE ManualResetEvent
  WITH Waiters <- {r}, isSet <- m_set[r], outcome <- Outcome(r)

(* To each get(), the flag and the pending operation do only what an       *)
(* AwaitableEvent may do: co_wait() returns once, and with success only    *)
(* after set() (AsyncProxyProvider.cpp:33, 63).                            *)
EventPromise ==
  /\ \A r \in Requests : Event(r)!Init
  /\ [][\A r \in Requests : Event(r)!Next \/ UNCHANGED <<m_set[r], Outcome(r)>>]_vars
=============================================================================
