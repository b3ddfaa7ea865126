----------------------- MODULE BaseConfigApplication -----------------------
(***************************************************************************)
(* A BaseConfigApplication from exec() to its destructor, with its         *)
(* ThreadPool and its AsyncLogger.                                         *)
(*                                                                         *)
(* Handlers run while main is inside ThreadPool::run(), which returns when *)
(* the io_context has no work left: no work guard, no handler queued or    *)
(* running, no timer, no task of the derived application.  The logger is a *)
(* CoroutineTask; its strand is a FIFO of start, stop, and the completion  *)
(* (ok, canceled) of its timer.                                            *)
(*                                                                         *)
(* Messages are numbered as they are logged.  The derived application's    *)
(* tasks end, sooner or later, once doExit() was called.                   *)
(***************************************************************************)
EXTENDS Naturals, Sequences, Config

CONSTANTS
  Entries,      \* what the array of a config file may hold
  MaxEntries,   \* bound on its length
  MaxLogs,      \* bound on the messages
  MaxRequests   \* bound on the signals and calls of quit()

ASSUME BoundsAssumption ==
  /\ Entries \subseteq Entry
  /\ MaxEntries \in Nat /\ MaxLogs \in Nat /\ MaxRequests \in Nat

VARIABLES
  main,             \* what the main thread does
  file,             \* the config file, until it was read
  m_currentLogger,  \* "default", "async"
  requests,         \* signals and calls of quit() so far
  g_oneExit,
  posted,           \* lambdas of onExitRequest() in the io_context
  exiting,          \* one of them runs
  exits,            \* calls of doExit()
  m_workGuard,
  tasks,            \* the derived application has work in the io_context
  m_state,          \* of the logger
  pc,               \* its run(): "none", awaits "wait", "over"
  timer,            \* the wait has not completed
  strand,
  flushing,         \* who prints what flush() took: "no", "run", "stop"
  logs,             \* what it took
  m_logs,
  logged,           \* how many messages were given to the logger
  printed

exit == <<requests, g_oneExit, posted, exiting, exits, m_workGuard, tasks>>
logger == <<m_state, pc, timer, strand, flushing>>
text == <<logs, m_logs, logged, printed>>
vars == <<main, file, m_currentLogger, exit, logger, text>>

Files == File(Entries, MaxEntries) \cup {NoFile}

TypeOK ==
  /\ main \in {"args", "config", "start", "logger", "run", "over", "reset", "gone"}
  /\ file \in Files
  /\ m_currentLogger \in {"default", "async"}
  /\ requests \in Nat /\ posted \in Nat /\ exits \in Nat /\ logged \in Nat
  /\ g_oneExit \in BOOLEAN /\ exiting \in BOOLEAN
  /\ m_workGuard \in BOOLEAN /\ tasks \in BOOLEAN /\ timer \in BOOLEAN
  /\ m_state \in {"INITIAL", "RUNNING", "STOPPED"}
  /\ pc \in {"none", "wait", "over"}
  /\ strand \in Seq({"start", "stop", "ok", "canceled"})
  /\ flushing \in {"no", "run", "stop"}
  /\ logs \in Seq(Nat) /\ m_logs \in Seq(Nat) /\ printed \in Seq(Nat)

Init ==
  /\ main = "args"
  /\ file = NoFile
  /\ m_currentLogger = "default"
  /\ requests = 0
  /\ g_oneExit = FALSE
  /\ posted = 0
  /\ exiting = FALSE
  /\ exits = 0
  /\ m_workGuard = TRUE
  /\ tasks = FALSE
  /\ m_state = "INITIAL"
  /\ pc = "none"
  /\ timer = FALSE
  /\ strand = <<>>
  /\ flushing = "no"
  /\ logs = <<>>
  /\ m_logs = <<>>
  /\ logged = 0
  /\ printed = <<>>

-----------------------------------------------------------------------------
(* The main thread.                                                        *)

(* processArgs(), then the pool and the logger are created.                *)
ProcessArgs ==
  /\ main = "args"
  /\ \/ main' = "over" /\ UNCHANGED <<file, m_currentLogger>>
     \/ /\ main' = "config" /\ m_currentLogger' = "async"
        /\ file' \in File(Entries, MaxEntries)
  /\ UNCHANGED <<exit, logger, text>>

(* exec() goes on to start() if readConfig() returns true.                 *)
ReadConfig ==
  /\ main = "config"
  /\ main' = IF ReadFile(file).ok THEN "start" ELSE "over"
  /\ UNCHANGED <<file, m_currentLogger, exit, logger, text>>

(* start() of the derived application creates tasks, fails or throws.      *)
StartApp ==
  /\ main = "start"
  /\ \/ main' = "logger" /\ tasks' \in BOOLEAN
     \/ main' = "over" /\ UNCHANGED tasks
  /\ file' = NoFile
  /\ UNCHANGED <<m_currentLogger, requests, g_oneExit, posted, exiting, exits,
                 m_workGuard, logger, text>>

StartLogger ==
  /\ main = "logger"
  /\ main' = "run"
  /\ strand' = Append(strand, "start")
  /\ UNCHANGED <<file, m_currentLogger, exit, m_state, pc, timer, flushing, text>>

Idle ==
  /\ ~m_workGuard /\ posted = 0 /\ ~exiting /\ ~tasks
  /\ strand = <<>> /\ flushing = "no" /\ ~timer

(* run() returns on every thread, stop(true) joins them.                   *)
RunReturns ==
  /\ main = "run" /\ Idle
  /\ main' = "over"
  /\ UNCHANGED <<file, m_currentLogger, exit, logger, text>>

ResetLogger ==
  /\ main = "over"
  /\ main' = "reset"
  /\ m_currentLogger' = "default"
  /\ UNCHANGED <<file, exit, logger, text>>

(* A mutant of the next definition: ~AsyncLogger does not flush().         *)
DestroyLoggerSilent ==
  /\ main = "reset"
  /\ main' = "gone"
  /\ UNCHANGED <<file, m_currentLogger, exit, logger, text>>

DestroyLogger ==
  /\ main = "reset"
  /\ main' = "gone"
  /\ printed' = printed \o m_logs
  /\ m_logs' = <<>>
  /\ UNCHANGED <<file, m_currentLogger, exit, logger, logs, logged>>

-----------------------------------------------------------------------------
(* Exit.                                                                   *)

(* A mutant of the next definition: each request is posted.                *)
CallOnExitAgain ==
  /\ m_currentLogger = "async" /\ requests < MaxRequests
  /\ requests' = requests + 1
  /\ g_oneExit' = TRUE
  /\ posted' = posted + 1
  /\ UNCHANGED <<main, file, m_currentLogger, exiting, exits, m_workGuard,
                 tasks, logger, text>>

(* A signal, or quit() on any thread, while there is a pool: from the time *)
(* the logger is set until the destructor.                                 *)
CallOnExit ==
  /\ m_currentLogger = "async" /\ requests < MaxRequests
  /\ requests' = requests + 1
  /\ g_oneExit' = TRUE
  /\ posted' = IF g_oneExit THEN posted ELSE posted + 1
  /\ UNCHANGED <<main, file, m_currentLogger, exiting, exits, m_workGuard,
                 tasks, logger, text>>

(* A mutant of the next definition: the logger is not stopped.             *)
DoExitOnly ==
  /\ main = "run" /\ posted > 0
  /\ posted' = posted - 1
  /\ exits' = exits + 1
  /\ exiting' = TRUE
  /\ UNCHANGED <<main, file, m_currentLogger, requests, g_oneExit,
                 m_workGuard, tasks, logger, text>>

(* The lambda of onExitRequest(): doExit(), m_logger->stop() ...           *)
DoExit ==
  /\ main = "run" /\ posted > 0
  /\ posted' = posted - 1
  /\ exits' = exits + 1
  /\ exiting' = TRUE
  /\ strand' = Append(strand, "stop")
  /\ UNCHANGED <<main, file, m_currentLogger, requests, g_oneExit,
                 m_workGuard, tasks, m_state, pc, timer, flushing, text>>

(* ... and m_threadPool->stop(false).                                      *)
StopPool ==
  /\ exiting
  /\ exiting' = FALSE
  /\ m_workGuard' = FALSE
  /\ UNCHANGED <<main, file, m_currentLogger, requests, g_oneExit, posted,
                 exits, tasks, logger, text>>

TasksEnd ==
  /\ main = "run" /\ tasks
  /\ tasks' = FALSE
  /\ UNCHANGED <<main, file, m_currentLogger, requests, g_oneExit, posted,
                 exiting, exits, m_workGuard, logger, text>>

-----------------------------------------------------------------------------
(* The logger.                                                             *)

(* logImpl() on any thread.                                                *)
LogImpl ==
  /\ m_currentLogger = "async" /\ logged < MaxLogs
  /\ logged' = logged + 1
  /\ m_logs' = Append(m_logs, logged + 1)
  /\ UNCHANGED <<main, file, m_currentLogger, exit, logger, logs, printed>>

(* A mutant of the next definition: the messages are copied.               *)
FlushCopies(who) ==
  /\ flushing' = who
  /\ logs' = m_logs
  /\ UNCHANGED <<m_logs, logged, printed>>

(* flush() takes the messages under the mutex and prints them outside.     *)
Flush(who) ==
  /\ flushing' = who
  /\ logs' = m_logs
  /\ m_logs' = <<>>
  /\ UNCHANGED <<logged, printed>>

Turn(h) ==
  /\ main = "run" /\ flushing = "no"
  /\ strand # <<>> /\ Head(strand) = h

(* work() enters run().  ExitInOrder says that it is never refused, and    *)
(* that there is one stop.                                                 *)
LoggerStart ==
  /\ Turn("start") /\ m_state = "INITIAL"
  /\ m_state' = "RUNNING"
  /\ Flush("run")
  /\ strand' = Tail(strand)
  /\ UNCHANGED <<main, file, m_currentLogger, exit, pc, timer>>

(* co_stop(): onStop() flushes.                                            *)
LoggerStop ==
  /\ Turn("stop") /\ m_state # "STOPPED"
  /\ m_state' = "STOPPED"
  /\ Flush("stop")
  /\ strand' = Tail(strand)
  /\ UNCHANGED <<main, file, m_currentLogger, exit, pc, timer>>

(* flush() has printed: run() waits, co_stop() emits the signal of run().  *)
Printed ==
  /\ flushing # "no"
  /\ printed' = printed \o logs
  /\ logs' = <<>>
  /\ flushing' = "no"
  /\ pc' = IF flushing = "run" THEN "wait" ELSE pc
  /\ timer' = (flushing = "run")
  /\ strand' = IF flushing = "stop" /\ timer THEN Append(strand, "canceled") ELSE strand
  /\ UNCHANGED <<main, file, m_currentLogger, exit, m_state, m_logs, logged>>

Expire ==
  /\ main = "run" /\ timer
  /\ timer' = FALSE
  /\ strand' = Append(strand, "ok")
  /\ UNCHANGED <<main, file, m_currentLogger, exit, m_state, pc, flushing,
                 text>>

(* The head of run()'s loop, or the exception of a canceled wait.          *)
LoggerResume ==
  /\ \/ Turn("ok") /\ m_state = "RUNNING" /\ Flush("run") /\ UNCHANGED pc
     \/ /\ Turn("canceled") \/ (Turn("ok") /\ m_state # "RUNNING")
        /\ pc' = "over"
        /\ UNCHANGED <<flushing, text>>
  /\ strand' = Tail(strand)
  /\ UNCHANGED <<main, file, m_currentLogger, exit, m_state, timer>>

-----------------------------------------------------------------------------
Main ==
  \/ ProcessArgs \/ ReadConfig \/ StartApp \/ StartLogger
  \/ RunReturns \/ ResetLogger \/ DestroyLogger

Pool ==
  \/ DoExit \/ StopPool
  \/ LoggerStart \/ LoggerStop \/ Printed \/ Expire \/ LoggerResume

Next == Main \/ Pool \/ CallOnExit \/ TasksEnd \/ LogImpl

(* The main thread goes on, the pool runs what is ready, timers expire,    *)
(* and tasks end after doExit().  Nobody has to log or to exit.            *)
Fairness ==
  /\ WF_vars(Main)
  /\ WF_vars(DoExit) /\ WF_vars(StopPool)
  /\ WF_vars(Expire)
  /\ WF_vars(LoggerStart \/ LoggerStop \/ Printed \/ LoggerResume)
  /\ WF_vars(exits > 0 /\ TasksEnd)

Spec == Init /\ [][Next]_vars
FairSpec == Spec /\ Fairness

-----------------------------------------------------------------------------
(* Each message is printed, about to be, or queued, once and in the order  *)
(* of the calls, whoever flushes while others log                          *)
(* (AsyncLogger.cpp:20-51).                                                *)
OnceInOrder ==
  printed \o logs \o m_logs = [i \in 1..logged |-> i]

(* No message is lost at the end, not even one that was logged after the   *)
(* logger's stop or after exec() (AsyncLogger.cpp:11-13, 21-23).           *)
NothingLost ==
  main = "gone" => Len(printed) = logged

(* However many signals and quit() calls come and whenever they do, exit   *)
(* logic runs once and finds a logger whose start is already in its        *)
(* strand, so that the start is not refused (AApplication.cpp:14-17,       *)
(* BaseConfigApplication.cpp:59-60, 73-82).                                *)
ExitInOrder ==
  /\ posted + exits <= 1
  /\ m_state # "INITIAL" => \A i \in 1..Len(strand) : strand[i] # "start"
  /\ \A i, j \in 1..Len(strand) : strand[i] = "start" /\ strand[j] = "stop" => i < j

(* An exit request ends the process, also when it comes before the pool or *)
(* the logger runs (BaseConfigApplication.cpp:59-61, 73-82).               *)
ExitEnds ==
  g_oneExit ~> main = "gone"

(* An entry that is disabled, or of no known kind, and a good one.         *)
Off(e) ==
  /\ e.object
  /\ e.enabled = "false" \/ (e.enabled # "other" /\ e.create = "null")
Good(e) ==
  /\ e.object /\ e.enabled \in {"absent", "true"} /\ e.create = "item"
  /\ e.value = "typed" \/ (e.value = "absent" /\ e.optional)

(* The items are those of the good entries, each once, in their order.     *)
AllGood(items, entries) ==
  \E at \in [1..Len(items) -> DOMAIN entries] :
    /\ \A i, j \in DOMAIN at : i < j => at[i] < at[j]
    /\ \A i \in DOMAIN at : items[i] = entries[at[i]]
    /\ \A n \in DOMAIN entries : Good(entries[n]) <=> \E i \in DOMAIN at : at[i] = n

(* start() is called exactly if every entry of the config file is good or  *)
(* off, and gets the items of all the good ones in the order of the file:  *)
(* never a part of them, although parseArray may fail in the middle of a   *)
(* list (ArrayParser.cpp:16-39, Config.cpp:19-33,                          *)
(* BaseConfigApplication.cpp:51-57).                                       *)
ConfigComplete ==
  [][main = "config" /\ main' # main =>
       /\ main' = "start" <=>
            /\ file.is = "array"
            /\ \A n \in DOMAIN file.entries :
                 Good(file.entries[n]) \/ Off(file.entries[n])
       /\ main' = "start" => AllGood(ReadFile(file).items, file.entries)]_vars
=============================================================================
