----------------------------- MODULE LifeCycle -----------------------------
(***************************************************************************)
(* The life of a server from the end of Kernel::init to the end of main(): *)
(* Kernel::run starts the parts that run as threads and loops; a signal    *)
(* has its handler call Kernel::stop, which asks the threads to end, waits *)
(* for them and ends the loop; main() then deletes the kernel and with it  *)
(* the threads' objects (engine/kernel.cc, sys/thread.cc,                  *)
(* engine/thread/*.cc, applications/gateway/src/gateway.cc).               *)
(*                                                                         *)
(* The handler runs on top of whatever its thread was doing.  The kernel   *)
(* of the system gives a signal to the main thread, or, while the same     *)
(* signal is being handled there and so blocked, to another one.  Every    *)
(* step of stop() writes a log line first, under the one log lock          *)
(* (base/log.tpp), which the interrupted thread may hold.                  *)
(***************************************************************************)
EXTENDS Integers

CONSTANTS
  Threads,     \* the parts that run as threads (ENGINE_CONFIG_*_RUN_ASTHREAD)
  Main,        \* the main thread
  NoOne,       \* the owner of a free log lock
  MaxSignals   \* bound on the stop signals sent

Parts == {"db", "script", "performance", "net"}
RunOrder    == <<"db", "script", "performance", "net">>
StopOrder   == <<"performance", "script", "net", "db">>
DeleteOrder == <<"performance", "net", "script", "db">>
Last == 4    \* of each order

ASSUME LifeAssumption ==
  /\ Threads \subseteq Parts
  /\ Main \notin Threads /\ NoOne \notin Threads \cup {Main}
  /\ MaxSignals \in Nat

Actors == Threads \cup {Main}

VARIABLES
  appStatus,    \* GLOBAL_VALUES["app_status"]
  kernelActive, \* Kernel::isactive_
  active,       \* isactive_ of each part's thread object
  threadCount,  \* GLOBAL_VALUES["thread_count"]
  main, part,   \* where main() is, and at which part of an order
  pc,           \* where each thread is
  stopping,     \* 0, or the step of stop() that the handler on an actor is at
  logger,       \* who holds g_log_lock
  deleted,      \* the thread objects that ~Kernel has deleted
  server,       \* APPLICATION_TYPE = 0: an exception is passed on
  signals,      \* bound: the stop signals sent so far
  gaveUp,       \* history: a stop() logged that it waited in vain
  early         \* history: a stop() began before run() had reached its loop

counted == <<threadCount, gaveUp, early, signals, server>>
vars == <<appStatus, kernelActive, active, main, part, pc, stopping, logger,
          deleted, counted>>

Over == main \in {"done", "crashed"}
Runs(a) == stopping[a] = 0 /\ ~Over
LogFree == logger = NoOne

Init ==
  /\ appStatus = "sleep" /\ kernelActive = TRUE
  /\ active = [t \in Threads |-> TRUE]
  /\ threadCount = 0
  /\ main = "check" /\ part = 1
  /\ pc = [t \in Threads |-> "none"]
  /\ stopping = [a \in Actors |-> 0]
  /\ logger = NoOne /\ deleted = {}
  /\ server \in BOOLEAN
  /\ signals = 0 /\ gaveUp = FALSE /\ early = FALSE

----------------------------------------------------------------------------
(* main(): Kernel::run and the deletion of the kernel *)

RunCheck ==
  /\ Runs(Main) /\ main = "check"
  /\ main' = IF kernelActive /\ appStatus # "stop" THEN "set" ELSE "delete"
  /\ UNCHANGED <<appStatus, kernelActive, active, part, pc, stopping, logger,
                 deleted, counted>>

\* Between the check and this a stop() may have come and gone.
RunSet ==
  /\ Runs(Main) /\ main = "set"
  /\ main' = "start"
  /\ appStatus' = "running"
  /\ UNCHANGED <<kernelActive, active, part, pc, stopping, logger, deleted,
                 counted>>

\* The log line of the next part and the first lines of Thread::start; a part
\* that is not active, or not a thread, has none to start.
StartCheck ==
  /\ Runs(Main) /\ main = "start" /\ part <= Last /\ LogFree
  /\ IF appStatus = "stop" \/ RunOrder[part] \notin Threads
     THEN part' = part + 1 /\ UNCHANGED main
     ELSE main' = "count" /\ UNCHANGED part
  /\ UNCHANGED <<appStatus, kernelActive, active, pc, stopping, logger,
                 deleted, counted>>

StartCount ==
  /\ Runs(Main) /\ main = "count"
  /\ main' = "create"
  /\ threadCount' = threadCount + 1
  /\ UNCHANGED <<appStatus, kernelActive, active, part, pc, stopping, logger,
                 deleted, gaveUp, early, signals, server>>

Create ==
  /\ Runs(Main) /\ main = "create"
  /\ main' = "start" /\ part' = part + 1
  /\ pc' = [pc EXCEPT ![RunOrder[part]] = "created"]
  /\ UNCHANGED <<appStatus, kernelActive, active, stopping, logger, deleted,
                 counted>>

\* pthread_create fails: the assertion's exception ends a server; in a client
\* start() swallows it.  The thread stays counted.
CreateFails ==
  /\ Runs(Main) /\ main = "create"
  /\ main' = IF server THEN "crashed" ELSE "start"
  /\ part' = part + 1
  /\ UNCHANGED <<appStatus, kernelActive, active, pc, stopping, logger,
                 deleted, counted>>

AllStarted ==
  /\ Runs(Main) /\ main = "start" /\ part > Last
  /\ main' = "loop"
  /\ UNCHANGED <<appStatus, kernelActive, active, part, pc, stopping, logger,
                 deleted, counted>>

LoopEnds ==
  /\ Runs(Main) /\ main = "loop" /\ ~kernelActive /\ logger # Main
  /\ main' = "delete" /\ part' = 1
  /\ UNCHANGED <<appStatus, kernelActive, active, pc, stopping, logger,
                 deleted, counted>>

\* ~Kernel deletes the objects one after the other; main() then returns, and
\* the process ends with every thread that is left.
Delete ==
  /\ Runs(Main) /\ main = "delete"
  /\ IF part <= Last
     THEN /\ deleted' = deleted \cup ({DeleteOrder[part]} \cap Threads)
          /\ part' = part + 1 /\ UNCHANGED main
     ELSE main' = "done" /\ UNCHANGED <<deleted, part>>
  /\ UNCHANGED <<appStatus, kernelActive, active, pc, stopping, logger,
                 counted>>

MainStep ==
  \/ RunCheck \/ RunSet \/ StartCheck \/ StartCount \/ Create \/ CreateFails
  \/ AllStarted \/ LoopEnds \/ Delete

----------------------------------------------------------------------------
(* The threads: ps_thread_process and the loops of engine/thread *)

Enter(t) ==
  /\ Runs(t) /\ pc[t] = "created"
  /\ pc' = [pc EXCEPT ![t] = "running"]
  /\ UNCHANGED <<appStatus, kernelActive, active, main, part, stopping,
                 logger, deleted, counted>>

\* The loop of run() finds isactive_ unset.
RunEnds(t) ==
  /\ Runs(t) /\ pc[t] = "running" /\ ~active[t] /\ logger # t
  /\ pc' = [pc EXCEPT ![t] = "left"]
  /\ UNCHANGED <<appStatus, kernelActive, active, main, part, stopping,
                 logger, deleted, counted>>

\* Mutant: run() and ps_thread_process both count the thread out.
ExitTwice(t) ==
  /\ Runs(t) /\ pc[t] = "left"
  /\ pc' = [pc EXCEPT ![t] = "exiting"]
  /\ threadCount' = threadCount - 2
  /\ UNCHANGED <<appStatus, kernelActive, active, main, part, stopping,
                 logger, deleted, gaveUp, early, signals, server>>

\* Thread::exit.
Exit(t) ==
  /\ Runs(t) /\ pc[t] = "left"
  /\ pc' = [pc EXCEPT ![t] = "exiting"]
  /\ threadCount' = threadCount - 1
  /\ UNCHANGED <<appStatus, kernelActive, active, main, part, stopping,
                 logger, deleted, gaveUp, early, signals, server>>

\* What follows in ps_thread_process, which asks the object for its id.
Gone(t) ==
  /\ Runs(t) /\ pc[t] = "exiting"
  /\ pc' = [pc EXCEPT ![t] = "gone"]
  /\ UNCHANGED <<appStatus, kernelActive, active, main, part, stopping,
                 logger, deleted, counted>>

ThreadStep(t) == Enter(t) \/ RunEnds(t) \/ Exit(t) \/ Gone(t)

Looping(a) == IF a = Main THEN main = "loop" ELSE pc[a] = "running"

\* slow_savelog, called from a loop.
LogBegin(a) ==
  /\ Runs(a) /\ Looping(a) /\ LogFree
  /\ logger' = a
  /\ UNCHANGED <<appStatus, kernelActive, active, main, part, pc, stopping,
                 deleted, counted>>

LogEnd(a) ==
  /\ Runs(a) /\ logger = a
  /\ logger' = NoOne
  /\ UNCHANGED <<appStatus, kernelActive, active, main, part, pc, stopping,
                 deleted, counted>>

----------------------------------------------------------------------------
(* The signal handler: Kernel::stop on top of an actor *)

\* Who the system gives the signal to.
Takes(a) ==
  \/ a = Main
  \/ stopping[Main] # 0 /\ a \in Threads /\ pc[a] \notin {"none", "gone"}

Signal(a) ==
  /\ Runs(a) /\ Takes(a) /\ signals < MaxSignals
  /\ signals' = signals + 1
  /\ IF kernelActive
     THEN /\ appStatus' = "stop"
          /\ stopping' = [stopping EXCEPT ![a] = 1]
          /\ early' = (early \/ main # "loop")
     ELSE UNCHANGED <<appStatus, stopping, early>>
  /\ UNCHANGED <<kernelActive, active, main, part, pc, logger, deleted,
                 threadCount, gaveUp, server>>

Handles(a) == stopping[a] # 0 /\ ~Over /\ LogFree
Waiting(a) == Handles(a) /\ stopping[a] > Last

StopPart(a) ==
  /\ Handles(a) /\ stopping[a] <= Last
  /\ active' = [active EXCEPT ![StopOrder[stopping[a]]] = FALSE]
  /\ stopping' = [stopping EXCEPT ![a] = @ + 1]
  /\ UNCHANGED <<appStatus, kernelActive, main, part, pc, logger, deleted,
                 counted>>

\* Mutant: check_quitthreads is content with one thread left.
WaitLeavesOne(a) ==
  /\ Waiting(a) /\ threadCount <= 1
  /\ kernelActive' = FALSE
  /\ stopping' = [stopping EXCEPT ![a] = 0]
  /\ UNCHANGED <<appStatus, active, main, part, pc, logger, deleted, counted>>

\* check_quitthreads finds no thread counted; stop() ends.
WaitOver(a) ==
  /\ Waiting(a) /\ threadCount <= 0
  /\ kernelActive' = FALSE
  /\ stopping' = [stopping EXCEPT ![a] = 0]
  /\ UNCHANGED <<appStatus, active, main, part, pc, logger, deleted, counted>>

\* Mutant: check_quitthreads waits without limit.
WaitOn(a) == Waiting(a) /\ threadCount > 0 /\ UNCHANGED vars

\* kCheckTimeMax has passed; stop() ends all the same.
GiveUp(a) ==
  /\ Waiting(a) /\ threadCount > 0
  /\ gaveUp' = TRUE
  /\ kernelActive' = FALSE
  /\ stopping' = [stopping EXCEPT ![a] = 0]
  /\ UNCHANGED <<appStatus, active, main, part, pc, logger, deleted,
                 threadCount, early, signals, server>>

HandlerStep(a) == StopPart(a) \/ WaitOver(a) \/ GiveUp(a)

Next ==
  \/ MainStep
  \/ \E t \in Threads : ThreadStep(t)
  \/ \E a \in Actors :
       LogBegin(a) \/ LogEnd(a) \/ Signal(a) \/ HandlerStep(a)

Spec == Init /\ [][Next]_vars

\* Every actor runs on; who waits for the log lock gets it in the end, as its
\* holders sleep between two lines.
FairSpec ==
  /\ Spec
  /\ SF_vars(MainStep)
  /\ \A t \in Threads : SF_vars(ThreadStep(t))
  /\ \A a \in Actors : WF_vars(LogEnd(a)) /\ SF_vars(HandlerStep(a))

----------------------------------------------------------------------------
(* Properties *)

Places == {"none", "created", "running", "left", "exiting", "gone"}

\* Types; among them, the count that check_quitthreads compares never falls
\* below nought, whatever fails.
TypeOK ==
  /\ appStatus \in {"sleep", "running", "stop"} /\ kernelActive \in BOOLEAN
  /\ active \in [Threads -> BOOLEAN]
  /\ threadCount \in Nat
  /\ main \in {"check", "set", "start", "count", "create", "loop", "delete",
               "done", "crashed"}
  /\ part \in 1 .. Last + 1
  /\ pc \in [Threads -> Places]
  /\ stopping \in [Actors -> 0 .. Last + 1]
  /\ logger \in Actors \cup {NoOne}
  /\ deleted \subseteq Threads /\ server \in BOOLEAN
  /\ signals \in 0 .. MaxSignals /\ gaveUp \in BOOLEAN /\ early \in BOOLEAN

\* While the process lives, ~Kernel deletes no object whose thread still runs
\* on it ("Thread safe quit", sys/thread.cc), unless stop() logged that it
\* gave up, or was called while run() was still starting threads, or the
\* thread is in the lines of ps_thread_process behind its own decrement.
InUse(t) == pc[t] \in {"created", "running", "left"}
SafeQuit ==
  \A t \in deleted : InUse(t) /\ ~Over => gaveUp \/ early

\* A stop that was asked for is not lost, whenever it comes: a handler is at
\* work on it, or the loop and every part have been told to end, those too
\* that run() starts only afterwards.
StopReaches ==
  /\ signals > 0 => ~kernelActive \/ \E a \in Actors : stopping[a] # 0
  /\ ~kernelActive => \A t \in Threads : ~active[t]

\* A stop signal ends the process (waitexit waits for that without limit),
\* whatever the threads do, unless a handler is stuck: it interrupted the
\* thread that holds the log lock.
Stuck == \E a \in Actors : stopping[a] # 0 /\ logger = a
Quits == (appStatus = "stop") ~> (Over \/ Stuck)
=============================================================================
