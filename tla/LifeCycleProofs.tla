-------------------------- MODULE LifeCycleProofs --------------------------
(* Proofs about LifeCycle, for any set of threads and any number of signals. *)
EXTENDS LifeCycle, FiniteSetTheorems, TLAPS

Running == {t \in Threads : InUse(t)}

\* A thread is counted from before its creation until it has left run(), so
\* the count is never too small; a failed creation makes it too large.
Counted ==
  /\ Cardinality(Running) + (IF main = "create" THEN 1 ELSE 0) <= threadCount
  /\ main \in {"count", "create"} => part <= Last

\* Without an early stop, no handler runs before the loop, the loop is left
\* only after a stop, and after a stop that did not give up no thread runs.
InOrder ==
  ~early =>
    /\ main \in {"check", "set", "start", "count", "create"} =>
         kernelActive /\ \A a \in Actors : stopping[a] = 0
    /\ main = "check" => appStatus # "stop"
    /\ main \in {"delete", "done"} => ~kernelActive
    /\ ~kernelActive /\ ~gaveUp => Running = {}

DeletedLast == deleted # {} => main \in {"delete", "done"}

TypeInv == TypeOK /\ Counted
LifeInv == TypeInv /\ InOrder /\ DeletedLast

-----------------------------------------------------------------------------
(* Counting the threads *)

LEMMA ThreadsFinite == IsFiniteSet(Threads)
<1>1. IsFiniteSet(Parts)
  <2>1. IsFiniteSet({"db"}) BY FS_Singleton
  <2>2. IsFiniteSet({"db"} \cup {"script"}) BY <2>1, FS_AddElement
  <2>3. IsFiniteSet({"db"} \cup {"script"} \cup {"performance"})
    BY <2>2, FS_AddElement
  <2>4. IsFiniteSet({"db"} \cup {"script"} \cup {"performance"} \cup {"net"})
    BY <2>3, FS_AddElement
  <2>5. Parts = {"db"} \cup {"script"} \cup {"performance"} \cup {"net"}
    BY DEF Parts
  <2> QED BY <2>4, <2>5
<1> QED BY <1>1, LifeAssumption, FS_Subset

\* What the count can be compared with, in every state and the next one.
LEMMA RunningFinite ==
  /\ IsFiniteSet(Running) /\ Cardinality(Running) \in Nat
  /\ Cardinality(Running) = 0 <=> Running = {}
<1>1. Running \in SUBSET Threads BY DEF Running
<1>2. IsFiniteSet(Running) BY <1>1, ThreadsFinite, FS_Subset
<1> QED BY <1>2, FS_CardinalityType, FS_EmptySet

LEMMA RunningFiniteNext ==
  /\ IsFiniteSet(Running') /\ Cardinality(Running') \in Nat
  /\ Cardinality(Running') = 0 <=> Running' = {}
<1>1. Running' \in SUBSET Threads BY DEF Running
<1>2. IsFiniteSet(Running') BY <1>1, ThreadsFinite, FS_Subset
<1> QED BY <1>2, FS_CardinalityType, FS_EmptySet

-----------------------------------------------------------------------------
(* Type correctness, with the count *)

LEMMA MainTypes == ASSUME TypeInv, MainStep PROVE TypeInv'
<1> USE DEF TypeInv, TypeOK, Counted, Runs, counted, Last
<1>a. CASE main # "create"
  <2>1. Running' = Running
    BY <1>a DEF MainStep, RunCheck, RunSet, StartCheck, StartCount, Create,
       CreateFails, AllStarted, LoopEnds, Delete, Running, InUse
  <2>2. CASE RunCheck BY <2>1, <2>2, RunningFinite DEF RunCheck
  <2>3. CASE RunSet BY <2>1, <2>3, RunningFinite DEF RunSet
  <2>4. CASE StartCheck BY <2>1, <2>4, RunningFinite DEF StartCheck
  <2>5. CASE StartCount BY <2>1, <2>5, RunningFinite DEF StartCount
  <2>6. CASE AllStarted BY <2>1, <2>6, RunningFinite DEF AllStarted
  <2>7. CASE LoopEnds BY <2>1, <2>7, RunningFinite DEF LoopEnds
  <2>8. CASE Delete BY <2>1, <2>8, RunningFinite DEF Delete
  <2> QED
    BY <1>a, <2>2, <2>3, <2>4, <2>5, <2>6, <2>7, <2>8
    DEF MainStep, Create, CreateFails
<1>b. CASE main = "create" /\ CreateFails
  <2>1. Running' = Running BY <1>b DEF CreateFails, Running, InUse
  <2> QED BY <1>b, <2>1, RunningFinite DEF CreateFails
<1>c. CASE main = "create" /\ Create
  <2> DEFINE t == RunOrder[part]
  <2>1. pc' \in [Threads -> Places] BY <1>c DEF Create, Places
  <2>2. Running' \in SUBSET (Running \cup {t})
    BY <1>c DEF Create, Running, InUse
  <2> HIDE DEF t
  <2>3. /\ IsFiniteSet(Running \cup {t})
        /\ Cardinality(Running \cup {t}) <= Cardinality(Running) + 1
    <3>1. IsFiniteSet(Running) /\ Cardinality(Running) \in Nat BY RunningFinite
    <3>2. /\ IsFiniteSet(Running \cup {t})
          /\ \/ Cardinality(Running \cup {t}) = Cardinality(Running)
             \/ Cardinality(Running \cup {t}) = Cardinality(Running) + 1
      BY ONLY <3>1, FS_AddElement
    <3> QED BY ONLY <3>1, <3>2
  <2>4. Cardinality(Running \cup {t}) \in Nat BY <2>3, FS_CardinalityType
  <2>5. Cardinality(Running') <= Cardinality(Running) + 1
    BY <2>2, <2>3, <2>4, RunningFinite, RunningFiniteNext, FS_Subset
  <2> QED BY <1>c, <2>1, <2>5, RunningFinite, RunningFiniteNext DEF Create
<1> QED
  BY <1>a, <1>b, <1>c
  DEF MainStep, RunCheck, RunSet, StartCheck, StartCount, AllStarted,
      LoopEnds, Delete

LEMMA ThreadTypes ==
  ASSUME TypeInv, NEW t \in Threads, ThreadStep(t) PROVE TypeInv'
<1> USE DEF TypeInv, TypeOK, Counted, Runs, counted, Last
<1>1. CASE Enter(t)
  <2>1. Running' = Running BY <1>1 DEF Enter, Running, InUse
  <2> QED BY <1>1, <2>1 DEF Enter, Places
<1>2. CASE RunEnds(t)
  <2>1. Running' = Running BY <1>2 DEF RunEnds, Running, InUse
  <2> QED BY <1>2, <2>1 DEF RunEnds, Places
<1>3. CASE Exit(t)
  <2>1. Running' = Running \ {t} /\ t \in Running
    BY <1>3 DEF Exit, Running, InUse
  <2>2. Cardinality(Running') = Cardinality(Running) - 1
    BY <2>1, RunningFinite, FS_RemoveElement
  <2>3. pc' \in [Threads -> Places] BY <1>3 DEF Exit, Places
  <2> QED
    BY <1>3, <2>2, <2>3, RunningFinite, RunningFiniteNext DEF Exit
<1>4. CASE Gone(t)
  <2>1. Running' = Running BY <1>4 DEF Gone, Running, InUse
  <2> QED BY <1>4, <2>1 DEF Gone, Places
<1> QED BY <1>1, <1>2, <1>3, <1>4 DEF ThreadStep

LEMMA HandlerTypes ==
  ASSUME TypeInv, NEW a \in Actors,
         LogBegin(a) \/ LogEnd(a) \/ Signal(a) \/ HandlerStep(a)
  PROVE  TypeInv'
<1> USE DEF TypeInv, TypeOK, Counted, Runs, counted, Last
<1>1. Running' = Running
  BY DEF LogBegin, LogEnd, Signal, HandlerStep, StopPart, WaitOver, GiveUp,
     Running, InUse
<1>2. CASE LogBegin(a) BY <1>1, <1>2 DEF LogBegin
<1>3. CASE LogEnd(a) BY <1>1, <1>3 DEF LogEnd
<1>4. CASE Signal(a)
  BY <1>1, <1>4, LifeAssumption DEF Signal
<1>5. CASE StopPart(a)
  <2>1. active' \in [Threads -> BOOLEAN] BY <1>5 DEF StopPart
  <2> QED BY <1>1, <1>5, <2>1 DEF StopPart, Handles
<1>6. CASE WaitOver(a)
  <2>1. stopping' \in [Actors -> 0 .. Last + 1] BY <1>6 DEF WaitOver
  <2>2. kernelActive' \in BOOLEAN BY <1>6 DEF WaitOver
  <2> QED BY <1>1, <1>6, <2>1, <2>2 DEF WaitOver
<1>7. CASE GiveUp(a)
  <2>1. stopping' \in [Actors -> 0 .. Last + 1] BY <1>7 DEF GiveUp
  <2>2. kernelActive' \in BOOLEAN /\ gaveUp' \in BOOLEAN BY <1>7 DEF GiveUp
  <2> QED BY <1>1, <1>7, <2>1, <2>2 DEF GiveUp
<1> QED BY <1>2, <1>3, <1>4, <1>5, <1>6, <1>7 DEF HandlerStep

LEMMA TypeInit == Init => TypeInv
<1> SUFFICES ASSUME Init PROVE TypeInv OBVIOUS
<1>1. Running = {} BY DEF Init, Running, InUse
<1>2. Counted BY <1>1, FS_EmptySet DEF Init, Counted
<1>3. kernelActive \in BOOLEAN /\ gaveUp \in BOOLEAN /\ early \in BOOLEAN
  BY DEF Init
<1>4. pc \in [Threads -> Places] BY DEF Init, Places
<1>5. signals \in 0 .. MaxSignals BY LifeAssumption DEF Init
<1> QED BY <1>2, <1>3, <1>4, <1>5 DEF Init, TypeInv, TypeOK, Last

LEMMA TypeStep == TypeInv /\ [Next]_vars => TypeInv'
<1> SUFFICES ASSUME TypeInv, [Next]_vars PROVE TypeInv' OBVIOUS
<1>1. CASE UNCHANGED vars
  BY <1>1 DEF vars, counted, TypeInv, TypeOK, Counted, Running, InUse
<1>2. CASE Next
  BY <1>2, MainTypes, ThreadTypes, HandlerTypes DEF Next
<1> QED BY <1>1, <1>2

\* The count of threads never falls below nought, whatever starts, ends or
\* fails, and every position stays within its order.
THEOREM LifeTypeInvariant == Spec => []TypeOK
<1>1. TypeInv => TypeOK BY DEF TypeInv
<1> QED BY <1>1, TypeInit, TypeStep, PTL DEF Spec

-----------------------------------------------------------------------------
(* What is deleted, and when *)

LEMMA OrderMain ==
  ASSUME TypeInv, InOrder, DeletedLast, MainStep
  PROVE  InOrder' /\ DeletedLast'
<1> USE DEF InOrder, DeletedLast, counted
<1>1. CASE RunCheck BY <1>1 DEF RunCheck, Running, InUse
<1>2. CASE RunSet BY <1>2 DEF RunSet, Running, InUse
<1>3. CASE StartCheck BY <1>3 DEF StartCheck, Running, InUse
<1>4. CASE StartCount BY <1>4 DEF StartCount, Running, InUse
<1>5. CASE Create
  <2>1. ~early => kernelActive' /\ \A a \in Actors : stopping'[a] = 0
    BY <1>5 DEF Create
  <2> QED BY <1>5, <2>1 DEF Create
<1>6. CASE CreateFails BY <1>6 DEF CreateFails, Running, InUse
<1>7. CASE AllStarted BY <1>7 DEF AllStarted, Running, InUse
<1>8. CASE LoopEnds BY <1>8 DEF LoopEnds, Running, InUse
<1>9. CASE Delete BY <1>9 DEF Delete, Running, InUse
<1> QED
  BY <1>1, <1>2, <1>3, <1>4, <1>5, <1>6, <1>7, <1>8, <1>9 DEF MainStep

LEMMA OrderThreads ==
  ASSUME TypeInv, InOrder, DeletedLast, NEW t \in Threads, ThreadStep(t)
  PROVE  InOrder' /\ DeletedLast'
<1>1. Running' \subseteq Running
  BY DEF TypeInv, TypeOK, ThreadStep, Enter, RunEnds, Exit, Gone, Running, InUse
<1>2. UNCHANGED <<appStatus, kernelActive, main, stopping, deleted, gaveUp, early>>
  BY DEF ThreadStep, Enter, RunEnds, Exit, Gone, counted
<1> QED BY <1>1, <1>2 DEF InOrder, DeletedLast

LEMMA OrderHandlers ==
  ASSUME TypeInv, InOrder, DeletedLast, NEW a \in Actors,
         LogBegin(a) \/ LogEnd(a) \/ Signal(a) \/ HandlerStep(a)
  PROVE  InOrder' /\ DeletedLast'
<1>1. Running' = Running /\ UNCHANGED <<main, deleted>>
  BY DEF LogBegin, LogEnd, Signal, HandlerStep, StopPart, WaitOver, GiveUp,
     Running, InUse
<1>2. CASE LogBegin(a) \/ LogEnd(a)
  BY <1>1, <1>2 DEF LogBegin, LogEnd, counted, InOrder, DeletedLast
<1>3. CASE Signal(a)
  BY <1>1, <1>3 DEF Signal, InOrder, DeletedLast
\* A handler that is at work began in the loop, unless it began early.
<1>4. CASE HandlerStep(a)
  <2>1. stopping[a] # 0 BY <1>4 DEF HandlerStep, StopPart, WaitOver, GiveUp,
        Waiting, Handles
  <2>2. ~early => main \notin {"check", "set", "start", "count", "create"}
    BY <2>1 DEF InOrder
  <2>3. CASE StopPart(a)
    BY <1>1, <2>2, <2>3 DEF StopPart, counted, InOrder, DeletedLast
  <2>4. CASE WaitOver(a)
    <3>1. Running = {}
      BY <2>4, RunningFinite DEF WaitOver, TypeInv, TypeOK, Counted
    <3> QED BY <1>1, <2>2, <2>4, <3>1 DEF WaitOver, counted, InOrder, DeletedLast
  <2>5. CASE GiveUp(a)
    BY <1>1, <2>2, <2>5 DEF GiveUp, InOrder, DeletedLast
  <2> QED BY <1>4, <2>3, <2>4, <2>5 DEF HandlerStep
<1> QED BY <1>2, <1>3, <1>4

\* No thread object is deleted under a thread that still runs on it, except
\* after a wait that gave up or a stop that came before the loop.
THEOREM LifeSafeQuit == Spec => []SafeQuit
<1>1. Init => LifeInv
  <2>1. Init => InOrder /\ DeletedLast BY DEF Init, InOrder, DeletedLast
  <2> QED BY <2>1, TypeInit DEF LifeInv
<1>2. LifeInv /\ [Next]_vars => LifeInv'
  <2> SUFFICES ASSUME LifeInv, [Next]_vars PROVE LifeInv' OBVIOUS
  <2>1. TypeInv' BY TypeStep DEF LifeInv
  <2>2. CASE UNCHANGED vars
    BY <2>1, <2>2
    DEF LifeInv, vars, counted, InOrder, DeletedLast, Running, InUse
  <2>3. CASE Next
    BY <2>1, <2>3, OrderMain, OrderThreads, OrderHandlers DEF LifeInv, Next
  <2> QED BY <2>2, <2>3
<1>3. LifeInv => SafeQuit
  <2>1. LifeInv => deleted \subseteq Threads BY DEF LifeInv, TypeInv, TypeOK
  <2>2. LifeInv /\ deleted # {} /\ ~Over /\ ~early => ~kernelActive
    BY DEF LifeInv, InOrder, DeletedLast, Over
  <2>3. LifeInv /\ ~early /\ ~kernelActive /\ ~gaveUp => Running = {}
    BY DEF LifeInv, InOrder
  <2> QED BY <2>1, <2>2, <2>3 DEF SafeQuit, Running
<1> QED BY <1>1, <1>2, <1>3, PTL DEF Spec

-----------------------------------------------------------------------------
(* What a stop reaches *)

\* A handler has told the parts before the one it is at.
Told ==
  \A a \in Actors, k \in 1 .. Last :
    k < stopping[a] /\ StopOrder[k] \in Threads => ~active[StopOrder[k]]
StopInv == TypeInv /\ StopReaches /\ Told

LEMMA StopOrderAll == \A t \in Threads : \E k \in 1 .. Last : StopOrder[k] = t
<1> SUFFICES ASSUME NEW t \in Threads PROVE \E k \in 1 .. Last : StopOrder[k] = t
  OBVIOUS
<1>1. t \in {"db", "script", "performance", "net"}
  BY LifeAssumption DEF Parts
<1>2. /\ StopOrder[1] = "performance" /\ StopOrder[2] = "script"
      /\ StopOrder[3] = "net" /\ StopOrder[4] = "db"
  BY DEF StopOrder
<1> QED BY <1>1, <1>2 DEF Last

\* A handler that waits has told them all.
LEMMA WaitingTold ==
  ASSUME StopInv, NEW a \in Actors, stopping[a] > Last
  PROVE  \A t \in Threads : ~active[t]
<1> SUFFICES ASSUME NEW t \in Threads PROVE ~active[t] OBVIOUS
<1>1. PICK k \in 1 .. Last : StopOrder[k] = t BY StopOrderAll
<1>2. k < stopping[a] BY DEF StopInv, TypeInv, TypeOK, Last
<1> QED BY <1>1, <1>2 DEF StopInv, Told

LEMMA StopHandlers ==
  ASSUME StopInv, NEW a \in Actors, Signal(a) \/ HandlerStep(a)
  PROVE  StopReaches' /\ Told'
<1> USE DEF StopInv
<1>0. /\ stopping \in [Actors -> 0 .. Last + 1] /\ active \in [Threads -> BOOLEAN]
      /\ signals \in Nat
  BY LifeAssumption DEF TypeInv, TypeOK
<1>1. CASE Signal(a)
  <2>1. UNCHANGED <<active, kernelActive>> BY <1>1 DEF Signal
  <2>2. CASE kernelActive
    <3>1. stopping' = [stopping EXCEPT ![a] = 1] BY <1>1, <2>2 DEF Signal
    <3>2. stopping'[a] = 1 /\ \A b \in Actors \ {a} : stopping'[b] = stopping[b]
      BY <1>0, <3>1
    <3>3. Told' BY <2>1, <3>2 DEF Told, Last
    <3> QED BY <2>1, <2>2, <3>2, <3>3 DEF StopReaches
  <2>3. CASE ~kernelActive
    <3>1. stopping' = stopping BY <1>1, <2>3 DEF Signal
    <3> QED BY <2>1, <2>3, <3>1 DEF StopReaches, Told
  <2> QED BY <2>2, <2>3
<1>2. CASE StopPart(a)
  <2> DEFINE p == StopOrder[stopping[a]]
  <2>1. /\ stopping[a] \in 1 .. Last /\ stopping'[a] = stopping[a] + 1
        /\ \A b \in Actors \ {a} : stopping'[b] = stopping[b]
        /\ UNCHANGED <<kernelActive, signals>>
    BY <1>0, <1>2 DEF StopPart, Handles, counted
  <2>2. \A t \in Threads : active'[t] = (IF t = p THEN FALSE ELSE active[t])
    BY <1>0, <1>2 DEF StopPart
  <2>3. ASSUME NEW b \in Actors, NEW k \in 1 .. Last,
               k < stopping'[b], StopOrder[k] \in Threads
        PROVE  ~active'[StopOrder[k]]
    <3>1. CASE b = a /\ k = stopping[a] BY <2>2, <2>3, <3>1
    <3>2. CASE ~(b = a /\ k = stopping[a])
      <4>1. k < stopping[b] BY <1>0, <2>1, <2>3, <3>2 DEF Last
      <4>2. ~active[StopOrder[k]] BY <2>3, <4>1 DEF Told
      <4> QED BY <2>2, <2>3, <4>2
    <3> QED BY <3>1, <3>2
  <2>4. stopping'[a] # 0 BY <2>1 DEF Last
  <2>5. StopReaches' BY <2>1, <2>2, <2>4 DEF StopReaches
  <2> QED BY <2>3, <2>5 DEF Told
<1>3. CASE WaitOver(a) \/ GiveUp(a)
  <2>1. /\ stopping[a] > Last /\ kernelActive' = FALSE /\ active' = active
        /\ stopping' = [stopping EXCEPT ![a] = 0]
    BY <1>3 DEF WaitOver, GiveUp, Waiting
  <2>2. \A t \in Threads : ~active[t] BY <2>1, WaitingTold
  <2>3. \A b \in Actors : stopping'[b] \in {0, stopping[b]} BY <1>0, <2>1
  <2>4. StopReaches' BY <2>1, <2>2 DEF StopReaches
  <2>5. Told' BY <1>0, <2>1, <2>3 DEF Told, Last
  <2> QED BY <2>4, <2>5
<1> QED BY <1>1, <1>2, <1>3 DEF HandlerStep

\* A stop is never lost, whenever the signal comes: during run(), between its
\* check and its writing over app_status (engine/kernel.cc:153), on a thread
\* or twice at once.  The threads that run() starts after it find themselves
\* told to end.
THEOREM LifeStopReaches == Spec => []StopReaches
<1>1. Init => StopInv
  <2>1. Init => StopReaches /\ Told BY DEF Init, StopReaches, Told, Last
  <2> QED BY <2>1, TypeInit DEF StopInv
<1>2. StopInv /\ [Next]_vars => StopInv'
  <2> SUFFICES ASSUME StopInv, [Next]_vars PROVE StopInv' OBVIOUS
  <2>1. TypeInv' BY TypeStep DEF StopInv
  <2>2. CASE \E a \in Actors : Signal(a) \/ HandlerStep(a)
    BY <2>1, <2>2, StopHandlers DEF StopInv
  <2>3. CASE ~\E a \in Actors : Signal(a) \/ HandlerStep(a)
    <3>1. UNCHANGED <<signals, kernelActive, stopping, active>>
      BY <2>3 DEF Next, MainStep, RunCheck, RunSet, StartCheck, StartCount, Create,
        CreateFails, AllStarted, LoopEnds, Delete, ThreadStep, Enter, RunEnds, Exit,
        Gone, LogBegin, LogEnd, vars, counted
    <3> QED BY <2>1, <3>1 DEF StopInv, StopReaches, Told
  <2> QED BY <2>2, <2>3
<1>3. StopInv => StopReaches BY DEF StopInv
<1> QED BY <1>1, <1>2, <1>3, PTL DEF Spec
=============================================================================
