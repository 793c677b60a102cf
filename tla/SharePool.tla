------------------------------ MODULE SharePool ------------------------------
(***************************************************************************)
(* A pool of records in shared memory (sys/memory/share): UnitPool, its    *)
(* header with the number of records in use, and the spin lock on that     *)
(* header, used by several processes.  A process that is stopping goes     *)
(* past the lock, a process may die at any point, and the memory, with the *)
(* flag of the lock in it, is still there when it starts again.  The       *)
(* process named Service keeps the pool (a Node) and clears it when it     *)
(* starts.                                                                 *)
(*                                                                         *)
(* Not modelled: the flag in each record, the recover mode, in which       *)
(* nothing is locked, and what Node saves to the database.                 *)
(***************************************************************************)
EXTENDS Integers, FiniteSets

CONSTANTS
  Procs,      \* the processes that have attached the memory
  Service,    \* the one that keeps the pool
  Stopping,   \* those that may be stopped, by Kernel::stop
  MaxSize,    \* max_size_
  MaxObjects, \* bound: records handed out in a behaviour
  MaxDeaths   \* bound: processes that die in a behaviour

ASSUME ProcsAssumption == IsFiniteSet(Procs)
ASSUME SizeAssumption == MaxSize \in Nat \ {0}
ASSUME BoundAssumption == MaxObjects \in Nat /\ MaxDeaths \in Nat

VARIABLES
  flag,      \* header: flag of the lock
  position,  \* header: poolposition
  poolid,    \* the poolid written in each record
  object,    \* which object each record holds
  pc, op,    \* where each process is, and in which operation
  at,        \* the index it works with
  stopped,   \* its app_status is kAppStatusStop
  made,      \* how many objects have been handed out
  deaths,    \* how many times a process has died
  unsafe,    \* a process has been stopped while the pool was in use
  lost       \* increments of flag that nobody will take back

records == <<position, poolid, object, made>>
history == <<deaths, unsafe, lost>>
vars == <<flag, records, pc, op, at, stopped, history>>

Slots == 0 .. MaxSize - 1
Free == -1            \* kFlagFree
NoId == -1            \* ID_INVALID
NoObject == 0

\* Mutant: the poolid is compared as a signed number.
BeyondSigned(id, n) == id >= n

\* An unsigned poolid is not below n; ID_INVALID is the largest of them.
Beyond(id, n) == id = NoId \/ id >= n

\* The processes that have incremented flag and will decrement it.
Counting == {p \in Procs : ~stopped[p] /\ pc[p] \in {"spin", "inside", "half", "leave"}}
Lose(p) == lost' = IF p \in Counting THEN lost + 1 ELSE lost

\* The memory has just been created.
Init ==
  /\ flag = Free /\ position = 0
  /\ poolid = [s \in Slots |-> NoId] /\ object = [s \in Slots |-> NoObject]
  /\ pc = [p \in Procs |-> "idle"] /\ op = [p \in Procs |-> "none"]
  /\ at = [p \in Procs |-> 0] /\ stopped = [p \in Procs |-> FALSE]
  /\ made = 0 /\ deaths = 0 /\ unsafe = FALSE /\ lost = 0

Goes(p, to) == pc' = [pc EXCEPT ![p] = to]

\* The operation is over, and its locals are gone.
Ends(p, to) ==
  /\ Goes(p, to)
  /\ op' = [op EXCEPT ![p] = "none"] /\ at' = [at EXCEPT ![p] = 0]

-----------------------------------------------------------------------------
(* lock, unlock *)

\* lock() does nothing when the process is stopping.
LockFrom(p) == IF stopped[p] THEN "inside" ELSE "wait"

Call(p, o, s) ==
  /\ pc[p] = "idle" /\ Goes(p, LockFrom(p))
  /\ op' = [op EXCEPT ![p] = o] /\ at' = [at EXCEPT ![p] = s]
  /\ UNCHANGED <<flag, records, stopped, history>>

\* atomic_inc_and_test: the process is in if that has made flag zero.  (It
\* may have been stopped since it called lock(); then unlock() will not take
\* the increment back.)
Acquire(p) ==
  /\ pc[p] = "wait"
  /\ flag' = flag + 1
  /\ Goes(p, IF flag = Free THEN "inside" ELSE "spin")
  /\ lost' = IF stopped[p] THEN lost + 1 ELSE lost
  /\ UNCHANGED <<records, op, at, stopped, deaths, unsafe>>

\* It is not: it takes its increment back and tries again.
BackOff(p) ==
  /\ pc[p] = "spin" /\ ~stopped[p]
  /\ flag' = flag - 1 /\ Goes(p, "wait")
  /\ UNCHANGED <<records, op, at, stopped, history>>

\* Or it is stopping: it leaves the loop, increment and all, and goes on.
BreakIn(p) ==
  /\ pc[p] = "spin" /\ stopped[p] /\ Goes(p, "inside")
  /\ UNCHANGED <<flag, records, op, at, stopped, history>>

\* What follows unlock(): a Node that starts goes on with initafter.
Returns(p) ==
  \/ /\ op[p] = "version" /\ Goes(p, LockFrom(p))
     /\ op' = [op EXCEPT ![p] = "init"] /\ UNCHANGED at
  \/ op[p] = "init" /\ Goes(p, "clear") /\ UNCHANGED <<op, at>>
  \/ op[p] \notin {"version", "init"} /\ Ends(p, "idle")

\* Mutant: unlock() sets the flag free, as its branch for Windows does.
LeaveResets(p) ==
  /\ pc[p] = "leave" /\ Returns(p)
  /\ flag' = IF ~stopped[p] /\ flag > Free THEN Free ELSE flag
  /\ UNCHANGED <<records, stopped, history>>

Leave(p) ==
  /\ pc[p] = "leave" /\ Returns(p)
  /\ flag' = IF ~stopped[p] /\ flag > Free THEN flag - 1 ELSE flag
  /\ UNCHANGED <<records, stopped, history>>

-----------------------------------------------------------------------------
(* new_obj *)

Inside(p, o) == pc[p] = "inside" /\ op[p] = o
Half(p, o) == pc[p] = "half" /\ op[p] = o

\* Mutant: a full pool is left without unlock().
NewFullHeld(p) ==
  /\ Inside(p, "new") /\ position >= MaxSize
  /\ Ends(p, "idle")
  /\ UNCHANGED <<flag, records, stopped, history>>

NewFull(p) ==
  /\ Inside(p, "new") /\ position >= MaxSize
  /\ Goes(p, "leave")
  /\ UNCHANGED <<flag, records, op, at, stopped, history>>

NewTake(p) ==
  /\ Inside(p, "new") /\ position < MaxSize
  /\ poolid' = [poolid EXCEPT ![position] = position]
  /\ at' = [at EXCEPT ![p] = position]
  /\ Goes(p, "half")
  /\ UNCHANGED <<flag, position, object, made, op, stopped, history>>

\* The record is in use, and the caller fills it in.
NewDone(p) ==
  /\ Half(p, "new")
  /\ position' = position + 1
  /\ made' = made + 1 /\ object' = [object EXCEPT ![at[p]] = made + 1]
  /\ Goes(p, "leave")
  /\ UNCHANGED <<flag, poolid, op, at, stopped, history>>

(* delete_obj of the record at index at[p]; it goes by the poolid in it *)

\* An assertion fails and throws past unlock().
DeleteThrows(p) ==
  /\ Inside(p, "delete") /\ (position = 0 \/ Beyond(poolid[at[p]], position))
  /\ Ends(p, "idle") /\ Lose(p)
  /\ UNCHANGED <<flag, records, stopped, deaths, unsafe>>

DeleteLast(p) ==
  /\ Inside(p, "delete") /\ position > 0 /\ poolid[at[p]] = position - 1
  /\ position' = position - 1
  /\ Goes(p, "leave")
  /\ UNCHANGED <<flag, poolid, object, made, op, at, stopped, history>>

DeleteTake(p) ==
  /\ Inside(p, "delete") /\ position > 0 /\ ~Beyond(poolid[at[p]], position - 1)
  /\ position' = position - 1
  /\ at' = [at EXCEPT ![p] = poolid[@]]
  /\ Goes(p, "half")
  /\ UNCHANGED <<flag, poolid, object, made, op, stopped, history>>

\* Mutant: the last record is not copied.
DeleteMoveForgets(p) ==
  /\ Half(p, "delete") /\ position < MaxSize
  /\ poolid' = [poolid EXCEPT ![position] = NoId] /\ UNCHANGED object
  /\ Goes(p, "leave")
  /\ UNCHANGED <<flag, position, made, op, at, stopped, history>>

\* The last record is copied over the deleted one, its poolid with it.
DeleteMove(p) ==
  /\ Half(p, "delete") /\ position < MaxSize
  /\ object' = [object EXCEPT ![at[p]] = object[position]]
  /\ poolid' = [poolid EXCEPT ![at[p]] = poolid[position], ![position] = NoId]
  /\ Goes(p, "leave")
  /\ UNCHANGED <<flag, position, made, op, at, stopped, history>>

\* Another process has used the pool meanwhile, without the lock, and there
\* is no record at poolposition: the best that can happen is a crash.
DeleteWild(p) ==
  /\ Half(p, "delete") /\ position >= MaxSize
  /\ Ends(p, "dead") /\ Lose(p)
  /\ UNCHANGED <<flag, records, stopped, deaths, unsafe>>

-----------------------------------------------------------------------------
(* get_position, set_head_version, and the start of a Node *)

Read(p) ==
  /\ pc[p] = "inside" /\ op[p] \in {"position", "version", "init"}
  /\ at' = [at EXCEPT ![p] = position]
  /\ Goes(p, "leave")
  /\ UNCHANGED <<flag, records, op, stopped, history>>

\* initafter: the heads of the records in use are cleared, outside the lock.
Clear(p) ==
  /\ pc[p] = "clear"
  /\ poolid' = [s \in Slots |-> IF s < at[p] THEN NoId ELSE poolid[s]]
  /\ Ends(p, "idle")
  /\ UNCHANGED <<flag, position, object, made, stopped, history>>

\* Kernel::stop in the process, whose threads go on for a while.
Stop(p) ==
  /\ p \in Stopping /\ pc[p] # "dead" /\ ~stopped[p]
  /\ stopped' = [stopped EXCEPT ![p] = TRUE]
  /\ unsafe' = TRUE /\ Lose(p)
  /\ UNCHANGED <<flag, records, pc, op, at, deaths>>

Die(p) ==
  /\ pc[p] # "dead" /\ deaths < MaxDeaths
  /\ deaths' = deaths + 1
  /\ Ends(p, "dead") /\ Lose(p)
  /\ UNCHANGED <<flag, records, stopped, unsafe>>

\* init: the memory is attached as it is; set_head_version(0), initafter.
Restart(p) ==
  /\ pc[p] = "dead"
  /\ Goes(p, IF p = Service THEN "wait" ELSE "idle")
  /\ op' = [op EXCEPT ![p] = IF p = Service THEN "version" ELSE @]
  /\ stopped' = [stopped EXCEPT ![p] = FALSE]
  /\ UNCHANGED <<flag, records, at, history>>

\* The index of a record comes from an earlier new_obj.
Handed == {s \in Slots : object[s] # NoObject}
Asking == {p \in Procs : op[p] = "new" /\ pc[p] # "leave"}

Step(p) ==
  \/ made + Cardinality(Asking) < MaxObjects /\ Call(p, "new", 0)
  \/ Call(p, "position", 0)
  \/ \E s \in Handed : Call(p, "delete", s)
  \/ Acquire(p) \/ BackOff(p) \/ BreakIn(p) \/ Leave(p)
  \/ NewFull(p) \/ NewTake(p) \/ NewDone(p)
  \/ DeleteThrows(p) \/ DeleteLast(p) \/ DeleteTake(p)
  \/ DeleteMove(p) \/ DeleteWild(p)
  \/ Read(p) \/ Clear(p) \/ Stop(p) \/ Die(p) \/ Restart(p)

Next == \E p \in Procs : Step(p)

Spec == Init /\ [][Next]_vars

-----------------------------------------------------------------------------
(* Properties *)

\* What the memory and the processes hold.  poolposition is bounded by the
\* pool only as long as every process goes by the lock.
TypeOK ==
  /\ flag \in Int /\ position \in Nat
  /\ poolid \in [Slots -> Slots \cup {NoId}]
  /\ object \in [Slots -> Nat] /\ made \in Nat
  /\ pc \in [Procs -> {"idle", "wait", "spin", "inside", "half", "leave", "clear", "dead"}]
  /\ op \in [Procs -> {"none", "new", "delete", "position", "version", "init"}]
  /\ at \in [Procs -> Nat]
  /\ stopped \in [Procs -> BOOLEAN] /\ unsafe \in BOOLEAN
  /\ deaths \in 0 .. MaxDeaths /\ lost \in Nat

Within(p) == ~stopped[p] /\ pc[p] \in {"inside", "half", "leave"}

\* Two running processes are never between lock() and unlock() at a time,
\* whatever processes that are stopping or have died left in the flag.
MutualExclusion == \A p, q \in Procs : Within(p) /\ Within(q) => p = q

\* The flag counts those that hold the lock or are about to back off, and
\* the increments that were lost, and nothing else: every way through the
\* operations but an exception gives the lock back, once.
FlagExact == flag + 1 = Cardinality(Counting) + lost

\* Once an increment is lost, with a process that died, was stopped or threw
\* an exception inside, no running process gets past lock() any more.
LostLocksOut ==
  [][lost > 0 => \A p \in Procs : Within(p)' => Within(p)]_vars

\* Until a process is stopped: no more records are in use than there are,
\* and no object is in two of them, whoever died half way through new_obj
\* or delete_obj, and whatever the poolids say.
NoneTwice ==
  ~unsafe =>
    /\ position <= MaxSize
    /\ \A s, t \in Slots :
         s < position /\ t < position /\ object[s] = object[t] => s = t

\* Until then the header, the records and the processes between two writes
\* come to a sequence of objects that each operation changes at one moment,
\* whatever the others do; the record that delete_obj has already taken off
\* the header still counts, until it has been moved.
Doomed == {at[p] + 1 : p \in {q \in Procs : Half(q, "delete") /\ ~unsafe}}
InUse ==
  LET many == IF Doomed = {} THEN position ELSE position + 1 IN
  [k \in 1 .. IF unsafe THEN 0 ELSE many |-> object[k - 1]]

Pool == INSTANCE RecordPool WITH held <- InUse, doomed <- Doomed,
                                 broken <- unsafe, Size <- MaxSize
ImplementsPool == Pool!Spec
=============================================================================
