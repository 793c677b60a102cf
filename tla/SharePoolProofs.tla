--------------------------- MODULE SharePoolProofs ---------------------------
(* Proofs about SharePool, for any number of processes and any pool size. *)
EXTENDS SharePool, Sequences, FiniteSetTheorems, TLAPS

-----------------------------------------------------------------------------
(* Type correctness *)

\* A process that deletes or takes a record works with an index of the pool.
AtSlot ==
  \A p \in Procs :
    \/ op[p] = "delete" /\ pc[p] \in {"wait", "spin", "inside", "half"}
    \/ op[p] = "new" /\ pc[p] = "half"
    => at[p] \in Slots

TypeInv == TypeOK /\ AtSlot

\* The index of the deleted record, read from the record.
LEMMA PoolIdInUse ==
  ASSUME TypeOK, NEW p \in Procs, at[p] \in Slots,
         ~Beyond(poolid[at[p]], position - 1), position > 0
  PROVE  poolid[at[p]] \in Slots /\ poolid[at[p]] < position - 1
  BY SizeAssumption DEF TypeOK, Beyond, NoId, Slots

LEMMA TypeStep ==
  ASSUME TypeInv, NEW p \in Procs, Step(p)
  PROVE  TypeInv'
<1> USE SizeAssumption, BoundAssumption DEF TypeInv, TypeOK, AtSlot, Slots, NoId, Free, Goes, Ends,
        records, history
<1>1. CASE made + Cardinality(Asking) < MaxObjects /\ Call(p, "new", 0)
  BY <1>1 DEF Call, LockFrom
<1>2. CASE Call(p, "position", 0)
  BY <1>2 DEF Call, LockFrom
<1>3. ASSUME NEW s \in Handed, Call(p, "delete", s) PROVE TypeInv'
  BY <1>3 DEF Call, LockFrom, Handed
<1>4. CASE Acquire(p)
  BY <1>4 DEF Acquire
<1>5. CASE BackOff(p)
  BY <1>5 DEF BackOff
<1>6. CASE BreakIn(p)
  BY <1>6 DEF BreakIn
<1>7. CASE Leave(p)
  <2>1. flag' \in Int
    BY <1>7 DEF Leave
  <2>2. CASE op[p] = "version"
    BY <1>7, <2>1, <2>2 DEF Leave, Returns, LockFrom
  <2>3. CASE op[p] = "init"
    BY <1>7, <2>1, <2>3 DEF Leave, Returns
  <2>4. CASE op[p] \notin {"version", "init"}
    <3>1. Ends(p, "idle") /\ UNCHANGED <<records, stopped, history>>
      BY <1>7, <2>4 DEF Leave, Returns
    <3> QED BY <2>1, <3>1
  <2> QED BY <2>2, <2>3, <2>4
<1>8. CASE NewFull(p)
  BY <1>8 DEF NewFull, Inside
<1>9. CASE NewTake(p)
  BY <1>9 DEF NewTake, Inside
<1>10. CASE NewDone(p)
  BY <1>10 DEF NewDone, Half
<1>11. CASE DeleteThrows(p)
  BY <1>11 DEF DeleteThrows, Inside, Lose
<1>12. CASE DeleteLast(p)
  BY <1>12 DEF DeleteLast, Inside
<1>13. CASE DeleteTake(p)
  <2>1. poolid[at[p]] \in Slots
    BY <1>13, PoolIdInUse DEF DeleteTake, Inside
  <2> QED BY <1>13, <2>1 DEF DeleteTake, Inside
<1>14. CASE DeleteMove(p)
  <2>1. at[p] \in Slots /\ position \in Slots
    BY <1>14 DEF DeleteMove, Half
  <2>2. poolid' \in [Slots -> Slots \cup {NoId}] /\ object' \in [Slots -> Nat]
    BY <1>14, <2>1 DEF DeleteMove
  <2> QED BY <1>14, <2>2 DEF DeleteMove, Half
<1>15. CASE DeleteWild(p)
  BY <1>15 DEF DeleteWild, Half, Lose
<1>16. CASE Read(p)
  BY <1>16 DEF Read
<1>17. CASE Clear(p)
  BY <1>17 DEF Clear
<1>18. CASE Stop(p)
  BY <1>18 DEF Stop, Lose
<1>19. CASE Die(p)
  BY <1>19 DEF Die, Lose
<1>20. CASE Restart(p)
  BY <1>20 DEF Restart
<1> QED
  BY <1>1, <1>2, <1>3, <1>4, <1>5, <1>6, <1>7, <1>8, <1>9, <1>10, <1>11, <1>12,
     <1>13, <1>14, <1>15, <1>16, <1>17, <1>18, <1>19, <1>20 DEF Step

LEMMA TypeInductive == TypeInv /\ [Next]_vars => TypeInv'
<1>1. ASSUME TypeInv, UNCHANGED vars PROVE TypeInv'
  BY <1>1 DEF TypeInv, TypeOK, AtSlot, vars, records, history
<1> QED BY <1>1, TypeStep DEF Next

LEMMA TypeInitial == Init => TypeInv
<1> SUFFICES ASSUME Init PROVE TypeInv
  OBVIOUS
<1>1. poolid \in [Slots -> Slots \cup {NoId}] /\ object \in [Slots -> Nat]
  BY DEF Init, NoObject
<1>2. /\ flag \in Int /\ position \in Nat /\ made \in Nat
      /\ deaths \in 0 .. MaxDeaths /\ lost \in Nat
  BY BoundAssumption DEF Init, Free
<1>3. /\ pc \in [Procs -> {"idle"}] /\ op \in [Procs -> {"none"}]
      /\ at \in [Procs -> Nat] /\ stopped \in [Procs -> BOOLEAN]
  BY DEF Init
<1>4. unsafe \in BOOLEAN
  BY DEF Init
<1>5. TypeOK
  BY <1>1, <1>2, <1>3, <1>4 DEF TypeOK
<1>6. AtSlot
  BY DEF Init, AtSlot
<1> QED BY <1>5, <1>6 DEF TypeInv

\* The header, the records and every process stay within their types, for
\* any processes, pool size and deaths: in particular no index taken from a
\* record is outside the pool when it is used.
THEOREM PoolTypeInvariant == Spec => []TypeOK
<1>1. TypeInv => TypeOK
  BY DEF TypeInv
<1> QED BY TypeInitial, TypeInductive, <1>1, PTL DEF Spec

-----------------------------------------------------------------------------
(* The lock *)

LockInv == FlagExact /\ MutualExclusion

\* A step of p leaves the control of the other processes alone.
LEMMA OthersStay ==
  ASSUME TypeOK, NEW p \in Procs, Step(p), NEW q \in Procs \ {p}
  PROVE  pc'[q] = pc[q] /\ stopped'[q] = stopped[q]
<1> USE DEF TypeOK, Goes, Ends
<1>1. pc'[q] = pc[q]
  BY DEF Step, Call, Acquire, BackOff, BreakIn, Leave, Returns, NewFull, NewTake, NewDone,
     DeleteThrows, DeleteLast, DeleteTake, DeleteMove, DeleteWild, Read, Clear, Stop, Die, Restart
<1>2. stopped'[q] = stopped[q]
  BY DEF Step, Call, Acquire, BackOff, BreakIn, Leave, NewFull, NewTake, NewDone,
     DeleteThrows, DeleteLast, DeleteTake, DeleteMove, DeleteWild, Read, Clear, Stop, Die, Restart
<1> QED BY <1>1, <1>2

Counts(p) == IF p \in Counting THEN 1 ELSE 0

\* How many processes count changes only by the one that moves.
LEMMA CountingChanges ==
  ASSUME TypeOK, NEW p \in Procs, Step(p)
  PROVE  /\ Cardinality(Counting) \in Nat
         /\ Cardinality(Counting') = Cardinality(Counting) + Counts(p)' - Counts(p)
<1> DEFINE Rest == Counting \ {p}
<1>1. IsFiniteSet(Counting) /\ IsFiniteSet(Rest)
  BY ProcsAssumption, FS_Subset DEF Counting
<1>2. Cardinality(Rest) \in Nat /\ Cardinality(Counting) \in Nat
  BY <1>1, FS_CardinalityType
<1>3. Counting' = IF p \in Counting' THEN Rest \cup {p} ELSE Rest
  BY OthersStay DEF Counting
<1>4. Counting = IF p \in Counting THEN Rest \cup {p} ELSE Rest
  OBVIOUS
<1>5. p \notin Rest
  OBVIOUS
<1> HIDE DEF Rest
<1>6. Cardinality(Rest \cup {p}) = Cardinality(Rest) + 1
  BY <1>1, <1>5, FS_AddElement
<1>7. Cardinality(Counting) = Cardinality(Rest) + Counts(p)
  BY <1>2, <1>4, <1>6 DEF Counts
<1>8. Cardinality(Counting') = Cardinality(Rest) + Counts(p)'
  <2>1. CASE p \in Counting'
    <3>1. Cardinality(Counting') = Cardinality(Rest \cup {p})
      BY <1>3, <2>1
    <3> QED BY <1>2, <1>6, <2>1, <3>1 DEF Counts
  <2>2. CASE p \notin Counting'
    <3>1. Cardinality(Counting') = Cardinality(Rest)
      BY <1>3, <2>2
    <3> QED BY <1>2, <2>2, <3>1 DEF Counts
  <2> QED BY <2>1, <2>2
<1>9. Counts(p) \in {0, 1} /\ Counts(p)' \in {0, 1}
  BY DEF Counts
<1> QED BY <1>2, <1>7, <1>8, <1>9

\* Whoever is between lock() and unlock() counts.
LEMMA WithinCounts ==
  ASSUME NEW p \in Procs, Within(p)
  PROVE  p \in Counting
  BY DEF Within, Counting

\* As long as somebody counts, the flag is not free.
LEMMA OneCounts ==
  ASSUME TypeOK, FlagExact, NEW p \in Counting
  PROVE  flag >= 0
<1>1. IsFiniteSet(Counting)
  BY ProcsAssumption, FS_Subset DEF Counting
<1>2. Cardinality(Counting) \in Nat
  BY <1>1, FS_CardinalityType
<1>3. Cardinality(Counting) # 0
  BY <1>1, FS_EmptySet
<1>4. lost \in Nat /\ flag \in Int
  BY DEF TypeOK
<1>5. flag + 1 = Cardinality(Counting) + lost
  BY DEF FlagExact
<1> QED BY <1>2, <1>3, <1>4, <1>5

\* The flag follows every change of that number.
LEMMA FlagFollows ==
  ASSUME TypeOK, FlagExact, NEW p \in Procs, Step(p)
  PROVE  flag' - flag = Counts(p)' - Counts(p) + lost' - lost
<1> DEFINE Goal == flag' - flag = Counts(p)' - Counts(p) + lost' - lost
<1> USE DEF TypeOK, Counting, Counts, Goes, Ends, Inside, Half
<1>1. ASSUME NEW o \in {"new", "position", "delete"}, NEW s, Call(p, o, s)
      PROVE  Goal
  BY <1>1 DEF Call, LockFrom, history
<1>2. CASE Acquire(p)
  BY <1>2 DEF Acquire
<1>3. CASE BackOff(p)
  BY <1>3 DEF BackOff, history
<1>4. CASE BreakIn(p)
  BY <1>4 DEF BreakIn, history
<1>5. CASE Leave(p)
  <2>1. ~stopped[p] => flag > Free
    BY <1>5, OneCounts DEF Leave, Free
  <2>2. Counts(p)' = 0
    BY <1>5 DEF Leave, Returns, LockFrom
  <2>3. Counts(p) = IF stopped[p] THEN 0 ELSE 1
    BY <1>5 DEF Leave
  <2> QED BY <1>5, <2>1, <2>2, <2>3 DEF Leave, history
<1>6. CASE NewFull(p)
  BY <1>6 DEF NewFull, history
<1>7. CASE NewTake(p)
  BY <1>7 DEF NewTake, history
<1>8. CASE NewDone(p)
  BY <1>8 DEF NewDone, history
<1>9. CASE DeleteThrows(p)
  BY <1>9 DEF DeleteThrows, Lose
<1>10. CASE DeleteLast(p)
  BY <1>10 DEF DeleteLast, history
<1>11. CASE DeleteTake(p)
  BY <1>11 DEF DeleteTake, history
<1>12. CASE DeleteMove(p)
  BY <1>12 DEF DeleteMove, history
<1>13. CASE DeleteWild(p)
  BY <1>13 DEF DeleteWild, Lose
<1>14. CASE Read(p)
  BY <1>14 DEF Read, history
<1>15. CASE Clear(p)
  BY <1>15 DEF Clear, history
<1>16. CASE Stop(p)
  BY <1>16 DEF Stop, Lose
<1>17. CASE Die(p)
  BY <1>17 DEF Die, Lose
<1>18. CASE Restart(p)
  BY <1>18 DEF Restart, history
<1> QED
  BY <1>1, <1>2, <1>3, <1>4, <1>5, <1>6, <1>7, <1>8, <1>9,
     <1>10, <1>11, <1>12, <1>13, <1>14, <1>15, <1>16, <1>17, <1>18 DEF Step

LEMMA FlagStep ==
  ASSUME TypeInv, FlagExact, NEW p \in Procs, Step(p)
  PROVE  FlagExact'
<1>1. TypeOK /\ TypeOK'
  BY TypeStep DEF TypeInv
<1> QED BY <1>1, CountingChanges, FlagFollows DEF FlagExact, TypeOK, Counts

\* A process gets between lock() and unlock() only when the flag was free.
LEMMA EntersFree ==
  ASSUME TypeInv, NEW p \in Procs, Step(p), Within(p)', ~Within(p)
  PROVE  Acquire(p) /\ flag = Free
<1> SUFFICES ASSUME ~(Acquire(p) /\ flag = Free) PROVE Within(p)
  OBVIOUS
<1> USE DEF Within, TypeInv, TypeOK, Goes, Ends
<1> QED
  BY DEF Step, Call, LockFrom, Acquire, BackOff, BreakIn, Leave, Returns, NewFull, NewTake,
     NewDone, DeleteThrows, DeleteLast, DeleteTake, DeleteMove, DeleteWild, Read, Clear,
     Stop, Die, Restart, Inside, Half

\* Then there is nobody else.
LEMMA MutexStep ==
  ASSUME TypeInv, LockInv, NEW p \in Procs, Step(p)
  PROVE  MutualExclusion'
<1>1. CASE Within(p)' /\ ~Within(p)
  <2>1. ASSUME NEW q \in Procs \ {p} PROVE ~Within(q)'
    <3>1. ~Within(q)
      BY <1>1, EntersFree, WithinCounts, OneCounts DEF LockInv, TypeInv, Free
    <3> QED BY <3>1, OthersStay DEF Within, TypeInv
  <2> QED BY <2>1 DEF MutualExclusion
<1>2. CASE Within(p)' => Within(p)
  BY <1>2, OthersStay DEF MutualExclusion, Within, LockInv, TypeInv
<1> QED BY <1>1, <1>2

LEMMA LockInitial == Init => LockInv
<1> SUFFICES ASSUME Init PROVE LockInv
  OBVIOUS
<1>1. Counting = {}
  BY DEF Init, Counting
<1>2. FlagExact
  BY <1>1, FS_EmptySet DEF Init, FlagExact, Free
<1>3. MutualExclusion
  BY DEF Init, MutualExclusion, Within
<1> QED BY <1>2, <1>3 DEF LockInv

LEMMA LockInductive == TypeInv /\ LockInv /\ [Next]_vars => LockInv'
<1>1. ASSUME LockInv, UNCHANGED vars PROVE LockInv'
  BY <1>1 DEF LockInv, FlagExact, MutualExclusion, Within, Counting, vars, history
<1> QED BY <1>1, FlagStep, MutexStep DEF Next, LockInv

LEMMA LockAlways == Spec => [](TypeInv /\ LockInv)
  BY TypeInitial, TypeInductive, LockInitial, LockInductive, PTL DEF Spec

\* For any number of processes: two running ones never hold the lock on the
\* header at a time, whatever the others left in the flag.
THEOREM LockExcludes == Spec => []MutualExclusion
<1>1. LockInv => MutualExclusion
  BY DEF LockInv
<1> QED BY LockAlways, <1>1, PTL

\* The flag is free exactly when nobody holds the lock, is about to back off,
\* or has taken an increment with it: every operation gives back what it took.
THEOREM LockCounts == Spec => []FlagExact
<1>1. LockInv => FlagExact
  BY DEF LockInv
<1> QED BY LockAlways, <1>1, PTL

\* A process that dies, is stopped or throws an exception while it counts
\* leaves the pool closed for good: no running process enters it any more.
THEOREM LostLockStays == Spec => LostLocksOut
<1> DEFINE Out == lost > 0 => \A p \in Procs : Within(p)' => Within(p)
<1>1. ASSUME TypeInv, LockInv, [Next]_vars PROVE [Out]_vars
  <2>1. ASSUME NEW p \in Procs, Step(p), lost > 0, NEW q \in Procs, Within(q)'
        PROVE  Within(q)
    <3>1. CASE q # p
      BY <1>1, <2>1, <3>1, OthersStay DEF Within, TypeInv
    <3>2. CASE q = p
      <4>1. IsFiniteSet(Counting)
        BY ProcsAssumption, FS_Subset DEF Counting
      <4>2. Cardinality(Counting) \in Nat
        BY <4>1, FS_CardinalityType
      <4>3. flag # Free
        BY <1>1, <2>1, <4>2 DEF LockInv, FlagExact, TypeInv, TypeOK, Free
      <4> QED BY <1>1, <2>1, <3>2, <4>3, EntersFree
    <3> QED BY <3>1, <3>2
  <2> QED BY <1>1, <2>1 DEF Next
<1>2. TypeInv /\ LockInv /\ [Next]_vars => [Out]_vars
  BY <1>1
<1> QED BY <1>2, LockAlways, PTL DEF Spec, LostLocksOut

-----------------------------------------------------------------------------
(* The records *)

Distinct(n) ==
  \A s, t \in Slots : s < n /\ t < n /\ object[s] = object[t] => s = t

\* What holds between the steps of new_obj and delete_obj: the record that
\* new_obj takes is the first unused one; the record that delete_obj drops is
\* still different from the one it is copied over.
SafeInv ==
  /\ \A p \in Procs : ~stopped[p]
  /\ position <= MaxSize /\ Distinct(position)
  /\ \A s \in Slots : object[s] <= made
  /\ \A p \in Procs :
       /\ Half(p, "new") => at[p] = position /\ position < MaxSize
       /\ Half(p, "delete") =>
            at[p] < position /\ position < MaxSize /\ Distinct(position + 1)

RecordInv == ~unsafe => SafeInv

\* Only one process can be half way through an operation.
LEMMA HalfAlone ==
  ASSUME MutualExclusion, SafeInv, NEW p \in Procs, NEW q \in Procs \ {p},
         pc[p] \in {"inside", "half", "leave"}
  PROVE  pc[q] \notin {"inside", "half", "leave"}
  BY DEF MutualExclusion, Within, SafeInv

\* A step that leaves the objects, position and what is half done alone.
LEMMA RecordsStay ==
  ASSUME TypeOK, SafeInv, NEW p \in Procs, Step(p), UNCHANGED <<position, object, made>>,
         stopped' = stopped, pc'[p] # "half",
         \A q \in Procs \ {p} : op'[q] = op[q] /\ at'[q] = at[q]
  PROVE  SafeInv'
<1>1. ASSUME NEW q \in Procs, NEW o, Half(q, o)'
      PROVE  Half(q, o) /\ at'[q] = at[q]
  BY <1>1, OthersStay DEF Half
<1>2. Distinct(position)' /\ (Distinct(position + 1) => Distinct(position + 1)')
  BY DEF Distinct, SafeInv
<1> QED BY <1>1, <1>2 DEF SafeInv

LEMMA SafeStep ==
  ASSUME TypeInv, TypeOK', MutualExclusion, SafeInv, NEW p \in Procs, Step(p), ~unsafe'
  PROVE  SafeInv'
<1> USE DEF TypeInv, Goes, Ends
<1>1. CASE NewTake(p)
  <2>1. \A q \in Procs \ {p} : ~Half(q, "new")' /\ ~Half(q, "delete")'
    BY <1>1, HalfAlone, OthersStay DEF NewTake, Inside, Half
  <2>2. at'[p] = position /\ op'[p] = "new"
    BY <1>1 DEF NewTake, Inside, TypeOK
  <2>3. stopped' = stopped /\ UNCHANGED <<position, object, made>> /\ position < MaxSize
    BY <1>1 DEF NewTake
  <2> QED BY <2>1, <2>2, <2>3 DEF SafeInv, Distinct, Half
<1>2. CASE NewDone(p)
  <2>1. \A q \in Procs : ~Half(q, "new")' /\ ~Half(q, "delete")'
    <3>1. pc'[p] = "leave"
      BY <1>2 DEF NewDone, TypeOK
    <3> QED BY <1>2, <3>1, HalfAlone, OthersStay DEF NewDone, Half
  <2>2. at[p] = position /\ position < MaxSize /\ position \in Slots
    BY <1>2, SizeAssumption DEF NewDone, SafeInv, TypeOK, Slots
  <2>3. /\ position' = position + 1 /\ made' = made + 1 /\ stopped' = stopped
        /\ object' = [object EXCEPT ![position] = made + 1]
    BY <1>2, <2>2 DEF NewDone
  <2>4. \A s \in Slots : object'[s] = IF s = position THEN made + 1 ELSE object[s]
    BY <2>2, <2>3 DEF TypeOK
  <2>5. Distinct(position)'
    BY <2>2, <2>3, <2>4, SizeAssumption DEF Distinct, SafeInv, TypeOK, Slots
  <2>6. \A s \in Slots : object'[s] <= made'
    BY <2>3, <2>4 DEF SafeInv, TypeOK
  <2> QED BY <2>1, <2>2, <2>3, <2>5, <2>6, SizeAssumption DEF SafeInv, TypeOK
<1>3. CASE DeleteLast(p)
  <2>1. \A q \in Procs : ~Half(q, "new")' /\ ~Half(q, "delete")'
    <3>1. pc'[p] = "leave"
      BY <1>3 DEF DeleteLast, TypeOK
    <3> QED BY <1>3, <3>1, HalfAlone, OthersStay DEF DeleteLast, Inside, Half
  <2>2. /\ position' = position - 1 /\ stopped' = stopped /\ UNCHANGED <<object, made>>
    BY <1>3 DEF DeleteLast
  <2>3. Distinct(position)'
    BY <2>2 DEF Distinct, SafeInv, TypeOK, Slots
  <2> QED BY <2>1, <2>2, <2>3, SizeAssumption DEF SafeInv, TypeOK
<1>4. CASE DeleteTake(p)
  <2>1. \A q \in Procs \ {p} : ~Half(q, "new")' /\ ~Half(q, "delete")'
    BY <1>4, HalfAlone, OthersStay DEF DeleteTake, Inside, Half
  <2>2. /\ position' = position - 1 /\ position > 0 /\ stopped' = stopped
        /\ UNCHANGED <<object, made>> /\ op'[p] = "delete"
    BY <1>4 DEF DeleteTake, Inside
  <2>3. poolid[at[p]] < position - 1
    BY <1>4, PoolIdInUse DEF DeleteTake, Inside, AtSlot
  <2>4. at'[p] < position'
    BY <1>4, <2>2, <2>3 DEF DeleteTake, TypeOK
  <2>5. Distinct(position)' /\ Distinct(position + 1)'
    BY <2>2 DEF Distinct, SafeInv, TypeOK, Slots
  <2> QED BY <2>1, <2>2, <2>4, <2>5, SizeAssumption DEF SafeInv, TypeOK, Half
<1>5. CASE DeleteMove(p)
  <2>1. \A q \in Procs : ~Half(q, "new")' /\ ~Half(q, "delete")'
    <3>1. pc'[p] = "leave"
      BY <1>5 DEF DeleteMove, TypeOK
    <3> QED BY <1>5, <3>1, HalfAlone, OthersStay DEF DeleteMove, Half
  <2>2. at[p] < position /\ position < MaxSize /\ Distinct(position + 1)
    BY <1>5 DEF DeleteMove, SafeInv
  <2>3. at[p] \in Slots /\ position \in Slots
    <3>1. at[p] \in Nat /\ position \in Nat
      BY DEF TypeOK
    <3> QED BY <2>2, <3>1, SizeAssumption DEF Slots
  <2>4. /\ position' = position /\ made' = made /\ stopped' = stopped
        /\ \A s \in Slots : object'[s] = IF s = at[p] THEN object[position] ELSE object[s]
    BY <1>5, <2>3 DEF DeleteMove, TypeOK
  <2>5. Distinct(position)'
    <3> DEFINE from(s) == IF s = at[p] THEN position ELSE s
    <3> SUFFICES ASSUME NEW s \in Slots, NEW t \in Slots, s < position, t < position,
                        object'[s] = object'[t]
                 PROVE  s = t
      BY <2>4 DEF Distinct
    <3>1. object[from(s)] = object[from(t)]
      BY <2>4
    <3>2. from(s) \in Slots /\ from(t) \in Slots /\ from(s) < position + 1 /\ from(t) < position + 1
      BY <2>3 DEF Slots
    <3>3. from(s) = from(t)
      BY <2>2, <3>1, <3>2 DEF Distinct
    <3> QED BY <3>3, <2>3 DEF TypeOK
  <2>6. \A s \in Slots : object'[s] <= made'
    BY <2>3, <2>4 DEF SafeInv
  <2> QED BY <2>1, <2>4, <2>5, <2>6 DEF SafeInv
<1>6. CASE ~(NewTake(p) \/ NewDone(p) \/ DeleteLast(p) \/ DeleteTake(p) \/ DeleteMove(p))
  <2>1. ~Stop(p)
    BY DEF Stop
  <2>2. UNCHANGED <<position, object, made>> /\ stopped' = stopped
    BY <1>6, <2>1 DEF Step, Call, Acquire, BackOff, BreakIn, Leave, NewFull, DeleteThrows,
       DeleteWild, Read, Clear, Die, Restart, records, SafeInv, TypeOK
  <2>3. pc'[p] # "half" /\ \A q \in Procs \ {p} : op'[q] = op[q] /\ at'[q] = at[q]
    BY <1>6, <2>1 DEF Step, Call, LockFrom, Acquire, BackOff, BreakIn, Leave, Returns, NewFull,
       DeleteThrows, DeleteWild, Read, Clear, Die, Restart, SafeInv, TypeOK
  <2> QED BY <2>2, <2>3, RecordsStay
<1> QED BY <1>1, <1>2, <1>3, <1>4, <1>5, <1>6

LEMMA RecordInductive ==
  TypeInv /\ LockInv /\ RecordInv /\ [Next]_vars => RecordInv'
<1> SUFFICES ASSUME TypeInv, LockInv, RecordInv, [Next]_vars, ~unsafe'
             PROVE  SafeInv'
  BY DEF RecordInv
<1>1. CASE UNCHANGED vars
  BY <1>1 DEF RecordInv, SafeInv, Distinct, Half, vars, records, history
<1>2. ASSUME NEW p \in Procs, Step(p) PROVE SafeInv'
  <2>1. ~unsafe
    BY <1>2 DEF Step, Call, Acquire, BackOff, BreakIn, Leave, NewFull, NewTake, NewDone,
       DeleteThrows, DeleteLast, DeleteTake, DeleteMove, DeleteWild, Read, Clear, Stop, Die,
       Restart, history
  <2> QED BY <1>2, <2>1, SafeStep, TypeStep DEF RecordInv, LockInv, TypeInv
<1> QED BY <1>1, <1>2 DEF Next

LEMMA RecordInitial == Init => RecordInv
  BY SizeAssumption DEF Init, RecordInv, SafeInv, Distinct, Half, Slots, NoObject

LEMMA RecordsAlways == Spec => [](TypeInv /\ LockInv /\ RecordInv)
  BY TypeInitial, TypeInductive, LockInitial, LockInductive, RecordInitial, RecordInductive,
     PTL DEF Spec

\* For every pool size and any processes: as long as no process goes past
\* the lock because it is stopping, no object is in two of the records in
\* use, although processes die between the writes of new_obj and delete_obj
\* and the poolids in the records are stale.
THEOREM PoolSafety == Spec => []NoneTwice
<1>1. RecordInv => NoneTwice
  BY DEF RecordInv, SafeInv, Distinct, NoneTwice
<1> QED BY RecordsAlways, <1>1, PTL

-----------------------------------------------------------------------------
(* The pool as a sequence of objects *)

\* Nobody is half way through delete_obj ...
LEMMA WholePool ==
  ASSUME ~unsafe, \A q \in Procs : ~Half(q, "delete")
  PROVE  Doomed = {} /\ InUse = [k \in 1 .. position |-> object[k - 1]]
<1>1. Doomed = {}
  BY DEF Doomed
<1> QED BY <1>1 DEF InUse

LEMMA WholePoolPrimed ==
  ASSUME ~unsafe', \A q \in Procs : ~Half(q, "delete")'
  PROVE  Doomed' = {} /\ InUse' = [k \in 1 .. position' |-> object'[k - 1]]
<1>1. Doomed' = {}
  BY DEF Doomed
<1> QED BY <1>1 DEF InUse

\* ... or p is, and nobody else.
LEMMA HalfPool ==
  ASSUME ~unsafe, NEW p \in Procs, Half(p, "delete"),
         \A q \in Procs \ {p} : ~Half(q, "delete")
  PROVE  Doomed = {at[p] + 1} /\ InUse = [k \in 1 .. position + 1 |-> object[k - 1]]
<1>1. {q \in Procs : Half(q, "delete") /\ ~unsafe} = {p}
  OBVIOUS
<1>2. Doomed = {at[p] + 1}
  BY <1>1 DEF Doomed
<1> QED BY <1>2 DEF InUse

LEMMA HalfPoolPrimed ==
  ASSUME ~unsafe', NEW p \in Procs, Half(p, "delete")',
         \A q \in Procs \ {p} : ~Half(q, "delete")'
  PROVE  Doomed' = {at'[p] + 1} /\ InUse' = [k \in 1 .. position' + 1 |-> object'[k - 1]]
<1>1. {q \in Procs : Half(q, "delete")' /\ ~unsafe'} = {p}
  OBVIOUS
<1>2. Doomed' = {at'[p] + 1}
  BY <1>1 DEF Doomed
<1> QED BY <1>2 DEF InUse

\* A step that leaves the header, the objects and the half deletion alone.
LEMMA PoolStays ==
  ASSUME UNCHANGED <<position, object, unsafe>>,
         \A q \in Procs : Half(q, "delete")' <=> Half(q, "delete"),
         \A q \in Procs : Half(q, "delete") => at'[q] = at[q]
  PROVE  UNCHANGED <<InUse, Doomed>>
<1>1. {q \in Procs : Half(q, "delete") /\ ~unsafe}'
        = {q \in Procs : Half(q, "delete") /\ ~unsafe}
  OBVIOUS
<1>2. Doomed' = Doomed
  BY <1>1 DEF Doomed
<1> QED BY <1>2 DEF InUse

\* Each step of a process is a step of that pool or changes nothing of it.
LEMMA PoolStep ==
  ASSUME TypeInv, TypeOK', LockInv, ~unsafe, SafeInv, NEW p \in Procs, Step(p), ~unsafe'
  PROVE  [Pool!Next]_<<InUse, made, Doomed, deaths, unsafe>>
<1> USE DEF TypeInv, Goes, Ends
<1>a. ASSUME pc[p] \in {"inside", "half", "leave"}
      PROVE  \A q \in Procs \ {p} : ~Half(q, "delete") /\ ~Half(q, "delete")'
  BY <1>a, HalfAlone, OthersStay DEF Half, LockInv
<1>1. CASE NewDone(p)
  <2>1. \A q \in Procs : ~Half(q, "delete") /\ ~Half(q, "delete")'
    BY <1>1, <1>a DEF NewDone, Half, TypeOK
  <2>2. /\ at[p] = position /\ position < MaxSize
        /\ position' = position + 1 /\ made' = made + 1
        /\ object' = [object EXCEPT ![position] = made + 1]
        /\ UNCHANGED <<deaths, unsafe>>
    BY <1>1 DEF NewDone, SafeInv, history
  <2>3. InUse = [k \in 1 .. position |-> object[k - 1]] /\ Doomed = {}
    BY <2>1, WholePool
  <2>4. InUse' = [k \in 1 .. position + 1 |-> object'[k - 1]] /\ Doomed' = {}
    BY <2>1, <2>2, WholePoolPrimed
  <2>5. InUse \in Seq(Nat) /\ Len(InUse) = position
    BY <2>2, <2>3, SizeAssumption DEF TypeOK, Slots
  <2>6. InUse' = Append(InUse, made + 1)
    <3>1. \A k \in 1 .. position + 1 :
            object'[k - 1] = IF k = position + 1 THEN made + 1 ELSE object[k - 1]
      BY <2>2, SizeAssumption DEF TypeOK, Slots
    <3>2. InUse' = [k \in 1 .. Len(InUse) + 1 |->
                      IF k = Len(InUse) + 1 THEN made + 1 ELSE InUse[k]]
      BY <2>3, <2>4, <2>5, <3>1 DEF TypeOK
    <3> HIDE DEF InUse
    <3> QED BY <2>5, <3>2
  <2> QED BY <2>2, <2>3, <2>4, <2>5, <2>6 DEF Pool!Next, Pool!New
<1>2. CASE DeleteLast(p)
  <2>1. \A q \in Procs : ~Half(q, "delete") /\ ~Half(q, "delete")'
    BY <1>2, <1>a DEF DeleteLast, Inside, Half, TypeOK
  <2>2. /\ position > 0 /\ position' = position - 1
        /\ UNCHANGED <<object, made, deaths, unsafe>>
    BY <1>2 DEF DeleteLast, history
  <2>3. InUse = [k \in 1 .. position |-> object[k - 1]] /\ Doomed = {}
    BY <2>1, WholePool
  <2>4. InUse' = [k \in 1 .. position - 1 |-> object[k - 1]] /\ Doomed' = {}
    BY <2>1, <2>2, WholePoolPrimed
  <2>5. Len(InUse) = position /\ InUse # <<>>
    <3>1. position \in Nat /\ Len(InUse) = position
      BY <2>3 DEF TypeOK
    <3>2. Len(<<>>) = 0
      OBVIOUS
    <3> QED BY <2>2, <3>1, <3>2
  <2>6. InUse' = Pool!Shortened(Len(InUse))
    BY <2>3, <2>4, <2>5 DEF Pool!Shortened, TypeOK
  <2> QED BY <2>2, <2>3, <2>4, <2>5, <2>6 DEF Pool!Next, Pool!DeleteLast
<1>3. CASE DeleteTake(p)
  <2>1. \A q \in Procs \ {p} : ~Half(q, "delete") /\ ~Half(q, "delete")'
    BY <1>3, <1>a DEF DeleteTake, Inside
  <2>2. /\ ~Half(p, "delete") /\ Half(p, "delete")'
        /\ position > 0 /\ position' = position - 1
        /\ at'[p] = poolid[at[p]] /\ UNCHANGED <<object, made, deaths, unsafe>>
    BY <1>3 DEF DeleteTake, Inside, Half, TypeOK, history
  <2>3. at'[p] \in Nat /\ at'[p] < position - 1
    <3>1. poolid[at[p]] \in Slots /\ poolid[at[p]] < position - 1
      BY <1>3, PoolIdInUse DEF DeleteTake, Inside, AtSlot
    <3> QED BY <2>2, <3>1, SizeAssumption DEF Slots
  <2>4. InUse = [k \in 1 .. position |-> object[k - 1]] /\ Doomed = {}
    BY <2>1, <2>2, WholePool
  <2>5. InUse' = InUse /\ Doomed' = {at'[p] + 1}
    <3>1. position - 1 + 1 = position
      BY DEF TypeOK
    <3> QED BY <2>1, <2>2, <2>4, <3>1, HalfPoolPrimed
  <2>6. at'[p] + 1 \in 1 .. Len(InUse) - 1
    BY <2>2, <2>3, <2>4 DEF TypeOK
  <2> QED BY <2>2, <2>4, <2>5, <2>6 DEF Pool!Next, Pool!DeleteStart
<1>4. CASE DeleteMove(p)
  <2>1. \A q \in Procs \ {p} : ~Half(q, "delete") /\ ~Half(q, "delete")'
    BY <1>4, <1>a DEF DeleteMove, Half
  <2>2. /\ Half(p, "delete") /\ ~Half(p, "delete")'
        /\ at[p] < position /\ position < MaxSize
        /\ object' = [object EXCEPT ![at[p]] = object[position]]
        /\ UNCHANGED <<position, made, deaths, unsafe>>
    BY <1>4 DEF DeleteMove, Half, TypeOK, SafeInv, history
  <2>3. InUse = [k \in 1 .. position + 1 |-> object[k - 1]] /\ Doomed = {at[p] + 1}
    BY <2>1, <2>2, HalfPool
  <2>4. InUse' = [k \in 1 .. position |-> object'[k - 1]] /\ Doomed' = {}
    BY <2>1, <2>2, WholePoolPrimed
  <2>5. Len(InUse) = position + 1 /\ at[p] + 1 \in 1 .. Len(InUse) - 1
    BY <2>2, <2>3 DEF TypeOK
  <2>6. InUse' = Pool!Shortened(at[p] + 1)
    <3>1. \A k \in 1 .. position :
            object'[k - 1] = IF k = at[p] + 1 THEN object[position] ELSE object[k - 1]
      BY <2>2, SizeAssumption DEF TypeOK, Slots
    <3>2. InUse[position + 1] = object[position]
      BY <2>3 DEF TypeOK
    <3>3. Pool!Shortened(at[p] + 1) =
            [k \in 1 .. position |-> IF k = at[p] + 1 THEN object[position] ELSE object[k - 1]]
      <4>1. \A k \in 1 .. position : InUse[k] = object[k - 1]
        BY <2>3 DEF TypeOK
      <4>2. Len(InUse) - 1 = position /\ InUse[Len(InUse)] = object[position]
        BY <2>5, <3>2 DEF TypeOK
      <4> QED BY <4>1, <4>2 DEF Pool!Shortened
    <3> QED BY <2>4, <3>1, <3>3
  <2> QED BY <2>2, <2>3, <2>4, <2>5, <2>6 DEF Pool!Next, Pool!DeleteEnd
<1>5. CASE Die(p) /\ Half(p, "delete")
  <2>1. \A q \in Procs : ~Half(q, "delete")'
    BY <1>5, <1>a DEF Die, Half, TypeOK
  <2>2. \A q \in Procs \ {p} : ~Half(q, "delete")
    BY <1>5, <1>a DEF Half
  <2>3. UNCHANGED <<position, object, made, unsafe>> /\ deaths' = deaths + 1
    BY <1>5 DEF Die, records
  <2>4. InUse = [k \in 1 .. position + 1 |-> object[k - 1]] /\ Doomed # {}
    BY <1>5, <2>2, HalfPool
  <2>5. InUse' = [k \in 1 .. position |-> object[k - 1]] /\ Doomed' = {}
    BY <2>1, <2>3, WholePoolPrimed
  <2>6. InUse' = Pool!Shortened(Len(InUse))
    BY <2>4, <2>5 DEF Pool!Shortened, TypeOK
  <2> QED BY <2>3, <2>4, <2>5, <2>6 DEF Pool!Next, Pool!DeathHalfWay
<1>6. CASE Die(p) /\ ~Half(p, "delete")
  <2>1. UNCHANGED <<position, object, made, unsafe>> /\ deaths' = deaths + 1
    BY <1>6 DEF Die, records
  <2>2. /\ \A q \in Procs : Half(q, "delete")' <=> Half(q, "delete")
        /\ \A q \in Procs : Half(q, "delete") => at'[q] = at[q]
    BY <1>6 DEF Die, Half, TypeOK
  <2>3. UNCHANGED <<InUse, Doomed>>
    BY <2>1, <2>2, PoolStays
  <2> QED BY <2>1, <2>3 DEF Pool!Next, Pool!Death
<1>7. CASE ~(NewDone(p) \/ DeleteLast(p) \/ DeleteTake(p) \/ DeleteMove(p) \/ Die(p))
  <2>1. ~Stop(p) /\ ~DeleteWild(p)
    BY SizeAssumption DEF Stop, DeleteWild, SafeInv, TypeOK
  <2>2. UNCHANGED <<position, object, made, deaths, unsafe>>
    BY <1>7, <2>1 DEF Step, Call, Acquire, BackOff, BreakIn, Leave, NewFull, NewTake,
       DeleteThrows, Read, Clear, Restart, records, history
  <2>3. ~Half(p, "delete") /\ ~Half(p, "delete")'
    BY <1>7, <2>1 DEF Step, Call, LockFrom, Acquire, BackOff, BreakIn, Leave, Returns, NewFull,
       NewTake, DeleteThrows, Read, Clear, Restart, Inside, Half, TypeOK
  <2>4. \A q \in Procs \ {p} : op'[q] = op[q] /\ at'[q] = at[q]
    BY <1>7, <2>1 DEF Step, Call, LockFrom, Acquire, BackOff, BreakIn, Leave, Returns, NewFull,
       NewTake, DeleteThrows, Read, Clear, Restart, TypeOK
  <2>5. UNCHANGED <<InUse, Doomed>>
    <3>1. \A q \in Procs : Half(q, "delete")' <=> Half(q, "delete")
      BY <2>3, <2>4, OthersStay DEF Half
    <3>2. \A q \in Procs : Half(q, "delete") => at'[q] = at[q]
      BY <2>3, <2>4
    <3> QED BY <2>2, <3>1, <3>2, PoolStays
  <2> QED BY <2>2, <2>5
<1> QED BY <1>1, <1>2, <1>3, <1>4, <1>5, <1>6, <1>7

\* For any processes, pool size and deaths: until a process is stopped, the
\* header and the records come to a sequence of objects. new_obj appends, a
\* deletion moves the last object into the gap, nothing is done in between,
\* and only a process that dies half way costs another record than its own.
THEOREM PoolImplementsRecords == Spec => ImplementsPool
<1>1. Init => Pool!Init
  <2> SUFFICES ASSUME Init PROVE Pool!Init
    OBVIOUS
  <2>1. /\ ~unsafe /\ position = 0 /\ made = 0 /\ deaths = 0 /\ unsafe = FALSE
        /\ \A q \in Procs : ~Half(q, "delete")
    BY DEF Init, Half
  <2>2. Doomed = {} /\ InUse = [k \in 1 .. 0 |-> object[k - 1]]
    BY <2>1, WholePool
  <2>3. InUse = <<>>
    BY <2>2
  <2> QED BY <2>1, <2>2, <2>3 DEF Pool!Init
<1>2. ASSUME TypeInv, LockInv, RecordInv, TypeInv', [Next]_vars
      PROVE  [Pool!Next]_<<InUse, made, Doomed, deaths, unsafe>>
  <2>1. CASE UNCHANGED vars
    <3>1. UNCHANGED <<InUse, Doomed>>
      BY <2>1, PoolStays DEF vars, records, history, Half
    <3> QED BY <2>1, <3>1 DEF vars, records, history
  <2>2. CASE unsafe'
    BY <1>2, <2>2 DEF Pool!Next, Pool!Breaks, TypeInv, TypeOK
  <2>3. ASSUME NEW p \in Procs, Step(p), ~unsafe'
        PROVE  [Pool!Next]_<<InUse, made, Doomed, deaths, unsafe>>
    <3>1. ~unsafe
      BY <2>3 DEF Step, Call, Acquire, BackOff, BreakIn, Leave, NewFull, NewTake, NewDone,
         DeleteThrows, DeleteLast, DeleteTake, DeleteMove, DeleteWild, Read, Clear, Stop, Die,
         Restart, history
    <3> QED BY <1>2, <2>3, <3>1, PoolStep DEF RecordInv, TypeInv
  <2> QED BY <1>2, <2>1, <2>2, <2>3 DEF Next
<1>3. TypeInv /\ LockInv /\ RecordInv /\ TypeInv' /\ [Next]_vars
        => [Pool!Next]_<<InUse, made, Doomed, deaths, unsafe>>
  BY <1>2
<1> QED BY <1>1, <1>3, RecordsAlways, PTL DEF Spec, ImplementsPool, Pool!Spec, Pool!vars

=============================================================================
