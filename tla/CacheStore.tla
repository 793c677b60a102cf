----------------------------- MODULE CacheStore -----------------------------
(***************************************************************************)
(* The cache over shared memory (cache/dbstore.cc): keyhash_, a ShareMap,  *)
(* gives for each key the index of a record in a UnitPool.  Several        *)
(* processes get, put and forget; the one named Service keeps the pool and *)
(* removes the records whose time is over (Node::flush).                   *)
(*                                                                         *)
(* An operation on the pool is one step: SharePool has the lock on its     *)
(* header.  forget and the service delete records and leave keyhash_ as it *)
(* is, so keys go on naming indices that are free or another's: stale      *)
(* keeps the keys to which this has happened, and the properties are about *)
(* the others.  recycle() never enters a key, so put finds nothing to      *)
(* recycle, and isfull() has no effect.                                    *)
(*                                                                         *)
(* Not modelled: the contents of records, which put writes only from the   *)
(* second time on, and saving them to the database.                        *)
(***************************************************************************)
EXTENDS ShareMap

CONSTANTS
  Service,  \* the process that keeps the pool; it calls nothing else
  Calls,    \* the operations and keys that each other process calls
  MaxCalls, \* bound: how many calls there are
  Timed,    \* the keys that are put for a number of minutes
  PoolMax   \* max_size_ of the pool, at most 10

ASSUME StoreAssumption ==
  /\ Service \in Procs
  /\ Calls \in [Procs \ {Service} -> SUBSET ({"get", "put", "forget"} \X Keys)]
  /\ MaxCalls \in Nat /\ Timed \subseteq Keys /\ PoolMax \in 1 .. 10

VARIABLES
  calls,      \* how many calls there have been
  op,         \* the operation each process is in
  position,   \* poolposition of the pool
  poolid,     \* the poolid written in each record
  timed,      \* minutes of the record is not 0
  owner,      \* the key each record was taken for
  locked,     \* the header was left locked by an assertion that failed
  stale,      \* keys whose record has been removed, or moved
  raced,      \* keys that two processes have put for the first time at once
  unnamed     \* keys that found no room in the map

pool == <<position, poolid, timed, owner, locked, stale>>
history == <<raced, unnamed, calls>>
vars == <<map, local, op, pool, history>>

Records == 0 .. PoolMax - 1

Init ==
  /\ MapInit
  /\ calls = 0 /\ op = [p \in Procs |-> "none"]
  /\ position = 0 /\ poolid = [i \in Records |-> None]
  /\ timed = [i \in Records |-> FALSE] /\ owner = [i \in Records |-> NoKey]
  /\ locked = FALSE /\ stale = {} /\ raced = {} /\ unnamed = {}

Clients == Procs \ {Service}

\* The call ends.
Ends(p) == Returns(p) /\ op' = [op EXCEPT ![p] = "none"]

Call(p, o, k) ==
  /\ pc[p] = "idle" /\ Goes(p, "look")
  /\ calls < MaxCalls /\ calls' = calls + 1
  /\ op' = [op EXCEPT ![p] = o] /\ key' = [key EXCEPT ![p] = k]
  /\ UNCHANGED <<map, at, index, pool, raced, unnamed>>

\* keyhash_->get, the first step of every operation.
LookFound(p) ==
  /\ pc[p] = "look"
  /\ \E n \in Nodes : Found(key[p], n) /\ WorksAt(p, n)
  /\ Goes(p, "value")
  /\ UNCHANGED <<map, key, index, op, pool, history>>

\* Processes that have taken a record for k and not entered it in the map.
Entering(k) ==
  {q \in Clients : key[q] = k /\ pc[q] \in {"set", "node", "next", "link"}}

\* Processes that have missed k in the map and will enter it.
Missed(k) == Entering(k) \cup {q \in Clients : key[q] = k /\ pc[q] = "take"}

LookMissing(p) ==
  /\ pc[p] = "look" /\ Matches(key[p]) = {}
  /\ \/ /\ op[p] = "put" /\ Goes(p, "take")
        /\ raced' = IF Missed(key[p]) = {} THEN raced ELSE raced \cup {key[p]}
        /\ UNCHANGED <<key, at, index, op>>
     \/ op[p] # "put" /\ Ends(p) /\ UNCHANGED raced
  /\ UNCHANGED <<map, pool, unnamed, calls>>

\* Mutant: put takes a record for every key.
ReadValueTakes(p) ==
  /\ pc[p] = "value"
  /\ index' = [index EXCEPT ![p] = ReadIndex(at[p])]
  /\ Goes(p, IF op[p] = "put" THEN "take" ELSE op[p])
  /\ UNCHANGED <<map, key, at, op, pool, history>>

\* The value is read without the node's lock.
ReadValue(p) ==
  /\ pc[p] = "value"
  /\ index' = [index EXCEPT ![p] = ReadIndex(at[p])] /\ Goes(p, op[p])
  /\ UNCHANGED <<map, key, at, op, pool, history>>

-----------------------------------------------------------------------------
(* get *)

\* An index that is not below the position gives nothing.
GetRecord(p) ==
  /\ pc[p] = "get" /\ ~locked /\ Ends(p)
  /\ UNCHANGED <<map, pool, history>>

-----------------------------------------------------------------------------
(* put *)

\* A record is taken for key k.
Takes(k) ==
  /\ owner' = [owner EXCEPT ![position] = k]
  /\ poolid' = [poolid EXCEPT ![position] = position]
  /\ position' = position + 1
  /\ UNCHANGED <<timed, locked>>

\* Mutant: the limit is off by one.
RoomBeyond == position <= PoolMax
Room == position < PoolMax

SetsMinutes(p) == timed' = [timed EXCEPT ![index[p]] = key[p] \in Timed]

\* The whole record is written, its poolid with it: the value is a copy of
\* the record, or was made by the caller.
Overwrite(p) ==
  /\ pc[p] = "put"
  /\ \E id \in {poolid[index[p]], None} : poolid' = [poolid EXCEPT ![index[p]] = id]
  /\ SetsMinutes(p)
  /\ Ends(p)
  /\ UNCHANGED <<map, position, owner, locked, stale, history>>

TakeRecord(p) ==
  /\ pc[p] = "take" /\ ~locked /\ Room
  /\ Takes(key[p]) /\ index' = [index EXCEPT ![p] = position]
  /\ Goes(p, "set")
  /\ UNCHANGED <<map, key, at, op, stale, history>>

TakeFull(p) ==
  /\ pc[p] = "take" /\ ~locked /\ position >= PoolMax /\ Ends(p)
  /\ UNCHANGED <<map, pool, history>>

Enter(p) == SetStep(p) /\ UNCHANGED <<op, pool, history>>

\* The map is full: set fails, put takes no notice.
EnterFull(p) ==
  /\ pc[p] = "node" /\ used >= MapMax
  /\ unnamed' = unnamed \cup {key[p]} /\ Goes(p, "minutes")
  /\ UNCHANGED <<map, key, at, index, op, pool, raced, calls>>

SetMinutes(p) ==
  /\ pc[p] = "minutes"
  /\ SetsMinutes(p) /\ Ends(p)
  /\ UNCHANGED <<map, position, poolid, owner, locked, stale, history>>

-----------------------------------------------------------------------------
(* forget, and the service *)

Last == position - 1
Owners(I) == {owner[i] : i \in I} \ {NoKey}

\* Mutant: nothing is moved into the gap.
MovesNothing(i) ==
  /\ stale' = stale \cup Owners({i})
  /\ UNCHANGED <<poolid, timed, owner>>

\* The last record is copied over the deleted one, poolid and all.
Moves(i) ==
  /\ poolid' = IF i = Last THEN poolid
               ELSE [poolid EXCEPT ![i] = poolid[Last], ![Last] = None]
  /\ timed' = [timed EXCEPT ![i] = timed[Last]]
  /\ owner' = [owner EXCEPT ![i] = owner[Last], ![Last] = NoKey]
  /\ stale' = stale \cup Owners({i, Last})

\* delete_obj of the record at index i: it goes by the record's poolid, and
\* an assertion that fails leaves the header locked.
Delete(i) ==
  /\ ~locked
  /\ LET id == poolid[i] IN
     IF id # None /\ id < position
     THEN Moves(id) /\ position' = position - 1 /\ UNCHANGED locked
     ELSE locked' = TRUE /\ UNCHANGED <<position, poolid, timed, owner, stale>>

Forget(p) ==
  /\ pc[p] = "forget" /\ Delete(index[p]) /\ Ends(p)
  /\ UNCHANGED <<map, history>>

\* Node::flush: the number of records is read once.
FlushStart ==
  /\ pc[Service] = "idle" /\ ~locked
  /\ index' = [index EXCEPT ![Service] = position] /\ WorksAt(Service, 0)
  /\ Goes(Service, "flush")
  /\ UNCHANGED <<map, key, op, pool, history>>

\* The next record whose time is over; going past the others is no step.
FlushExpired ==
  /\ pc[Service] = "flush"
  /\ \E i \in at[Service] .. index[Service] - 1 :
       timed[i] /\ Delete(i) /\ WorksAt(Service, i + 1)
  /\ UNCHANGED <<map, pc, key, index, op, history>>

FlushEnd ==
  /\ pc[Service] = "flush" /\ Ends(Service)
  /\ UNCHANGED <<map, pool, history>>

Next ==
  \/ \E p \in Clients :
       \/ \E c \in Calls[p] : Call(p, c[1], c[2])
       \/ LookFound(p) \/ LookMissing(p) \/ ReadValue(p)
       \/ GetRecord(p)
       \/ Overwrite(p) \/ TakeRecord(p) \/ TakeFull(p)
       \/ Enter(p) \/ EnterFull(p) \/ SetMinutes(p)
       \/ Forget(p)
  \/ FlushStart \/ FlushExpired \/ FlushEnd

Spec == Init /\ [][Next]_vars

-----------------------------------------------------------------------------
(* Properties *)

TypeOK ==
  /\ used \in 0 .. MapMax
  /\ nkey \in [Nodes -> Keys \cup {NoKey}]
  /\ nval \in [Nodes -> Records \cup {Blank}]
  /\ next \in [Nodes -> Nodes \cup {None}] /\ cur \in [Buckets -> Nodes \cup {None}]
  /\ \A p \in Clients : at[p] \in Nodes \cup {None}
  /\ \A p \in Clients : index[p] \in Records \cup {None}
  /\ at[Service] \in Records \cup {None, PoolMax}
  /\ index[Service] \in Records \cup {None, PoolMax}
  /\ key \in [Procs -> Keys \cup {NoKey}]
  /\ op \in [Procs -> {"none", "get", "put", "forget"}]
  /\ pc \in [Procs -> {"idle", "look", "value", "get", "put", "take",
                       "set", "clear", "rewrite", "node", "next",
                       "link", "minutes", "forget", "flush"}]
  /\ calls \in 0 .. MaxCalls /\ position \in 0 .. PoolMax
  /\ poolid \in [Records -> Records \cup {None}] /\ timed \in [Records -> BOOLEAN]
  /\ owner \in [Records -> Keys \cup {NoKey}] /\ locked \in BOOLEAN
  /\ stale \subseteq Keys /\ raced \subseteq Keys /\ unnamed \subseteq Keys
  /\ crossed \subseteq Buckets

\* A key is in order unless its record was removed or moved, two processes
\* have put it first at the same time, or its node was lost: because two
\* processes added to its bucket at once, or the map was full.
InOrder(k) ==
  k \notin stale \cup raced \cup unnamed /\ Hash[k] \notin crossed

\* The record that an operation has found for a key was taken for that key:
\* no interleaving of gets, puts and first puts of other keys, no chain in
\* the making, and no removal or move of other records changes that.
RightRecord ==
  \A p \in Clients :
    pc[p] \in {"get", "put", "minutes", "forget"} /\ InOrder(key[p]) =>
      index[p] < position /\ owner[index[p]] = key[p]

Linked == {n \in Nodes : n < used /\ nkey[n] # NoKey
             /\ \A p \in Clients : at[p] = n => pc[p] \notin {"next", "link"}}

\* Chains hold nodes of their own bucket, complete with key and value, and
\* every node that was added can be found, while no two processes add to a
\* bucket at the same time.
ChainsWhole ==
  \A b \in Buckets :
    /\ Chain(cur[b]) \subseteq {n \in Linked : Hash[nkey[n]] = b}
    /\ b \notin crossed => {n \in Linked : Hash[nkey[n]] = b} \subseteq Chain(cur[b])

\* No record is lost: one in use is named by its key's only node, or is in
\* the hands of the put that took it.
NamedOnce ==
  \A i \in 0 .. position - 1 : InOrder(owner[i]) =>
    \/ /\ \E n \in Matches(owner[i]) : Matches(owner[i]) = {n} /\ nval[n] = i
       /\ Entering(owner[i]) = {}
    \/ /\ Matches(owner[i]) = {}
       /\ \E p \in Entering(owner[i]) : Entering(owner[i]) = {p} /\ index[p] = i

\* What KeyIndex knows of the keys in order: the records in use that were
\* taken for them, those that are in the hands of a put, and those that the
\* map gives.
Ordered == {k \in Keys : InOrder(k)}
InUse == {<<owner[i], i>> : i \in {j \in 0 .. position - 1 : InOrder(owner[j])}}
Pending == UNION {{<<k, index[p]>> : p \in Entering(k)} : k \in Ordered}
Given == UNION {{<<k, ReadIndex(n)>> : n \in Matches(k)} : k \in Ordered}

Index == INSTANCE KeyIndex WITH
  kept <- Ordered, record <- InUse, pending <- Pending, named <- Given

\* Whatever is put, forgotten and deleted meanwhile, a key in order takes one
\* record that no other has, the map gives just that record once the put has
\* entered it, and gives it unchanged from then on.
ImplementsIndex == Index!Spec

\* "The key index hash map, for share memory [key_name] = index."
\* (cache/dbstore.h): while nobody is in a call, a record that get would
\* return for a key is that key's.
IndexOfKey ==
  (\A p \in Procs : pc[p] = "idle") =>
    \A k \in Keys : \A n \in Matches(k) :
      nval[n] < position => owner[nval[n]] = k
=============================================================================
