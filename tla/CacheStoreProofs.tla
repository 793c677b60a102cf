-------------------------- MODULE CacheStoreProofs --------------------------
(* Proofs about CacheStore and the ShareMap it uses, for any processes,     *)
(* keys, hash, sizes of map and pool, and calls.                            *)
EXTENDS CacheStore, TLAPS

Adding  == {"next", "link"}              \* with a node that is in no chain yet
AtNode  == {"value", "clear", "rewrite"} \* with a node found in a chain
Missing == {"take", "set", "node", "next", "link"}  \* the key was not in the map
Holding == {"get", "put", "forget", "minutes", "set", "node", "next", "link"}
Indexed == Holding \cup {"clear", "rewrite"}

\* What the types leave open of where each process is.
Local ==
  /\ at \in [Procs -> Int] /\ index \in [Procs -> Int]
  /\ \A p \in Clients :
       /\ pc[p] # "flush"
       /\ pc[p] # "idle" => key[p] \in Keys
       /\ pc[p] \in {"look", "value"} => op[p] \in {"get", "put", "forget"}
       /\ pc[p] \in AtNode \cup Adding => at[p] \in Nodes
       /\ pc[p] \in Indexed => index[p] \in Records
  /\ pc[Service] \in {"idle", "flush"}
  /\ pc[Service] = "flush" => at[Service] \in 0 .. PoolMax /\ index[Service] \in 0 .. PoolMax

TypeInv == TypeOK /\ Local

-----------------------------------------------------------------------------
(* Chains, as the closed sets of any successor function *)

Reach(f, m) ==
  {n \in Nodes : \A S \in SUBSET Nodes :
     m \in S \cup {None} /\ (\A o \in S : f[o] \in S \cup {None}) => n \in S}

LEMMA ChainReach == \A m : Chain(m) = Reach(next, m)
BY DEF Chain, Reach

LEMMA NoneApart == None \notin Nodes
BY MapAssumption DEF None, Nodes

LEMMA ReachWithin ==
  ASSUME NEW f, NEW m, NEW S \in SUBSET Nodes, m \in S \cup {None},
         \A o \in S : f[o] \in S \cup {None}
  PROVE  Reach(f, m) \subseteq S
BY DEF Reach

LEMMA ReachFirst ==
  ASSUME NEW f, NEW m \in Nodes PROVE m \in Reach(f, m)
BY NoneApart DEF Reach

LEMMA ReachNext ==
  ASSUME NEW f, NEW m \in Nodes PROVE Reach(f, f[m]) \subseteq Reach(f, m)
<1> SUFFICES ASSUME NEW n \in Reach(f, f[m]), NEW S \in SUBSET Nodes,
                    m \in S \cup {None}, \A o \in S : f[o] \in S \cup {None}
             PROVE  n \in S
  BY DEF Reach
<1>1. m \in S BY NoneApart
<1>2. f[m] \in S \cup {None} BY <1>1
<1> QED BY <1>2 DEF Reach

\* Where two successor functions agree on a closed set, they reach the same.
LEMMA ReachSame ==
  ASSUME NEW f, NEW g, NEW m, NEW L \in SUBSET Nodes, m \in L \cup {None},
         \A o \in L : f[o] \in L \cup {None} /\ g[o] = f[o]
  PROVE  Reach(f, m) \subseteq Reach(g, m)
<1> SUFFICES ASSUME NEW n \in Reach(f, m), NEW S \in SUBSET Nodes,
                    m \in S \cup {None}, \A o \in S : g[o] \in S \cup {None}
             PROVE  n \in S
  BY DEF Reach
<1> DEFINE T == S \cap L
<1>1. T \in SUBSET Nodes /\ m \in T \cup {None} OBVIOUS
<1>2. \A o \in T : f[o] \in T \cup {None} OBVIOUS
<1>3. n \in T BY <1>1, <1>2 DEF Reach
<1> QED BY <1>3

-----------------------------------------------------------------------------
(* Types *)

LEMMA TypeInit == Init => TypeInv
<1> SUFFICES ASSUME Init PROVE TypeInv OBVIOUS
<1> USE MapAssumption, StoreAssumption DEF Init, MapInit
<1>1. TypeOK
  <2>1. /\ used \in 0 .. MapMax /\ calls \in 0 .. MaxCalls /\ position \in 0 .. PoolMax
    OBVIOUS
  <2>2. /\ nkey \in [Nodes -> Keys \cup {NoKey}] /\ nval \in [Nodes -> Records \cup {Blank}]
        /\ next \in [Nodes -> Nodes \cup {None}] /\ cur \in [Buckets -> Nodes \cup {None}]
    OBVIOUS
  <2>3. /\ \A p \in Procs : at[p] = None /\ index[p] = None
        /\ Service \in Procs /\ Clients \subseteq Procs
    BY DEF Clients
  <2>4. /\ key \in [Procs -> Keys \cup {NoKey}]
        /\ op \in [Procs -> {"none", "get", "put", "forget"}]
        /\ pc \in [Procs -> {"idle", "look", "value", "get", "put", "take",
                             "set", "clear", "rewrite", "node", "next",
                             "link", "minutes", "forget", "flush"}]
    OBVIOUS
  <2>5. /\ poolid \in [Records -> Records \cup {None}] /\ timed \in [Records -> BOOLEAN]
        /\ owner \in [Records -> Keys \cup {NoKey}] /\ locked \in BOOLEAN
        /\ stale \subseteq Keys /\ raced \subseteq Keys /\ unnamed \subseteq Keys
        /\ crossed \subseteq Buckets
    OBVIOUS
  <2> QED BY <2>1, <2>2, <2>3, <2>4, <2>5 DEF TypeOK
<1>2. Local
  BY DEF Local, Clients, None, AtNode, Adding, Indexed, Holding
<1> QED BY <1>1, <1>2 DEF TypeInv

LEMMA CallTypes ==
  ASSUME TypeInv, NEW p \in Clients, NEW c \in Calls[p], Call(p, c[1], c[2])
  PROVE  TypeInv'
<1>0. c \in {"get", "put", "forget"} \X Keys
  BY StoreAssumption DEF Clients
<1> USE DEF TypeInv, Call, Goes, map, pool
<1>1. TypeOK' BY <1>0, StoreAssumption DEF TypeOK, Clients
<1>2. Local' BY <1>0 DEF Local, TypeOK, Clients, AtNode, Adding, Indexed, Holding
<1> QED BY <1>1, <1>2

LEMMA LookFoundTypes ==
  ASSUME TypeInv, NEW p \in Clients, LookFound(p) PROVE TypeInv'
<1> USE DEF TypeInv, LookFound, Goes, WorksAt, map, pool, history
<1>1. TypeOK' BY DEF TypeOK, Clients, Local
<1>2. Local'
  BY DEF Local, TypeOK, Clients, AtNode, Adding, Indexed, Holding, Nodes
<1> QED BY <1>1, <1>2
LEMMA LookMissingTypes ==
  ASSUME TypeInv, NEW p \in Clients, LookMissing(p) PROVE TypeInv'
<1>0. pc[p] = "look" /\ UNCHANGED <<map, pool, unnamed, calls>>
  BY DEF LookMissing
<1>1. raced' \subseteq Keys BY DEF TypeInv, TypeOK, Local, LookMissing
<1> USE DEF TypeInv, map, pool
<1>2. ASSUME pc' = [pc EXCEPT ![p] = "take"], UNCHANGED <<key, at, index, op>>
      PROVE  TypeInv'
  <2> HIDE DEF TypeInv
  <2> USE <1>0, <1>2
  <2>1. TypeOK' BY <1>1 DEF TypeInv, TypeOK, Clients, Local
  <2>2. Local'
    BY DEF TypeInv, Local, TypeOK, Clients, AtNode, Adding, Indexed, Holding
  <2> QED BY <2>1, <2>2 DEF TypeInv
<1>3. ASSUME Ends(p) PROVE TypeInv'
  <2> USE <1>0, <1>3 DEF Ends, Returns, WorksAt, Goes, None
  <2>1. TypeOK' BY <1>1 DEF TypeOK, Clients, Local
  <2>2. Local' BY DEF Local, TypeOK, Clients, AtNode, Adding, Indexed, Holding
  <2> QED BY <2>1, <2>2
<1> QED BY <1>2, <1>3 DEF LookMissing, Goes

LEMMA ReadValueTypes ==
  ASSUME TypeInv, NEW p \in Clients, ReadValue(p) PROVE TypeInv'
<1> USE DEF TypeInv, ReadValue, Goes, WorksAt, Ends, Returns, map, pool, history
<1>0. ReadIndex(at[p]) \in Records
  <2>1. at[p] \in Nodes BY DEF Local, AtNode
  <2>2. nval[at[p]] \in Records \cup {Blank} /\ 0 \in Records
    BY <2>1, StoreAssumption DEF TypeOK, Records
  <2> QED BY <2>2 DEF ReadIndex
<1>1. TypeOK' BY <1>0 DEF TypeOK, Clients, Local
<1>2. Local'
  BY <1>0 DEF Local, TypeOK, Clients, AtNode, Adding, Indexed, Holding, Records
<1> QED BY <1>1, <1>2

LEMMA GetRecordTypes ==
  ASSUME TypeInv, NEW p \in Clients, GetRecord(p) PROVE TypeInv'
<1> USE DEF TypeInv, GetRecord, Goes, WorksAt, Ends, Returns, map, pool, history, None
<1>1. TypeOK' BY DEF TypeOK, Clients, Local
<1>2. Local'
  BY DEF Local, TypeOK, Clients, AtNode, Adding, Indexed, Holding
<1> QED BY <1>1, <1>2

LEMMA OverwriteTypes ==
  ASSUME TypeInv, NEW p \in Clients, Overwrite(p) PROVE TypeInv'
<1> USE DEF TypeInv, Overwrite, Goes, WorksAt, Ends, Returns, map, pool, history, None
<1>0. timed' \in [Records -> BOOLEAN]
  <2>1. (key[p] \in Timed) \in BOOLEAN OBVIOUS
  <2>2. timed \in [Records -> BOOLEAN] BY DEF TypeOK
  <2> QED BY <2>1, <2>2, Zenon DEF SetsMinutes
<1>3. poolid' \in [Records -> Records \cup {None}]
  <2>1. index[p] \in Records BY DEF Local, Indexed, Holding
  <2>2. poolid[index[p]] \in Records \cup {None} BY <2>1 DEF TypeOK
  <2> QED BY <2>2 DEF TypeOK
<1>1. TypeOK' BY <1>0, <1>3 DEF TypeOK, Clients, Local
<1>2. Local'
  BY DEF Local, TypeOK, Clients, AtNode, Adding, Indexed, Holding
<1> QED BY <1>1, <1>2

LEMMA TakeRecordTypes ==
  ASSUME TypeInv, NEW p \in Clients, TakeRecord(p) PROVE TypeInv'
<1> USE DEF TypeInv, TakeRecord, Goes, WorksAt, Ends, Returns, map, pool, history, Takes, Room
<1>1. TypeOK' BY StoreAssumption DEF TypeOK, Clients, Local, Records
<1>2. Local'
  BY StoreAssumption DEF Local, TypeOK, Clients, AtNode, Adding, Indexed, Holding, Records
<1> QED BY <1>1, <1>2

LEMMA TakeFullTypes ==
  ASSUME TypeInv, NEW p \in Clients, TakeFull(p) PROVE TypeInv'
<1> USE DEF TypeInv, TakeFull, Goes, WorksAt, Ends, Returns, map, pool, history, None
<1>1. TypeOK' BY DEF TypeOK, Clients, Local
<1>2. Local'
  BY DEF Local, TypeOK, Clients, AtNode, Adding, Indexed, Holding
<1> QED BY <1>1, <1>2

LEMMA SetFoundTypes ==
  ASSUME TypeInv, NEW p \in Clients, SetFound(p), UNCHANGED <<op, pool, history>>
  PROVE  TypeInv'
<1> USE DEF TypeInv, SetFound, Goes, WorksAt, Ends, Returns, map, pool, history
<1>1. TypeOK' BY DEF TypeOK, Clients, Local
<1>2. Local'
  BY DEF Local, TypeOK, Clients, AtNode, Adding, Indexed, Holding, Nodes
<1> QED BY <1>1, <1>2

LEMMA ClearValueTypes ==
  ASSUME TypeInv, NEW p \in Clients, ClearValue(p), UNCHANGED <<op, pool, history>>
  PROVE  TypeInv'
<1> USE DEF TypeInv, ClearValue, Goes, WorksAt, Ends, Returns, map, pool, history
<1>1. TypeOK' BY DEF TypeOK, Clients, Local, Blank
<1>2. Local'
  BY DEF Local, TypeOK, Clients, AtNode, Adding, Indexed, Holding
<1> QED BY <1>1, <1>2

LEMMA RewriteValueTypes ==
  ASSUME TypeInv, NEW p \in Clients, RewriteValue(p), UNCHANGED <<op, pool, history>>
  PROVE  TypeInv'
<1> USE DEF TypeInv, RewriteValue, Goes, WorksAt, Ends, Returns, map, pool, history
<1>0. index[p] \in Records BY DEF Local, Indexed
<1>1. TypeOK' BY <1>0 DEF TypeOK, Clients, Local
<1>2. Local'
  BY DEF Local, TypeOK, Clients, AtNode, Adding, Indexed, Holding
<1> QED BY <1>1, <1>2

LEMMA SetMissingTypes ==
  ASSUME TypeInv, NEW p \in Clients, SetMissing(p), UNCHANGED <<op, pool, history>>
  PROVE  TypeInv'
<1> USE DEF TypeInv, SetMissing, Goes, WorksAt, Ends, Returns, map, pool, history
<1>1. TypeOK' BY DEF TypeOK, Clients, Local
<1>2. Local'
  BY DEF Local, TypeOK, Clients, AtNode, Adding, Indexed, Holding
<1> QED BY <1>1, <1>2

LEMMA NewNodeTypes ==
  ASSUME TypeInv, NEW p \in Clients, NewNode(p), UNCHANGED <<op, pool, history>>
  PROVE  TypeInv'
<1> USE DEF TypeInv, NewNode, Goes, WorksAt, Ends, Returns, map, pool, history
<1>0. used \in Nodes /\ used + 1 \in 0 .. MapMax
  BY MapAssumption DEF TypeOK, Nodes
<1>3. index[p] \in Records /\ key[p] \in Keys BY DEF Local, Indexed, Holding
<1>1. TypeOK' BY <1>0, <1>3 DEF TypeOK, Clients, Local
<1>2. Local'
  BY MapAssumption DEF Local, TypeOK, Clients, AtNode, Adding, Indexed, Holding, Nodes
<1> QED BY <1>1, <1>2

LEMMA AddNextTypes ==
  ASSUME TypeInv, NEW p \in Clients, AddNext(p), UNCHANGED <<op, pool, history>>
  PROVE  TypeInv'
<1> USE DEF TypeInv, AddNext, Goes, WorksAt, Ends, Returns, map, pool, history
<1>0. /\ key[p] \in Keys /\ Bucket(p) \in Buckets
      /\ next \in [Nodes -> Nodes \cup {None}] /\ cur \in [Buckets -> Nodes \cup {None}]
  BY MapAssumption DEF TypeOK, Local, Clients, Bucket
<1>3. /\ next' \in [Nodes -> Nodes \cup {None}] /\ crossed' \subseteq Buckets
  BY <1>0 DEF TypeOK
<1>1. TypeOK' BY <1>3 DEF TypeOK, Clients
<1>2. Local'
  BY MapAssumption DEF Local, TypeOK, Clients, AtNode, Adding, Indexed, Holding
<1> QED BY <1>1, <1>2

LEMMA AddFirstTypes ==
  ASSUME TypeInv, NEW p \in Clients, AddFirst(p), UNCHANGED <<op, pool, history>>
  PROVE  TypeInv'
<1> USE DEF TypeInv, AddFirst, Goes, WorksAt, Ends, Returns, map, pool, history
<1>1. TypeOK' BY MapAssumption DEF TypeOK, Clients, Local, Bucket
<1>2. Local'
  BY MapAssumption DEF Local, TypeOK, Clients, AtNode, Adding, Indexed, Holding
<1> QED BY <1>1, <1>2

LEMMA EnterFullTypes ==
  ASSUME TypeInv, NEW p \in Clients, EnterFull(p) PROVE TypeInv'
<1> USE DEF TypeInv, EnterFull, Goes, WorksAt, Ends, Returns, map, pool, history
<1>1. TypeOK' BY DEF TypeOK, Clients, Local
<1>2. Local'
  BY DEF Local, TypeOK, Clients, AtNode, Adding, Indexed, Holding
<1> QED BY <1>1, <1>2

LEMMA SetMinutesTypes ==
  ASSUME TypeInv, NEW p \in Clients, SetMinutes(p) PROVE TypeInv'
<1> USE DEF TypeInv, SetMinutes, Goes, WorksAt, Ends, Returns, map, pool, history, None
<1>0. timed' \in [Records -> BOOLEAN]
  <2>1. (key[p] \in Timed) \in BOOLEAN OBVIOUS
  <2>2. timed \in [Records -> BOOLEAN] BY DEF TypeOK
  <2> QED BY <2>1, <2>2, Zenon DEF SetsMinutes
<1>1. TypeOK' BY <1>0 DEF TypeOK, Clients, Local
<1>2. Local'
  BY DEF Local, TypeOK, Clients, AtNode, Adding, Indexed, Holding
<1> QED BY <1>1, <1>2
\* A deletion does nothing but leave the lock, or moves the last record to id.
LEMMA DeleteIs ==
  ASSUME TypeOK, NEW i \in Records, Delete(i)
  PROVE  \/ locked' = TRUE /\ UNCHANGED <<position, poolid, timed, owner, stale>>
         \/ /\ \E id \in Records : id < position /\ Moves(id)
            /\ position' = position - 1 /\ locked' = locked
<1>1. poolid[i] \in Records \cup {None} BY DEF TypeOK
<1> QED BY <1>1 DEF Delete

LEMMA MovesTypes ==
  ASSUME TypeOK, NEW id \in Records, id < position, Moves(id), position' = position - 1
  PROVE  /\ poolid' \in [Records -> Records \cup {None}]
         /\ timed' \in [Records -> BOOLEAN]
         /\ owner' \in [Records -> Keys \cup {NoKey}]
         /\ stale' \subseteq Keys /\ position' \in 0 .. PoolMax
<1>1. position' \in 0 .. PoolMax /\ Last \in Records
  BY StoreAssumption DEF TypeOK, Records, Last
<1>2. poolid' \in [Records -> Records \cup {None}] BY <1>1 DEF TypeOK, Moves
<1>3. timed' \in [Records -> BOOLEAN]
  <2>1. timed[Last] \in BOOLEAN /\ timed \in [Records -> BOOLEAN] BY <1>1 DEF TypeOK
  <2> QED BY <2>1, Zenon DEF Moves
<1>4. owner' \in [Records -> Keys \cup {NoKey}] BY <1>1 DEF TypeOK, Moves
<1>5. stale' \subseteq Keys BY <1>1 DEF TypeOK, Moves, Owners
<1> QED BY <1>1, <1>2, <1>3, <1>4, <1>5

LEMMA DeleteTypes ==
  ASSUME TypeOK, NEW i \in Records, Delete(i)
  PROVE  /\ poolid' \in [Records -> Records \cup {None}]
         /\ timed' \in [Records -> BOOLEAN]
         /\ owner' \in [Records -> Keys \cup {NoKey}]
         /\ stale' \subseteq Keys /\ position' \in 0 .. PoolMax /\ locked' \in BOOLEAN
<1>1. CASE locked' = TRUE /\ UNCHANGED <<position, poolid, timed, owner, stale>>
  BY <1>1 DEF TypeOK
<1>2. ASSUME NEW id \in Records, id < position, Moves(id),
             position' = position - 1, locked' = locked
      PROVE  /\ poolid' \in [Records -> Records \cup {None}]
             /\ timed' \in [Records -> BOOLEAN]
             /\ owner' \in [Records -> Keys \cup {NoKey}]
             /\ stale' \subseteq Keys /\ position' \in 0 .. PoolMax
             /\ locked' \in BOOLEAN
  <2>1. locked' \in BOOLEAN BY <1>2 DEF TypeOK
  <2> QED BY <1>2, <2>1, MovesTypes
<1> QED BY <1>1, <1>2, DeleteIs

LEMMA ForgetTypes ==
  ASSUME TypeInv, NEW p \in Clients, Forget(p) PROVE TypeInv'
<1>1. index[p] \in Records
  BY DEF TypeInv, Local, Indexed, Holding, Forget
<1>2. /\ poolid' \in [Records -> Records \cup {None}] /\ timed' \in [Records -> BOOLEAN]
      /\ owner' \in [Records -> Keys \cup {NoKey}] /\ stale' \subseteq Keys
      /\ position' \in 0 .. PoolMax /\ locked' \in BOOLEAN
  BY <1>1, DeleteTypes DEF Forget, TypeInv
<1>3. Ends(p) /\ UNCHANGED <<map, history>> BY DEF Forget
<1> USE <1>3 DEF TypeInv, Ends, Returns, WorksAt, Goes, None, map, history
<1>4. TypeOK' BY <1>2 DEF TypeOK, Clients, Local
<1>5. Local' BY DEF Local, TypeOK, Clients, AtNode, Adding, Indexed, Holding
<1> QED BY <1>4, <1>5

LEMMA FlushStartTypes == ASSUME TypeInv, FlushStart PROVE TypeInv'
<1>1. Service \in Procs /\ Service \notin Clients /\ Clients \subseteq Procs
      /\ position \in 0 .. PoolMax /\ 0 \in Records
      /\ 0 .. PoolMax \subseteq Records \cup {PoolMax}
  BY StoreAssumption DEF Clients, TypeInv, TypeOK, Records
<1> USE <1>1 DEF TypeInv, FlushStart, WorksAt, Goes, map, pool, history
<1>2. TypeOK' BY DEF TypeOK, Local
<1>3. Local' BY StoreAssumption DEF Local, TypeOK, AtNode, Adding, Indexed, Holding
<1> QED BY <1>2, <1>3

LEMMA FlushExpiredTypes == ASSUME TypeInv, FlushExpired PROVE TypeInv'
<1>1. Service \in Procs /\ Service \notin Clients /\ Clients \subseteq Procs
      /\ 0 .. PoolMax \subseteq Records \cup {PoolMax}
  BY StoreAssumption DEF Clients, Records
<1>2. PICK i \in at[Service] .. index[Service] - 1 : Delete(i) /\ WorksAt(Service, i + 1)
  BY DEF FlushExpired
<1>3. i \in Records /\ i + 1 \in 0 .. PoolMax
  BY StoreAssumption DEF TypeInv, Local, FlushExpired, Records
<1>4. /\ poolid' \in [Records -> Records \cup {None}] /\ timed' \in [Records -> BOOLEAN]
      /\ owner' \in [Records -> Keys \cup {NoKey}] /\ stale' \subseteq Keys
      /\ position' \in 0 .. PoolMax /\ locked' \in BOOLEAN
  BY <1>2, <1>3, DeleteTypes DEF TypeInv
<1>5. UNCHANGED <<map, pc, key, index, op, history>> BY DEF FlushExpired
<1> USE <1>1, <1>3, <1>5 DEF TypeInv, WorksAt, map, history
<1>6. TypeOK' BY <1>2, <1>4 DEF TypeOK, Local
<1>7. Local' BY <1>2 DEF Local, TypeOK, AtNode, Adding, Indexed, Holding
<1> QED BY <1>6, <1>7

LEMMA FlushEndTypes == ASSUME TypeInv, FlushEnd PROVE TypeInv'
<1>1. Service \in Procs /\ Service \notin Clients /\ Clients \subseteq Procs
  BY StoreAssumption DEF Clients
<1> USE <1>1 DEF TypeInv, FlushEnd, Ends, Returns, WorksAt, Goes, None, map, pool, history
<1>2. TypeOK' BY DEF TypeOK, Local
<1>3. Local' BY DEF Local, TypeOK, AtNode, Adding, Indexed, Holding
<1> QED BY <1>2, <1>3

LEMMA EnterTypes ==
  ASSUME TypeInv, NEW p \in Clients, Enter(p) PROVE TypeInv'
BY SetFoundTypes, ClearValueTypes, RewriteValueTypes, SetMissingTypes,
   NewNodeTypes, AddNextTypes, AddFirstTypes
   DEF Enter, SetStep

LEMMA TypeStep == TypeInv /\ [Next]_vars => TypeInv'
<1> SUFFICES ASSUME TypeInv, [Next]_vars PROVE TypeInv' OBVIOUS
<1>1. ASSUME NEW p \in Clients, \E c \in Calls[p] : Call(p, c[1], c[2]) PROVE TypeInv'
  BY <1>1, CallTypes
<1>2. ASSUME NEW p \in Clients,
             \/ LookFound(p) \/ LookMissing(p) \/ ReadValue(p) \/ GetRecord(p)
             \/ Overwrite(p) \/ TakeRecord(p) \/ TakeFull(p)
      PROVE  TypeInv'
  BY <1>2, LookFoundTypes, LookMissingTypes, ReadValueTypes, GetRecordTypes,
     OverwriteTypes, TakeRecordTypes, TakeFullTypes
<1>3. ASSUME NEW p \in Clients,
             Enter(p) \/ EnterFull(p) \/ SetMinutes(p) \/ Forget(p)
      PROVE  TypeInv'
  BY <1>3, EnterTypes, EnterFullTypes, SetMinutesTypes, ForgetTypes
<1>4. CASE FlushStart \/ FlushExpired \/ FlushEnd
  BY <1>4, FlushStartTypes, FlushExpiredTypes, FlushEndTypes
<1>5. CASE UNCHANGED vars
  <2> USE <1>5 DEF vars, map, local, pool, history
  <2>1. TypeOK' BY DEF TypeInv, TypeOK
  <2>2. Local' BY DEF TypeInv, Local
  <2> QED BY <2>1, <2>2 DEF TypeInv
<1> QED BY <1>1, <1>2, <1>3, <1>4, <1>5 DEF Next

LEMMA AlwaysTypeInv == Spec => []TypeInv
BY TypeInit, TypeStep, PTL DEF Spec

\* For any processes, calls and sizes, every index in the map, the pool and
\* the hands of a process stays within what it indexes (cache/dbstore.cc:53,
\* 142, 198; sys/memory/sharemap.cc:237).
THEOREM CacheTypeInvariant == Spec => []TypeOK
<1>1. TypeInv => TypeOK BY DEF TypeInv
<1> QED BY <1>1, AlwaysTypeInv, PTL
-----------------------------------------------------------------------------
(* Nodes and chains *)

LinkedAt(b) == {n \in Linked : Hash[nkey[n]] = b}

\* A node that is being added has its key, is its process's alone, and a node
\* that was found for a key has it and is in a chain.
NodeInv ==
  /\ \A n \in Nodes : nkey[n] = NoKey <=> n >= used
  /\ \A p \in Clients : pc[p] \in Adding => at[p] < used /\ nkey[at[p]] = key[p]
  /\ \A p, q \in Clients :
       pc[p] \in Adding /\ pc[q] \in Adding /\ at[p] = at[q] => p = q
  /\ \A p \in Clients : pc[p] \in AtNode => at[p] \in Linked /\ nkey[at[p]] = key[p]

\* Going along a chain stays among the nodes that were added to its bucket;
\* what a process will put in front is followed by the chain, or two have met.
ChainInv ==
  /\ \A b \in Buckets :
       cur[b] = None \/ (cur[b] \in Linked /\ Hash[nkey[cur[b]]] = b)
  /\ \A n \in Linked :
       next[n] = None \/ (next[n] \in Linked /\ Hash[nkey[next[n]]] = Hash[nkey[n]])
  /\ \A p \in Clients : pc[p] = "link" =>
       \/ next[at[p]] = None
       \/ (next[at[p]] \in Linked /\ Hash[nkey[next[at[p]]]] = Hash[key[p]])
  /\ \A n \in Linked :
       Hash[nkey[n]] \notin crossed => n \in Reach(next, cur[Hash[nkey[n]]])
  /\ \A p \in Clients : pc[p] = "link" /\ Hash[key[p]] \notin crossed =>
       /\ next[at[p]] = cur[Hash[key[p]]]
       /\ \A q \in Clients : pc[q] = "link" /\ Hash[key[q]] = Hash[key[p]] => q = p

MapInv == NodeInv /\ ChainInv

\* A step that adds no node and leaves those that do alone.
Quiet ==
  /\ UNCHANGED <<used, nkey, next, cur, crossed>>
  /\ \A q \in Procs : pc[q] \in Adding \/ pc'[q] \in Adding =>
       pc'[q] = pc[q] /\ at'[q] = at[q] /\ key'[q] = key[q] /\ index'[q] = index[q]

\* How a process comes to work with a node of a chain.
FindsNode ==
  \A p \in Clients : pc'[p] \in AtNode =>
    /\ key'[p] = key[p]
    /\ (pc[p] \in AtNode /\ at'[p] = at[p]) \/ at'[p] \in Matches(key[p])

\* What a step of p leaves to the others, and where it takes p.
LEMMA QuietStep ==
  ASSUME TypeInv, NEW p \in Procs, UNCHANGED <<used, nkey, next, cur, crossed>>,
         pc[p] \notin Adding, pc'[p] \notin Adding,
         \A q \in Procs \ {p} :
           pc'[q] = pc[q] /\ at'[q] = at[q] /\ key'[q] = key[q] /\ index'[q] = index[q],
         pc'[p] \in AtNode /\ p \in Clients =>
           /\ key'[p] = key[p]
           /\ (pc[p] \in AtNode /\ at'[p] = at[p]) \/ at'[p] \in Matches(key[p])
  PROVE  Quiet /\ FindsNode
BY DEF Quiet, FindsNode, Clients

LEMMA LookQuiet ==
  ASSUME TypeInv, NEW p \in Clients,
         \/ \E c \in Calls[p] : Call(p, c[1], c[2])
         \/ LookFound(p) \/ LookMissing(p) \/ ReadValue(p)
  PROVE  Quiet /\ FindsNode
<1>1. p \in Procs /\ pc[p] \notin Adding BY DEF Clients, Call, LookFound,
        LookMissing, ReadValue, Adding
<1> USE DEF TypeInv, TypeOK, Local, Goes, WorksAt, map
<1>2. CASE \E c \in Calls[p] : Call(p, c[1], c[2])
  BY <1>1, <1>2, QuietStep DEF Call, Adding, AtNode
<1>3. CASE LookFound(p)
  <2>1. at'[p] \in Matches(key[p]) BY <1>1, <1>3 DEF LookFound, Found
  <2> QED BY <1>1, <1>3, <2>1, QuietStep DEF LookFound, Adding
<1>4. CASE LookMissing(p)
  <2>1. pc'[p] \in {"take", "idle"} BY <1>1, <1>4 DEF LookMissing, Ends, Returns
  <2>2. \A q \in Procs \ {p} :
          pc'[q] = pc[q] /\ at'[q] = at[q] /\ key'[q] = key[q] /\ index'[q] = index[q]
    BY <1>1, <1>4 DEF LookMissing, Ends, Returns
  <2>3. UNCHANGED map BY <1>4 DEF LookMissing
  <2> QED BY <1>1, <2>1, <2>2, <2>3, QuietStep DEF Adding, AtNode
<1>5. CASE ReadValue(p)
  <2>1. pc'[p] \in {"get", "put", "forget"} BY <1>1, <1>5 DEF ReadValue
  <2> QED BY <1>1, <1>5, <2>1, QuietStep DEF ReadValue, Adding, AtNode
<1> QED BY <1>2, <1>3, <1>4, <1>5

LEMMA PoolQuiet ==
  ASSUME TypeInv, NEW p \in Clients,
         \/ GetRecord(p) \/ Overwrite(p) \/ TakeRecord(p) \/ TakeFull(p)
         \/ EnterFull(p) \/ SetMinutes(p) \/ Forget(p)
  PROVE  Quiet /\ FindsNode
<1>1. p \in Procs BY DEF Clients
<1> USE DEF TypeInv, TypeOK, Local, Goes, WorksAt, map
<1>2. CASE GetRecord(p) \/ Overwrite(p) \/ TakeFull(p) \/ SetMinutes(p) \/ Forget(p)
  <2>1. Ends(p) /\ UNCHANGED map /\ pc[p] \in {"get", "put", "take", "minutes", "forget"}
    BY <1>2 DEF GetRecord, Overwrite, TakeFull, SetMinutes, Forget
  <2> QED BY <1>1, <2>1, QuietStep DEF Ends, Returns, Adding, AtNode
<1>3. CASE TakeRecord(p) \/ EnterFull(p)
  BY <1>1, <1>3, QuietStep DEF TakeRecord, EnterFull, Adding, AtNode
<1> QED BY <1>2, <1>3

LEMMA SetQuiet ==
  ASSUME TypeInv, NEW p \in Clients,
         SetFound(p) \/ ClearValue(p) \/ RewriteValue(p) \/ SetMissing(p)
  PROVE  Quiet /\ FindsNode
<1>1. p \in Procs BY DEF Clients
<1> USE DEF TypeInv, TypeOK, Local, Goes, WorksAt, map
<1>2. CASE SetFound(p)
  <2>1. at'[p] \in Matches(key[p]) BY <1>1, <1>2 DEF SetFound, Found
  <2> QED BY <1>1, <1>2, <2>1, QuietStep DEF SetFound, Adding
<1>3. CASE ClearValue(p) \/ RewriteValue(p) \/ SetMissing(p)
  BY <1>1, <1>3, QuietStep DEF ClearValue, RewriteValue, SetMissing, Adding, AtNode
<1> QED BY <1>2, <1>3

LEMMA FlushQuiet ==
  ASSUME TypeInv, FlushStart \/ FlushExpired \/ FlushEnd \/ UNCHANGED vars
  PROVE  Quiet /\ FindsNode
<1>1. Service \in Procs /\ Service \notin Clients BY StoreAssumption DEF Clients
<1> USE DEF TypeInv, TypeOK, Local, Goes, WorksAt, map
<1>2. CASE FlushStart \/ FlushExpired \/ FlushEnd
  <2>1. /\ UNCHANGED map
        /\ \A q \in Procs \ {Service} :
             pc'[q] = pc[q] /\ at'[q] = at[q] /\ key'[q] = key[q] /\ index'[q] = index[q]
        /\ pc[Service] \in {"idle", "flush"} /\ pc'[Service] \in {"idle", "flush"}
    BY <1>1, <1>2 DEF FlushStart, FlushExpired, FlushEnd, Ends, Returns
  <2> QED BY <1>1, <2>1, QuietStep DEF Adding, AtNode
<1>3. CASE UNCHANGED vars
  BY <1>3 DEF vars, local, Quiet, FindsNode
<1> QED BY <1>2, <1>3

Adds(p) == (NewNode(p) \/ AddNext(p) \/ AddFirst(p)) /\ UNCHANGED <<op, pool, history>>

LEMMA StepIs ==
  ASSUME TypeInv, [Next]_vars
  PROVE  (Quiet /\ FindsNode) \/ \E p \in Clients : Adds(p)
BY LookQuiet, PoolQuiet, SetQuiet, FlushQuiet DEF Next, Enter, SetStep, Adds

LEMMA LinkedIs ==
  ASSUME TypeInv, NodeInv, NEW n
  PROVE  /\ n \in Linked <=>
              n \in Nodes /\ n < used /\ \A p \in Clients : at[p] = n => pc[p] \notin Adding
         /\ n \in Linked => nkey[n] \in Keys /\ Hash[nkey[n]] \in Buckets
<1>1. n \in Nodes => (n < used <=> nkey[n] # NoKey)
  BY DEF NodeInv, TypeInv, TypeOK, Nodes
<1>2. n \in Linked => nkey[n] \in Keys BY DEF Linked, TypeInv, TypeOK
<1>3. nkey[n] \in Keys => Hash[nkey[n]] \in Buckets BY MapAssumption
<1> QED BY <1>1, <1>2, <1>3 DEF Linked, Adding

LEMMA LinkedAtNodes ==
  ASSUME TypeInv, NodeInv, NEW b PROVE LinkedAt(b) \in SUBSET Nodes
BY LinkedIs DEF LinkedAt

\* The closed set that keeps a chain in its bucket.
LEMMA ChainWithin ==
  ASSUME TypeInv, MapInv, NEW b \in Buckets
  PROVE  Chain(cur[b]) \subseteq LinkedAt(b)
<1>1. \A o \in LinkedAt(b) : next[o] \in LinkedAt(b) \cup {None}
  BY DEF MapInv, ChainInv, LinkedAt
<1>2. cur[b] \in LinkedAt(b) \cup {None} BY DEF MapInv, ChainInv, LinkedAt
<1>3. LinkedAt(b) \in SUBSET Nodes BY LinkedAtNodes DEF MapInv
<1>4. Reach(next, cur[b]) \subseteq LinkedAt(b) BY <1>1, <1>2, <1>3, ReachWithin
<1> QED BY <1>4, ChainReach

LEMMA MatchesLinked ==
  ASSUME TypeInv, MapInv, NEW k \in Keys, NEW n \in Matches(k)
  PROVE  n \in Linked /\ nkey[n] = k
<1>1. Hash[k] \in Buckets BY MapAssumption
<1>2. n \in LinkedAt(Hash[k]) BY <1>1, ChainWithin DEF Matches
<1> QED BY <1>2 DEF Matches, LinkedAt

LEMMA QuietKeeps ==
  ASSUME TypeInv, TypeInv', MapInv, Quiet, FindsNode
  PROVE  MapInv' /\ Linked' = Linked
<1> USE DEF MapInv
<1>0. /\ used' = used /\ nkey' = nkey /\ next' = next /\ cur' = cur /\ crossed' = crossed
      /\ Clients \subseteq Procs
  BY DEF Quiet, Clients
<1>1. \A p \in Procs : pc[p] \in Adding \/ pc'[p] \in Adding =>
        pc'[p] = pc[p] /\ at'[p] = at[p] /\ key'[p] = key[p] /\ index'[p] = index[p]
  BY DEF Quiet
<1>2. Linked' = Linked
  <2>1. ASSUME NEW n
        PROVE  (\A p \in Clients : at'[p] = n => pc'[p] \notin {"next", "link"})
               <=> (\A p \in Clients : at[p] = n => pc[p] \notin {"next", "link"})
    BY <1>0, <1>1 DEF Adding
  <2>2. \A n : n \in Linked' <=> n \in Linked BY <1>0, <2>1 DEF Linked
  <2> QED BY <2>2
<1>3. ASSUME NEW p \in Clients, pc'[p] \in AtNode
      PROVE  at'[p] \in Linked /\ nkey[at'[p]] = key'[p]
  <2>1. CASE pc[p] \in AtNode /\ at'[p] = at[p]
    BY <1>3, <2>1 DEF FindsNode, NodeInv
  <2>2. CASE at'[p] \in Matches(key[p])
    <3>1. key'[p] = key[p] /\ key'[p] \in Keys
      BY <1>3 DEF FindsNode, TypeInv, Local, AtNode
    <3> QED BY <2>2, <3>1, MatchesLinked
  <2> QED BY <1>3, <2>1, <2>2 DEF FindsNode
<1>4. NodeInv'
  <2>1. \A n \in Nodes : nkey'[n] = NoKey <=> n >= used' BY <1>0 DEF NodeInv
  <2>2. \A p \in Clients : pc'[p] \in Adding => at'[p] < used' /\ nkey'[at'[p]] = key'[p]
    BY <1>0, <1>1 DEF NodeInv
  <2>3. \A p, q \in Clients :
          pc'[p] \in Adding /\ pc'[q] \in Adding /\ at'[p] = at'[q] => p = q
    BY <1>0, <1>1 DEF NodeInv
  <2>4. \A p \in Clients : pc'[p] \in AtNode =>
          at'[p] \in Linked' /\ nkey'[at'[p]] = key'[p]
    BY <1>0, <1>2, <1>3
  <2> QED BY <2>1, <2>2, <2>3, <2>4 DEF NodeInv
<1>5. \A p \in Clients : pc'[p] = "link" =>
        pc[p] = "link" /\ at'[p] = at[p] /\ key'[p] = key[p]
  BY <1>0, <1>1 DEF Adding
<1>6. ChainInv'
  <2>1. \A b \in Buckets :
          cur'[b] = None \/ (cur'[b] \in Linked' /\ Hash[nkey'[cur'[b]]] = b)
    BY <1>0, <1>2 DEF ChainInv
  <2>2. \A n \in Linked' : next'[n] = None
          \/ (next'[n] \in Linked' /\ Hash[nkey'[next'[n]]] = Hash[nkey'[n]])
    BY <1>0, <1>2 DEF ChainInv
  <2>3. \A p \in Clients : pc'[p] = "link" =>
          \/ next'[at'[p]] = None
          \/ (next'[at'[p]] \in Linked' /\ Hash[nkey'[next'[at'[p]]]] = Hash[key'[p]])
    BY <1>0, <1>2, <1>5 DEF ChainInv
  <2>4. \A n \in Linked' : Hash[nkey'[n]] \notin crossed' =>
          n \in Reach(next', cur'[Hash[nkey'[n]]])
    BY <1>0, <1>2 DEF ChainInv
  <2>5. \A p \in Clients : pc'[p] = "link" /\ Hash[key'[p]] \notin crossed' =>
          /\ next'[at'[p]] = cur'[Hash[key'[p]]]
          /\ \A q \in Clients : pc'[q] = "link" /\ Hash[key'[q]] = Hash[key'[p]] => q = p
    BY <1>0, <1>5 DEF ChainInv
  <2> QED BY <2>1, <2>2, <2>3, <2>4, <2>5 DEF ChainInv
<1> QED BY <1>2, <1>4, <1>6

\* A process that has just taken a node: nobody else can see it.
LEMMA NewNodeKeeps ==
  ASSUME TypeInv, MapInv, NEW p \in Clients, NewNode(p)
  PROVE  MapInv' /\ Linked' = Linked
<1> USE DEF MapInv
<1>0. /\ used \in Nodes /\ used' = used + 1 /\ pc[p] = "node" /\ key[p] \in Keys
      /\ UNCHANGED <<next, cur, crossed, key, index>> /\ p \in Procs
  BY MapAssumption DEF NewNode, Nodes, TypeInv, TypeOK, Local, Clients
<1>1. /\ \A q \in Clients : pc'[q] = IF q = p THEN "next" ELSE pc[q]
      /\ \A q \in Clients : at'[q] = IF q = p THEN used ELSE at[q]
      /\ \A n \in Nodes : nkey'[n] = IF n = used THEN key[p] ELSE nkey[n]
  BY <1>0 DEF NewNode, Goes, WorksAt, TypeInv, TypeOK, Local, Clients
<1>2. Linked' = Linked
  <2>1. ASSUME NEW n \in Linked PROVE n \in Linked'
    <3>1. n \in Nodes /\ n # used /\ n < used + 1 /\ nkey[n] # NoKey
      BY <1>0 DEF Linked, Nodes
    <3>2. ASSUME NEW q \in Clients, at'[q] = n PROVE pc'[q] \notin {"next", "link"}
      BY <1>1, <3>1, <3>2 DEF Linked
    <3> QED BY <1>0, <1>1, <3>1, <3>2 DEF Linked
  <2>2. ASSUME NEW n \in Linked' PROVE n \in Linked
    <3>1. n \in Nodes /\ n < used + 1 /\ nkey'[n] # NoKey BY <1>0 DEF Linked
    <3>2. n # used BY <1>0, <1>1 DEF Linked
    <3>3. n < used /\ nkey[n] # NoKey BY <1>0, <1>1, <3>1, <3>2 DEF Nodes
    <3>4. ASSUME NEW q \in Clients, at[q] = n PROVE pc[q] \notin {"next", "link"}
      BY <1>0, <1>1, <3>4 DEF Linked
    <3> QED BY <3>1, <3>3, <3>4 DEF Linked
  <2> QED BY <2>1, <2>2
<1>3. \A n \in Linked : n \in Nodes /\ n # used /\ nkey'[n] = nkey[n]
  BY <1>0, <1>1 DEF Linked, Nodes
<1>4. \A q \in Clients : q # p /\ pc[q] \in Adding =>
        at[q] \in Nodes /\ at[q] < used /\ nkey'[at[q]] = nkey[at[q]]
  BY <1>0, <1>1 DEF NodeInv, TypeInv, Local, Nodes
<1>5. NodeInv'
  <2>1. \A n \in Nodes : nkey'[n] = NoKey <=> n >= used'
    BY <1>0, <1>1, MapAssumption DEF NodeInv, Nodes
  <2>2. ASSUME NEW q \in Clients, pc'[q] \in Adding
        PROVE  at'[q] < used' /\ nkey'[at'[q]] = key'[q]
    BY <1>0, <1>1, <1>4, <2>2 DEF NodeInv, Nodes
  <2>3. ASSUME NEW q \in Clients, NEW r \in Clients,
               pc'[q] \in Adding, pc'[r] \in Adding, at'[q] = at'[r]
        PROVE  q = r
    BY <1>0, <1>1, <1>4, <2>3 DEF NodeInv, Nodes
  <2>4. ASSUME NEW q \in Clients, pc'[q] \in AtNode
        PROVE  at'[q] \in Linked' /\ nkey'[at'[q]] = key'[q]
    BY <1>0, <1>1, <1>2, <1>3, <2>4 DEF NodeInv, AtNode
  <2> QED BY <2>1, <2>2, <2>3, <2>4 DEF NodeInv
<1>6. ASSUME NEW q \in Clients, pc'[q] = "link"
      PROVE  pc[q] = "link" /\ at'[q] = at[q] /\ key'[q] = key[q]
  BY <1>0, <1>1, <1>6
<1>7. ChainInv'
  <2>1. ASSUME NEW b \in Buckets
        PROVE  cur'[b] = None \/ (cur'[b] \in Linked' /\ Hash[nkey'[cur'[b]]] = b)
    <3>1. cur[b] = None \/ (cur[b] \in Linked /\ Hash[nkey[cur[b]]] = b) BY DEF ChainInv
    <3>2. cur[b] \in Linked => nkey'[cur[b]] = nkey[cur[b]] BY <1>3
    <3>3. cur' = cur BY <1>0
    <3> QED BY <1>2, <3>1, <3>2, <3>3
  <2>2. ASSUME NEW n \in Linked'
        PROVE  next'[n] = None
               \/ (next'[n] \in Linked' /\ Hash[nkey'[next'[n]]] = Hash[nkey'[n]])
    <3>1. n \in Linked /\ nkey'[n] = nkey[n] BY <1>2, <1>3
    <3>2. next[n] = None \/ (next[n] \in Linked /\ Hash[nkey[next[n]]] = Hash[nkey[n]])
      BY <3>1 DEF ChainInv
    <3>3. next[n] \in Linked => nkey'[next[n]] = nkey[next[n]] BY <1>3
    <3>4. next' = next BY <1>0
    <3> QED BY <1>2, <3>1, <3>2, <3>3, <3>4
  <2>3. \A q \in Clients : pc'[q] = "link" =>
          \/ next'[at'[q]] = None
          \/ (next'[at'[q]] \in Linked' /\ Hash[nkey'[next'[at'[q]]]] = Hash[key'[q]])
    BY <1>0, <1>2, <1>3, <1>6 DEF ChainInv
  <2>4. \A n \in Linked' : Hash[nkey'[n]] \notin crossed' =>
          n \in Reach(next', cur'[Hash[nkey'[n]]])
    BY <1>0, <1>2, <1>3 DEF ChainInv
  <2>5. \A q \in Clients : pc'[q] = "link" /\ Hash[key'[q]] \notin crossed' =>
          /\ next'[at'[q]] = cur'[Hash[key'[q]]]
          /\ \A r \in Clients : pc'[r] = "link" /\ Hash[key'[r]] = Hash[key'[q]] => r = q
    BY <1>0, <1>6 DEF ChainInv
  <2> QED BY <2>1, <2>2, <2>3, <2>4, <2>5 DEF ChainInv
<1> QED BY <1>2, <1>5, <1>7

\* The node's next is set; its chain does not have it yet.
LEMMA AddNextKeeps ==
  ASSUME TypeInv, MapInv, NEW p \in Clients, AddNext(p)
  PROVE  MapInv' /\ Linked' = Linked
<1> USE DEF MapInv
<1> DEFINE B == Hash[key[p]]
<1>0. /\ pc[p] = "next" /\ key[p] \in Keys /\ at[p] \in Nodes /\ B \in Buckets
      /\ at[p] \notin Linked /\ cur[B] \in Nodes \cup {None}
      /\ UNCHANGED <<used, nkey, cur, key, at, index>> /\ p \in Procs
  BY MapAssumption DEF AddNext, TypeInv, TypeOK, Local, Clients, Adding, Linked
<1>1. /\ \A q \in Clients : pc'[q] = IF q = p THEN "link" ELSE pc[q]
      /\ \A n \in Nodes : next'[n] = IF n = at[p] THEN cur[B] ELSE next[n]
      /\ crossed \subseteq crossed'
      /\ (\E q \in Clients : pc[q] = "link" /\ Hash[key[q]] = B) => B \in crossed'
  BY <1>0 DEF AddNext, Goes, WorksAt, Bucket, TypeInv, TypeOK, Clients
<1> HIDE DEF B
<1>2. Linked' = Linked
  <2>1. \A q \in Clients : pc'[q] \in {"next", "link"} <=> pc[q] \in {"next", "link"}
    BY <1>0, <1>1
  <2>2. \A n : n \in Linked' <=> n \in Linked BY <1>0, <2>1 DEF Linked
  <2> QED BY <2>2
<1>3. \A n \in Linked : n \in Nodes /\ next'[n] = next[n]
  BY <1>0, <1>1 DEF Linked
<1>4. NodeInv'
  <2>1. \A q \in Clients : /\ pc'[q] \in Adding <=> pc[q] \in Adding
                           /\ pc'[q] \in AtNode <=> pc[q] \in AtNode
    BY <1>0, <1>1 DEF Adding, AtNode
  <2>2. \A n \in Nodes : nkey'[n] = NoKey <=> n >= used' BY <1>0 DEF NodeInv
  <2>3. \A q \in Clients : pc'[q] \in Adding => at'[q] < used' /\ nkey'[at'[q]] = key'[q]
    BY <1>0, <2>1 DEF NodeInv
  <2>4. \A q, r \in Clients :
          pc'[q] \in Adding /\ pc'[r] \in Adding /\ at'[q] = at'[r] => q = r
    BY <1>0, <2>1 DEF NodeInv
  <2>5. \A q \in Clients : pc'[q] \in AtNode =>
          at'[q] \in Linked' /\ nkey'[at'[q]] = key'[q]
    BY <1>0, <1>2, <2>1 DEF NodeInv
  <2> QED BY <2>2, <2>3, <2>4, <2>5 DEF NodeInv
<1>5. \A q \in Clients : q # p /\ pc[q] = "link" =>
        at[q] \in Nodes /\ next'[at[q]] = next[at[q]]
  BY <1>0, <1>1 DEF NodeInv, TypeInv, Local, Adding
<1>6. ASSUME NEW b \in Buckets PROVE Reach(next, cur[b]) \subseteq Reach(next', cur[b])
  <2>1. LinkedAt(b) \in SUBSET Nodes BY LinkedAtNodes
  <2>2. cur[b] \in LinkedAt(b) \cup {None} BY DEF ChainInv, LinkedAt
  <2>3. \A o \in LinkedAt(b) : next[o] \in LinkedAt(b) \cup {None} /\ next'[o] = next[o]
    BY <1>3 DEF ChainInv, LinkedAt
  <2> QED BY <2>1, <2>2, <2>3, ReachSame
<1>7. ChainInv'
  <2>1. \A b \in Buckets :
          cur'[b] = None \/ (cur'[b] \in Linked' /\ Hash[nkey'[cur'[b]]] = b)
    BY <1>0, <1>2 DEF ChainInv
  <2>2. \A n \in Linked' : next'[n] = None
          \/ (next'[n] \in Linked' /\ Hash[nkey'[next'[n]]] = Hash[nkey'[n]])
    BY <1>0, <1>2, <1>3 DEF ChainInv
  <2>3. ASSUME NEW q \in Clients, pc'[q] = "link"
        PROVE  \/ next'[at'[q]] = None
               \/ (next'[at'[q]] \in Linked' /\ Hash[nkey'[next'[at'[q]]]] = Hash[key'[q]])
    <3>1. CASE q = p
      <4>1. next'[at'[q]] = cur[B] BY <1>0, <1>1, <3>1
      <4>2. Hash[key'[q]] = B BY <1>0, <3>1 DEF B
      <4>3. cur[B] = None \/ (cur[B] \in Linked /\ Hash[nkey[cur[B]]] = B)
        BY <1>0 DEF ChainInv
      <4> QED BY <1>0, <1>2, <4>1, <4>2, <4>3
    <3>2. CASE q # p
      <4>1. pc[q] = "link" BY <1>1, <2>3, <3>2
      <4> QED BY <1>0, <1>2, <1>5, <3>2, <4>1 DEF ChainInv
    <3> QED BY <3>1, <3>2
  <2>4. ASSUME NEW n \in Linked, Hash[nkey[n]] \notin crossed'
        PROVE  n \in Reach(next', cur[Hash[nkey[n]]])
    <3>1. n \in Reach(next, cur[Hash[nkey[n]]]) BY <1>1, <2>4 DEF ChainInv
    <3>2. Hash[nkey[n]] \in Buckets BY LinkedIs
    <3> QED BY <1>6, <3>1, <3>2
  <2>5. ASSUME NEW q \in Clients, pc'[q] = "link", Hash[key[q]] \notin crossed'
        PROVE  /\ next'[at[q]] = cur[Hash[key[q]]]
               /\ \A r \in Clients : pc'[r] = "link" /\ Hash[key[r]] = Hash[key[q]] => r = q
    <3>1. CASE q = p
      <4>1. B \notin crossed' /\ Hash[key[q]] = B BY <2>5, <3>1 DEF B
      <4>2. next'[at[q]] = cur[B] BY <1>0, <1>1, <3>1
      <4> QED BY <1>1, <3>1, <4>1, <4>2
    <3>2. CASE q # p
      <4>1. pc[q] = "link" /\ Hash[key[q]] \notin crossed BY <1>1, <2>5, <3>2
      <4>2. Hash[key[q]] # B BY <1>1, <2>5, <4>1
      <4>3. next'[at[q]] = cur[Hash[key[q]]]
        BY <1>5, <3>2, <4>1 DEF ChainInv
      <4>4. ASSUME NEW r \in Clients, pc'[r] = "link", Hash[key[r]] = Hash[key[q]]
            PROVE  r = q
        <5>1. r # p BY <4>2, <4>4 DEF B
        <5> QED BY <1>1, <4>1, <4>4, <5>1 DEF ChainInv
      <4> QED BY <4>3, <4>4
    <3> QED BY <3>1, <3>2
  <2>6. \A n \in Linked' : Hash[nkey'[n]] \notin crossed' =>
          n \in Reach(next', cur'[Hash[nkey'[n]]])
    BY <1>0, <1>2, <2>4
  <2>7. \A q \in Clients : pc'[q] = "link" /\ Hash[key'[q]] \notin crossed' =>
          /\ next'[at'[q]] = cur'[Hash[key'[q]]]
          /\ \A r \in Clients : pc'[r] = "link" /\ Hash[key'[r]] = Hash[key'[q]] => r = q
    BY <1>0, <2>5
  <2> QED BY <2>1, <2>2, <2>3, <2>6, <2>7 DEF ChainInv
<1> QED BY <1>2, <1>4, <1>7

\* The node is put in front: its chain is what it was and the node.
LEMMA AddFirstKeeps ==
  ASSUME TypeInv, MapInv, NEW p \in Clients, AddFirst(p)
  PROVE  MapInv' /\ Linked' = Linked \cup {at[p]}
<1> USE DEF MapInv
<1> DEFINE B == Hash[key[p]]
<1>0. /\ pc[p] = "link" /\ key[p] \in Keys /\ at[p] \in Nodes /\ B \in Buckets
      /\ at[p] \notin Linked /\ nkey[at[p]] = key[p] /\ at[p] < used
      /\ next' = next /\ p \in Procs
      /\ UNCHANGED <<used, nkey, next, crossed, key, at, index>>
  BY MapAssumption
     DEF AddFirst, TypeInv, TypeOK, Local, NodeInv, Clients, Adding, Linked
<1>1. /\ \A q \in Clients : pc'[q] = IF q = p THEN "minutes" ELSE pc[q]
      /\ \A b \in Buckets : cur'[b] = IF b = B THEN at[p] ELSE cur[b]
  BY <1>0 DEF AddFirst, Goes, Bucket, TypeInv, TypeOK, Clients
<1>2. Linked' = Linked \cup {at[p]}
  <2>1. at[p] \in Linked'
    <3>1. ASSUME NEW q \in Clients, at[q] = at[p] PROVE pc'[q] \notin {"next", "link"}
      BY <1>0, <1>1, <3>1 DEF NodeInv, Adding
    <3>2. nkey[at[p]] # NoKey BY <1>0, MapAssumption
    <3> QED BY <1>0, <3>1, <3>2 DEF Linked
  <2>2. ASSUME NEW n \in Linked PROVE n \in Linked'
    BY <1>0, <1>1, <2>2 DEF Linked
  <2>3. ASSUME NEW n \in Linked', n # at[p] PROVE n \in Linked
    BY <1>0, <1>1, <2>3 DEF Linked
  <2> QED BY <2>1, <2>2, <2>3
<1> HIDE DEF B
<1>3. NodeInv'
  <2>1. \A q \in Clients : /\ pc'[q] \in Adding => pc[q] \in Adding
                           /\ pc'[q] \in AtNode <=> pc[q] \in AtNode
    BY <1>0, <1>1 DEF Adding, AtNode
  <2>2. \A n \in Nodes : nkey'[n] = NoKey <=> n >= used' BY <1>0 DEF NodeInv
  <2>3. \A q \in Clients : pc'[q] \in Adding => at'[q] < used' /\ nkey'[at'[q]] = key'[q]
    BY <1>0, <2>1 DEF NodeInv
  <2>4. \A q, r \in Clients :
          pc'[q] \in Adding /\ pc'[r] \in Adding /\ at'[q] = at'[r] => q = r
    BY <1>0, <2>1 DEF NodeInv
  <2>5. \A q \in Clients : pc'[q] \in AtNode =>
          at'[q] \in Linked' /\ nkey'[at'[q]] = key'[q]
    BY <1>0, <1>2, <2>1 DEF NodeInv
  <2> QED BY <2>2, <2>3, <2>4, <2>5 DEF NodeInv
<1>4. Hash[key[p]] = B BY DEF B
<1>5. next[at[p]] = None \/ (next[at[p]] \in Linked /\ Hash[nkey[next[at[p]]]] = B)
  BY <1>0, <1>4 DEF ChainInv
<1>6. ASSUME NEW n \in Linked', Hash[nkey[n]] \notin crossed
      PROVE  n \in Reach(next, cur'[Hash[nkey[n]]])
  <2>1. CASE n = at[p]
    <3>1. cur'[Hash[nkey[n]]] = n BY <1>0, <1>1, <1>4, <2>1
    <3> QED BY <1>0, <2>1, <3>1, ReachFirst
  <2>2. CASE n # at[p]
    <3>1. n \in Linked /\ Hash[nkey[n]] \in Buckets BY <1>2, <2>2, LinkedIs
    <3>2. n \in Reach(next, cur[Hash[nkey[n]]]) BY <1>6, <3>1 DEF ChainInv
    <3>3. CASE Hash[nkey[n]] = B
      <4>1. next[at[p]] = cur[B] BY <1>0, <1>4, <1>6, <3>3 DEF ChainInv
      <4>2. Reach(next, next[at[p]]) \subseteq Reach(next, at[p]) BY <1>0, ReachNext
      <4>3. cur'[Hash[nkey[n]]] = at[p] BY <1>1, <3>1, <3>3
      <4> QED BY <3>2, <3>3, <4>1, <4>2, <4>3
    <3>4. CASE Hash[nkey[n]] # B
      <4>1. cur'[Hash[nkey[n]]] = cur[Hash[nkey[n]]] BY <1>1, <3>1, <3>4
      <4> QED BY <3>2, <4>1
    <3> QED BY <3>3, <3>4
  <2> QED BY <2>1, <2>2
<1>7. ASSUME NEW q \in Clients, pc'[q] = "link" PROVE pc[q] = "link" /\ q # p
  BY <1>1, <1>7
<1>8. ChainInv'
  <2>1. ASSUME NEW b \in Buckets
        PROVE  cur'[b] = None \/ (cur'[b] \in Linked' /\ Hash[nkey'[cur'[b]]] = b)
    <3>1. cur[b] = None \/ (cur[b] \in Linked /\ Hash[nkey[cur[b]]] = b) BY DEF ChainInv
    <3> QED BY <1>0, <1>1, <1>2, <1>4, <3>1
  <2>2. ASSUME NEW n \in Linked'
        PROVE  next'[n] = None
               \/ (next'[n] \in Linked' /\ Hash[nkey'[next'[n]]] = Hash[nkey'[n]])
    <3>1. CASE n = at[p] BY <1>0, <1>2, <1>4, <1>5, <3>1
    <3>2. CASE n # at[p]
      <4>1. n \in Linked BY <1>2, <3>2
      <4>2. next[n] = None \/ (next[n] \in Linked /\ Hash[nkey[next[n]]] = Hash[nkey[n]])
        BY <4>1 DEF ChainInv
      <4> QED BY <1>0, <1>2, <4>2
    <3> QED BY <3>1, <3>2
  <2>3. ASSUME NEW q \in Clients, pc'[q] = "link"
        PROVE  \/ next'[at'[q]] = None
               \/ (next'[at'[q]] \in Linked' /\ Hash[nkey'[next'[at'[q]]]] = Hash[key'[q]])
    <3>1. next[at[q]] = None
          \/ (next[at[q]] \in Linked /\ Hash[nkey[next[at[q]]]] = Hash[key[q]])
      BY <1>7, <2>3 DEF ChainInv
    <3> QED BY <1>0, <1>2, <3>1
  <2>4. \A n \in Linked' : Hash[nkey'[n]] \notin crossed' =>
          n \in Reach(next', cur'[Hash[nkey'[n]]])
    BY <1>0, <1>6
  <2>5. ASSUME NEW q \in Clients, pc'[q] = "link", Hash[key[q]] \notin crossed
        PROVE  /\ next[at[q]] = cur'[Hash[key[q]]]
               /\ \A r \in Clients : pc'[r] = "link" /\ Hash[key[r]] = Hash[key[q]] => r = q
    <3>1. pc[q] = "link" /\ q # p BY <1>7, <2>5
    <3>2. Hash[key[q]] # B BY <1>0, <1>4, <2>5, <3>1 DEF ChainInv
    <3>3. Hash[key[q]] \in Buckets BY <3>1, MapAssumption DEF TypeInv, Local
    <3>4. next[at[q]] = cur[Hash[key[q]]] BY <2>5, <3>1 DEF ChainInv
    <3>5. next[at[q]] = cur'[Hash[key[q]]] BY <1>1, <3>2, <3>3, <3>4
    <3>6. \A r \in Clients : pc'[r] = "link" /\ Hash[key[r]] = Hash[key[q]] => r = q
      BY <1>7, <2>5, <3>1 DEF ChainInv
    <3> QED BY <3>5, <3>6
  <2>6. \A q \in Clients : pc'[q] = "link" /\ Hash[key'[q]] \notin crossed' =>
          /\ next'[at'[q]] = cur'[Hash[key'[q]]]
          /\ \A r \in Clients : pc'[r] = "link" /\ Hash[key'[r]] = Hash[key'[q]] => r = q
    BY <1>0, <2>5
  <2> QED BY <2>1, <2>2, <2>3, <2>4, <2>6 DEF ChainInv
<1> QED BY <1>2, <1>3, <1>8

LEMMA MapInit0 == Init => MapInv
<1> SUFFICES ASSUME Init PROVE MapInv OBVIOUS
<1>1. \A p \in Clients : pc[p] = "idle" BY DEF Init, MapInit, Clients
<1>2. used = 0 /\ \A n \in Nodes : nkey[n] = NoKey BY DEF Init, MapInit
<1>3. Linked = {} BY <1>2 DEF Linked
<1>4. NodeInv BY <1>1, <1>2 DEF NodeInv, Nodes, Adding, AtNode
<1>5. \A b \in Buckets : cur[b] = None BY DEF Init, MapInit
<1>6. ChainInv BY <1>1, <1>3, <1>5 DEF ChainInv
<1> QED BY <1>4, <1>6 DEF MapInv

LEMMA MapStep == TypeInv /\ MapInv /\ [Next]_vars => MapInv' /\ Linked \subseteq Linked'
<1> SUFFICES ASSUME TypeInv, MapInv, [Next]_vars PROVE MapInv' /\ Linked \subseteq Linked'
  OBVIOUS
<1>1. TypeInv' BY TypeStep
<1>2. CASE Quiet /\ FindsNode BY <1>1, <1>2, QuietKeeps
<1>3. ASSUME NEW p \in Clients, Adds(p) PROVE MapInv' /\ Linked \subseteq Linked'
  BY <1>3, NewNodeKeeps, AddNextKeeps, AddFirstKeeps DEF Adds
<1> QED BY <1>2, <1>3, StepIs

LEMMA AlwaysMapInv == Spec => [](TypeInv /\ MapInv)
<1>1. Init => TypeInv /\ MapInv BY TypeInit, MapInit0
<1>2. TypeInv /\ MapInv /\ [Next]_vars => (TypeInv /\ MapInv)' BY TypeStep, MapStep
<1> QED BY <1>1, <1>2, PTL DEF Spec

\* For any processes, keys and hash, however gets and puts meet, a chain holds
\* finished nodes of its own bucket, and all of them unless two processes have
\* added to the bucket at once (sys/memory/sharemap.cc:237, 325, 339).
THEOREM CacheChainsWhole == Spec => []ChainsWhole
<1>1. TypeInv /\ MapInv => ChainsWhole
  <2> SUFFICES ASSUME TypeInv, MapInv, NEW b \in Buckets
               PROVE  /\ Chain(cur[b]) \subseteq LinkedAt(b)
                      /\ b \notin crossed => LinkedAt(b) \subseteq Chain(cur[b])
    BY DEF ChainsWhole, LinkedAt
  <2>1. Chain(cur[b]) \subseteq LinkedAt(b) BY ChainWithin
  <2>2. ASSUME b \notin crossed, NEW n \in LinkedAt(b) PROVE n \in Chain(cur[b])
    <3>1. n \in Reach(next, cur[b]) BY <2>2 DEF LinkedAt, MapInv, ChainInv
    <3> QED BY <3>1, ChainReach
  <2> QED BY <2>1, <2>2
<1> QED BY <1>1, AlwaysMapInv, PTL

-----------------------------------------------------------------------------
(* Records *)

EnterPcs == {"set", "node", "next", "link"}

\* Every record in use is a key's; one that a process holds, or a node names,
\* for a key in order is that key's.
RecordsOfKeys == \A i \in Records : i < position => owner[i] \in Keys
HeldRight ==
  \A p \in Clients : pc[p] \in Holding /\ key[p] \in Ordered =>
    index[p] < position /\ owner[index[p]] = key[p]
NodesRight ==
  \A n \in Linked : nkey[n] \in Ordered =>
    nval[n] \in Records /\ nval[n] < position /\ owner[nval[n]] = nkey[n]

\* A value is written again only after two processes have met, and a node that
\* is being added names its process's record.
ValuesRight ==
  \A p \in Clients :
    /\ pc[p] \in {"clear", "rewrite"} => key[p] \notin Ordered
    /\ pc[p] \in Adding => nval[at[p]] = index[p]

\* Who has missed a key in order is alone with it, and no node has it.
MissedAlone ==
  \A p \in Clients : pc[p] \in Missing /\ key[p] \in Ordered =>
    /\ \A q \in Clients : pc[q] \in Missing /\ key[q] = key[p] => q = p
    /\ \A n \in Linked : nkey[n] # key[p]

OneNode ==
  \A n, m \in Linked : nkey[n] = nkey[m] /\ nkey[n] \in Ordered => n = m

\* A record in use has a node, or the process that took it.
Named ==
  \A i \in Records : i < position /\ owner[i] \in Ordered =>
    \/ \E n \in Linked : nkey[n] = owner[i] /\ nval[n] = i
    \/ \E p \in Clients : pc[p] \in EnterPcs /\ key[p] = owner[i] /\ index[p] = i

StoreInv ==
  /\ RecordsOfKeys /\ HeldRight /\ NodesRight /\ ValuesRight
  /\ MissedAlone /\ OneNode /\ Named

\* A key that is out of order stays so.
LEMMA OrderedGrows ==
  ASSUME stale \subseteq stale', raced \subseteq raced', unnamed \subseteq unnamed',
         crossed \subseteq crossed'
  PROVE  Ordered' \subseteq Ordered
BY DEF Ordered, InOrder

LEMMA DeleteGrows ==
  ASSUME NEW i, Delete(i) PROVE stale \subseteq stale'
BY DEF Delete, Moves

LEMMA OrderedShrinks ==
  ASSUME [Next]_vars PROVE Ordered' \subseteq Ordered
<1> USE DEF map, pool, history
<1>1. ASSUME NEW p, \/ \E c \in Calls[p] : Call(p, c[1], c[2])
                   \/ LookFound(p) \/ LookMissing(p) \/ ReadValue(p) \/ GetRecord(p)
                   \/ Overwrite(p) \/ TakeRecord(p) \/ TakeFull(p)
      PROVE  Ordered' \subseteq Ordered
  <2>1. /\ UNCHANGED <<stale, unnamed, crossed>> /\ raced \subseteq raced'
    BY <1>1 DEF Call, LookFound, LookMissing, ReadValue, GetRecord, Overwrite,
       TakeRecord, TakeFull
  <2> QED BY <2>1, OrderedGrows
<1>2. ASSUME NEW p, Enter(p) \/ EnterFull(p) \/ SetMinutes(p) PROVE Ordered' \subseteq Ordered
  <2>1. UNCHANGED <<stale, raced>> /\ unnamed \subseteq unnamed' /\ crossed \subseteq crossed'
    BY <1>2 DEF Enter, SetStep, SetFound, ClearValue, RewriteValue, SetMissing, NewNode,
       AddNext, AddFirst, EnterFull, SetMinutes
  <2> QED BY <2>1, OrderedGrows
<1>3. ASSUME NEW p, Forget(p) PROVE Ordered' \subseteq Ordered
  <2>1. UNCHANGED <<raced, unnamed, crossed>> /\ stale \subseteq stale'
    BY <1>3, DeleteGrows DEF Forget
  <2> QED BY <2>1, OrderedGrows
<1>4. CASE FlushStart \/ FlushExpired \/ FlushEnd \/ UNCHANGED vars
  <2>1. UNCHANGED <<raced, unnamed, crossed>> /\ stale \subseteq stale'
    BY <1>4, DeleteGrows DEF FlushStart, FlushExpired, FlushEnd, vars
  <2> QED BY <2>1, OrderedGrows
<1> QED BY <1>1, <1>2, <1>3, <1>4 DEF Next

\* A step of p that adds no node to a chain keeps the invariant if the records
\* and nodes of keys in order stay, but for a record it takes, and if where it
\* takes p is right.
LEMMA StoreKeeps ==
  ASSUME TypeInv, TypeInv', MapInv, StoreInv, NEW p,
         Linked' = Linked, Ordered' \subseteq Ordered,
         \A q \in Clients : q # p =>
           pc'[q] = pc[q] /\ at'[q] = at[q] /\ key'[q] = key[q] /\ index'[q] = index[q],
         \A n \in Linked : nkey'[n] = nkey[n],
         \A n \in Linked : nkey[n] \in Ordered => nval'[n] = nval[n],
         \A q \in Clients : q # p /\ pc[q] \in Adding => nval'[at[q]] = nval[at[q]],
         \A i \in Records : i < position' => owner'[i] \in Keys,
         \A i \in Records : i < position /\ owner[i] \in Ordered' =>
           i < position' /\ owner'[i] = owner[i],
         \A i \in Records : i < position' /\ owner'[i] \in Ordered' =>
           \/ (i < position /\ owner'[i] = owner[i])
           \/ (p \in Clients /\ pc'[p] \in EnterPcs /\ key'[p] = owner'[i] /\ index'[p] = i),
         p \in Clients =>
           /\ pc'[p] \in Holding /\ key'[p] \in Ordered' =>
                index'[p] < position' /\ owner'[index'[p]] = key'[p]
           /\ pc'[p] \in {"clear", "rewrite"} => key'[p] \notin Ordered'
           /\ pc'[p] \in Adding => nval'[at'[p]] = index'[p]
           /\ pc'[p] \in Missing /\ key'[p] \in Ordered' =>
                /\ \A q \in Clients : pc[q] \in Missing /\ key[q] = key'[p] => q = p
                /\ \A n \in Linked : nkey[n] # key'[p]
           /\ pc[p] \in EnterPcs /\ key[p] \in Ordered' =>
                pc'[p] \in EnterPcs /\ key'[p] = key[p] /\ index'[p] = index[p]
  PROVE  StoreInv'
<1> USE DEF StoreInv
<1>0. \A q \in Clients : pc[q] \in Indexed => index[q] \in Records
  BY DEF TypeInv, Local
<1>1. RecordsOfKeys' BY DEF RecordsOfKeys
<1>2. HeldRight'
  <2> SUFFICES ASSUME NEW q \in Clients, pc'[q] \in Holding, key'[q] \in Ordered'
               PROVE  index'[q] < position' /\ owner'[index'[q]] = key'[q]
    BY DEF HeldRight
  <2>1. CASE q = p BY <2>1
  <2>2. CASE q # p
    <3>1. /\ pc[q] \in Holding /\ key[q] \in Ordered' /\ index'[q] = index[q]
          /\ key'[q] = key[q] /\ index[q] \in Records
      BY <1>0, <2>2 DEF Indexed
    <3>2. index[q] < position /\ owner[index[q]] = key[q]
      BY <3>1 DEF HeldRight
    <3> QED BY <3>1, <3>2
  <2> QED BY <2>1, <2>2
<1>3. NodesRight'
  <2> SUFFICES ASSUME NEW n \in Linked, nkey[n] \in Ordered'
               PROVE  /\ nval'[n] \in Records /\ nval'[n] < position'
                      /\ owner'[nval'[n]] = nkey[n]
    BY DEF NodesRight
  <2>1. nval'[n] = nval[n] /\ nval[n] \in Records /\ nval[n] < position
        /\ owner[nval[n]] = nkey[n]
    BY DEF NodesRight
  <2> QED BY <2>1
<1>4. ValuesRight'
  <2> SUFFICES ASSUME NEW q \in Clients
               PROVE  /\ pc'[q] \in {"clear", "rewrite"} => key'[q] \notin Ordered'
                      /\ pc'[q] \in Adding => nval'[at'[q]] = index'[q]
    BY DEF ValuesRight
  <2>1. CASE q = p BY <2>1
  <2>2. CASE q # p
    <3>1. pc'[q] = pc[q] /\ at'[q] = at[q] /\ key'[q] = key[q] /\ index'[q] = index[q]
      BY <2>2
    <3>2. pc[q] \in Adding => nval'[at[q]] = nval[at[q]] BY <2>2
    <3> QED BY <3>1, <3>2 DEF ValuesRight
  <2> QED BY <2>1, <2>2
<1>5. MissedAlone'
  <2> SUFFICES ASSUME NEW q \in Clients, pc'[q] \in Missing, key'[q] \in Ordered'
               PROVE  /\ \A r \in Clients : pc'[r] \in Missing /\ key'[r] = key'[q] => r = q
                      /\ \A n \in Linked : nkey[n] # key'[q]
    BY DEF MissedAlone
  <2>1. CASE q = p BY <2>1
  <2>2. CASE q # p
    <3>1. pc[q] \in Missing /\ key'[q] = key[q] /\ key[q] \in Ordered BY <2>2
    <3>2. /\ \A r \in Clients : pc[r] \in Missing /\ key[r] = key[q] => r = q
          /\ \A n \in Linked : nkey[n] # key[q]
      BY <3>1 DEF MissedAlone
    <3>3. ASSUME NEW r \in Clients, pc'[r] \in Missing, key'[r] = key'[q] PROVE r = q
      <4>1. CASE r = p BY <2>2, <3>1, <3>3, <4>1
      <4>2. CASE r # p BY <3>1, <3>2, <3>3, <4>2
      <4> QED BY <4>1, <4>2
    <3> QED BY <3>1, <3>2, <3>3
  <2> QED BY <2>1, <2>2
<1>6. OneNode' BY DEF OneNode
<1>7. Named'
  <2> SUFFICES ASSUME NEW i \in Records, i < position', owner'[i] \in Ordered'
               PROVE  \/ \E n \in Linked : nkey[n] = owner'[i] /\ nval'[n] = i
                      \/ \E q \in Clients :
                           pc'[q] \in EnterPcs /\ key'[q] = owner'[i] /\ index'[q] = i
    BY DEF Named
  <2>1. CASE p \in Clients /\ pc'[p] \in EnterPcs /\ key'[p] = owner'[i] /\ index'[p] = i
    BY <2>1
  <2>2. CASE i < position /\ owner'[i] = owner[i]
    <3>1. ASSUME NEW n \in Linked, nkey[n] = owner[i], nval[n] = i
          PROVE  nkey[n] = owner'[i] /\ nval'[n] = i
      BY <2>2, <3>1
    <3>2. ASSUME NEW q \in Clients, pc[q] \in EnterPcs, key[q] = owner[i], index[q] = i
          PROVE  pc'[q] \in EnterPcs /\ key'[q] = owner'[i] /\ index'[q] = i
      <4>1. CASE q = p BY <2>2, <3>2, <4>1
      <4>2. CASE q # p BY <2>2, <3>2, <4>2
      <4> QED BY <4>1, <4>2
    <3> QED BY <2>2, <3>1, <3>2 DEF Named
  <2> QED BY <2>1, <2>2
<1> QED BY <1>1, <1>2, <1>3, <1>4, <1>5, <1>6, <1>7

Others(p) ==
  \A q \in Clients : q # p =>
    pc'[q] = pc[q] /\ at'[q] = at[q] /\ key'[q] = key[q] /\ index'[q] = index[q]

\* A step that leaves all records, keys and values.
LEMMA PlainKeeps ==
  ASSUME TypeInv, TypeInv', MapInv, StoreInv, NEW p, Others(p),
         Linked' = Linked, Ordered' \subseteq Ordered,
         UNCHANGED <<nkey, nval, position, owner>>,
         p \in Clients =>
           /\ pc'[p] \in Holding /\ key'[p] \in Ordered' =>
                index'[p] < position /\ owner[index'[p]] = key'[p]
           /\ pc'[p] \in {"clear", "rewrite"} => key'[p] \notin Ordered'
           /\ pc'[p] \in Adding => nval[at'[p]] = index'[p]
           /\ pc'[p] \in Missing /\ key'[p] \in Ordered' =>
                /\ \A q \in Clients : pc[q] \in Missing /\ key[q] = key'[p] => q = p
                /\ \A n \in Linked : nkey[n] # key'[p]
           /\ pc[p] \in EnterPcs /\ key[p] \in Ordered' =>
                pc'[p] \in EnterPcs /\ key'[p] = key[p] /\ index'[p] = index[p]
  PROVE  StoreInv'
<1>1. \A i \in Records : i < position => owner[i] \in Keys
  BY DEF StoreInv, RecordsOfKeys
<1>2. nkey' = nkey /\ nval' = nval /\ position' = position /\ owner' = owner
  OBVIOUS
<1>3. /\ \A i \in Records : i < position' => owner'[i] \in Keys
      /\ \A n \in Linked : nkey'[n] = nkey[n]
      /\ \A n \in Linked : nkey[n] \in Ordered => nval'[n] = nval[n]
      /\ \A q \in Clients : q # p /\ pc[q] \in Adding => nval'[at[q]] = nval[at[q]]
      /\ \A i \in Records : i < position /\ owner[i] \in Ordered' =>
           i < position' /\ owner'[i] = owner[i]
      /\ \A i \in Records : i < position' /\ owner'[i] \in Ordered' =>
           i < position /\ owner'[i] = owner[i]
  BY <1>1, <1>2
<1> QED BY <1>2, <1>3, StoreKeeps DEF Others

\* A key that is in order is found among the nodes if any has it.
LEMMA MatchesAll ==
  ASSUME TypeInv, MapInv, NEW k \in Ordered, Matches(k) = {}
  PROVE  \A n \in Linked : nkey[n] # k
<1> SUFFICES ASSUME NEW n \in Linked, nkey[n] = k PROVE FALSE
  OBVIOUS
<1>1. Hash[k] \notin crossed BY DEF Ordered, InOrder
<1>2. n \in Reach(next, cur[Hash[k]]) BY <1>1 DEF MapInv, ChainInv
<1>3. n \in Chain(cur[Hash[k]]) BY <1>2, ChainReach
<1> QED BY <1>3 DEF Matches

LEMMA EndsIs ==
  ASSUME TypeInv, NEW p \in Procs, Ends(p)
  PROVE  /\ pc'[p] = "idle" /\ Others(p)
BY DEF TypeInv, TypeOK, Local, Ends, Returns, Goes, WorksAt, Others, Clients

LEMMA EndKeeps ==
  ASSUME TypeInv, TypeInv', MapInv, StoreInv, NEW p \in Procs, Ends(p),
         UNCHANGED <<map, position, owner>>, Ordered' \subseteq Ordered,
         Linked' = Linked, p \in Clients => pc[p] \notin EnterPcs
  PROVE  StoreInv'
<1>1. pc'[p] = "idle" /\ Others(p) BY EndsIs
<1>2. UNCHANGED <<nkey, nval, position, owner>> BY DEF map
<1>3. "idle" \notin Holding \cup Adding \cup Missing \cup {"clear", "rewrite"}
  BY DEF Holding, Adding, Missing
<1> QED BY <1>1, <1>2, <1>3, PlainKeeps

LEMMA LookKeeps ==
  ASSUME TypeInv, TypeInv', MapInv, StoreInv, Linked' = Linked, Ordered' \subseteq Ordered,
         NEW p \in Clients,
         \/ \E c \in Calls[p] : Call(p, c[1], c[2])
         \/ LookFound(p) \/ LookMissing(p) \/ ReadValue(p)
  PROVE  StoreInv'
<1>0. p \in Procs /\ pc[p] \notin EnterPcs
  BY DEF Clients, Call, LookFound, LookMissing, ReadValue, EnterPcs
<1>1. CASE (\E c \in Calls[p] : Call(p, c[1], c[2])) \/ LookFound(p)
  <2>1. /\ pc'[p] \in {"look", "value"} /\ Others(p)
        /\ UNCHANGED <<nkey, nval, position, owner>>
    BY <1>0, <1>1
       DEF Call, LookFound, Goes, WorksAt, Others, TypeInv, TypeOK, Local, map, pool, Clients
  <2> QED BY <1>0, <2>1, PlainKeeps DEF Holding, Adding, Missing
<1>2. CASE LookMissing(p) /\ Ends(p)
  <2>1. UNCHANGED <<map, position, owner>> BY <1>2 DEF LookMissing, pool
  <2> QED BY <1>0, <1>2, <2>1, EndKeeps
<1>3. CASE LookMissing(p) /\ ~Ends(p)
  <2>1. /\ Goes(p, "take") /\ UNCHANGED <<key, at, index>> /\ Matches(key[p]) = {}
        /\ raced' = IF Missed(key[p]) = {} THEN raced ELSE raced \cup {key[p]}
        /\ UNCHANGED <<nkey, nval, position, owner>>
    BY <1>3 DEF LookMissing, map, pool
  <2>2. pc'[p] = "take" /\ Others(p)
    BY <1>0, <2>1 DEF Goes, Others, TypeInv, TypeOK, Clients
  <2>3. ASSUME key[p] \in Ordered'
        PROVE  /\ \A q \in Clients : pc[q] \in Missing /\ key[q] = key[p] => q = p
               /\ \A n \in Linked : nkey[n] # key[p]
    <3>1. key[p] \notin raced' BY <2>3 DEF Ordered, InOrder
    <3>2. Missed(key[p]) = {} BY <2>1, <3>1
    <3>3. \A q \in Clients : key[q] = key[p] => pc[q] \notin Missing
      BY <3>2 DEF Missed, Entering, Missing
    <3> QED BY <2>1, <2>3, <3>3, MatchesAll
  <2> QED BY <1>0, <2>1, <2>2, <2>3, PlainKeeps DEF Holding, Adding, Missing
<1>4. CASE ReadValue(p)
  <2>1. /\ pc[p] = "value" /\ key[p] \in Keys /\ at[p] \in Linked /\ nkey[at[p]] = key[p]
        /\ op[p] \in {"get", "put", "forget"}
    BY <1>4 DEF ReadValue, TypeInv, Local, MapInv, NodeInv, AtNode
  <2>2. /\ pc'[p] = op[p] /\ index'[p] = ReadIndex(at[p]) /\ key'[p] = key[p] /\ Others(p)
        /\ UNCHANGED <<nkey, nval, position, owner>>
    BY <1>0, <1>4
       DEF ReadValue, Goes, Others, TypeInv, TypeOK, Local, map, pool, Clients
  <2>3. ASSUME key[p] \in Ordered'
        PROVE  index'[p] < position /\ owner[index'[p]] = key[p]
    <3>1. /\ nval[at[p]] \in Records /\ nval[at[p]] < position
          /\ owner[nval[at[p]]] = key[p]
      BY <2>1, <2>3 DEF StoreInv, NodesRight
    <3>2. ReadIndex(at[p]) = nval[at[p]]
      BY <3>1, StoreAssumption DEF ReadIndex, Blank, Records
    <3> QED BY <2>2, <3>1, <3>2
  <2> QED BY <1>0, <2>1, <2>2, <2>3, PlainKeeps DEF Adding, Missing
<1> QED BY <1>1, <1>2, <1>3, <1>4

\* The keys of the deleted record and of the one that is moved are stale then.
LEMMA DeleteEffects ==
  ASSUME TypeInv, RecordsOfKeys, NEW i \in Records, Delete(i)
  PROVE  /\ \A j \in Records : j < position' => owner'[j] \in Keys
         /\ \A j \in Records : j < position /\ owner[j] \in Ordered' =>
              j < position' /\ owner'[j] = owner[j]
         /\ \A j \in Records : j < position' /\ owner'[j] \in Ordered' =>
              j < position /\ owner'[j] = owner[j]
<1>1. CASE UNCHANGED <<position, poolid, timed, owner, stale>>
  BY <1>1 DEF RecordsOfKeys
<1>2. ASSUME NEW id \in Records, id < position, Moves(id), position' = position - 1
      PROVE  /\ \A j \in Records : j < position' => owner'[j] \in Keys
             /\ \A j \in Records : j < position /\ owner[j] \in Ordered' =>
                  j < position' /\ owner'[j] = owner[j]
             /\ \A j \in Records : j < position' /\ owner'[j] \in Ordered' =>
                  j < position /\ owner'[j] = owner[j]
  <2>1. Last \in Records /\ Last = position - 1 /\ position \in Nat
    BY <1>2, StoreAssumption DEF TypeInv, TypeOK, Records, Last
  <2>2. \A j \in Records :
          owner'[j] = IF j = Last THEN NoKey ELSE IF j = id THEN owner[Last] ELSE owner[j]
    BY <1>2, <2>1 DEF Moves, TypeInv, TypeOK
  <2>3. owner[id] \in Keys /\ owner[Last] \in Keys
    BY <1>2, <2>1 DEF RecordsOfKeys, Records
  <2>4. owner[id] \notin Ordered' /\ owner[Last] \notin Ordered'
    <3>1. owner[id] \in stale' /\ owner[Last] \in stale'
      BY <1>2, <2>3, MapAssumption DEF Moves, Owners
    <3> QED BY <3>1 DEF Ordered, InOrder
  <2>5. ASSUME NEW j \in Records, j < position' PROVE owner'[j] \in Keys /\ j # Last /\ j < position
    <3>1. j # Last /\ j < position BY <1>2, <2>1, <2>5 DEF Records
    <3> QED BY <2>2, <2>3, <3>1 DEF RecordsOfKeys
  <2>6. ASSUME NEW j \in Records, j < position, owner[j] \in Ordered'
        PROVE  j < position' /\ owner'[j] = owner[j]
    <3>1. j # id /\ j # Last BY <2>4, <2>6
    <3> QED BY <1>2, <2>1, <2>2, <2>6, <3>1 DEF Records
  <2>7. ASSUME NEW j \in Records, j < position', owner'[j] \in Ordered'
        PROVE  j < position /\ owner'[j] = owner[j]
    <3>1. j # Last /\ j < position BY <2>5, <2>7
    <3>2. j # id BY <2>2, <2>4, <2>7, <3>1
    <3> QED BY <2>2, <3>1, <3>2
  <2> QED BY <2>5, <2>6, <2>7
<1> QED BY <1>1, <1>2, DeleteIs DEF TypeInv

LEMMA DeleteKeeps ==
  ASSUME TypeInv, TypeInv', MapInv, StoreInv, Linked' = Linked, Ordered' \subseteq Ordered,
         NEW i \in Records, Delete(i), NEW p \in Procs, Others(p), UNCHANGED map,
         p \in Clients => pc'[p] = "idle" /\ pc[p] \notin EnterPcs
  PROVE  StoreInv'
<1>1. /\ \A j \in Records : j < position' => owner'[j] \in Keys
      /\ \A j \in Records : j < position /\ owner[j] \in Ordered' =>
           j < position' /\ owner'[j] = owner[j]
      /\ \A j \in Records : j < position' /\ owner'[j] \in Ordered' =>
           j < position /\ owner'[j] = owner[j]
  BY DeleteEffects DEF StoreInv
<1>2. nkey' = nkey /\ nval' = nval BY DEF map
<1>3. "idle" \notin Holding \cup Adding \cup Missing \cup {"clear", "rewrite"}
  BY DEF Holding, Adding, Missing
<1> QED BY <1>1, <1>2, <1>3, StoreKeeps DEF Others

LEMMA TakeKeeps ==
  ASSUME TypeInv, TypeInv', MapInv, StoreInv, Linked' = Linked, Ordered' \subseteq Ordered,
         NEW p \in Clients, TakeRecord(p)
  PROVE  StoreInv'
<1>1. /\ pc[p] = "take" /\ key[p] \in Keys /\ p \in Procs
      /\ position \in Records /\ position' = position + 1
  BY StoreAssumption
     DEF TakeRecord, Takes, Room, TypeInv, TypeOK, Local, Clients, Records
<1>2. /\ pc'[p] = "set" /\ index'[p] = position /\ key' = key /\ Others(p)
      /\ nkey' = nkey /\ nval' = nval
  BY <1>1 DEF TakeRecord, Goes, Others, TypeInv, TypeOK, Local, map, Clients
<1>3. \A i \in Records : owner'[i] = IF i = position THEN key[p] ELSE owner[i]
  BY <1>1 DEF TakeRecord, Takes, TypeInv, TypeOK
<1>4. ASSUME NEW i \in Records, i < position'
      PROVE  owner'[i] \in Keys /\ (i < position \/ i = position)
  <2>1. i < position \/ i = position BY <1>1, <1>4 DEF Records
  <2> QED BY <1>1, <1>3, <2>1 DEF StoreInv, RecordsOfKeys
<1>5. ASSUME NEW i \in Records, i < position
      PROVE  i < position' /\ owner'[i] = owner[i]
  BY <1>1, <1>3, <1>5 DEF Records
<1>6. ASSUME NEW i \in Records, i < position'
      PROVE  \/ (i < position /\ owner'[i] = owner[i])
             \/ (p \in Clients /\ pc'[p] \in EnterPcs /\ key'[p] = owner'[i] /\ index'[p] = i)
  BY <1>2, <1>3, <1>4, <1>5, <1>6 DEF EnterPcs
<1>7. index'[p] < position' /\ owner'[index'[p]] = key'[p]
  BY <1>1, <1>2, <1>3 DEF Records
<1>8. ASSUME key'[p] \in Ordered'
      PROVE  /\ \A q \in Clients : pc[q] \in Missing /\ key[q] = key'[p] => q = p
             /\ \A n \in Linked : nkey[n] # key'[p]
  BY <1>1, <1>2, <1>8 DEF StoreInv, MissedAlone, Missing
<1>9. /\ pc'[p] \notin Adding \cup {"clear", "rewrite"} /\ pc[p] \notin EnterPcs
  BY <1>1, <1>2 DEF Adding, EnterPcs
<1>10. /\ \A n \in Linked : nkey'[n] = nkey[n] /\ nval'[n] = nval[n]
       /\ \A q \in Clients : nval'[at[q]] = nval[at[q]]
  BY <1>2
<1> QED
  BY <1>2, <1>4, <1>5, <1>6, <1>7, <1>8, <1>9, <1>10, StoreKeeps DEF Others

LEMMA PoolKeeps ==
  ASSUME TypeInv, TypeInv', MapInv, StoreInv, Linked' = Linked, Ordered' \subseteq Ordered,
         NEW p \in Clients,
         \/ GetRecord(p) \/ Overwrite(p) \/ TakeRecord(p) \/ TakeFull(p)
         \/ EnterFull(p) \/ SetMinutes(p) \/ Forget(p)
  PROVE  StoreInv'
<1>0. p \in Procs BY DEF Clients
<1>1. CASE GetRecord(p) \/ Overwrite(p) \/ TakeFull(p) \/ SetMinutes(p)
  <2>1. Ends(p) /\ UNCHANGED <<map, position, owner>> /\ pc[p] \notin EnterPcs
    BY <1>1 DEF GetRecord, Overwrite, TakeFull, SetMinutes, EnterPcs, pool
  <2> QED BY <1>0, <2>1, EndKeeps
<1>2. CASE TakeRecord(p) BY <1>2, TakeKeeps
<1>3. CASE EnterFull(p)
  <2>1. /\ pc'[p] = "minutes" /\ Others(p) /\ key' = key
        /\ UNCHANGED <<nkey, nval, position, owner>> /\ key[p] \in unnamed'
    BY <1>0, <1>3 DEF EnterFull, Goes, Others, TypeInv, TypeOK, Clients, map, pool
  <2>2. key[p] \notin Ordered' BY <2>1 DEF Ordered, InOrder
  <2> QED BY <2>1, <2>2, PlainKeeps DEF Adding, Missing
<1>4. CASE Forget(p)
  <2>1. /\ index[p] \in Records /\ Delete(index[p]) /\ UNCHANGED map
        /\ Ends(p) /\ pc[p] \notin EnterPcs
    BY <1>4 DEF Forget, TypeInv, Local, Indexed, Holding, EnterPcs
  <2>2. pc'[p] = "idle" /\ Others(p) BY <1>0, <2>1, EndsIs
  <2> QED BY <1>0, <2>1, <2>2, DeleteKeeps
<1> QED BY <1>1, <1>2, <1>3, <1>4

\* Found, a key has been entered by another process in the meantime.
LEMMA FoundMet ==
  ASSUME TypeInv, MapInv, StoreInv, NEW p \in Clients, SetFound(p)
  PROVE  key[p] \notin Ordered
<1>1. pc[p] \in Missing /\ key[p] \in Keys
  BY DEF SetFound, Missing, TypeInv, Local
<1>2. PICK n : n \in Matches(key[p]) BY DEF SetFound, Found
<1>3. n \in Linked /\ nkey[n] = key[p] BY <1>1, <1>2, MatchesLinked
<1> QED BY <1>1, <1>3 DEF StoreInv, MissedAlone

LEMMA SetKeeps ==
  ASSUME TypeInv, TypeInv', MapInv, StoreInv, Linked' = Linked, Ordered' \subseteq Ordered,
         NEW p \in Clients, SetFound(p) \/ SetMissing(p), UNCHANGED pool
  PROVE  StoreInv'
<1>0. p \in Procs /\ pc[p] = "set" /\ key' = key /\ index' = index
      /\ UNCHANGED <<nkey, nval, position, owner>>
  BY DEF Clients, SetFound, SetMissing, map, pool
<1>1. CASE SetFound(p)
  <2>1. pc'[p] = "clear" /\ Others(p)
    BY <1>0, <1>1 DEF SetFound, Goes, WorksAt, Others, TypeInv, TypeOK, Local, Clients
  <2>2. key[p] \notin Ordered BY <1>1, FoundMet
  <2> QED BY <1>0, <2>1, <2>2, PlainKeeps DEF Holding, Adding, Missing
<1>2. CASE SetMissing(p)
  <2>1. pc'[p] = "node" /\ Others(p)
    BY <1>0, <1>2 DEF SetMissing, Goes, Others, TypeInv, TypeOK, Clients
  <2>2. key[p] \in Ordered =>
          /\ index[p] < position /\ owner[index[p]] = key[p]
          /\ \A q \in Clients : pc[q] \in Missing /\ key[q] = key[p] => q = p
          /\ \A n \in Linked : nkey[n] # key[p]
    BY <1>0 DEF StoreInv, HeldRight, Holding, MissedAlone, Missing
  <2> QED BY <1>0, <2>1, <2>2, PlainKeeps DEF Adding, EnterPcs
<1> QED BY <1>1, <1>2

\* A value that is written again is one of a key that two processes have put.
LEMMA ValueKeeps ==
  ASSUME TypeInv, TypeInv', MapInv, StoreInv, Linked' = Linked, Ordered' \subseteq Ordered,
         NEW p \in Clients, ClearValue(p) \/ RewriteValue(p), UNCHANGED pool
  PROVE  StoreInv'
<1>1. /\ p \in Procs /\ pc[p] \in {"clear", "rewrite"} /\ key' = key
      /\ pc'[p] \in {"rewrite", "minutes"} /\ Others(p)
      /\ UNCHANGED <<nkey, position, owner>>
      /\ \A n \in Nodes : n # at[p] => nval'[n] = nval[n]
  BY DEF Clients, ClearValue, RewriteValue, Goes, Others, TypeInv, TypeOK, map, pool
<1>2. at[p] \in Linked /\ nkey[at[p]] = key[p]
  BY <1>1 DEF MapInv, NodeInv, AtNode
<1>3. key[p] \notin Ordered BY <1>1 DEF StoreInv, ValuesRight
<1>4. \A n \in Linked : nkey[n] \in Ordered => nval'[n] = nval[n]
  BY <1>1, <1>2, <1>3 DEF Linked
<1>5. \A q \in Clients : q # p /\ pc[q] \in Adding => nval'[at[q]] = nval[at[q]]
  <2> SUFFICES ASSUME NEW q \in Clients, pc[q] \in Adding PROVE nval'[at[q]] = nval[at[q]]
    OBVIOUS
  <2>1. at[q] \in Nodes /\ at[q] \notin Linked
    BY LinkedIs DEF MapInv, TypeInv, Local
  <2> QED BY <1>1, <1>2, <2>1
<1>6. \A i \in Records : i < position' => owner'[i] \in Keys
  BY <1>1 DEF StoreInv, RecordsOfKeys
<1>7. \A i \in Records : i < position /\ owner[i] \in Ordered' =>
        i < position' /\ owner'[i] = owner[i]
  BY <1>1
<1>8. \A i \in Records : i < position' /\ owner'[i] \in Ordered' =>
        i < position /\ owner'[i] = owner[i]
  BY <1>1
<1>9. key'[p] \notin Ordered' /\ pc'[p] \notin Adding /\ pc[p] \notin EnterPcs
  BY <1>1, <1>3 DEF Adding, EnterPcs
<1>10. \A n \in Linked : nkey'[n] = nkey[n] BY <1>1
<1> QED
  BY <1>1, <1>4, <1>5, <1>6, <1>7, <1>8, <1>9, <1>10, StoreKeeps DEF Others

LEMMA NodeKeeps ==
  ASSUME TypeInv, TypeInv', MapInv, StoreInv, Ordered' \subseteq Ordered,
         NEW p \in Clients, NewNode(p), UNCHANGED pool
  PROVE  StoreInv'
<1>1. /\ p \in Procs /\ pc[p] = "node" /\ used \in Nodes
      /\ key' = key /\ index' = index /\ position' = position /\ owner' = owner
  BY MapAssumption DEF Clients, NewNode, TypeInv, TypeOK, Nodes, pool
<1>2. /\ pc'[p] = "next" /\ at'[p] = used /\ nval'[used] = index[p] /\ Others(p)
      /\ \A n \in Nodes : n # used => nkey'[n] = nkey[n] /\ nval'[n] = nval[n]
  BY <1>1 DEF NewNode, Goes, WorksAt, Others, TypeInv, TypeOK, Local, Clients
<1>3. Linked' = Linked BY NewNodeKeeps
<1>4. \A n \in Linked : n \in Nodes /\ n # used
  BY <1>1 DEF Linked, Nodes
<1>5. \A q \in Clients : pc[q] \in Adding => at[q] \in Nodes /\ at[q] # used
  BY <1>1 DEF MapInv, NodeInv, TypeInv, Local, Nodes
<1>6. key[p] \in Ordered =>
        /\ index[p] < position /\ owner[index[p]] = key[p]
        /\ \A q \in Clients : pc[q] \in Missing /\ key[q] = key[p] => q = p
        /\ \A n \in Linked : nkey[n] # key[p]
  BY <1>1 DEF StoreInv, HeldRight, Holding, MissedAlone, Missing
<1>7. \A i \in Records : i < position' => owner'[i] \in Keys
  BY <1>1 DEF StoreInv, RecordsOfKeys
<1>8. \A n \in Linked : nkey'[n] = nkey[n] /\ nval'[n] = nval[n]
  BY <1>2, <1>4
<1>9. \A q \in Clients : pc[q] \in Adding => nval'[at[q]] = nval[at[q]]
  BY <1>2, <1>5
<1>10. "next" \in EnterPcs /\ "next" \notin {"clear", "rewrite"}
  BY DEF EnterPcs
<1>11. \A i \in Records : i < position /\ owner[i] \in Ordered' =>
         i < position' /\ owner'[i] = owner[i]
  BY <1>1
<1>12. \A i \in Records : i < position' /\ owner'[i] \in Ordered' =>
         i < position /\ owner'[i] = owner[i]
  BY <1>1
<1> QED
  BY <1>1, <1>2, <1>3, <1>6, <1>7, <1>8, <1>9, <1>10, <1>11, <1>12, StoreKeeps DEF Others

LEMMA NextKeeps ==
  ASSUME TypeInv, TypeInv', MapInv, StoreInv, Ordered' \subseteq Ordered,
         NEW p \in Clients, AddNext(p), UNCHANGED pool
  PROVE  StoreInv'
<1>1. /\ p \in Procs /\ pc[p] = "next" /\ pc'[p] = "link" /\ Others(p)
      /\ key' = key /\ index' = index /\ at' = at
      /\ UNCHANGED <<nkey, nval, position, owner>>
  BY DEF Clients, AddNext, Goes, Others, TypeInv, TypeOK, pool
<1>2. Linked' = Linked BY AddNextKeeps
<1>3. key[p] \in Ordered =>
        /\ index[p] < position /\ owner[index[p]] = key[p]
        /\ \A q \in Clients : pc[q] \in Missing /\ key[q] = key[p] => q = p
        /\ \A n \in Linked : nkey[n] # key[p]
  BY <1>1 DEF StoreInv, HeldRight, Holding, MissedAlone, Missing
<1>4. nval[at[p]] = index[p] BY <1>1 DEF StoreInv, ValuesRight, Adding
<1> QED BY <1>1, <1>2, <1>3, <1>4, PlainKeeps DEF EnterPcs

\* The process that was alone with its key puts the key's only node in front.
LEMMA FirstKeeps ==
  ASSUME TypeInv, TypeInv', MapInv, StoreInv, Ordered' \subseteq Ordered,
         NEW p \in Clients, AddFirst(p), UNCHANGED pool
  PROVE  StoreInv'
<1> USE DEF StoreInv
<1>1. /\ p \in Procs /\ pc[p] = "link" /\ pc'[p] = "minutes"
      /\ key' = key /\ index' = index /\ at' = at
      /\ UNCHANGED <<nkey, nval, position, owner>>
      /\ \A q \in Clients : q # p => pc'[q] = pc[q]
  BY DEF Clients, AddFirst, Goes, TypeInv, TypeOK, pool
<1>2. Linked' = Linked \cup {at[p]} BY AddFirstKeeps
<1>3. nkey[at[p]] = key[p] /\ nval[at[p]] = index[p] /\ index[p] \in Records
  BY <1>1 DEF MapInv, NodeInv, ValuesRight, Adding, TypeInv, Local, Indexed, Holding
<1>4. key[p] \in Ordered =>
        /\ index[p] < position /\ owner[index[p]] = key[p]
        /\ \A q \in Clients : pc[q] \in Missing /\ key[q] = key[p] => q = p
        /\ \A n \in Linked : nkey[n] # key[p]
  BY <1>1 DEF HeldRight, Holding, MissedAlone, Missing
<1>5. RecordsOfKeys' BY <1>1 DEF RecordsOfKeys
<1>6. HeldRight'
  <2> SUFFICES ASSUME NEW q \in Clients, pc'[q] \in Holding, key[q] \in Ordered'
               PROVE  index[q] < position /\ owner[index[q]] = key[q]
    BY <1>1 DEF HeldRight
  <2>1. CASE q = p BY <1>4, <2>1
  <2>2. CASE q # p BY <1>1, <2>2 DEF HeldRight
  <2> QED BY <2>1, <2>2
<1>7. NodesRight'
  <2> SUFFICES ASSUME NEW n \in Linked', nkey[n] \in Ordered'
               PROVE  /\ nval[n] \in Records /\ nval[n] < position
                      /\ owner[nval[n]] = nkey[n]
    BY <1>1 DEF NodesRight
  <2>1. CASE n = at[p] BY <1>3, <1>4, <2>1
  <2>2. CASE n # at[p]
    <3>1. n \in Linked BY <1>2, <2>2
    <3> QED BY <3>1 DEF NodesRight
  <2> QED BY <2>1, <2>2
<1>8. ValuesRight'
  <2> SUFFICES ASSUME NEW q \in Clients
               PROVE  /\ pc'[q] \in {"clear", "rewrite"} => key[q] \notin Ordered'
                      /\ pc'[q] \in Adding => nval[at[q]] = index[q]
    BY <1>1 DEF ValuesRight
  <2>1. CASE q = p BY <1>1, <2>1 DEF Adding
  <2>2. CASE q # p BY <1>1, <2>2 DEF ValuesRight
  <2> QED BY <2>1, <2>2
<1>9. MissedAlone'
  <2> SUFFICES ASSUME NEW q \in Clients, pc'[q] \in Missing, key[q] \in Ordered'
               PROVE  /\ \A r \in Clients : pc'[r] \in Missing /\ key[r] = key[q] => r = q
                      /\ \A n \in Linked' : nkey[n] # key[q]
    BY <1>1 DEF MissedAlone
  <2>1. q # p BY <1>1 DEF Missing
  <2>2. pc[q] \in Missing /\ pc[p] \in Missing BY <1>1, <2>1 DEF Missing
  <2>3. /\ \A r \in Clients : pc[r] \in Missing /\ key[r] = key[q] => r = q
        /\ \A n \in Linked : nkey[n] # key[q]
    BY <2>2 DEF MissedAlone
  <2>4. key[p] # key[q] BY <2>1, <2>2, <2>3
  <2>5. ASSUME NEW r \in Clients, pc'[r] \in Missing, key[r] = key[q] PROVE r = q
    BY <1>1, <2>3, <2>4, <2>5
  <2> QED BY <1>2, <1>3, <2>3, <2>4, <2>5
<1>10. OneNode'
  <2> SUFFICES ASSUME NEW n \in Linked', NEW m \in Linked',
                      nkey[n] = nkey[m], nkey[n] \in Ordered'
               PROVE  n = m
    BY <1>1 DEF OneNode
  <2>1. CASE n \in Linked /\ m \in Linked BY <2>1 DEF OneNode
  <2>2. CASE n = at[p] \/ m = at[p]
    <3>1. key[p] \in Ordered BY <1>3, <2>2
    <3> QED BY <1>2, <1>3, <1>4, <2>2, <3>1
  <2> QED BY <1>2, <2>1, <2>2
<1>11. Named'
  <2> SUFFICES ASSUME NEW i \in Records, i < position, owner[i] \in Ordered'
               PROVE  \/ \E n \in Linked' : nkey[n] = owner[i] /\ nval[n] = i
                      \/ \E q \in Clients :
                           pc'[q] \in EnterPcs /\ key[q] = owner[i] /\ index[q] = i
    BY <1>1 DEF Named
  <2>1. CASE \E n \in Linked : nkey[n] = owner[i] /\ nval[n] = i
    BY <1>2, <2>1
  <2>2. ASSUME NEW q \in Clients, pc[q] \in EnterPcs, key[q] = owner[i], index[q] = i
        PROVE  \/ \E n \in Linked' : nkey[n] = owner[i] /\ nval[n] = i
               \/ pc'[q] \in EnterPcs
    <3>1. CASE q = p BY <1>2, <1>3, <2>2, <3>1
    <3>2. CASE q # p BY <1>1, <2>2, <3>2
    <3> QED BY <3>1, <3>2
  <2> QED BY <2>1, <2>2 DEF Named
<1> QED BY <1>5, <1>6, <1>7, <1>8, <1>9, <1>10, <1>11

LEMMA FlushKeeps ==
  ASSUME TypeInv, TypeInv', MapInv, StoreInv, Linked' = Linked, Ordered' \subseteq Ordered,
         FlushStart \/ FlushExpired \/ FlushEnd \/ UNCHANGED vars
  PROVE  StoreInv'
<1>0. Service \in Procs /\ Service \notin Clients /\ Clients \subseteq Procs
  BY StoreAssumption DEF Clients
<1>1. CASE FlushStart
  <2>1. Others(Service) /\ UNCHANGED <<nkey, nval, position, owner>>
    BY <1>0, <1>1
       DEF FlushStart, Goes, WorksAt, Others, TypeInv, TypeOK, Local, map, pool
  <2> QED BY <1>0, <2>1, PlainKeeps
<1>2. CASE FlushExpired
  <2>1. PICK i \in at[Service] .. index[Service] - 1 : Delete(i) /\ WorksAt(Service, i + 1)
    BY <1>2 DEF FlushExpired
  <2>2. i \in Records
    BY <1>2, StoreAssumption DEF TypeInv, Local, FlushExpired, Records
  <2>3. Others(Service) /\ UNCHANGED map
    BY <1>0, <1>2, <2>1 DEF FlushExpired, WorksAt, Others, TypeInv, TypeOK, Local
  <2> QED BY <1>0, <2>1, <2>2, <2>3, DeleteKeeps
<1>3. CASE FlushEnd
  <2>1. Ends(Service) /\ UNCHANGED <<map, position, owner>>
    BY <1>3 DEF FlushEnd, pool
  <2> QED BY <1>0, <1>3, <2>1, EndKeeps
<1>4. CASE UNCHANGED vars
  <2>1. Others(Service) /\ UNCHANGED <<nkey, nval, position, owner>>
    BY <1>4 DEF vars, Others, map, local, pool
  <2> QED BY <1>0, <2>1, PlainKeeps
<1> QED BY <1>1, <1>2, <1>3, <1>4

LEMMA StoreInit == Init => StoreInv
<1> SUFFICES ASSUME Init PROVE StoreInv OBVIOUS
<1>1. \A p \in Clients : pc[p] = "idle" BY DEF Init, MapInit, Clients
<1>2. used = 0 /\ position = 0 BY DEF Init, MapInit
<1>3. Linked = {} BY <1>2 DEF Linked, Nodes
<1>4. \A i \in Records : ~(i < position) BY <1>2 DEF Records
<1>5. "idle" \notin Holding \cup Adding \cup Missing \cup {"clear", "rewrite"}
  BY DEF Holding, Adding, Missing
<1> QED BY <1>1, <1>3, <1>4, <1>5
        DEF StoreInv, RecordsOfKeys, HeldRight, NodesRight, ValuesRight,
            MissedAlone, OneNode, Named

LEMMA StoreStep == TypeInv /\ MapInv /\ StoreInv /\ [Next]_vars => StoreInv'
<1> SUFFICES ASSUME TypeInv, MapInv, StoreInv, [Next]_vars PROVE StoreInv' OBVIOUS
<1>1. TypeInv' /\ Ordered' \subseteq Ordered BY TypeStep, OrderedShrinks
<1>2. Quiet /\ FindsNode => Linked' = Linked BY <1>1, QuietKeeps
<1>3. ASSUME NEW p \in Clients,
             \/ \E c \in Calls[p] : Call(p, c[1], c[2])
             \/ LookFound(p) \/ LookMissing(p) \/ ReadValue(p)
      PROVE  StoreInv'
  BY <1>1, <1>2, <1>3, LookQuiet, LookKeeps
<1>4. ASSUME NEW p \in Clients,
             \/ GetRecord(p) \/ Overwrite(p) \/ TakeRecord(p) \/ TakeFull(p)
             \/ EnterFull(p) \/ SetMinutes(p) \/ Forget(p)
      PROVE  StoreInv'
  BY <1>1, <1>2, <1>4, PoolQuiet, PoolKeeps
<1>5. ASSUME NEW p \in Clients, Enter(p) PROVE StoreInv'
  <2>1. SetStep(p) /\ UNCHANGED pool BY <1>5 DEF Enter
  <2>2. CASE SetFound(p) \/ SetMissing(p)
    BY <1>1, <1>2, <2>1, <2>2, SetQuiet, SetKeeps
  <2>3. CASE ClearValue(p) \/ RewriteValue(p)
    BY <1>1, <1>2, <2>1, <2>3, SetQuiet, ValueKeeps
  <2>4. CASE NewNode(p) BY <1>1, <2>1, <2>4, NodeKeeps
  <2>5. CASE AddNext(p) BY <1>1, <2>1, <2>5, NextKeeps
  <2>6. CASE AddFirst(p) BY <1>1, <2>1, <2>6, FirstKeeps
  <2> QED BY <2>1, <2>2, <2>3, <2>4, <2>5, <2>6 DEF SetStep
<1>6. CASE FlushStart \/ FlushExpired \/ FlushEnd \/ UNCHANGED vars
  BY <1>1, <1>2, <1>6, FlushQuiet, FlushKeeps
<1> QED BY <1>3, <1>4, <1>5, <1>6 DEF Next

LEMMA AlwaysStoreInv == Spec => [](TypeInv /\ MapInv /\ StoreInv)
<1>1. Init => TypeInv /\ MapInv /\ StoreInv BY TypeInit, MapInit0, StoreInit
<1>2. TypeInv /\ MapInv /\ StoreInv /\ [Next]_vars => (TypeInv /\ MapInv /\ StoreInv)'
  BY TypeStep, MapStep, StoreStep
<1> QED BY <1>1, <1>2, PTL DEF Spec

\* For any processes, calls and sizes, the record that an operation has found
\* for a key in order was taken for that key (cache/dbstore.cc:53, 142, 198).
THEOREM CacheRightRecord == Spec => []RightRecord
<1>1. TypeInv /\ MapInv /\ StoreInv => RightRecord
  <2> SUFFICES ASSUME TypeInv, StoreInv, NEW p \in Clients,
                      pc[p] \in {"get", "put", "minutes", "forget"}, InOrder(key[p])
               PROVE  index[p] < position /\ owner[index[p]] = key[p]
    BY DEF RightRecord
  <2>1. key[p] \in Ordered BY DEF TypeInv, Local, Ordered
  <2> QED BY <2>1 DEF StoreInv, HeldRight, Holding
<1> QED BY <1>1, AlwaysStoreInv, PTL

\* For any processes, calls and sizes, no record of a key in order is lost: it
\* has one name, the key's only node or the put that took it
\* (cache/dbstore.cc:142; sys/memory/sharemap.cc:237, 325).
THEOREM CacheNamedOnce == Spec => []NamedOnce
<1>1. TypeInv /\ MapInv /\ StoreInv => NamedOnce
  <2> SUFFICES ASSUME TypeInv, MapInv, StoreInv, NEW i \in 0 .. position - 1,
                      InOrder(owner[i])
               PROVE  \/ /\ \E n \in Matches(owner[i]) :
                              Matches(owner[i]) = {n} /\ nval[n] = i
                         /\ Entering(owner[i]) = {}
                      \/ /\ Matches(owner[i]) = {}
                         /\ \E p \in Entering(owner[i]) :
                              Entering(owner[i]) = {p} /\ index[p] = i
    BY DEF NamedOnce
  <2> DEFINE k == owner[i]
  <2>1. i \in Records /\ i < position
    BY StoreAssumption DEF TypeInv, TypeOK, Records
  <2>2. k \in Ordered /\ k \in Keys
    BY <2>1 DEF StoreInv, RecordsOfKeys, Ordered
  <2>3. Matches(k) = {n \in Linked : nkey[n] = k}
    <3>1. \A n \in Matches(k) : n \in Linked /\ nkey[n] = k
      BY <2>2, MatchesLinked
    <3>2. ASSUME NEW n \in Linked, nkey[n] = k PROVE n \in Matches(k)
      <4>1. n \in Reach(next, cur[Hash[k]])
        BY <3>2, <2>2 DEF MapInv, ChainInv, Ordered, InOrder
      <4>2. n \in Chain(cur[Hash[k]]) BY <4>1, ChainReach
      <4> QED BY <3>2, <4>2 DEF Matches
    <3> QED BY <3>1, <3>2
  <2>4. \A q \in Entering(k) : /\ q \in Clients /\ pc[q] \in EnterPcs /\ key[q] = k
                               /\ pc[q] \in Missing
    BY DEF Entering, EnterPcs, Missing
  <2>5. CASE \E n \in Linked : nkey[n] = k /\ nval[n] = i
    <3>1. PICK n \in Linked : nkey[n] = k /\ nval[n] = i BY <2>5
    <3>2. Matches(k) = {n} BY <2>2, <2>3, <3>1 DEF StoreInv, OneNode
    <3>3. Entering(k) = {} BY <2>2, <2>4, <3>1 DEF StoreInv, MissedAlone
    <3> QED BY <3>1, <3>2, <3>3
  <2>6. CASE \E p \in Clients : pc[p] \in EnterPcs /\ key[p] = k /\ index[p] = i
    <3>1. PICK p \in Clients : pc[p] \in EnterPcs /\ key[p] = k /\ index[p] = i BY <2>6
    <3>2. p \in Entering(k) /\ pc[p] \in Missing
      BY <3>1 DEF Entering, EnterPcs, Missing
    <3>3. Matches(k) = {} BY <2>2, <2>3, <3>1, <3>2 DEF StoreInv, MissedAlone
    <3>4. Entering(k) = {p}
      BY <2>2, <2>4, <3>1, <3>2 DEF StoreInv, MissedAlone
    <3> QED BY <3>1, <3>2, <3>3, <3>4
  <2> QED BY <2>1, <2>2, <2>5, <2>6 DEF StoreInv, Named
<1> QED BY <1>1, AlwaysStoreInv, PTL

-----------------------------------------------------------------------------
(* The store is an index of the keys in order *)

\* What KeyIndex knows, read off records, processes and nodes.
Taken == {r \in Ordered \X Records : r[2] < position /\ owner[r[2]] = r[1]}
InHands ==
  {r \in Ordered \X Records :
     \E p \in Clients : pc[p] \in EnterPcs /\ key[p] = r[1] /\ index[p] = r[2]}
OfNodes ==
  {r \in Ordered \X Records : \E n \in Linked : nkey[n] = r[1] /\ nval[n] = r[2]}

StoreIs == TypeInv /\ MapInv /\ StoreInv

LEMMA MatchesAre ==
  ASSUME TypeInv, MapInv, NEW k \in Ordered
  PROVE  Matches(k) = {n \in Linked : nkey[n] = k}
<1>1. \A n \in Matches(k) : n \in Linked /\ nkey[n] = k
  BY MatchesLinked DEF Ordered
<1>2. ASSUME NEW n \in Linked, nkey[n] = k PROVE n \in Matches(k)
  <2>1. n \in Reach(next, cur[Hash[k]])
    BY <1>2 DEF MapInv, ChainInv, Ordered, InOrder
  <2>2. n \in Chain(cur[Hash[k]]) BY <2>1, ChainReach
  <2> QED BY <1>2, <2>2 DEF Matches
<1> QED BY <1>1, <1>2

LEMMA IndexIs == StoreIs => InUse = Taken /\ Pending = InHands /\ Given = OfNodes
<1> SUFFICES ASSUME StoreIs PROVE InUse = Taken /\ Pending = InHands /\ Given = OfNodes
  OBVIOUS
<1> USE DEF StoreIs
<1>1. InUse = Taken
  <2>1. position \in 0 .. PoolMax BY DEF TypeInv, TypeOK
  <2>2. \A i : i \in 0 .. position - 1 <=> i \in Records /\ i < position
    BY <2>1, StoreAssumption DEF Records
  <2>3. \A i \in 0 .. position - 1 : InOrder(owner[i]) <=> owner[i] \in Ordered
    BY <2>2 DEF StoreInv, RecordsOfKeys, Ordered
  <2>4. ASSUME NEW r \in InUse PROVE r \in Taken
    <3>1. PICK i \in 0 .. position - 1 : InOrder(owner[i]) /\ r = <<owner[i], i>>
      BY DEF InUse
    <3> QED BY <2>2, <2>3, <3>1 DEF Taken
  <2>5. ASSUME NEW r \in Taken PROVE r \in InUse
    <3>1. /\ r = <<owner[r[2]], r[2]>> /\ r[2] \in 0 .. position - 1
          /\ owner[r[2]] \in Ordered
      BY <2>2 DEF Taken
    <3> QED BY <2>3, <3>1 DEF InUse
  <2> QED BY <2>4, <2>5
<1>2. Pending = InHands
  <2>1. ASSUME NEW p \in Clients, pc[p] \in EnterPcs PROVE index[p] \in Records
    BY <2>1 DEF TypeInv, Local, EnterPcs, Indexed, Holding
  <2>2. \A k : Entering(k) = {p \in Clients : key[p] = k /\ pc[p] \in EnterPcs}
    BY DEF Entering, EnterPcs
  <2>3. ASSUME NEW r \in Pending PROVE r \in InHands
    <3>1. PICK k \in Ordered : r \in {<<k, index[p]>> : p \in Entering(k)}
      BY DEF Pending
    <3>2. PICK p \in Entering(k) : r = <<k, index[p]>> BY <3>1
    <3> QED BY <2>1, <2>2, <3>2 DEF InHands
  <2>4. ASSUME NEW r \in InHands PROVE r \in Pending
    <3>1. PICK p \in Clients : pc[p] \in EnterPcs /\ key[p] = r[1] /\ index[p] = r[2]
      BY DEF InHands
    <3>2. r = <<r[1], index[p]>> /\ r[1] \in Ordered /\ p \in Entering(r[1])
      BY <2>2, <3>1 DEF InHands
    <3>3. r \in {<<r[1], index[q]>> : q \in Entering(r[1])} BY <3>2
    <3> QED BY <3>2, <3>3 DEF Pending
  <2> QED BY <2>3, <2>4
<1>3. Given = OfNodes
  <2>1. ASSUME NEW n \in Linked, nkey[n] \in Ordered
        PROVE  nval[n] \in Records /\ ReadIndex(n) = nval[n]
    <3>1. nval[n] \in Records BY <2>1 DEF StoreInv, NodesRight
    <3> QED BY <3>1, StoreAssumption DEF ReadIndex, Blank, Records
  <2>2. \A k \in Ordered : Matches(k) = {n \in Linked : nkey[n] = k}
    BY MatchesAre
  <2>3. ASSUME NEW r \in Given PROVE r \in OfNodes
    <3>1. PICK k \in Ordered : r \in {<<k, ReadIndex(n)>> : n \in Matches(k)}
      BY DEF Given
    <3>2. PICK n \in Matches(k) : r = <<k, ReadIndex(n)>> BY <3>1
    <3> QED BY <2>1, <2>2, <3>2 DEF OfNodes
  <2>4. ASSUME NEW r \in OfNodes PROVE r \in Given
    <3>1. PICK n \in Linked : nkey[n] = r[1] /\ nval[n] = r[2] BY DEF OfNodes
    <3>2. r = <<r[1], ReadIndex(n)>> /\ r[1] \in Ordered /\ n \in Matches(r[1])
      BY <2>1, <2>2, <3>1 DEF OfNodes
    <3>3. r \in {<<r[1], ReadIndex(m)>> : m \in Matches(r[1])} BY <3>2
    <3> QED BY <3>2, <3>3 DEF Given
  <2> QED BY <2>3, <2>4
<1> QED BY <1>1, <1>2, <1>3

LEMMA IndexIsPrimed ==
  (StoreIs => InUse = Taken /\ Pending = InHands /\ Given = OfNodes)'
BY IndexIs, PTL

\* What p holds for a key in order is the same after the step.
HandsStay(p) ==
  \/ /\ pc[p] \in EnterPcs /\ pc'[p] \in EnterPcs
     /\ key'[p] = key[p] /\ index'[p] = index[p]
  \/ /\ pc[p] \in EnterPcs => key[p] \notin Ordered'
     /\ pc'[p] \in EnterPcs => key'[p] \notin Ordered'

\* A step that leaves records, hands and nodes of the keys in order.
LEMMA DropStep ==
  ASSUME StoreIs, StoreIs', Ordered' \subseteq Ordered, Linked' = Linked,
         NEW p, Others(p), p \in Clients => HandsStay(p),
         \A n \in Linked : nkey'[n] = nkey[n],
         \A n \in Linked : nkey[n] \in Ordered => nval'[n] = nval[n],
         \A i \in Records : i < position /\ owner[i] \in Ordered' =>
           i < position' /\ owner'[i] = owner[i],
         \A i \in Records : i < position' /\ owner'[i] \in Ordered' =>
           i < position /\ owner'[i] = owner[i]
  PROVE  Index!Drop
<1>1. Taken' = Index!Of(Ordered', Taken)
  <2>1. ASSUME NEW r \in Taken' PROVE r \in Index!Of(Ordered', Taken)
    BY DEF Taken, Index!Of
  <2>2. ASSUME NEW r \in Index!Of(Ordered', Taken) PROVE r \in Taken'
    BY DEF Taken, Index!Of
  <2> QED BY <2>1, <2>2
<1>2. InHands' = Index!Of(Ordered', InHands)
  <2>1. ASSUME NEW q \in Clients, NEW k \in Ordered', NEW i
        PROVE  /\ pc'[q] \in EnterPcs /\ key'[q] = k /\ index'[q] = i
               <=> pc[q] \in EnterPcs /\ key[q] = k /\ index[q] = i
    <3>1. CASE q = p BY <3>1 DEF HandsStay
    <3>2. CASE q # p BY <3>2 DEF Others
    <3> QED BY <3>1, <3>2
  <2>2. ASSUME NEW r \in InHands' PROVE r \in Index!Of(Ordered', InHands)
    BY <2>1 DEF InHands, Index!Of
  <2>3. ASSUME NEW r \in Index!Of(Ordered', InHands) PROVE r \in InHands'
    BY <2>1 DEF InHands, Index!Of
  <2> QED BY <2>2, <2>3
<1>3. OfNodes' = Index!Of(Ordered', OfNodes)
  <2>1. ASSUME NEW r \in OfNodes' PROVE r \in Index!Of(Ordered', OfNodes)
    BY DEF OfNodes, Index!Of
  <2>2. ASSUME NEW r \in Index!Of(Ordered', OfNodes) PROVE r \in OfNodes'
    BY DEF OfNodes, Index!Of
  <2> QED BY <2>1, <2>2
<1> QED BY <1>1, <1>2, <1>3, IndexIs, IndexIsPrimed DEF Index!Drop

\* A step that leaves all records, keys and values.
LEMMA PlainStep ==
  ASSUME StoreIs, StoreIs', Ordered' \subseteq Ordered, Linked' = Linked,
         NEW p, Others(p), p \in Clients => HandsStay(p),
         UNCHANGED <<nkey, nval, position, owner>>
  PROVE  Index!Drop
<1>1. nkey' = nkey /\ nval' = nval /\ position' = position /\ owner' = owner
  OBVIOUS
<1>2. /\ \A n \in Linked : nkey'[n] = nkey[n]
      /\ \A n \in Linked : nkey[n] \in Ordered => nval'[n] = nval[n]
      /\ \A i \in Records : i < position /\ owner[i] \in Ordered' =>
           i < position' /\ owner'[i] = owner[i]
      /\ \A i \in Records : i < position' /\ owner'[i] \in Ordered' =>
           i < position /\ owner'[i] = owner[i]
  BY <1>1
<1> QED BY <1>2, DropStep

LEMMA EndStep ==
  ASSUME StoreIs, StoreIs', Ordered' \subseteq Ordered, Linked' = Linked,
         NEW p \in Procs, Ends(p), p \in Clients => pc[p] \notin EnterPcs,
         UNCHANGED <<map, position, owner>>
  PROVE  Index!Drop
<1>1. pc'[p] = "idle" /\ Others(p) BY EndsIs DEF StoreIs
<1>2. HandsStay(p) \/ p \notin Clients BY <1>1 DEF HandsStay, EnterPcs
<1>3. UNCHANGED <<nkey, nval, position, owner>> BY DEF map
<1> QED BY <1>1, <1>2, <1>3, PlainStep

LEMMA LookStep ==
  ASSUME StoreIs, StoreIs', Ordered' \subseteq Ordered, Linked' = Linked,
         NEW p \in Clients,
         \/ \E c \in Calls[p] : Call(p, c[1], c[2])
         \/ LookFound(p) \/ LookMissing(p) \/ ReadValue(p)
  PROVE  Index!Drop
<1>0. p \in Procs /\ pc[p] \notin EnterPcs
  BY DEF Clients, Call, LookFound, LookMissing, ReadValue, EnterPcs
<1>1. CASE (\E c \in Calls[p] : Call(p, c[1], c[2])) \/ LookFound(p)
  <2>1. /\ pc'[p] \in {"look", "value"} /\ Others(p)
        /\ UNCHANGED <<nkey, nval, position, owner>>
    BY <1>0, <1>1 DEF StoreIs, Call, LookFound, Goes, WorksAt, Others, TypeInv, TypeOK,
                      Local, map, pool, Clients
  <2>2. HandsStay(p) BY <1>0, <2>1 DEF HandsStay, EnterPcs
  <2> QED BY <2>1, <2>2, PlainStep
<1>2. CASE LookMissing(p) /\ Ends(p)
  <2>1. UNCHANGED <<map, position, owner>> BY <1>2 DEF LookMissing, pool
  <2> QED BY <1>0, <1>2, <2>1, EndStep
<1>3. CASE LookMissing(p) /\ ~Ends(p)
  <2>1. Goes(p, "take") /\ UNCHANGED <<key, at, index, nkey, nval, position, owner>>
    BY <1>3 DEF LookMissing, map, pool
  <2>2. pc'[p] = "take" /\ Others(p)
    BY <1>0, <2>1 DEF StoreIs, Goes, Others, TypeInv, TypeOK, Clients
  <2>3. HandsStay(p) BY <1>0, <2>2 DEF HandsStay, EnterPcs
  <2> QED BY <2>1, <2>2, <2>3, PlainStep
<1>4. CASE ReadValue(p)
  <2>1. op[p] \in {"get", "put", "forget"}
    BY <1>4 DEF StoreIs, ReadValue, TypeInv, Local, AtNode
  <2>2. pc'[p] = op[p] /\ Others(p) /\ UNCHANGED <<nkey, nval, position, owner>>
    BY <1>0, <1>4 DEF StoreIs, ReadValue, Goes, Others, TypeInv, TypeOK, Local, map, pool,
                      Clients
  <2>3. HandsStay(p) BY <1>0, <2>1, <2>2 DEF HandsStay, EnterPcs
  <2> QED BY <2>2, <2>3, PlainStep
<1> QED BY <1>1, <1>2, <1>3, <1>4

LEMMA DeleteStep ==
  ASSUME StoreIs, StoreIs', Ordered' \subseteq Ordered, Linked' = Linked,
         NEW i \in Records, Delete(i), NEW p, Others(p), UNCHANGED map,
         p \in Clients => HandsStay(p)
  PROVE  Index!Drop
<1>1. /\ \A j \in Records : j < position /\ owner[j] \in Ordered' =>
           j < position' /\ owner'[j] = owner[j]
      /\ \A j \in Records : j < position' /\ owner'[j] \in Ordered' =>
           j < position /\ owner'[j] = owner[j]
  BY DeleteEffects DEF StoreIs, StoreInv
<1>2. nkey' = nkey /\ nval' = nval BY DEF map
<1> QED BY <1>1, <1>2, DropStep

\* A key that is put for the first time takes the record at the position; a
\* key out of order does so unseen.
LEMMA TakeStep ==
  ASSUME StoreIs, StoreIs', NEW p \in Clients, TakeRecord(p), Linked' = Linked
  PROVE  Index!Drop \/ \E k \in Keys, i \in Records : Index!Take(k, i)
<1> USE DEF StoreIs
<1>1. /\ pc[p] = "take" /\ key[p] \in Keys /\ p \in Procs
      /\ position \in Records /\ position' = position + 1
  BY StoreAssumption
     DEF TakeRecord, Takes, Room, TypeInv, TypeOK, Local, Clients, Records
<1>2. /\ pc'[p] = "set" /\ index'[p] = position /\ key' = key /\ Others(p)
      /\ nkey' = nkey /\ nval' = nval /\ Ordered' = Ordered
  BY <1>1 DEF TakeRecord, Goes, Others, TypeInv, TypeOK, Local, map, history, Clients,
              Ordered, InOrder
<1>3. \A i \in Records : owner'[i] = IF i = position THEN key[p] ELSE owner[i]
  BY <1>1 DEF TakeRecord, Takes, TypeInv, TypeOK
<1>4. \A i \in Records : i < position' <=> i < position \/ i = position
  BY <1>1 DEF Records
<1>5. \A i \in Records : i < position => i # position
  BY <1>1 DEF Records
<1>6. CASE key[p] \notin Ordered
  <2>1. HandsStay(p) BY <1>1, <1>2, <1>6 DEF HandsStay
  <2>2. /\ \A i \in Records : i < position /\ owner[i] \in Ordered' =>
             i < position' /\ owner'[i] = owner[i]
        /\ \A i \in Records : i < position' /\ owner'[i] \in Ordered' =>
             i < position /\ owner'[i] = owner[i]
    BY <1>2, <1>3, <1>4, <1>5, <1>6
  <2> QED BY <1>2, <2>1, <2>2, DropStep
<1>7. CASE key[p] \in Ordered
  <2> DEFINE k == key[p]
             r0 == <<k, position>>
  <2>1. /\ \A q \in Clients : pc[q] \in Missing /\ key[q] = k => q = p
        /\ \A n \in Linked : nkey[n] # k
    BY <1>1, <1>7 DEF StoreInv, MissedAlone, Missing
  <2>2. ASSUME NEW r \in Taken PROVE r[1] # k /\ r[2] # position
    <3>1. r[2] \in Records /\ r[2] < position /\ owner[r[2]] = r[1] /\ r[1] \in Ordered
      BY DEF Taken
    <3>2. \/ \E n \in Linked : nkey[n] = r[1] /\ nval[n] = r[2]
          \/ \E q \in Clients : pc[q] \in EnterPcs /\ key[q] = r[1] /\ index[q] = r[2]
      BY <3>1 DEF StoreInv, Named
    <3>3. \A q \in Clients : pc[q] \in EnterPcs => q # p /\ pc[q] \in Missing
      BY <1>1 DEF EnterPcs, Missing
    <3> QED BY <1>5, <2>1, <3>1, <3>2, <3>3
  <2>3. Taken' = Taken \cup {r0}
    <3>1. ASSUME NEW r \in Taken' PROVE r \in Taken \cup {r0}
      BY <1>2, <1>3, <1>4 DEF Taken
    <3>2. r0 \in Taken' BY <1>1, <1>2, <1>3, <1>4, <1>7 DEF Taken
    <3>3. ASSUME NEW r \in Taken PROVE r \in Taken'
      BY <1>2, <1>3, <1>4, <1>5 DEF Taken
    <3> QED BY <3>1, <3>2, <3>3
  <2>4. InHands' = InHands \cup {r0}
    <3>1. ASSUME NEW r \in InHands' PROVE r \in InHands \cup {r0}
      BY <1>2 DEF InHands, Others
    <3>2. r0 \in InHands' BY <1>1, <1>2, <1>7 DEF InHands, EnterPcs
    <3>3. ASSUME NEW r \in InHands PROVE r \in InHands'
      <4>1. PICK q \in Clients : pc[q] \in EnterPcs /\ key[q] = r[1] /\ index[q] = r[2]
        BY DEF InHands
      <4>2. q # p BY <1>1, <4>1 DEF EnterPcs
      <4> QED BY <1>2, <4>1, <4>2 DEF InHands, Others
    <3> QED BY <3>1, <3>2, <3>3
  <2>5. OfNodes' = OfNodes BY <1>2 DEF OfNodes
  <2>6. Index!Take(k, position)
    BY <1>2, <1>7, <2>2, <2>3, <2>4, <2>5, IndexIs, IndexIsPrimed DEF Index!Take
  <2> QED BY <1>1, <2>6
<1> QED BY <1>6, <1>7

LEMMA PoolStep ==
  ASSUME StoreIs, StoreIs', Ordered' \subseteq Ordered, Linked' = Linked,
         NEW p \in Clients,
         \/ GetRecord(p) \/ Overwrite(p) \/ TakeRecord(p) \/ TakeFull(p)
         \/ EnterFull(p) \/ SetMinutes(p) \/ Forget(p)
  PROVE  Index!Drop \/ \E k \in Keys, i \in Records : Index!Take(k, i)
<1>0. p \in Procs BY DEF Clients
<1>1. CASE GetRecord(p) \/ Overwrite(p) \/ TakeFull(p) \/ SetMinutes(p)
  <2>1. Ends(p) /\ UNCHANGED <<map, position, owner>> /\ pc[p] \notin EnterPcs
    BY <1>1 DEF GetRecord, Overwrite, TakeFull, SetMinutes, EnterPcs, pool
  <2> QED BY <1>0, <2>1, EndStep
<1>2. CASE TakeRecord(p) BY <1>2, TakeStep
<1>3. CASE EnterFull(p)
  <2>1. /\ pc'[p] = "minutes" /\ Others(p) /\ key' = key
        /\ UNCHANGED <<nkey, nval, position, owner>> /\ key[p] \in unnamed'
    BY <1>0, <1>3 DEF StoreIs, EnterFull, Goes, Others, TypeInv, TypeOK, Clients, map, pool
  <2>2. HandsStay(p) BY <2>1 DEF HandsStay, Ordered, InOrder
  <2> QED BY <2>1, <2>2, PlainStep
<1>4. CASE Forget(p)
  <2>1. /\ index[p] \in Records /\ Delete(index[p]) /\ UNCHANGED map
        /\ Ends(p) /\ pc[p] \notin EnterPcs
    BY <1>4 DEF StoreIs, Forget, TypeInv, Local, Indexed, Holding, EnterPcs
  <2>2. pc'[p] = "idle" /\ Others(p) BY <1>0, <2>1, EndsIs DEF StoreIs
  <2>3. HandsStay(p) BY <2>1, <2>2 DEF HandsStay, EnterPcs
  <2> QED BY <2>1, <2>2, <2>3, DeleteStep
<1> QED BY <1>1, <1>2, <1>3, <1>4

\* The steps of set that put no node in a chain.
LEMMA SettingStep ==
  ASSUME StoreIs, StoreIs', Ordered' \subseteq Ordered, Linked' = Linked,
         NEW p \in Clients, UNCHANGED pool,
         \/ SetFound(p) \/ ClearValue(p) \/ RewriteValue(p)
         \/ SetMissing(p) \/ NewNode(p) \/ AddNext(p)
  PROVE  Index!Drop
<1> USE DEF StoreIs
<1>0. p \in Procs /\ key' = key /\ index' = index /\ position' = position /\ owner' = owner
  BY DEF Clients, SetFound, ClearValue, RewriteValue, SetMissing, NewNode, AddNext, pool
<1>1. Others(p)
  <2>1. CASE SetFound(p) \/ NewNode(p)
    BY <1>0, <2>1 DEF SetFound, NewNode, Goes, WorksAt, Others, TypeInv, TypeOK, Local, Clients
  <2>2. CASE ClearValue(p) \/ RewriteValue(p) \/ SetMissing(p) \/ AddNext(p)
    BY <1>0, <2>2 DEF ClearValue, RewriteValue, SetMissing, AddNext, Goes, Others,
                      TypeInv, TypeOK, Clients
  <2> QED BY <2>1, <2>2
<1>2. /\ \A i \in Records : i < position /\ owner[i] \in Ordered' =>
           i < position' /\ owner'[i] = owner[i]
      /\ \A i \in Records : i < position' /\ owner'[i] \in Ordered' =>
           i < position /\ owner'[i] = owner[i]
  BY <1>0
<1>3. CASE SetFound(p)
  <2>1. key[p] \notin Ordered' BY <1>3, FoundMet
  <2>2. HandsStay(p) BY <1>0, <2>1 DEF HandsStay
  <2>3. UNCHANGED <<nkey, nval, position, owner>> BY <1>0, <1>3 DEF SetFound, map
  <2> QED BY <1>1, <2>2, <2>3, PlainStep
<1>4. CASE ClearValue(p) \/ RewriteValue(p)
  <2>1. /\ pc[p] \in {"clear", "rewrite"} /\ nkey' = nkey
        /\ \A n \in Nodes : n # at[p] => nval'[n] = nval[n]
    BY <1>4 DEF ClearValue, RewriteValue, TypeInv, TypeOK
  <2>2. at[p] \in Linked /\ nkey[at[p]] = key[p]
    BY <2>1 DEF MapInv, NodeInv, AtNode
  <2>3. key[p] \notin Ordered BY <2>1 DEF StoreInv, ValuesRight
  <2>4. \A n \in Linked : nkey[n] \in Ordered => nval'[n] = nval[n]
    BY <2>1, <2>2, <2>3 DEF Linked
  <2>5. HandsStay(p) BY <1>0, <2>3 DEF HandsStay
  <2>6. \A n \in Linked : nkey'[n] = nkey[n] BY <2>1
  <2> QED BY <1>1, <1>2, <2>4, <2>5, <2>6, DropStep
<1>5. CASE SetMissing(p) \/ AddNext(p)
  <2>1. pc[p] \in EnterPcs /\ pc'[p] \in EnterPcs
    BY <1>0, <1>5 DEF SetMissing, AddNext, Goes, TypeInv, TypeOK, EnterPcs
  <2>2. HandsStay(p) BY <1>0, <2>1 DEF HandsStay
  <2>3. UNCHANGED <<nkey, nval, position, owner>>
    BY <1>0, <1>5 DEF SetMissing, AddNext, map
  <2> QED BY <1>1, <2>2, <2>3, PlainStep
<1>6. CASE NewNode(p)
  <2>1. pc[p] = "node" /\ pc'[p] = "next" /\ used \in Nat
    BY <1>0, <1>6 DEF NewNode, Goes, TypeInv, TypeOK
  <2>2. HandsStay(p) BY <1>0, <2>1 DEF HandsStay, EnterPcs
  <2>3. \A n \in Linked : n \in Nodes /\ n # used
    BY <2>1 DEF Linked, Nodes
  <2>4. \A n \in Linked : nkey'[n] = nkey[n] /\ nval'[n] = nval[n]
    BY <1>6, <2>3 DEF NewNode, TypeInv, TypeOK
  <2> QED BY <1>1, <1>2, <2>2, <2>4, DropStep
<1> QED BY <1>3, <1>4, <1>5, <1>6

\* The put that took a key's record enters just that record.
LEMMA FirstStep ==
  ASSUME StoreIs, StoreIs', NEW p \in Clients, AddFirst(p), UNCHANGED <<pool, history>>
  PROVE  Index!Drop \/ \E k \in Keys, i \in Records : Index!Enter(k, i)
<1> USE DEF StoreIs
<1> DEFINE k == key[p]
           r0 == <<k, index[p]>>
<1>1. /\ p \in Procs /\ pc[p] = "link" /\ pc'[p] = "minutes"
      /\ key' = key /\ index' = index /\ at' = at
      /\ nkey' = nkey /\ nval' = nval /\ position' = position /\ owner' = owner
      /\ \A q \in Clients : q # p => pc'[q] = pc[q]
  BY DEF Clients, AddFirst, Goes, TypeInv, TypeOK, pool
<1>2. Ordered' = Ordered
  BY DEF AddFirst, pool, history, Ordered, InOrder
<1>3. Linked' = Linked \cup {at[p]} BY AddFirstKeeps
<1>4. nkey[at[p]] = k /\ nval[at[p]] = index[p] /\ index[p] \in Records /\ k \in Keys
  BY <1>1 DEF MapInv, NodeInv, StoreInv, ValuesRight, Adding, TypeInv, Local, Indexed, Holding
<1>5. Taken' = Taken BY <1>1, <1>2 DEF Taken
<1>6. ASSUME NEW r, NEW q \in Clients, q # p
      PROVE  /\ pc'[q] \in EnterPcs /\ key'[q] = r[1] /\ index'[q] = r[2]
             <=> pc[q] \in EnterPcs /\ key[q] = r[1] /\ index[q] = r[2]
  BY <1>1, <1>6
<1>7. pc[p] \in EnterPcs /\ pc'[p] \notin EnterPcs BY <1>1 DEF EnterPcs
<1>8. CASE k \notin Ordered
  <2>1. InHands' = InHands
    <3>1. ASSUME NEW r \in InHands PROVE r \in InHands'
      BY <1>2, <1>6, <1>7, <1>8 DEF InHands
    <3>2. ASSUME NEW r \in InHands' PROVE r \in InHands
      BY <1>2, <1>6, <1>7 DEF InHands
    <3> QED BY <3>1, <3>2
  <2>2. OfNodes' = OfNodes
    <3>1. ASSUME NEW r \in OfNodes' PROVE r \in OfNodes
      BY <1>1, <1>2, <1>3, <1>4, <1>8 DEF OfNodes
    <3>2. ASSUME NEW r \in OfNodes PROVE r \in OfNodes'
      BY <1>1, <1>2, <1>3 DEF OfNodes
    <3> QED BY <3>1, <3>2
  <2>3. /\ Taken = Index!Of(Ordered', Taken) /\ InHands = Index!Of(Ordered', InHands)
        /\ OfNodes = Index!Of(Ordered', OfNodes)
    BY <1>2 DEF Index!Of, Taken, InHands, OfNodes
  <2> QED BY <1>2, <1>5, <2>1, <2>2, <2>3, IndexIs, IndexIsPrimed DEF Index!Drop
<1>9. CASE k \in Ordered
  <2>1. \A q \in Clients : pc[q] \in EnterPcs /\ key[q] = k => q = p
    BY <1>1, <1>9 DEF StoreInv, MissedAlone, Missing, EnterPcs
  <2>2. r0 \in InHands BY <1>4, <1>7, <1>9 DEF InHands
  <2>3. InHands' = InHands \ {r0}
    <3>1. ASSUME NEW r \in InHands' PROVE r \in InHands /\ r # r0
      <4>1. PICK q \in Clients : pc'[q] \in EnterPcs /\ key'[q] = r[1] /\ index'[q] = r[2]
        BY DEF InHands
      <4>2. q # p BY <1>7, <4>1
      <4>3. pc[q] \in EnterPcs /\ key[q] = r[1] /\ index[q] = r[2] BY <1>1, <4>1, <4>2
      <4>4. r[1] # k BY <2>1, <4>2, <4>3
      <4> QED BY <1>2, <4>3, <4>4 DEF InHands
    <3>2. ASSUME NEW r \in InHands, r # r0 PROVE r \in InHands'
      <4>1. PICK q \in Clients : pc[q] \in EnterPcs /\ key[q] = r[1] /\ index[q] = r[2]
        BY DEF InHands
      <4>2. q # p BY <3>2, <4>1 DEF InHands
      <4> QED BY <1>1, <1>2, <4>1, <4>2 DEF InHands
    <3> QED BY <3>1, <3>2
  <2>4. OfNodes' = OfNodes \cup {r0}
    <3>1. ASSUME NEW r \in OfNodes' PROVE r \in OfNodes \cup {r0}
      BY <1>1, <1>2, <1>3, <1>4 DEF OfNodes
    <3>2. ASSUME NEW r \in OfNodes PROVE r \in OfNodes'
      BY <1>1, <1>2, <1>3 DEF OfNodes
    <3>3. r0 \in OfNodes' BY <1>1, <1>2, <1>3, <1>4, <1>9 DEF OfNodes
    <3> QED BY <3>1, <3>2, <3>3
  <2>5. Index!Enter(k, index[p])
    BY <1>2, <1>5, <2>2, <2>3, <2>4, IndexIs, IndexIsPrimed DEF Index!Enter
  <2> QED BY <1>4, <2>5
<1> QED BY <1>8, <1>9

LEMMA FlushStep ==
  ASSUME StoreIs, StoreIs', Ordered' \subseteq Ordered, Linked' = Linked,
         FlushStart \/ FlushExpired \/ FlushEnd
  PROVE  Index!Drop
<1> USE DEF StoreIs
<1>0. Service \in Procs /\ Service \notin Clients /\ Clients \subseteq Procs
  BY StoreAssumption DEF Clients
<1>1. CASE FlushStart
  <2>1. Others(Service) /\ UNCHANGED <<nkey, nval, position, owner>>
    BY <1>0, <1>1
       DEF FlushStart, Goes, WorksAt, Others, TypeInv, TypeOK, Local, map, pool
  <2> QED BY <1>0, <2>1, PlainStep
<1>2. CASE FlushExpired
  <2>1. PICK i \in at[Service] .. index[Service] - 1 : Delete(i) /\ WorksAt(Service, i + 1)
    BY <1>2 DEF FlushExpired
  <2>2. i \in Records
    BY <1>2, StoreAssumption DEF TypeInv, Local, FlushExpired, Records
  <2>3. Others(Service) /\ UNCHANGED map
    BY <1>0, <1>2, <2>1 DEF FlushExpired, WorksAt, Others, TypeInv, TypeOK, Local
  <2> QED BY <1>0, <2>1, <2>2, <2>3, DeleteStep
<1>3. CASE FlushEnd
  <2>1. Ends(Service) /\ UNCHANGED <<map, position, owner>>
    BY <1>3 DEF FlushEnd, pool
  <2> QED BY <1>0, <1>3, <2>1, EndStep
<1> QED BY <1>1, <1>2, <1>3

LEMMA IndexInit == Init => Index!Init
<1> SUFFICES ASSUME Init PROVE Index!Init OBVIOUS
<1>1. Ordered = Keys BY DEF Init, MapInit, Ordered, InOrder
<1>2. \A k : Entering(k) = {} BY DEF Init, MapInit, Entering, Clients
<1>3. StoreIs BY TypeInit, MapInit0, StoreInit DEF StoreIs
<1>4. Taken = {} BY DEF Init, Taken, Records
<1>5. InHands = {} BY DEF Init, MapInit, InHands, EnterPcs, Clients
<1>6. OfNodes = {} BY DEF Init, MapInit, OfNodes, Linked, Nodes
<1> QED BY <1>1, <1>3, <1>4, <1>5, <1>6, IndexIs DEF Index!Init

LEMMA IndexStep ==
  StoreIs /\ StoreIs' /\ [Next]_vars => [Index!Next]_<<Ordered, InUse, Pending, Given>>
<1> SUFFICES ASSUME StoreIs, StoreIs', [Next]_vars
             PROVE  [Index!Next]_<<Ordered, InUse, Pending, Given>>
  OBVIOUS
<1> USE DEF Index!Next
<1>1. Ordered' \subseteq Ordered /\ TypeInv' BY OrderedShrinks DEF StoreIs
<1>2. Quiet /\ FindsNode => Linked' = Linked BY <1>1, QuietKeeps DEF StoreIs
<1>3. ASSUME NEW p \in Clients,
             \/ \E c \in Calls[p] : Call(p, c[1], c[2])
             \/ LookFound(p) \/ LookMissing(p) \/ ReadValue(p)
      PROVE  Index!Next
  BY <1>1, <1>2, <1>3, LookQuiet, LookStep DEF StoreIs
<1>4. ASSUME NEW p \in Clients,
             \/ GetRecord(p) \/ Overwrite(p) \/ TakeRecord(p) \/ TakeFull(p)
             \/ EnterFull(p) \/ SetMinutes(p) \/ Forget(p)
      PROVE  Index!Next
  BY <1>1, <1>2, <1>4, PoolQuiet, PoolStep DEF StoreIs
<1>5. ASSUME NEW p \in Clients, Enter(p) PROVE Index!Next
  <2>1. SetStep(p) /\ UNCHANGED <<pool, history>> BY <1>5 DEF Enter
  <2>2. CASE SetFound(p) \/ SetMissing(p) \/ ClearValue(p) \/ RewriteValue(p)
    BY <1>1, <1>2, <2>1, <2>2, SetQuiet, SettingStep DEF StoreIs
  <2>3. CASE NewNode(p) \/ AddNext(p)
    BY <1>1, <2>1, <2>3, NewNodeKeeps, AddNextKeeps, SettingStep DEF StoreIs
  <2>4. CASE AddFirst(p) BY <2>1, <2>4, FirstStep
  <2> QED BY <2>1, <2>2, <2>3, <2>4 DEF SetStep
<1>6. CASE FlushStart \/ FlushExpired \/ FlushEnd
  BY <1>1, <1>2, <1>6, FlushQuiet, FlushStep DEF StoreIs
<1>7. CASE UNCHANGED vars
  <2>1. UNCHANGED <<Ordered, InUse, Pending, Given>>
    BY <1>7 DEF vars, map, local, pool, history, Ordered, InOrder, InUse, Pending, Given,
                Entering, Matches, Chain, ReadIndex
  <2> QED BY <2>1
<1> QED BY <1>3, <1>4, <1>5, <1>6, <1>7 DEF Next

\* For any processes, calls and sizes, the store is an index of the keys in
\* order: each takes one record that no other has, a put enters just that
\* record, and the map gives it unchanged from then on (cache/dbstore.cc:53,
\* 142, 198; sys/memory/sharemap.cc:237, 325).
THEOREM CacheImplementsIndex == Spec => ImplementsIndex
<1>1. Spec => []StoreIs BY AlwaysStoreInv DEF StoreIs
<1> QED BY <1>1, IndexInit, IndexStep, PTL DEF Spec, ImplementsIndex, Index!Spec
=============================================================================
