------------------------------ MODULE ShareMap ------------------------------
(***************************************************************************)
(* The hash map in shared memory (sys/memory/sharemap.cc), as the cache    *)
(* uses it: several processes look keys up and add them, none removes one. *)
(* Nodes are taken from a pool; a bucket names the first node of its       *)
(* chain, each node the next.  The pool is locked for a moment, each node  *)
(* has a lock of its own, a bucket has none.  A node that is in a chain    *)
(* never changes but for its value, so going along a chain is one step.    *)
(*                                                                         *)
(* A value is an index in decimal digits (one digit here): it is cleared   *)
(* before it is written again, and an empty string reads as 0.             *)
(*                                                                         *)
(* Not modelled: Map::remove, which nothing in the repository calls, and   *)
(* prev, which nothing else reads.                                         *)
(***************************************************************************)
EXTENDS Integers, FiniteSets

CONSTANTS
  Procs,    \* the processes that have attached the memory
  Keys,
  Buckets,
  Hash,     \* the bucket of each key
  MapMax    \* how many nodes the map has

NoKey == "none"

ASSUME MapAssumption ==
  /\ IsFiniteSet(Keys) /\ Hash \in [Keys -> Buckets] /\ MapMax \in Nat \ {0}
  /\ NoKey \notin Keys

VARIABLES
  used,            \* poolposition of the map's pool
  nkey, nval,      \* the key and value written in each node
  next,            \* the next node of its chain
  cur,             \* the first node of each bucket
  pc, key,         \* where each process is, and the key of its call
  at,              \* the node it works with
  index,           \* the index it has read or will write
  crossed          \* buckets two processes have added to at the same time

map == <<used, nkey, nval, next, cur, crossed>>
local == <<pc, key, at, index>>

Nodes == 0 .. MapMax - 1
None == -1          \* INDEX_INVALID
Blank == -1         \* a value that has been cleared

MapInit ==
  /\ used = 0 /\ nkey = [n \in Nodes |-> NoKey] /\ nval = [n \in Nodes |-> Blank]
  /\ next = [n \in Nodes |-> None] /\ cur = [b \in Buckets |-> None]
  /\ pc = [p \in Procs |-> "idle"] /\ key = [p \in Procs |-> NoKey]
  /\ at = [p \in Procs |-> None] /\ index = [p \in Procs |-> None]
  /\ crossed = {}

Goes(p, to) == pc' = [pc EXCEPT ![p] = to]
WorksAt(p, n) == at' = [at EXCEPT ![p] = n]
Returns(p) ==
  /\ Goes(p, "idle") /\ WorksAt(p, None)
  /\ key' = [key EXCEPT ![p] = NoKey] /\ index' = [index EXCEPT ![p] = None]

\* The nodes of the chain that begins with m: the smallest set that has m and
\* with every node the next.
Chain(m) ==
  {n \in Nodes : \A S \in SUBSET Nodes :
     m \in S \cup {None} /\ (\A o \in S : next[o] \in S \cup {None}) => n \in S}

\* getref: the first node with the key, if there is one.
Matches(k) == {n \in Chain(cur[Hash[k]]) : nkey[n] = k}
Found(k, n) ==
  /\ n \in Matches(k)
  /\ \A o \in Matches(k) \ {n} : n \notin Chain(o)

\* What an index read from a node's value becomes.
ReadIndex(n) == IF nval[n] = Blank THEN 0 ELSE nval[n]

-----------------------------------------------------------------------------
(* set, for a key that has been looked up once more *)

SetFound(p) ==
  /\ pc[p] = "set"
  /\ \E n \in Nodes : Found(key[p], n) /\ WorksAt(p, n)
  /\ Goes(p, "clear")
  /\ UNCHANGED <<map, key, index>>

\* Under the node's lock the value is cleared and written.
ClearValue(p) ==
  /\ pc[p] = "clear"
  /\ \A q \in Procs : ~(pc[q] = "rewrite" /\ at[q] = at[p])
  /\ nval' = [nval EXCEPT ![at[p]] = Blank]
  /\ Goes(p, "rewrite")
  /\ UNCHANGED <<used, nkey, next, cur, crossed, key, at, index>>

RewriteValue(p) ==
  /\ pc[p] = "rewrite"
  /\ nval' = [nval EXCEPT ![at[p]] = index[p]]
  /\ Goes(p, "minutes")
  /\ UNCHANGED <<used, nkey, next, cur, crossed, key, at, index>>

SetMissing(p) ==
  /\ pc[p] = "set" /\ Matches(key[p]) = {} /\ Goes(p, "node")
  /\ UNCHANGED <<map, key, at, index>>

\* newnode: a node of the pool, with key and value; nobody else can see it yet.
NewNode(p) ==
  /\ pc[p] = "node" /\ used < MapMax
  /\ WorksAt(p, used) /\ used' = used + 1
  /\ nkey' = [nkey EXCEPT ![used] = key[p]]
  /\ nval' = [nval EXCEPT ![used] = index[p]]
  /\ Goes(p, "next")
  /\ UNCHANGED <<next, cur, crossed, key, index>>

Bucket(p) == Hash[key[p]]

\* addnode: it becomes the first of its chain.
AddNext(p) ==
  /\ pc[p] = "next"
  /\ next' = [next EXCEPT ![at[p]] = cur[Bucket(p)]]
  /\ crossed' = crossed \cup
       {b \in {Bucket(p)} : \E q \in Procs : pc[q] = "link" /\ Bucket(q) = b}
  /\ Goes(p, "link")
  /\ UNCHANGED <<used, nkey, nval, cur, key, at, index>>

\* Mutant: the bucket is set only if it was empty.
AddFirstOnly(p) ==
  /\ pc[p] = "link"
  /\ cur' = [cur EXCEPT ![Bucket(p)] = IF @ = None THEN at[p] ELSE @]
  /\ Goes(p, "minutes")
  /\ UNCHANGED <<used, nkey, nval, next, crossed, key, at, index>>

AddFirst(p) ==
  /\ pc[p] = "link"
  /\ cur' = [cur EXCEPT ![Bucket(p)] = at[p]]
  /\ Goes(p, "minutes")
  /\ UNCHANGED <<used, nkey, nval, next, crossed, key, at, index>>

SetStep(p) ==
  \/ SetFound(p) \/ ClearValue(p) \/ RewriteValue(p)
  \/ SetMissing(p) \/ NewNode(p) \/ AddNext(p) \/ AddFirst(p)
=============================================================================
