---------------------------- MODULE MCCacheStore ----------------------------
(* Small instances of CacheStore: two processes that use the cache, the      *)
(* service, and keys that share a bucket.                                    *)
EXTENDS CacheStore

OneBucket == [k \in Keys |-> 0]

CallsOfBoth ==
  [p \in {"one", "two"} |->
     IF p = "one" THEN {<<"put", "a">>, <<"put", "b">>, <<"get", "c">>}
     ELSE {<<"put", "b">>, <<"put", "c">>, <<"forget", "b">>}]

\* What happens when no key is in order any more is not explored.
SomeInOrder == \E k \in Keys : InOrder(k)
=============================================================================
