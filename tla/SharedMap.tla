------------------------------ MODULE SharedMap ------------------------------
(***************************************************************************)
(* What the cache manifest promises its users: one map from cache keys to  *)
(* entries that changes one edit at a time and by nothing but that edit.   *)
(* Manifest.tla is the code that keeps this map in a file several          *)
(* processes share.                                                        *)
(***************************************************************************)
EXTENDS CacheMap

VARIABLE store      \* store[k] is the entry of k, or Missing

Init == store = Empty

Commit(e) == store' = Apply(store, e)

Next == \E e \in Edit : Commit(e)

Spec == Init /\ [][Next]_store
=============================================================================
