---------------------------- MODULE VolumeLocks ----------------------------
(* utils.VolumeLocks: a set of the ids, volume names as well as disk ids,  *)
(* that some request works on.  Each method runs under the set's mutex.    *)

VARIABLE locks

LocksInit == locks = {}
TryAcquire(id) == id \notin locks /\ locks' = locks \union {id}
Release(id) == locks' = locks \ {id}
=============================================================================
