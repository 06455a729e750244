------------------------------- MODULE MCEks -------------------------------
(* EksController on small instances.                                       *)
EXTENDS EksController, TLC

CONSTANTS d1, d2, d3, n1, n2

Volumes == [op : {"create"}, pv : Pv, disk : {NoDisk}, node : {NoNode}]
Deletes == [op : {"delete"}, pv : {NoPv}, disk : Disk, node : {NoNode}]

(* d1 moves from n1 to n2 and back, a disk is made and deleted.            *)
Moves == [op : {"publish"}, pv : {NoPv}, disk : {d1}, node : {n1, n2}]
         \union [op : {"unpublish"}, pv : {NoPv}, disk : {d1}, node : {n1}]
AllRequests == Volumes \union Deletes \union Moves

(* d2 and d3 are named by no request of their own.                         *)
Symmetry == Permutations(Proc) \union Permutations({d2, d3})
=============================================================================
