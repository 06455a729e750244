------------------------------- MODULE MCDisk -------------------------------
(* DiskController on small instances.                                      *)
EXTENDS DiskController, TLC

CONSTANTS d1, d2, n1, n2

Volumes == [op : {"create"}, pv : Pv, disk : {NoDisk}, node : {NoNode}]
Deletes == [op : {"delete"}, pv : {NoPv}, disk : {d1}, node : {NoNode}]

(* The disk of the name moves from n1 to n2 and back.                      *)
Moves == [op : {"publish"}, pv : {NoPv}, disk : {d1}, node : {n1, n2}]
         \union [op : {"unpublish"}, pv : {NoPv}, disk : {d1}, node : {n1}]
AllRequests == Volumes \union Deletes \union Moves

Symmetry == Permutations(Proc)
=============================================================================
