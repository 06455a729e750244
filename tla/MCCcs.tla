------------------------------- MODULE MCCcs -------------------------------
(* CcsController on small instances.                                       *)
EXTENDS CcsController, TLC

CONSTANTS d1, d2, n1, n2

Creates == [op : {"create"}, pv : Pv, disk : {NoDisk}, node : {NoNode}]
Deletes == [op : {"delete"}, pv : {NoPv}, disk : Disk, node : {NoNode}]
Attaches == [op : {"publish", "unpublish"}, pv : {NoPv}, disk : Disk, node : Node]

Provisioning == Creates \union Deletes

(* d1 goes from node to node, d2 only to n1; d1 may be deleted meanwhile.  *)
Moves == {r \in Attaches : r.disk = d1 \/ (r.op = "publish" /\ r.node = n1)}
         \union {r \in Deletes : r.disk = d1}

Symmetry == Permutations(Proc)
VolumeSymmetry == Symmetry \union Permutations(Pv) \union Permutations(Disk)
=============================================================================
