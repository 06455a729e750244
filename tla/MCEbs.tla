------------------------------- MODULE MCEbs -------------------------------
(* EbsController on small instances.                                       *)
EXTENDS EbsController, TLC

CONSTANTS d1, d2, n1, n2

Volumes == [op : {"create"}, pv : Pv, disk : {NoDisk}, node : {NoNode}]
Deletes == [op : {"delete"}, pv : {NoPv}, disk : Disk, node : {NoNode}]
Attaches == [op : {"publish", "unpublish"}, pv : {NoPv}, disk : Disk, node : Node]

Provisioning == Volumes \union Deletes
AllRequests == Volumes \union Deletes \union Attaches

(* d1 moves from n1 to n2, d2 goes to n1.                                  *)
Moves == {r \in Attaches : \/ r.disk = d1 /\ (r.op = "unpublish" => r.node = n1)
                           \/ r.disk = d2 /\ r.op = "publish" /\ r.node = n1}

Symmetry == Permutations(Proc)
=============================================================================
