------------------------------ MODULE MCNodes ------------------------------
(* Nodes on small instances.                                               *)
EXTENDS Nodes, TLC

CONSTANTS d1

OneDisk == [t \in Target |-> d1]
(* What may overlap: with the drivers that keep no marks, anything; with   *)
(* the three that keep the same ones, not the same calls.                  *)
Overlaps == [d \in Drivers |-> CASE d \in {"ccs", "oss", "nas"} -> Calls
                                 [] d = "ebs" -> {"stage", "unstage"}
                                 [] d = "eks" -> {"publish", "unpublish"}
                                 [] d = "cds" -> {"unstage"}]
Symmetry == Permutations(Proc) \union Permutations(Target)
=============================================================================
