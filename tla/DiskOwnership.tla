---------------------------- MODULE DiskOwnership ----------------------------
(***************************************************************************)
(* What the attaching half of a block-storage controller promises, however *)
(* it keeps its locks: a disk has one holder at a time, and it moves only  *)
(* while it is held, or because of a task that its holder left behind.     *)
(* A restarted controller holds nothing and may leave a task on any disk   *)
(* that was held.                                                          *)
(***************************************************************************)
CONSTANTS Proc, Disk, Node, NoProc, NoNode

VARIABLES holder,   \* the request that works on each disk
          place,    \* where each disk is attached
          stray     \* disks that run a task nobody waits for

vars == <<holder, place, stray>>

Init ==
    /\ holder = [d \in Disk |-> NoProc]
    /\ place = [d \in Disk |-> NoNode]
    /\ stray = {}

Held(d) == holder[d] # NoProc

Take(p, d) ==
    /\ ~ Held(d)
    /\ holder' = [holder EXCEPT ![d] = p]
    /\ UNCHANGED <<place, stray>>

Give(d) ==
    /\ Held(d)
    /\ holder' = [holder EXCEPT ![d] = NoProc]
    /\ UNCHANGED <<place, stray>>

(* The holder stops waiting for its task, or never learns of it.           *)
Leave(d) ==
    /\ Held(d)
    /\ stray' = stray \union {d}
    /\ UNCHANGED <<holder, place>>

Move(d) ==
    /\ Held(d) \/ d \in stray
    /\ \E n \in Node \union {NoNode} : place' = [place EXCEPT ![d] = n]
    /\ stray' = stray \ {d}
    /\ UNCHANGED holder

Restart ==
    /\ holder' = [d \in Disk |-> NoProc]
    /\ \E left \in SUBSET {d \in Disk : Held(d)} : stray' = stray \union left
    /\ UNCHANGED place

Next ==
    \/ \E d \in Disk : Give(d) \/ Leave(d) \/ Move(d) \/ (\E p \in Proc : Take(p, d))
    \/ Restart

Spec == Init /\ [][Next]_vars
=============================================================================
