---------------------------- MODULE VolumeRecord ----------------------------
(***************************************************************************)
(* The ConfigMap record-volume-info, in whose annotations the CCS driver   *)
(* keeps the volume it created for a PersistentVolume's name (the          *)
(* controller) and a mark for every disk it has formatted (the nodes).     *)
(* The API server takes an update only from a writer whose copy is the     *)
(* stored version, which every update replaces.                            *)
(***************************************************************************)
CONSTANTS Proc, Pv, Disk, NoDisk

VARIABLES records,     \* name -> the disk of the recorded volume
          formatted,   \* disks with a mark
          current      \* who has read the stored version

RecordTypeOK ==
    /\ records \in [Pv -> Disk \union {NoDisk}]
    /\ formatted \in SUBSET Disk
    /\ current \in SUBSET Proc

RecordInit ==
    /\ records = [v \in Pv |-> NoDisk]
    /\ formatted = {}
    /\ current = {}

Get(p) == current' = current \union {p} /\ UNCHANGED <<records, formatted>>

Update(p, newRecords, newFormatted) ==
    /\ p \in current
    /\ records' = newRecords
    /\ formatted' = newFormatted
    /\ current' = {}

(* The node plugin of some node marks disk d as formatted.                 *)
MarkFormatted(d) ==
    /\ formatted' = formatted \union {d}
    /\ current' = {}
    /\ UNCHANGED records
=============================================================================
