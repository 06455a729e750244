------------------------------- MODULE Nodes -------------------------------
(***************************************************************************)
(* A node with one of the drivers (cmd/main.go): its node service, the     *)
(* kubelet that calls it, the pods that write, and restarts of the process,*)
(* which lose what it remembers and leave the host as it is.               *)
(***************************************************************************)
EXTENDS MarkedNode

CONSTANTS NoProc,
          Drivers,       \* the values of the --driver flag
          Overlap        \* for each, the calls that may overlap (a bound)

Calls == {"stage", "publish", "unpublish", "unstage"}

ASSUME DriversAssumption ==
    /\ Drivers \subseteq {"ebs", "eks", "cds", "ccs", "oss", "nas"}
    /\ Overlap \in [Drivers -> SUBSET Calls]
    /\ NoProc \notin Proc

VARIABLES locks,         \* VolumeLocks of the CCS driver
          mountMu, credentials,  \* the mutex and the files of the OSS driver
          driver         \* the --driver flag

oss == <<mountMu, credentials>>
vars == <<markedVars, locks, oss, driver>>

Ebs == INSTANCE EbsNode
Eks == INSTANCE EksNode
Cds == INSTANCE DiskNode
Ccs == INSTANCE CcsNode
Oss == INSTANCE OssNode
Nas == INSTANCE NasNode

TypeOK ==
    /\ HostTypeOK /\ MarksTypeOK
    /\ driver \in Drivers
    /\ locks \in SUBSET Disk
    /\ mountMu \in Proc \union {NoProc}
    /\ credentials \in SUBSET Disk
    /\ pc \in [Proc -> CASE driver = "ccs" -> Ccs!CcsLocation
                        [] driver = "oss" -> Oss!OssLocation
                        [] driver = "nas" -> Nas!NasLocation
                        [] OTHER -> MarkedLocation]

Init ==
    /\ HostInit /\ MarksInit
    /\ locks = {} /\ mountMu = NoProc /\ credentials = {}
    /\ driver \in Drivers

Marked == driver \in {"ebs", "eks", "cds"}

(* The bound: calls that do not overlap here wait, and are not made once   *)
(* others of the disk have overlapped.                                     *)
MayCall(d, op) ==
    \/ ~ InProgress(d) /\ d \notin overlapped
    \/ /\ op \in Overlap[driver]
       /\ \A q \in Proc : diskOf(q) = d => job[q].op \in Overlap[driver]

(* Stage and unstage are not called of the NAS driver.                     *)
Kubelet(p) ==
    \/ \E d \in Disk :
          \/ /\ MayCall(d, "stage")
             /\ \/ Marked /\ Stage(p, d) /\ UNCHANGED <<locks, oss>>
                \/ driver = "ccs" /\ Ccs!Stage(p, d) /\ UNCHANGED <<marks, oss>>
                \/ driver = "oss" /\ Oss!Stage(p, d) /\ UNCHANGED <<marks, locks>>
          \/ /\ MayCall(d, "unstage")
             /\ \/ Marked /\ Unstage(p, d) /\ UNCHANGED <<locks, oss>>
                \/ driver = "ccs" /\ Ccs!Unstage(p, d) /\ UNCHANGED <<marks, oss>>
                \/ driver = "oss" /\ Oss!Unstage(p, d) /\ UNCHANGED <<marks, locks>>
    \/ \E t \in Target :
          \/ /\ MayCall(volumeOf[t], "publish")
             /\ \/ Marked /\ Publish(p, t) /\ UNCHANGED <<locks, oss>>
                \/ driver = "ccs" /\ Ccs!Publish(p, t) /\ UNCHANGED <<marks, oss>>
                \/ driver = "oss" /\ Oss!Publish(p, t) /\ UNCHANGED <<marks, locks>>
                \/ driver = "nas" /\ Nas!Publish(p, t) /\ UNCHANGED <<marks, locks, oss>>
          \/ /\ MayCall(volumeOf[t], "unpublish")
             /\ \/ Marked /\ Unpublish(p, t) /\ UNCHANGED <<locks, oss>>
                \/ driver = "ccs" /\ Ccs!Unpublish(p, t) /\ UNCHANGED <<marks, oss>>
                \/ driver = "oss" /\ Oss!Unpublish(p, t) /\ UNCHANGED <<marks, locks>>
                \/ driver = "nas" /\ Nas!Unpublish(p, t) /\ UNCHANGED <<marks, locks, oss>>

Handle(p) ==
    \/ driver = "ebs" /\ Ebs!Handle(p) /\ UNCHANGED <<locks, oss>>
    \/ driver = "eks" /\ Eks!Handle(p) /\ UNCHANGED <<locks, oss>>
    \/ driver = "cds" /\ Cds!Handle(p) /\ UNCHANGED <<locks, oss>>
    \/ driver = "ccs" /\ Ccs!Handle(p) /\ UNCHANGED <<marks, oss>>
    \/ driver = "oss" /\ Oss!Handle(p) /\ UNCHANGED <<marks, locks>>
    \/ driver = "nas" /\ Nas!Handle(p) /\ UNCHANGED <<marks, locks, oss>>
    \/ Answer(p) /\ UNCHANGED <<marks, locks, oss>>

Restart ==
    /\ HandlersEnd /\ MarksLost
    /\ locks' = {} /\ mountMu' = NoProc /\ UNCHANGED credentials

(* deleteVolumeInfo of the CCS controller also removes the record of a disk*)
(* whose PV is younger than the list of PVs it works with.                 *)
RecordRemoved(d) ==
    /\ driver = "ccs" /\ d \in recorded
    /\ recorded' = recorded \ {d}
    /\ UNCHANGED <<handlers, overlapped, staged, binds, fs, marks, locks, oss>>

Next ==
    /\ \/ \E p \in Proc : Kubelet(p) \/ Handle(p)
       \/ Restart
       \/ /\ Marked \/ driver = "ccs"
          /\ \E t \in Target : PodWrites(t) /\ UNCHANGED <<marks, locks, oss>>
       \/ \E d \in Disk : RecordRemoved(d)
    /\ UNCHANGED driver

Spec == Init /\ [][Next]_vars

----------------------------------------------------------------------------
(* Properties.                                                             *)

At(p, locations) == pc[p] \in locations

(* A path marked "staging", "unPublishing" or "unStaging" is so by a       *)
(* request that still runs and will replace the mark, whichever command    *)
(* fails under it.  (Not so "publishing".)                                 *)
MarksOwned ==
    /\ \A d \in Disk : diskStagingMap[d] = "staging" =>
          \E p \in Proc : diskOf(p) = d
                          /\ At(p, {"sFormatted", "sProbe", "sMkfs", "sUnread", "sSave", "sMount", "sStaged"})
    /\ \A t \in Target : diskUnPublishingMap[t] = "unPublishing" =>
          \E p \in Proc : targetOf(p) = t /\ At(p, {"nUmount", "nOk"})
    /\ \A d \in Disk : diskUnStagingMap[d] = "unStaging" =>
          \E p \in Proc : diskOf(p) = d /\ At(p, {"tUmount", "tDone"})

(* While the kubelet has one request of a disk at a time, a staging path   *)
(* the process remembers as mounted is mounted, or about to be forgotten.  *)
StagedIsMounted ==
    \A d \in Disk \ overlapped : diskStagingMap[d] = "path" =>
        d \in staged \/ (\E p \in Proc : diskOf(p) = d /\ At(p, {"tDone"}))

(* A pod is never given the bare directory of a staging path, whose files  *)
(* would stay on the node: with the locks of the CCS and OSS drivers what- *)
(* ever overlaps, with the others while the kubelet has one request at a   *)
(* time.                                                                   *)
NoBareBind ==
    \A t \in Target : (driver \in {"ccs", "oss"} \/ volumeOf[t] \notin overlapped) =>
        \A i \in DOMAIN binds[t] : binds[t][i] = "disk"

(* A disk with data is about to be formatted only by a request that blkid  *)
(* failed (or that, with the CDS driver, never looks), and that does not   *)
(* know the disk: the process has not formatted or recognised it since it  *)
(* started, or, with the CCS driver, its record is gone.  So it takes two  *)
(* failures to lose data: with the CCS driver's locks whatever overlaps,   *)
(* with the others while the kubelet has one request of a disk at a time.  *)
DataKept ==
    \A p \in Proc :
        /\ At(p, {"sMkfs", "sUnread", "ksMkfs", "ksUnread"}) /\ fs[diskOf(p)] = "data"
        /\ driver = "ccs" \/ diskOf(p) \notin overlapped
        => \/ At(p, {"sUnread"}) /\ diskOf(p) \notin diskFormattedMap
           \/ At(p, {"ksUnread"}) /\ diskOf(p) \notin recorded

(* What a success lets go of is free.  After a NodeUnstageVolume of the    *)
(* OSS driver, the staging path is not mounted and its credentials are     *)
(* gone; after a NodeUnpublishVolume of it, or of the NAS driver while the *)
(* kubelet has one request at a time, nothing is mounted at the target     *)
(* path.  (Not so with the other drivers, whose unpublish is remembered.)  *)
LetGo ==
    \A p \in Proc : res[p] = "ok" =>
        /\ driver = "oss" /\ pc[p] = "done" /\ job[p].op = "unstage" =>
              diskOf(p) \notin staged \union credentials
        /\ /\ job[p].op = "unpublish"
           /\ (driver = "oss" /\ pc[p] = "done") \/ (driver = "nas" /\ diskOf(p) \notin overlapped)
           => ~ Bound(targetOf(p))
=============================================================================
