------------------------------ MODULE EksNode ------------------------------
(* The node service of the EKS driver (pkg/driver/eks_block/nodeserver.go):*)
(* that of the EBS driver, but that a disk is formatted is recorded by the *)
(* block service, which says so only of a disk it has on a node.           *)
EXTENDS MarkedNode

Ebs == INSTANCE EbsNode

(* describeBlockInfo, and the link of the device under /dev/disk/by-id.    *)
StageInfo(p) == pc[p] = "sInfo" /\ (Refuse(p) \/ Continue(p, "sStore"))

(* A failed call, or one that finds the disk on no node, means no.         *)
GetPvFormat(p, says) ==
    IF says THEN diskOf(p) \in diskFormattedMap \union recorded
    ELSE diskOf(p) \notin diskFormattedMap

StageFormatted(p) ==
    /\ pc[p] = "sFormatted"
    /\ \/ GetPvFormat(p, TRUE) /\ Continue(p, "sMount")
       \/ GetPvFormat(p, FALSE) /\ Continue(p, "sProbe")

(* blkid is asked before the kind of filesystem is looked at, which does   *)
(* not change what can come of it.                                         *)
formatDiskDevice(p) == Ebs!Probe(p) \/ StageMkfs(p)

(* UpdateBlockFormat; its failure is ignored.                              *)
SavePvFormat(p) ==
    /\ pc[p] = "sSave"
    /\ \/ Continue(p, "sMount")
       \/ Goto(p, "sMount") /\ Record(diskOf(p)) /\ UNCHANGED marks

NodeStageVolume(p) ==
    \/ StageMark(p) \/ StageInfo(p) \/ StageStore(p) \/ StageFormatted(p)
    \/ formatDiskDevice(p) \/ SavePvFormat(p) \/ StageMount(p) \/ StageStaged(p)

(* Both of the EBS driver's slips are here as well: the early returns that *)
(* leave "publishing", and the Delete of a key that is not one.            *)
NodePublishVolume(p) ==
    \/ PublishMounted(p) \/ PublishMark(p) \/ PublishStore(p) \/ Ebs!PublishInfo(p)
    \/ Ebs!PublishFormatted(p) \/ PublishStaged(p)
    \/ PublishBind(p, "pBindStaged", "pKept") \/ PublishKept(p)
    \/ PublishMount(p) \/ PublishBind(p, "pBind", "pPublished") \/ Ebs!PublishPublished(p)

NodeUnpublishVolume(p) ==
    UnpublishMark(p) \/ UnpublishStore(p) \/ UnpublishUmount(p) \/ UnpublishOk(p)

NodeUnstageVolume(p) ==
    Ebs!UnstageMark(p) \/ UnstageStore(p) \/ UnstageUmount(p) \/ UnstageDone(p)

Handle(p) ==
    \/ NodeStageVolume(p) \/ NodePublishVolume(p)
    \/ NodeUnpublishVolume(p) \/ NodeUnstageVolume(p)
=============================================================================
