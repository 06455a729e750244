------------------------------ MODULE EbsNode ------------------------------
(* The node service of the EBS driver (pkg/driver/ebs_disk/nodeserver.go). *)
(* That a disk is formatted is recorded in the ConfigMap ebs-formated.     *)
EXTENDS MarkedNode

(* The disk is described, attached, and its device found.                  *)
StageInfo(p) == pc[p] = "sInfo" /\ (Refuse(p) \/ Continue(p, "sStore"))

(* Two failed reads of the ConfigMap mean no.                              *)
GetPvFormat(p, says) ==
    IF says THEN diskOf(p) \in diskFormattedMap \union recorded
    ELSE diskOf(p) \notin diskFormattedMap

StageFormatted(p) ==
    /\ pc[p] = "sFormatted"
    /\ \/ GetPvFormat(p, TRUE) /\ Continue(p, "sMount")
       \/ GetPvFormat(p, FALSE) /\ Continue(p, "sProbe")

(* Fault: the device is formatted without a look at what is on it.         *)
ProbeSkipped(p) ==
    /\ pc[p] = "sProbe"
    /\ StageFails(p) \/ Continue(p, "sMkfs")

(* formatDiskDevice: the device is not there, or the kind of filesystem is *)
(* not supported; blkid reports a filesystem; it finds none; or it fails,  *)
(* which the code takes for none, whatever is on the device.               *)
Probe(p) ==
    /\ pc[p] = "sProbe"
    /\ \/ StageFails(p)
       \/ fs[diskOf(p)] # "none" /\ Goto(p, "sSave") /\ Formatted(p) /\ UNCHANGED host
       \/ fs[diskOf(p)] = "none" /\ Continue(p, "sMkfs")
       \/ Continue(p, "sUnread")
formatDiskDevice(p) == Probe(p) \/ StageMkfs(p)

(* The ConfigMap is patched; when that fails twice, only this process      *)
(* knows.                                                                  *)
SavePvFormat(p) ==
    /\ pc[p] = "sSave"
    /\ \/ Continue(p, "sMount")
       \/ Goto(p, "sMount") /\ Record(diskOf(p)) /\ UNCHANGED marks

NodeStageVolume(p) ==
    \/ StageMark(p) \/ StageInfo(p) \/ StageStore(p) \/ StageFormatted(p)
    \/ formatDiskDevice(p) \/ SavePvFormat(p) \/ StageMount(p) \/ StageStaged(p)

PublishInfo(p) ==
    /\ pc[p] = "pInfo"
    /\ \/ Return(p, "err") /\ MarkPublishing(p, "none")
       \/ Continue(p, "pFormatted")

(* Not formatted, or no device: refused, with "publishing" left behind.    *)
PublishFormatted(p) ==
    /\ pc[p] = "pFormatted"
    /\ \/ Refuse(p)
       \/ GetPvFormat(p, TRUE) /\ Continue(p, "pStaged")

(* diskPublishingMap.Delete is given the map for a key: "publishing" stays.*)
PublishPublished(p) ==
    /\ pc[p] = "pPublished" /\ Return(p, "ok")
    /\ diskPublishedMap' = diskPublishedMap \union {targetOf(p)}
    /\ UNCHANGED <<host, diskFormattedMap, diskStagingMap, diskPublishingMap,
                   diskUnPublishingMap, diskUnStagingMap, isFormat>>

NodePublishVolume(p) ==
    \/ PublishMounted(p) \/ PublishMark(p) \/ PublishStore(p) \/ PublishInfo(p)
    \/ PublishFormatted(p) \/ PublishStaged(p)
    \/ PublishBind(p, "pBindStaged", "pKept") \/ PublishKept(p)
    \/ PublishMount(p) \/ PublishBind(p, "pBind", "pPublished") \/ PublishPublished(p)

NodeUnpublishVolume(p) ==
    UnpublishMark(p) \/ UnpublishStore(p) \/ UnpublishUmount(p) \/ UnpublishOk(p)

UnstageMark(p) ==
    /\ pc[p] = "tMark"
    /\ \/ diskUnStagingMap[diskOf(p)] # "none" /\ Refuse(p)
       \/ /\ diskUnStagingMap[diskOf(p)] = "none"
          /\ UnstagePathGone(p) \/ Continue(p, "tStore")

NodeUnstageVolume(p) ==
    UnstageMark(p) \/ UnstageStore(p) \/ UnstageUmount(p) \/ UnstageDone(p)

Handle(p) ==
    \/ NodeStageVolume(p) \/ NodePublishVolume(p)
    \/ NodeUnpublishVolume(p) \/ NodeUnstageVolume(p)
=============================================================================
