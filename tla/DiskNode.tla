------------------------------ MODULE DiskNode ------------------------------
(* The node service of the CDS driver (pkg/driver/disk/nodeserver.go).     *)
(* That a disk is formatted is a flag of the cloud's, read when the disk   *)
(* is described; nothing looks at the device itself before it is formatted.*)
EXTENDS MarkedNode

Keep(p, flag) ==
    /\ isFormat' = [isFormat EXCEPT ![p] = flag]
    /\ UNCHANGED <<host, diskFormattedMap, diskStagingMap, diskPublishingMap,
                   diskPublishedMap, diskUnPublishingMap, diskUnStagingMap>>
SeeFormat(p, to) == Goto(p, to) /\ Keep(p, diskOf(p) \in recorded)
KnownFormatted(p) == diskOf(p) \in diskFormattedMap \/ isFormat[p]

(* findDiskByVolumeID and findDeviceNameByUuid.                            *)
StageInfo(p) == pc[p] = "sInfo" /\ (Refuse(p) \/ SeeFormat(p, "sStore"))

StageFormatted(p) ==
    /\ pc[p] = "sFormatted"
    /\ \/ KnownFormatted(p) /\ Goto(p, "sMount")
       \/ ~ KnownFormatted(p) /\ Goto(p, "sProbe")
    /\ Keep(p, FALSE)

(* The device is looked for with fdisk, the kind of filesystem checked,    *)
(* and the flag set after the fact: what sets it may fail, and fails the   *)
(* request unless the cloud answered with another Code than "Success".     *)
formatDiskDevice(p) ==
    \/ pc[p] = "sProbe" /\ (StageFails(p) \/ Continue(p, "sUnread"))
    \/ StageMkfs(p)
    \/ /\ pc[p] = "sSave"
       /\ \/ StageFails(p)
          \/ Continue(p, "sMount")
          \/ Goto(p, "sMount") /\ Record(diskOf(p)) /\ UNCHANGED marks

NodeStageVolume(p) ==
    \/ StageMark(p) \/ StageInfo(p) \/ StageStore(p) \/ StageFormatted(p)
    \/ formatDiskDevice(p) \/ StageMount(p) \/ StageStaged(p)

PublishInfo(p) ==
    /\ pc[p] = "pInfo"
    /\ \/ Return(p, "err") /\ MarkPublishing(p, "none")
       \/ SeeFormat(p, "pFormatted")

(* Not formatted, or no device: refused, with "publishing" left behind.    *)
PublishFormatted(p) ==
    /\ pc[p] = "pFormatted"
    /\ Return(p, "err") \/ (KnownFormatted(p) /\ Goto(p, "pStaged"))
    /\ Keep(p, FALSE)

PublishPublished(p) ==
    /\ pc[p] = "pPublished" /\ Return(p, "ok")
    /\ diskPublishingMap' = [diskPublishingMap EXCEPT ![targetOf(p)] = "none"]
    /\ diskPublishedMap' = diskPublishedMap \union {targetOf(p)}
    /\ UNCHANGED <<host, diskFormattedMap, diskStagingMap, diskUnPublishingMap,
                   diskUnStagingMap, isFormat>>

NodePublishVolume(p) ==
    \/ PublishMounted(p) \/ PublishMark(p) \/ PublishStore(p) \/ PublishInfo(p)
    \/ PublishFormatted(p) \/ PublishStaged(p)
    \/ PublishBind(p, "pBindStaged", "pKept") \/ PublishKept(p)
    \/ PublishMount(p) \/ PublishBind(p, "pBind", "pPublished") \/ PublishPublished(p)

NodeUnpublishVolume(p) ==
    UnpublishMark(p) \/ UnpublishStore(p) \/ UnpublishUmount(p) \/ UnpublishOk(p)

(* "unstaging" is stored and "unstaing" looked for: only an error stops a  *)
(* second request.                                                         *)
UnstageMark(p) ==
    /\ pc[p] = "tMark"
    /\ \/ diskUnStagingMap[diskOf(p)] = "error" /\ Refuse(p)
       \/ /\ diskUnStagingMap[diskOf(p)] # "error"
          /\ UnstagePathGone(p) \/ Continue(p, "tStore")

NodeUnstageVolume(p) ==
    UnstageMark(p) \/ UnstageStore(p) \/ UnstageUmount(p) \/ UnstageDone(p)

Handle(p) ==
    \/ NodeStageVolume(p) \/ NodePublishVolume(p)
    \/ NodeUnpublishVolume(p) \/ NodeUnstageVolume(p)
=============================================================================
