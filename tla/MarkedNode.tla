----------------------------- MODULE MarkedNode -----------------------------
(***************************************************************************)
(* The steps that the node services of the EBS, EKS and CDS drivers have   *)
(* in common.  Each keeps maps of package scope from a path to a mark, and *)
(* looks one up before it stores its own: two requests may both find none. *)
(*                                                                         *)
(* The drivers' own modules say in which order the steps are taken, how a  *)
(* disk is formatted, and where a publish leaves its mark.                 *)
(***************************************************************************)
EXTENDS NodeHost

VARIABLES diskFormattedMap,     \* disks this process knows to be formatted
          diskStagingMap,       \* a disk's staging path: "staging", "error", "path"
          diskPublishingMap,    \* a target path: "publishing", "error", "path"
          diskPublishedMap,     \* target paths published by mounting and binding
          diskUnPublishingMap,  \* a target path: "unPublishing", "error", "ok"
          diskUnStagingMap,     \* a disk's staging path: "unStaging", "error"
          isFormat              \* whether a request found its disk to be recorded

marks == <<diskFormattedMap, diskStagingMap, diskPublishingMap, diskPublishedMap,
           diskUnPublishingMap, diskUnStagingMap, isFormat>>
markedVars == <<hostVars, marks>>

MarkedLocation ==
    {"idle", "ret",
     "sMark", "sInfo", "sStore", "sFormatted", "sProbe", "sMkfs", "sUnread", "sSave",
     "sMount", "sStaged",
     "pMounted", "pMark", "pStore", "pInfo", "pFormatted", "pStaged", "pMount", "pBind", "pPublished",
     "pBindStaged", "pKept",
     "nMark", "nStore", "nUmount", "nOk", "tMark", "tStore", "tUmount", "tDone"}

MarksTypeOK ==
    /\ diskFormattedMap \in SUBSET Disk
    /\ diskStagingMap \in [Disk -> {"none", "staging", "error", "path"}]
    /\ diskPublishingMap \in [Target -> {"none", "publishing", "error", "path"}]
    /\ diskPublishedMap \in SUBSET Target
    /\ diskUnPublishingMap \in [Target -> {"none", "unPublishing", "error", "ok"}]
    /\ diskUnStagingMap \in [Disk -> {"none", "unStaging", "error"}]
    /\ isFormat \in [Proc -> BOOLEAN]

MarksInit ==
    /\ diskFormattedMap = {}
    /\ diskStagingMap = [d \in Disk |-> "none"]
    /\ diskPublishingMap = [t \in Target |-> "none"]
    /\ diskPublishedMap = {}
    /\ diskUnPublishingMap = [t \in Target |-> "none"]
    /\ diskUnStagingMap = [d \in Disk |-> "none"]
    /\ isFormat = [p \in Proc |-> FALSE]

MarksLost ==
    /\ diskFormattedMap' = {}
    /\ diskStagingMap' = [d \in Disk |-> "none"]
    /\ diskPublishingMap' = [t \in Target |-> "none"]
    /\ diskPublishedMap' = {}
    /\ diskUnPublishingMap' = [t \in Target |-> "none"]
    /\ diskUnStagingMap' = [d \in Disk |-> "none"]
    /\ isFormat' = [p \in Proc |-> FALSE]

----------------------------------------------------------------------------
(* How a goroutine moves, and stores its mark.                             *)

Continue(p, to) == Goto(p, to) /\ UNCHANGED <<host, marks>>
Refuse(p) == Return(p, "err") /\ UNCHANGED <<host, marks>>
Succeed(p) == Return(p, "ok") /\ UNCHANGED <<host, marks>>

MarkStaging(p, mark) ==
    /\ diskStagingMap' = [diskStagingMap EXCEPT ![diskOf(p)] = mark]
    /\ UNCHANGED <<host, diskFormattedMap, diskPublishingMap, diskPublishedMap,
                   diskUnPublishingMap, diskUnStagingMap, isFormat>>
MarkPublishing(p, mark) ==
    /\ diskPublishingMap' = [diskPublishingMap EXCEPT ![targetOf(p)] = mark]
    /\ UNCHANGED <<host, diskFormattedMap, diskStagingMap, diskPublishedMap,
                   diskUnPublishingMap, diskUnStagingMap, isFormat>>
MarkUnPublishing(p, mark) ==
    /\ diskUnPublishingMap' = [diskUnPublishingMap EXCEPT ![targetOf(p)] = mark]
    /\ UNCHANGED <<host, diskFormattedMap, diskStagingMap, diskPublishedMap,
                   diskUnStagingMap, isFormat>>
MarkUnStaging(p, mark) ==
    /\ diskUnStagingMap' = [diskUnStagingMap EXCEPT ![diskOf(p)] = mark]
    /\ UNCHANGED <<host, diskFormattedMap, diskPublishingMap, diskPublishedMap,
                   diskUnPublishingMap, isFormat>>
Formatted(p) ==
    /\ diskFormattedMap' = diskFormattedMap \union {diskOf(p)}
    /\ UNCHANGED <<diskStagingMap, diskPublishingMap, diskPublishedMap, diskUnPublishingMap,
                   diskUnStagingMap, isFormat>>

StageFails(p) == Return(p, "err") /\ MarkStaging(p, "error")
PublishFails(p) == Return(p, "err") /\ MarkPublishing(p, "error")

----------------------------------------------------------------------------
(* NodeStageVolume.                                                        *)

StageMark(p) ==
    /\ pc[p] = "sMark"
    /\ \/ diskStagingMap[diskOf(p)] \in {"staging", "error"} /\ Refuse(p)
       \/ diskStagingMap[diskOf(p)] = "path" /\ Succeed(p)
       \/ diskStagingMap[diskOf(p)] = "none" /\ Continue(p, "sInfo")

StageStore(p) ==
    /\ pc[p] = "sStore"
    /\ Goto(p, "sFormatted") /\ MarkStaging(p, "staging")

(* The device is formatted: blkid found nothing on it, or ("sUnread") was  *)
(* of no help.                                                             *)
StageMkfs(p) ==
    /\ pc[p] \in {"sMkfs", "sUnread"}
    /\ \/ StageFails(p)
       \/ Goto(p, "sSave") /\ Mkfs(diskOf(p)) /\ Formatted(p)

(* Fault: a device that cannot be mounted leaves "staging" behind.         *)
StageMountUnmarked(p) ==
    /\ pc[p] = "sMount"
    /\ \/ Refuse(p)
       \/ Goto(p, "sStaged") /\ MountDevice(diskOf(p)) /\ UNCHANGED marks

(* The staging path is made when it is not there, and the device mounted.  *)
StageMount(p) ==
    /\ pc[p] = "sMount"
    /\ \/ StageFails(p)
       \/ Goto(p, "sStaged") /\ MountDevice(diskOf(p)) /\ UNCHANGED marks

StageStaged(p) ==
    /\ pc[p] = "sStaged"
    /\ Return(p, "ok") /\ MarkStaging(p, "path")

----------------------------------------------------------------------------
(* NodePublishVolume.                                                      *)

(* The target path is made when it is not there.                           *)
PublishMounted(p) ==
    /\ pc[p] = "pMounted"
    /\ \/ Refuse(p)
       \/ Mounted(Bound(targetOf(p)), TRUE) /\ Succeed(p)
       \/ Mounted(Bound(targetOf(p)), FALSE) /\ Continue(p, "pMark")

PublishMark(p) ==
    /\ pc[p] = "pMark"
    /\ \/ /\ diskPublishingMap[targetOf(p)] = "publishing"
          /\ IF targetOf(p) \in diskPublishedMap THEN Succeed(p) ELSE Refuse(p)
       \/ diskPublishingMap[targetOf(p)] = "error" /\ Refuse(p)
       \/ diskPublishingMap[targetOf(p)] \in {"none", "path"} /\ Continue(p, "pStore")

PublishStore(p) ==
    /\ pc[p] = "pStore"
    /\ Goto(p, "pInfo") /\ MarkPublishing(p, "publishing")

(* The staging path is mounted: bound as it is.  Else mounted first.       *)
PublishStaged(p) ==
    /\ pc[p] = "pStaged"
    /\ \/ Mounted(diskOf(p) \in staged, TRUE) /\ Continue(p, "pBindStaged")
       \/ Mounted(diskOf(p) \in staged, FALSE) /\ Continue(p, "pMount")

PublishMount(p) ==
    /\ pc[p] = "pMount"
    /\ \/ PublishFails(p)
       \/ Goto(p, "pBind") /\ MountDevice(diskOf(p)) /\ UNCHANGED marks

PublishBind(p, at, to) ==
    /\ pc[p] = at
    /\ \/ PublishFails(p)
       \/ Goto(p, to) /\ BindMount(targetOf(p)) /\ UNCHANGED marks

PublishKept(p) ==
    /\ pc[p] = "pKept"
    /\ Return(p, "ok") /\ MarkPublishing(p, "path")

----------------------------------------------------------------------------
(* NodeUnpublishVolume.                                                    *)

UnpublishMark(p) ==
    /\ pc[p] = "nMark"
    /\ \/ FileExisted(Bound(targetOf(p)), FALSE) /\ Refuse(p)
       \/ diskUnPublishingMap[targetOf(p)] \in {"unPublishing", "error"} /\ Refuse(p)
       \/ diskUnPublishingMap[targetOf(p)] = "ok" /\ Succeed(p)
       \/ diskUnPublishingMap[targetOf(p)] = "none" /\ Continue(p, "nStore")

UnpublishStore(p) ==
    /\ pc[p] = "nStore"
    /\ Goto(p, "nUmount") /\ MarkUnPublishing(p, "unPublishing") /\ UNCHANGED diskPublishingMap

UnpublishUmount(p) ==
    /\ pc[p] = "nUmount"
    /\ \/ Return(p, "err") /\ MarkUnPublishing(p, "error") /\ UNCHANGED diskPublishingMap
       \/ Goto(p, "nOk") /\ UnbindMount(targetOf(p)) /\ UNCHANGED marks

UnpublishOk(p) ==
    /\ pc[p] = "nOk"
    /\ Return(p, "ok") /\ MarkUnPublishing(p, "ok")
    /\ diskPublishingMap' = [diskPublishingMap EXCEPT ![targetOf(p)] = "none"]

----------------------------------------------------------------------------
(* NodeUnstageVolume.                                                      *)

UnstagePathGone(p) ==
    /\ FileExisted(diskOf(p) \in staged, FALSE)
    /\ Return(p, "ok") /\ MarkStaging(p, "none")

(* Fault: the mark of another operation is stored.                         *)
UnstageStoreMistyped(p) ==
    /\ pc[p] = "tStore"
    /\ Goto(p, "tUmount") /\ MarkUnStaging(p, "staging") /\ UNCHANGED diskStagingMap

UnstageStore(p) ==
    /\ pc[p] = "tStore"
    /\ Goto(p, "tUmount") /\ MarkUnStaging(p, "unStaging") /\ UNCHANGED diskStagingMap

UnstageUmount(p) ==
    /\ pc[p] = "tUmount"
    /\ \/ Return(p, "err") /\ MarkUnStaging(p, "error") /\ UNCHANGED diskStagingMap
       \/ Goto(p, "tDone") /\ UnmountDevice(diskOf(p)) /\ UNCHANGED marks

(* Fault: that the path was staged is remembered.                          *)
UnstageDoneKept(p) ==
    /\ pc[p] = "tDone"
    /\ Return(p, "ok") /\ MarkUnStaging(p, "none") /\ UNCHANGED diskStagingMap

UnstageDone(p) ==
    /\ pc[p] = "tDone"
    /\ Return(p, "ok") /\ MarkUnStaging(p, "none")
    /\ diskStagingMap' = [diskStagingMap EXCEPT ![diskOf(p)] = "none"]

----------------------------------------------------------------------------
(* The requests.                                                           *)

Stage(p, d) == Call(p, "stage", d, NoTarget, "sMark") /\ UNCHANGED marks
Publish(p, t) == Call(p, "publish", volumeOf[t], t, "pMounted") /\ UNCHANGED marks
Unpublish(p, t) == Call(p, "unpublish", volumeOf[t], t, "nMark") /\ UNCHANGED marks
Unstage(p, d) == Call(p, "unstage", d, NoTarget, "tMark") /\ UNCHANGED marks
=============================================================================
