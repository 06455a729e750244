------------------------------ MODULE CcsNode ------------------------------
(***************************************************************************)
(* The node service of the CCS driver (pkg/driver/ccsdisk/nodeserver.go).  *)
(* A request works on a disk under the disk's lock, and nothing is kept in *)
(* memory but the locks; that a disk is formatted is recorded in the       *)
(* ConfigMap of the volume records.                                        *)
(***************************************************************************)
EXTENDS NodeHost

VARIABLE locks           \* VolumeLocks
INSTANCE VolumeLocks

ccsVars == <<hostVars, locks>>

CcsLocation ==
    {"idle", "ret", "done",
     "ksLock", "ksInfo", "ksProbe", "ksMkfs", "ksUnread", "ksSave", "ksMount",
     "kpMounted", "kpLock", "kpInfo", "kpStaged", "kpMount", "kpBind",
     "knLock", "knUmount", "ktLock", "ktUmount"}

Continue(p, to) == Goto(p, to) /\ UNCHANGED <<host, locks>>
(* With the lock held: it is released last.                                *)
Leave(p, r) ==
    /\ pc' = [pc EXCEPT ![p] = "done"]
    /\ res' = [res EXCEPT ![p] = r]
    /\ UNCHANGED <<job, overlapped, host, locks>>
Refuse(p) == Return(p, "err") /\ UNCHANGED <<host, locks>>
Succeed(p) == Return(p, "ok") /\ UNCHANGED <<host, locks>>

LockDisk(p, at, to) ==
    /\ pc[p] = at
    /\ \/ TryAcquire(diskOf(p)) /\ Goto(p, to) /\ UNCHANGED host
       \/ diskOf(p) \in locks /\ Refuse(p)

Unlock(p) ==
    /\ pc[p] = "done"
    /\ Release(diskOf(p))
    /\ pc' = [pc EXCEPT ![p] = "ret"]
    /\ UNCHANGED <<job, res, overlapped, host>>

(* A command that ends the request when it fails.                          *)
Try(p, at, command, to) ==
    /\ pc[p] = at
    /\ Leave(p, "err") \/ (command /\ Goto(p, to) /\ UNCHANGED locks)
TryLast(p, at, command) ==
    /\ pc[p] = at
    /\ \/ Leave(p, "err")
       \/ /\ command
          /\ pc' = [pc EXCEPT ![p] = "done"]
          /\ res' = [res EXCEPT ![p] = "ok"]
          /\ UNCHANGED <<job, overlapped, locks>>

----------------------------------------------------------------------------
(* The nodes' disks are rescanned, the disk described, its device found    *)
(* and its record read: any of it may fail.                                *)
StageInfo(p) ==
    /\ pc[p] = "ksInfo"
    /\ \/ Leave(p, "err")
       \/ diskOf(p) \in recorded /\ Continue(p, "ksMount")
       \/ diskOf(p) \notin recorded /\ Continue(p, "ksProbe")

(* formatDiskDevice: a device that blkid reports a filesystem on is left as*)
(* it is and not recorded; when blkid finds none, or fails, it gets one,   *)
(* which saveVolumeInfo records.                                           *)
Probe(p) ==
    /\ pc[p] = "ksProbe"
    /\ \/ Leave(p, "err")
       \/ fs[diskOf(p)] # "none" /\ Continue(p, "ksMount")
       \/ fs[diskOf(p)] = "none" /\ Continue(p, "ksMkfs")
       \/ Continue(p, "ksUnread")
saveVolumeInfo(p) == Try(p, "ksSave", Record(diskOf(p)), "ksMount")
formatDiskDevice(p) ==
    \/ Probe(p)
    \/ \E at \in {"ksMkfs", "ksUnread"} : Try(p, at, Mkfs(diskOf(p)), "ksSave")
    \/ saveVolumeInfo(p)

NodeStageVolume(p) ==
    \/ LockDisk(p, "ksLock", "ksInfo") \/ StageInfo(p) \/ formatDiskDevice(p)
    \/ TryLast(p, "ksMount", MountDevice(diskOf(p)))

(* The target path is made when it is not there, and looked at before the  *)
(* disk is locked.                                                         *)
PublishMounted(p) ==
    /\ pc[p] = "kpMounted"
    /\ \/ Refuse(p)
       \/ Mounted(Bound(targetOf(p)), TRUE) /\ Succeed(p)
       \/ Mounted(Bound(targetOf(p)), FALSE) /\ Continue(p, "kpLock")

(* checkVolumeInfo: a disk that is not recorded is not published.          *)
PublishInfo(p) ==
    /\ pc[p] = "kpInfo"
    /\ \/ Leave(p, "err")
       \/ diskOf(p) \in recorded /\ Continue(p, "kpStaged")

(* Fault: the staging path is taken to be mounted.                         *)
PublishStagedUnseen(p) == pc[p] = "kpStaged" /\ Continue(p, "kpBind")

PublishStaged(p) ==
    /\ pc[p] = "kpStaged"
    /\ \/ Mounted(diskOf(p) \in staged, TRUE) /\ Continue(p, "kpBind")
       \/ Mounted(diskOf(p) \in staged, FALSE) /\ Continue(p, "kpMount")

NodePublishVolume(p) ==
    \/ PublishMounted(p) \/ LockDisk(p, "kpLock", "kpInfo") \/ PublishInfo(p)
    \/ PublishStaged(p) \/ Try(p, "kpMount", MountDevice(diskOf(p)), "kpBind")
    \/ TryLast(p, "kpBind", BindMount(targetOf(p)))

(* A target path that is gone is answered with nothing, an error to gRPC.  *)
UnpublishLock(p) ==
    \/ LockDisk(p, "knLock", "knUmount")
    \/ pc[p] = "knLock" /\ FileExisted(Bound(targetOf(p)), FALSE) /\ Refuse(p)
NodeUnpublishVolume(p) ==
    \/ UnpublishLock(p)
    \/ TryLast(p, "knUmount", UnbindMount(targetOf(p)))

UnstageUmount(p) ==
    \/ TryLast(p, "ktUmount", UnmountDevice(diskOf(p)))
    \/ pc[p] = "ktUmount" /\ FileExisted(diskOf(p) \in staged, FALSE) /\ Leave(p, "ok")
NodeUnstageVolume(p) == LockDisk(p, "ktLock", "ktUmount") \/ UnstageUmount(p)

Handle(p) ==
    \/ NodeStageVolume(p) \/ NodePublishVolume(p)
    \/ NodeUnpublishVolume(p) \/ NodeUnstageVolume(p) \/ Unlock(p)

Stage(p, d) == Call(p, "stage", d, NoTarget, "ksLock") /\ UNCHANGED locks
Publish(p, t) == Call(p, "publish", volumeOf[t], t, "kpMounted") /\ UNCHANGED locks
Unpublish(p, t) == Call(p, "unpublish", volumeOf[t], t, "knLock") /\ UNCHANGED locks
Unstage(p, d) == Call(p, "unstage", d, NoTarget, "ktLock") /\ UNCHANGED locks
=============================================================================
