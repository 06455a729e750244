------------------------------ MODULE OssNode ------------------------------
(***************************************************************************)
(* The node service of the OSS driver (pkg/driver/oss/nodeserver.go and    *)
(* mounter.go).  A request holds the one mutex of the service from its     *)
(* first look at the mounts to its end.  s3fs mounts a bucket at a staging *)
(* path with a file of credentials, and pods bind that path.  A PV made    *)
(* before staging existed has no secret for it: its publish stages.        *)
(***************************************************************************)
EXTENDS NodeHost

CONSTANT NoProc

VARIABLES mountMu,       \* the holder of the mutex
          credentials    \* staging paths a file of credentials is kept for

ossVars == <<hostVars, mountMu, credentials>>

OssLocation ==
    {"idle", "ret", "done",
     "osLock", "opLock", "onLock", "otLock",
     "vCheck", "vVerify", "vWrite", "vMount", "vMounted", "vReady",
     "opTarget", "opBind", "onUmount", "otUmount", "otCredential"}

Continue(p, to) == Goto(p, to) /\ UNCHANGED <<host, credentials, mountMu>>
End(p, r) ==
    /\ pc' = [pc EXCEPT ![p] = "done"]
    /\ res' = [res EXCEPT ![p] = r]
    /\ UNCHANGED <<job, overlapped, mountMu>>
Fail(p) == End(p, "err") /\ UNCHANGED <<host, credentials>>
Succeed(p) == End(p, "ok") /\ UNCHANGED <<host, credentials>>

Lock(p, at, to) ==
    /\ pc[p] = at /\ mountMu = NoProc
    /\ mountMu' = p /\ Goto(p, to) /\ UNCHANGED <<host, credentials>>

Unlock(p) ==
    /\ pc[p] = "done"
    /\ mountMu' = NoProc
    /\ pc' = [pc EXCEPT ![p] = "ret"]
    /\ UNCHANGED <<job, res, overlapped, host, credentials>>

(* The commands of the mounter.                                            *)
MountS3fs(d) == staged' = staged \union {d} /\ UNCHANGED <<binds, fs, recorded>>
NoCredential(d) == credentials' = credentials \ {d}
(* removeOssCredential as a rollback calls it: a failure is ignored.       *)
ForgetCredential(d) == NoCredential(d) \/ UNCHANGED credentials

----------------------------------------------------------------------------
(* stageVolume, for a stage and for the publish of a volume that is not.   *)

Staged(p) == IF job[p].op = "stage" THEN Succeed(p) ELSE Continue(p, "opBind")

(* Fault: a publish goes on without credentials, as a stage does.          *)
CheckStagedLax(p) ==
    /\ pc[p] = "vCheck"
    /\ \/ Fail(p) \/ Staged(p)
       \/ diskOf(p) \in staged /\ Continue(p, "vVerify")
       \/ diskOf(p) \notin staged /\ Continue(p, "vWrite")

(* Without credentials a stage is answered, nothing having been done.  The *)
(* options, or the bucket's addressing, may be refused.                    *)
CheckStaged(p) ==
    /\ pc[p] = "vCheck"
    /\ \/ Fail(p)
       \/ diskOf(p) \in staged /\ Continue(p, "vVerify")
       \/ /\ diskOf(p) \notin staged
          /\ Continue(p, "vWrite") \/ (job[p].op = "stage" /\ Succeed(p))

(* verifyStagingMount: a mount that cannot be read is unmounted, or that   *)
(* fails too; the credentials are removed either way, if they can be.      *)
VerifyStagingMount(p) ==
    \/ Staged(p)
    \/ /\ End(p, "err") /\ ForgetCredential(diskOf(p))
       /\ UnmountDevice(diskOf(p)) \/ UNCHANGED host
VerifyStaged(p) == pc[p] = "vVerify" /\ VerifyStagingMount(p)

(* A file that was made and not filled is left.                            *)
WriteOssCredential(p) ==
    /\ pc[p] = "vWrite"
    /\ \/ Fail(p)
       \/ /\ credentials' = credentials \union {diskOf(p)}
          /\ UNCHANGED host
          /\ End(p, "err") \/ (Goto(p, "vMount") /\ UNCHANGED mountMu)

(* s3fs may fail, or be given up on, with and without a mount.             *)
Mount(p) ==
    /\ pc[p] = "vMount"
    /\ \/ End(p, "err") /\ ForgetCredential(diskOf(p)) /\ (UNCHANGED host \/ MountS3fs(diskOf(p)))
       \/ /\ Goto(p, "vMounted") /\ UNCHANGED <<mountMu, credentials>>
          /\ UNCHANGED host \/ MountS3fs(diskOf(p))

IsMounted(p) ==
    /\ pc[p] = "vMounted"
    /\ \/ End(p, "err") /\ ForgetCredential(diskOf(p)) /\ UNCHANGED host
       \/ diskOf(p) \in staged /\ Continue(p, "vReady")

CheckReady(p) == pc[p] = "vReady" /\ VerifyStagingMount(p)

stageVolume(p) ==
    \/ CheckStaged(p) \/ VerifyStaged(p) \/ WriteOssCredential(p)
    \/ Mount(p) \/ IsMounted(p) \/ CheckReady(p)

----------------------------------------------------------------------------
NodeStageVolume(p) == Lock(p, "osLock", "vCheck")

PublishTarget(p) ==
    /\ pc[p] = "opTarget"
    /\ \/ Fail(p)
       \/ Bound(targetOf(p)) /\ Succeed(p)
       \/ ~ Bound(targetOf(p)) /\ diskOf(p) \in staged /\ Continue(p, "opBind")
       \/ ~ Bound(targetOf(p)) /\ diskOf(p) \notin staged /\ Continue(p, "vCheck")

(* A bind that cannot be made read-only is undone, unless that fails.      *)
PublishBind(p) ==
    /\ pc[p] = "opBind"
    /\ \/ Fail(p)
       \/ BindMount(targetOf(p)) /\ UNCHANGED credentials /\ \E r \in {"ok", "err"} : End(p, r)

NodePublishVolume(p) == Lock(p, "opLock", "opTarget") \/ PublishTarget(p) \/ PublishBind(p)

UnpublishUmount(p) ==
    /\ pc[p] = "onUmount"
    /\ \/ Fail(p)
       \/ ~ Bound(targetOf(p)) /\ Succeed(p)
       \/ UnbindMount(targetOf(p)) /\ End(p, "ok") /\ UNCHANGED credentials

NodeUnpublishVolume(p) == Lock(p, "onLock", "onUmount") \/ UnpublishUmount(p)

UnstageUmount(p) ==
    /\ pc[p] = "otUmount"
    /\ \/ Fail(p)
       \/ diskOf(p) \notin staged /\ Continue(p, "otCredential")
       \/ UnmountDevice(diskOf(p)) /\ Goto(p, "otCredential") /\ UNCHANGED <<mountMu, credentials>>

UnstageCredential(p) ==
    /\ pc[p] = "otCredential"
    /\ \/ Fail(p)
       \/ End(p, "ok") /\ NoCredential(diskOf(p)) /\ UNCHANGED host

NodeUnstageVolume(p) ==
    Lock(p, "otLock", "otUmount") \/ UnstageUmount(p) \/ UnstageCredential(p)

Handle(p) ==
    \/ NodeStageVolume(p) \/ stageVolume(p) \/ NodePublishVolume(p)
    \/ NodeUnpublishVolume(p) \/ NodeUnstageVolume(p) \/ Unlock(p)

Stage(p, d) == Call(p, "stage", d, NoTarget, "osLock") /\ UNCHANGED <<mountMu, credentials>>
Publish(p, t) == Call(p, "publish", volumeOf[t], t, "opLock") /\ UNCHANGED <<mountMu, credentials>>
Unpublish(p, t) == Call(p, "unpublish", volumeOf[t], t, "onLock") /\ UNCHANGED <<mountMu, credentials>>
Unstage(p, d) == Call(p, "unstage", d, NoTarget, "otLock") /\ UNCHANGED <<mountMu, credentials>>
=============================================================================
