--------------------------- MODULE DiskController ---------------------------
(***************************************************************************)
(* The controller service of the CDS disk driver                           *)
(* (pkg/driver/disk/controllerserver.go).  A goroutine is a p \in Proc, an *)
(* action one use of the package's maps or one call of the cloud or of the *)
(* Kubernetes API.                                                         *)
(*                                                                         *)
(* What a request has started is marked in a map only after the cloud took *)
(* it, so the marks warn a later request off and lock nothing.  The maps   *)
(* are plain Go maps: two requests that meet on one may end the process,   *)
(* which is one of the restarts here.                                      *)
(***************************************************************************)
EXTENDS CloudDisk

CONSTANTS NoDisk,
          Requests,        \* the requests the sidecars may send
          MayRestart       \* whether the controller may restart

Request == [op : {"create", "delete", "publish", "unpublish"},
            pv : Pv \union {NoPv}, disk : Disk \union {NoDisk}, node : Node \union {NoNode}]

ASSUME DiskAssumption ==
    /\ NoDisk \notin Disk
    /\ MayRestart \in BOOLEAN
    /\ Requests \subseteq Request
    /\ \A r \in Requests : /\ r.op = "create" => r.pv # NoPv
                           /\ r.op # "create" => r.disk # NoDisk
                           /\ r.op \in {"publish", "unpublish"} => r.node # NoNode

VARIABLES pc, job, res,        \* a goroutine: where it is, its request, its answer
          pvcCreatedMap,       \* the disk made for each name
          diskIdPvMap,         \* the name each disk was made for
          diskProcessingMap, diskDeletingMap, diskAttachingMap, diskDetachingMap,
          volumes              \* disks whose id Kubernetes has been told

goroutines == <<pc, job, res>>
caches == <<pvcCreatedMap, diskIdPvMap>>
marks == <<diskProcessingMap, diskDeletingMap, diskAttachingMap, diskDetachingMap>>
cloud == <<disk, outcome>>
vars == <<goroutines, caches, marks, cloud, volumes>>

Location ==
    {"idle", "ret",
     "cCached", "cMark", "cAgain", "cSubmit", "cStore", "cPoll", "cKeep",
     "dMark", "dInfo", "dSubmit", "dStore", "dPoll", "dDone",
     "pMark", "pInfo", "pReady", "fSubmit", "fStore", "fPoll", "pSubmit", "pStore", "pPoll",
     "uMark", "uInfo", "uSubmit", "uStore", "uPoll"}
NoRequest == [op |-> "create", pv |-> NoPv, disk |-> NoDisk, node |-> NoNode]

TypeOK ==
    /\ CloudTypeOK
    /\ pc \in [Proc -> Location]
    /\ job \in [Proc -> Request]
    /\ res \in [Proc -> {"none", "ok", "err"}]
    /\ pvcCreatedMap \in [Pv -> Disk \union {NoDisk}]
    /\ diskIdPvMap \in [Disk -> Pv \union {NoPv}]
    /\ diskProcessingMap \in [Pv -> {"none", "creating", "error"}]
    /\ diskDeletingMap \in [Disk -> {"none", "deleting", "error"}]
    /\ diskAttachingMap \in [Disk -> {"none", "attaching", "error"}]
    /\ diskDetachingMap \in [Disk -> {"none", "detaching", "error"}]
    /\ volumes \in SUBSET Disk

Fresh ==
    /\ pc = [p \in Proc |-> "idle"]
    /\ job = [p \in Proc |-> NoRequest]
    /\ res = [p \in Proc |-> "none"]
    /\ pvcCreatedMap = [v \in Pv |-> NoDisk]
    /\ diskIdPvMap = [d \in Disk |-> NoPv]
    /\ diskProcessingMap = [v \in Pv |-> "none"]
    /\ diskDeletingMap = [d \in Disk |-> "none"]
    /\ diskAttachingMap = [d \in Disk |-> "none"]
    /\ diskDetachingMap = [d \in Disk |-> "none"]

Init == CloudInit /\ Fresh /\ volumes = Provisioned

----------------------------------------------------------------------------
(* How a goroutine moves.                                                  *)

pvOf(p) == job[p].pv
diskOf(p) == job[p].disk
nodeOf(p) == job[p].node

Goto(p, to) == pc' = [pc EXCEPT ![p] = to] /\ UNCHANGED <<job, res, volumes>>

Return(p, r) ==
    /\ pc' = [pc EXCEPT ![p] = "ret"]
    /\ res' = [res EXCEPT ![p] = r]
    /\ UNCHANGED <<job, volumes>>

Continue(p, to) == Goto(p, to) /\ UNCHANGED <<caches, marks, cloud>>
Refuse(p) == Return(p, "err") /\ UNCHANGED <<caches, marks, cloud>>
Succeed(p) == Return(p, "ok") /\ UNCHANGED <<caches, marks, cloud>>

(* A request arrives.  It names a disk that Kubernetes has a volume for.   *)
Start(p, r) ==
    /\ pc[p] = "idle"
    /\ r.op # "create" => r.disk \in volumes
    /\ pc' = [pc EXCEPT ![p] = CASE r.op = "create" -> "cCached"
                                 [] r.op = "delete" -> "dMark"
                                 [] r.op = "publish" -> "pMark"
                                 [] r.op = "unpublish" -> "uMark"]
    /\ job' = [job EXCEPT ![p] = r]
    /\ UNCHANGED <<res, caches, marks, cloud, volumes>>

Answer(p) ==
    /\ pc[p] = "ret"
    /\ pc' = [pc EXCEPT ![p] = "idle"]
    /\ job' = [job EXCEPT ![p] = NoRequest]
    /\ res' = [res EXCEPT ![p] = "none"]
    /\ volumes' = IF job[p].op = "create" /\ res[p] = "ok" THEN volumes \union {diskOf(p)}
                  ELSE volumes
    /\ UNCHANGED <<caches, marks, cloud>>

(* deleteDisk, attachDisk, detachDisk: the task is accepted, accepted with *)
(* the answer lost, or refused.                                            *)
StartTask(p, at, to, kind, n) ==
    /\ pc[p] = at
    /\ \/ /\ \/ Goto(p, to) /\ Submit(p, diskOf(p), kind, n)
             \/ Return(p, "err") /\ Submit(NoProc, diskOf(p), kind, n)
          /\ UNCHANGED <<caches, marks>>
       \/ Refuse(p)

(* describeTaskStatus: the task has finished; it has failed, a poll has,   *)
(* or 120 of them are over.  The caller's next step, on a map, is part of  *)
(* the action: no other goroutine sees a poll end.                         *)
Finished(p) == outcome[p] = "finish" /\ outcome' = [outcome EXCEPT ![p] = "none"] /\ UNCHANGED disk
GaveUp(p) == Return(p, "err") /\ Forget(p, diskOf(p))

MarkIn(map, k, value) == map' = [map EXCEPT ![k] = value]

----------------------------------------------------------------------------
(* CreateVolume.                                                           *)

AnswerCached(p) ==
    /\ pvcCreatedMap[pvOf(p)] # NoDisk
    /\ pc' = [pc EXCEPT ![p] = "ret"]
    /\ res' = [res EXCEPT ![p] = "ok"]
    /\ job' = [job EXCEPT ![p].disk = pvcCreatedMap[pvOf(p)]]
    /\ UNCHANGED <<caches, marks, cloud, volumes>>

CreateCached(p) ==
    /\ pc[p] = "cCached"
    /\ \/ AnswerCached(p)
       \/ pvcCreatedMap[pvOf(p)] = NoDisk /\ (Refuse(p) \/ Continue(p, "cMark"))

CreateMark(p) ==
    /\ pc[p] = "cMark"
    /\ \/ diskProcessingMap[pvOf(p)] = "creating" /\ Continue(p, "cAgain")
       \/ diskProcessingMap[pvOf(p)] = "error" /\ Refuse(p)
       \/ diskProcessingMap[pvOf(p)] = "none" /\ Continue(p, "cSubmit")

(* It was being made a moment ago: the answer may be there by now.         *)
CreateAgain(p) ==
    /\ pc[p] = "cAgain"
    /\ AnswerCached(p) \/ (pvcCreatedMap[pvOf(p)] = NoDisk /\ Refuse(p))

CreateSubmit(p) ==
    /\ pc[p] = "cSubmit"
    /\ \/ /\ \E d \in Disk :
             \/ /\ SubmitCreate(p, d, pvOf(p))
                /\ pc' = [pc EXCEPT ![p] = "cStore"]
                /\ job' = [job EXCEPT ![p].disk = d]
                /\ UNCHANGED <<res, volumes>>
             \/ SubmitCreate(NoProc, d, pvOf(p)) /\ Return(p, "err")
          /\ UNCHANGED <<caches, marks>>
       \/ Refuse(p)

CreateStore(p) ==
    /\ pc[p] = "cStore" /\ Goto(p, "cPoll")
    /\ MarkIn(diskProcessingMap, pvOf(p), "creating")
    /\ UNCHANGED <<caches, diskDeletingMap, diskAttachingMap, diskDetachingMap, cloud>>

(* Fault: the mark stays when the wait fails.                              *)
CreatePollUnmarked(p) ==
    /\ pc[p] = "cPoll"
    /\ \/ Finished(p) /\ Goto(p, "cKeep") /\ MarkIn(diskProcessingMap, pvOf(p), "none")
       \/ GaveUp(p) /\ UNCHANGED diskProcessingMap
    /\ UNCHANGED <<caches, diskDeletingMap, diskAttachingMap, diskDetachingMap>>

(* Fault: a creation that failed is kept like one that finished.           *)
CreatePollUnseen(p) ==
    /\ pc[p] = "cPoll"
    /\ Goto(p, "cKeep") /\ MarkIn(diskProcessingMap, pvOf(p), "none")
    /\ Forget(p, diskOf(p))
    /\ UNCHANGED <<caches, diskDeletingMap, diskAttachingMap, diskDetachingMap>>

CreatePoll(p) ==
    /\ pc[p] = "cPoll"
    /\ \/ Finished(p) /\ Goto(p, "cKeep") /\ MarkIn(diskProcessingMap, pvOf(p), "none")
       \/ GaveUp(p) /\ MarkIn(diskProcessingMap, pvOf(p), "error")
    /\ UNCHANGED <<caches, diskDeletingMap, diskAttachingMap, diskDetachingMap>>

CreateKeep(p) ==
    /\ pc[p] = "cKeep" /\ Return(p, "ok")
    /\ diskIdPvMap' = [diskIdPvMap EXCEPT ![diskOf(p)] = pvOf(p)]
    /\ pvcCreatedMap' = [pvcCreatedMap EXCEPT ![pvOf(p)] = diskOf(p)]
    /\ UNCHANGED <<marks, cloud>>

----------------------------------------------------------------------------
(* DeleteVolume.                                                           *)

DeleteMark(p) ==
    /\ pc[p] = "dMark"
    /\ \/ diskDeletingMap[diskOf(p)] # "none" /\ Refuse(p)
       \/ diskDeletingMap[diskOf(p)] = "none" /\ Continue(p, "dInfo")

Mounted(d) == disk[d].state = "attached" /\ disk[d].task = "none"

DeleteInfo(p) ==
    /\ pc[p] = "dInfo"
    /\ \/ Refuse(p)
       \/ ~ Exists(diskOf(p)) /\ Succeed(p)
       \/ Exists(diskOf(p)) /\ ~ Mounted(diskOf(p)) /\ Continue(p, "dSubmit")

DeleteSubmit(p) == StartTask(p, "dSubmit", "dStore", "delete", NoNode)

DeleteStore(p) ==
    /\ pc[p] = "dStore" /\ Goto(p, "dPoll")
    /\ MarkIn(diskDeletingMap, diskOf(p), "deleting")
    /\ UNCHANGED <<caches, diskProcessingMap, diskAttachingMap, diskDetachingMap, cloud>>

(* Fault: the answer to the next CreateVolume of the name is kept.         *)
DeletePollKept(p) ==
    /\ pc[p] = "dPoll"
    /\ \/ Finished(p) /\ Goto(p, "dDone") /\ UNCHANGED diskDeletingMap
       \/ GaveUp(p) /\ MarkIn(diskDeletingMap, diskOf(p), "error")
    /\ UNCHANGED <<caches, diskProcessingMap, diskAttachingMap, diskDetachingMap>>

DeletePoll(p) ==
    /\ pc[p] = "dPoll"
    /\ \/ /\ Finished(p) /\ Goto(p, "dDone")
          /\ pvcCreatedMap' = [v \in Pv |-> IF v = diskIdPvMap[diskOf(p)] THEN NoDisk
                                            ELSE pvcCreatedMap[v]]
          /\ UNCHANGED diskDeletingMap
       \/ GaveUp(p) /\ MarkIn(diskDeletingMap, diskOf(p), "error") /\ UNCHANGED pvcCreatedMap
    /\ UNCHANGED <<diskIdPvMap, diskProcessingMap, diskAttachingMap, diskDetachingMap>>

DeleteDone(p) ==
    /\ pc[p] = "dDone" /\ Return(p, "ok")
    /\ diskIdPvMap' = [diskIdPvMap EXCEPT ![diskOf(p)] = NoPv]
    /\ MarkIn(diskDeletingMap, diskOf(p), "none")
    /\ UNCHANGED <<pvcCreatedMap, diskProcessingMap, diskAttachingMap, diskDetachingMap, cloud>>

----------------------------------------------------------------------------
(* ControllerPublishVolume.                                                *)

PublishMark(p) ==
    /\ pc[p] = "pMark"
    /\ \/ diskAttachingMap[diskOf(p)] # "none" /\ Refuse(p)
       \/ diskAttachingMap[diskOf(p)] = "none" /\ Continue(p, "pInfo")

(* A disk that is neither mounted, deleted nor broken is attached as it is.*)
PublishInfo(p) ==
    /\ pc[p] = "pInfo"
    /\ \/ Refuse(p)
       \/ /\ Mounted(diskOf(p))
          /\ \/ disk[diskOf(p)].node = nodeOf(p) /\ Succeed(p)
             \/ disk[diskOf(p)].node # nodeOf(p) /\ Continue(p, "pReady")
       \/ /\ Exists(diskOf(p)) /\ disk[diskOf(p)].state # "broken" /\ ~ Mounted(diskOf(p))
          /\ Continue(p, "pSubmit")

(* The disk is attached elsewhere: that node is Ready, or it is not and    *)
(* the disk is detached by force.                                          *)
PublishReady(p) == pc[p] = "pReady" /\ (Refuse(p) \/ Continue(p, "fSubmit"))

ForceDetachSubmit(p) == StartTask(p, "fSubmit", "fStore", "detach", NoNode)
PublishSubmit(p) == StartTask(p, "pSubmit", "pStore", "attach", nodeOf(p))

MarkAttaching(p, at, to) ==
    /\ pc[p] = at /\ Goto(p, to)
    /\ MarkIn(diskAttachingMap, diskOf(p), "attaching")
    /\ UNCHANGED <<caches, diskProcessingMap, diskDeletingMap, diskDetachingMap, cloud>>
ForceDetachStore(p) == MarkAttaching(p, "fStore", "fPoll")
PublishStore(p) == MarkAttaching(p, "pStore", "pPoll")

(* The mark of the detach is still there when the attach is asked for, and *)
(* stays when that is refused.                                             *)
ForceDetachPoll(p) ==
    /\ pc[p] = "fPoll"
    /\ \/ Finished(p) /\ Goto(p, "pSubmit") /\ UNCHANGED diskAttachingMap
       \/ GaveUp(p) /\ MarkIn(diskAttachingMap, diskOf(p), "error")
    /\ UNCHANGED <<caches, diskProcessingMap, diskDeletingMap, diskDetachingMap>>

PublishPoll(p) ==
    /\ pc[p] = "pPoll"
    /\ \/ Finished(p) /\ Return(p, "ok") /\ MarkIn(diskAttachingMap, diskOf(p), "none")
       \/ GaveUp(p) /\ MarkIn(diskAttachingMap, diskOf(p), "error")
    /\ UNCHANGED <<caches, diskProcessingMap, diskDeletingMap, diskDetachingMap>>

----------------------------------------------------------------------------
(* ControllerUnpublishVolume.                                              *)

UnpublishMark(p) ==
    /\ pc[p] = "uMark"
    /\ \/ diskDetachingMap[diskOf(p)] # "none" /\ Refuse(p)
       \/ diskDetachingMap[diskOf(p)] = "none" /\ Continue(p, "uInfo")

(* Whatever its status is; an id the cloud no longer lists ends the        *)
(* process (DiskSlice[0] of no slice), which is one of the restarts.       *)
UnpublishInfo(p) ==
    /\ pc[p] = "uInfo"
    /\ \/ Refuse(p)
       \/ disk[diskOf(p)].node # nodeOf(p) /\ Succeed(p)
       \/ disk[diskOf(p)].node = nodeOf(p) /\ Continue(p, "uSubmit")

UnpublishSubmit(p) == StartTask(p, "uSubmit", "uStore", "detach", NoNode)

(* Fault: the mark of another operation is stored.                         *)
UnpublishStoreMistyped(p) ==
    /\ pc[p] = "uStore" /\ Goto(p, "uPoll")
    /\ MarkIn(diskDetachingMap, diskOf(p), "attaching")
    /\ UNCHANGED <<caches, diskProcessingMap, diskDeletingMap, diskAttachingMap, cloud>>

UnpublishStore(p) ==
    /\ pc[p] = "uStore" /\ Goto(p, "uPoll")
    /\ MarkIn(diskDetachingMap, diskOf(p), "detaching")
    /\ UNCHANGED <<caches, diskProcessingMap, diskDeletingMap, diskAttachingMap, cloud>>

UnpublishPoll(p) ==
    /\ pc[p] = "uPoll"
    /\ \/ Finished(p) /\ Return(p, "ok") /\ MarkIn(diskDetachingMap, diskOf(p), "none")
       \/ GaveUp(p) /\ MarkIn(diskDetachingMap, diskOf(p), "error")
    /\ UNCHANGED <<caches, diskProcessingMap, diskDeletingMap, diskAttachingMap>>

----------------------------------------------------------------------------
(* The environment.                                                        *)

Restart ==
    /\ MayRestart
    /\ ForgetAll
    /\ pc' = [p \in Proc |-> "idle"]
    /\ job' = [p \in Proc |-> NoRequest]
    /\ res' = [p \in Proc |-> "none"]
    /\ pvcCreatedMap' = [v \in Pv |-> NoDisk]
    /\ diskIdPvMap' = [d \in Disk |-> NoPv]
    /\ diskProcessingMap' = [v \in Pv |-> "none"]
    /\ diskDeletingMap' = [d \in Disk |-> "none"]
    /\ diskAttachingMap' = [d \in Disk |-> "none"]
    /\ diskDetachingMap' = [d \in Disk |-> "none"]
    /\ UNCHANGED volumes

CloudStep == CloudNext /\ UNCHANGED <<goroutines, caches, marks, volumes>>

----------------------------------------------------------------------------
CreateVolume(p) ==
    \/ CreateCached(p) \/ CreateMark(p) \/ CreateAgain(p) \/ CreateSubmit(p)
    \/ CreateStore(p) \/ CreatePoll(p) \/ CreateKeep(p)

DeleteVolume(p) ==
    \/ DeleteMark(p) \/ DeleteInfo(p) \/ DeleteSubmit(p) \/ DeleteStore(p)
    \/ DeletePoll(p) \/ DeleteDone(p)

ControllerPublishVolume(p) ==
    \/ PublishMark(p) \/ PublishInfo(p) \/ PublishReady(p)
    \/ ForceDetachSubmit(p) \/ ForceDetachStore(p) \/ ForceDetachPoll(p)
    \/ PublishSubmit(p) \/ PublishStore(p) \/ PublishPoll(p)

ControllerUnpublishVolume(p) ==
    \/ UnpublishMark(p) \/ UnpublishInfo(p) \/ UnpublishSubmit(p)
    \/ UnpublishStore(p) \/ UnpublishPoll(p)

Handle(p) ==
    \/ CreateVolume(p) \/ DeleteVolume(p)
    \/ ControllerPublishVolume(p) \/ ControllerUnpublishVolume(p) \/ Answer(p)

Next ==
    \/ \E p \in Proc : Handle(p) \/ (\E r \in Requests : Start(p, r))
    \/ Restart
    \/ CloudStep

Spec == Init /\ [][Next]_vars

----------------------------------------------------------------------------
(* Properties.                                                             *)

(* A name marked "creating" and a disk marked "deleting" or "detaching"    *)
(* are so by a request that still runs and will take the mark away, even   *)
(* when two requests share the one mark.  (Not so "attaching".)            *)
MarksOwned ==
    /\ \A v \in Pv : diskProcessingMap[v] = "creating" =>
          \E p \in Proc : pc[p] = "cPoll" /\ pvOf(p) = v
    /\ \A d \in Disk : diskDeletingMap[d] = "deleting" =>
          \E p \in Proc : pc[p] \in {"dPoll", "dDone"} /\ diskOf(p) = d
    /\ \A d \in Disk : diskDetachingMap[d] = "detaching" =>
          \E p \in Proc : pc[p] = "uPoll" /\ diskOf(p) = d

(* What CreateVolume answers from its cache is a disk that was made for    *)
(* the name and that a delete will find there.                             *)
CacheConsistent ==
    \A v \in Pv : LET d == pvcCreatedMap[v] IN d # NoDisk =>
        diskIdPvMap[d] = v /\ disk[d].pv = v /\ disk[d].state \notin {"new", "broken"}

(* A delete that waited for the cloud leaves nothing to answer with.       *)
DeleteForgets ==
    \A p \in Proc : pc[p] = "dDone" =>
        /\ disk[diskOf(p)].state = "gone"
        /\ \A v \in Pv : pvcCreatedMap[v] # diskOf(p)
=============================================================================
