--------------------------- MODULE CcsController ---------------------------
(***************************************************************************)
(* The controller service of the CCS driver                                *)
(* (pkg/driver/ccsdisk/controllerserver.go and ccsapi.go).  As in          *)
(* EbsController a goroutine is a p \in Proc and an action one call of the *)
(* cloud, one call of the Kubernetes API or one use of VolumeLocks; but    *)
(* every handler takes the lock of its volume before it looks at the disk  *)
(* and keeps it until it returns, tasks are polled by looking at the disk, *)
(* and what CreateVolume made is recorded in a ConfigMap.                  *)
(*                                                                         *)
(* An answer "nil, nil" reaches the sidecar as an error, since gRPC does   *)
(* not marshal a nil message.                                              *)
(***************************************************************************)
EXTENDS CloudDisk

CONSTANTS NoDisk,
          Requests,      \* the requests the sidecars may send
          MaxDiskCount,  \* disks a node may have: 14
          Flapping,      \* nodes whose Ready condition may change
          MayRestart     \* whether the controller may restart

Request == [op : {"create", "delete", "publish", "unpublish"},
            pv : Pv \union {NoPv}, disk : Disk \union {NoDisk}, node : Node \union {NoNode}]

ASSUME CcsAssumption ==
    /\ NoDisk \notin Disk /\ Pv \intersect Disk = {}
    /\ MaxDiskCount \in Nat /\ Flapping \subseteq Node /\ MayRestart \in BOOLEAN
    /\ Requests \subseteq Request
    /\ \A r \in Requests : /\ r.op = "create" => r.pv # NoPv
                           /\ r.op # "create" => r.disk # NoDisk
                           /\ r.op \in {"publish", "unpublish"} => r.node # NoNode

VARIABLES pc, job, res,    \* a goroutine: where it is, its request, its answer
          holding,         \* ... whether it has deferred a Release
          currentPV,       \* ... the PersistentVolumes it has listed
          locks,           \* VolumeLocks
          records, formatted, current,    \* the ConfigMap
          failed,          \* disks whose last task failed: TaskStatus "error"
          ready,           \* nodes whose Ready condition is "True"
          volumes,         \* disks whose id Kubernetes has been told
          pvs              \* the PersistentVolumes there are

INSTANCE VolumeLocks
INSTANCE VolumeRecord

goroutines == <<pc, job, res, holding, currentPV>>
configMap == <<records, formatted, current>>
cloud == <<disk, outcome, failed>>
kubernetes == <<ready, volumes, pvs>>
vars == <<goroutines, locks, configMap, cloud, kubernetes>>

Location ==
    {"idle", "ret",
     "cCheck", "cLock", "cSubmit", "cGet", "cSave", "cPoll",
     "dLock", "dInfo", "dList", "dGet", "dForget", "dSubmit", "dPoll",
     "pLock", "pInfo", "pReady", "fSubmit", "fPoll", "pCount", "pSubmit", "pPoll",
     "uLock", "uInfo", "uSubmit", "uPoll"}
NoRequest == [op |-> "create", pv |-> NoPv, disk |-> NoDisk, node |-> NoNode]

TypeOK ==
    /\ CloudTypeOK /\ RecordTypeOK
    /\ pc \in [Proc -> Location]
    /\ job \in [Proc -> Request]
    /\ res \in [Proc -> {"none", "ok", "err"}]
    /\ holding \in [Proc -> BOOLEAN]
    /\ currentPV \in [Proc -> SUBSET Pv]
    /\ locks \in SUBSET (Pv \union Disk)
    /\ failed \in SUBSET Disk
    /\ ready \in SUBSET Node
    /\ volumes \in SUBSET Disk
    /\ pvs \in SUBSET Pv

Idle ==
    /\ pc = [p \in Proc |-> "idle"]
    /\ job = [p \in Proc |-> NoRequest]
    /\ res = [p \in Proc |-> "none"]
    /\ holding = [p \in Proc |-> FALSE]
    /\ currentPV = [p \in Proc |-> {}]

Init ==
    /\ CloudInit /\ RecordInit /\ LocksInit /\ Idle
    /\ failed = {} /\ ready = Node /\ volumes = Provisioned /\ pvs = {}

----------------------------------------------------------------------------
(* How a goroutine moves.                                                  *)

pvOf(p) == job[p].pv
diskOf(p) == job[p].disk
nodeOf(p) == job[p].node
lockId(p) == IF job[p].op = "create" THEN pvOf(p) ELSE diskOf(p)

Goto(p, to) ==
    /\ pc' = [pc EXCEPT ![p] = to]
    /\ UNCHANGED <<job, res, holding, currentPV, kubernetes>>

Return(p, r) ==
    /\ pc' = [pc EXCEPT ![p] = "ret"]
    /\ res' = [res EXCEPT ![p] = r]
    /\ UNCHANGED <<job, holding, currentPV, kubernetes>>

shared == <<locks, configMap, cloud>>

(* A call fails, or a check refuses the request, before anything changed.  *)
Refuse(p) == Return(p, "err") /\ UNCHANGED shared
Continue(p, to) == Goto(p, to) /\ UNCHANGED shared

(* A request arrives.  It names a disk that Kubernetes has a volume for.   *)
Start(p, r) ==
    /\ pc[p] = "idle"
    /\ r.op # "create" => r.disk \in volumes
    /\ pc' = [pc EXCEPT ![p] = CASE r.op = "create" -> "cCheck"
                                 [] r.op = "delete" -> "dLock"
                                 [] r.op = "publish" -> "pLock"
                                 [] r.op = "unpublish" -> "uLock"]
    /\ job' = [job EXCEPT ![p] = r]
    /\ UNCHANGED <<res, holding, currentPV, shared, kubernetes>>

(* Fault: the lock is taken whether or not somebody has it.                *)
LockVolumeUnchecked(p, at, to) ==
    /\ pc[p] = at
    /\ locks' = locks \union {lockId(p)}
    /\ pc' = [pc EXCEPT ![p] = to]
    /\ holding' = [holding EXCEPT ![p] = TRUE]
    /\ UNCHANGED <<job, res, currentPV, configMap, cloud, kubernetes>>

(* TryAcquire, answered Aborted when taken, and the deferred Release.      *)
LockVolume(p, at, to) ==
    /\ pc[p] = at
    /\ \/ /\ lockId(p) \in locks
          /\ Refuse(p)
       \/ /\ TryAcquire(lockId(p))
          /\ pc' = [pc EXCEPT ![p] = to]
          /\ holding' = [holding EXCEPT ![p] = TRUE]
          /\ UNCHANGED <<job, res, currentPV, configMap, cloud, kubernetes>>

RunDeferred(p) ==
    /\ pc[p] = "ret" /\ holding[p]
    /\ Release(lockId(p))
    /\ holding' = [holding EXCEPT ![p] = FALSE]
    /\ UNCHANGED <<pc, job, res, currentPV, configMap, cloud, kubernetes>>

Answer(p) ==
    /\ pc[p] = "ret" /\ ~ holding[p]
    /\ pc' = [pc EXCEPT ![p] = "idle"]
    /\ job' = [job EXCEPT ![p] = NoRequest]
    /\ res' = [res EXCEPT ![p] = "none"]
    /\ currentPV' = [currentPV EXCEPT ![p] = {}]
    /\ current' = current \ {p}
    /\ volumes' = IF job[p].op = "create" /\ res[p] = "ok" THEN volumes \union {diskOf(p)}
                  ELSE volumes
    /\ UNCHANGED <<holding, locks, records, formatted, cloud, ready, pvs>>

(* One call that starts a task: accepted, accepted with the answer lost,   *)
(* or refused.  Nobody keeps the task's id.                                *)
StartTask(p, at, to, kind, n) ==
    /\ pc[p] = at
    /\ \/ /\ Goto(p, to) \/ Return(p, "err")
          /\ Submit(NoProc, diskOf(p), kind, n)
          /\ failed' = failed \ {diskOf(p)}
          /\ UNCHANGED <<locks, configMap>>
       \/ Refuse(p)

(* What getDiskInfo says: IsValid and Mounted, and TaskStatus "doing".  Of *)
(* a disk that is being created, or could not be, IsValid may be either.   *)
MaybeValid(d) == disk[d].state # "gone"
MaybeInvalid(d) == disk[d].state \notin {"free", "attached"}
Mounted(d) == disk[d].state = "attached"
Doing(d) == disk[d].task # "none"

(* check...DiskState: the disk is looked at up to 119 times (59 for a      *)
(* delete); an API error, TaskStatus "error" and the last time end it.     *)
Poll(p, at, done, to) ==
    /\ pc[p] = at
    /\ \/ done /\ Continue(p, to)
       \/ Refuse(p)

PollAndAnswer(p, at, done) ==
    /\ pc[p] = at
    /\ \/ done /\ Return(p, "ok") /\ UNCHANGED shared
       \/ Refuse(p)

----------------------------------------------------------------------------
(* CreateVolume.                                                           *)

CreateCheck(p) ==
    /\ pc[p] = "cCheck"
    /\ \/ Refuse(p)
       \/ /\ records[pvOf(p)] # NoDisk        \* "has been created, skip this"
          /\ pc' = [pc EXCEPT ![p] = "ret"]
          /\ res' = [res EXCEPT ![p] = "ok"]
          /\ job' = [job EXCEPT ![p].disk = records[pvOf(p)]]
          /\ UNCHANGED <<holding, currentPV, shared, kubernetes>>
       \/ records[pvOf(p)] = NoDisk /\ Continue(p, "cLock")

CreateSubmit(p) ==
    /\ pc[p] = "cSubmit"
    /\ \/ \E d \in Disk :
           /\ SubmitCreate(NoProc, d, pvOf(p))
           /\ \/ /\ pc' = [pc EXCEPT ![p] = "cGet"]
                 /\ job' = [job EXCEPT ![p].disk = d]
                 /\ UNCHANGED <<res, holding, currentPV, kubernetes>>
              \/ Return(p, "err")
           /\ UNCHANGED <<locks, configMap, failed>>
       \/ Refuse(p)

(* saveVolumeInfo keeps a record that is there.                            *)
CreateGet(p) ==
    /\ pc[p] = "cGet"
    /\ \/ Refuse(p)
       \/ records[pvOf(p)] # NoDisk /\ Continue(p, "cPoll")
       \/ /\ records[pvOf(p)] = NoDisk
          /\ Goto(p, "cSave") /\ Get(p)
          /\ UNCHANGED <<locks, cloud>>

(* Fault: the name is stored for the disk.                                 *)
CreateSaveMistyped(p) ==
    /\ pc[p] = "cSave"
    /\ Goto(p, "cPoll")
    /\ Update(p, [records EXCEPT ![pvOf(p)] = pvOf(p)], formatted)
    /\ UNCHANGED <<locks, cloud>>

(* A conflict is wrapped in another error, so RetryOnConflict never sees   *)
(* one: the update is tried once.  Its answer may be lost.                 *)
CreateSave(p) ==
    /\ pc[p] = "cSave"
    /\ \/ /\ Goto(p, "cPoll") \/ Return(p, "err")
          /\ Update(p, [records EXCEPT ![pvOf(p)] = diskOf(p)], formatted)
          /\ UNCHANGED <<locks, cloud>>
       \/ Refuse(p)

CreatePoll(p) ==
    PollAndAnswer(p, "cPoll", disk[diskOf(p)].state \in {"free", "attached"})

----------------------------------------------------------------------------
(* DeleteVolume.                                                           *)

DeleteInfo(p) ==
    /\ pc[p] = "dInfo"
    /\ \/ Refuse(p)
       \/ /\ MaybeInvalid(diskOf(p))            \* "had been deleted, skip this"
          /\ Return(p, "ok") /\ UNCHANGED shared
       \/ /\ MaybeValid(diskOf(p)) /\ ~ Mounted(diskOf(p)) /\ ~ Doing(diskOf(p))
          /\ Continue(p, "dList")

(* deleteVolumeInfo removes the records of this disk, and the residual     *)
(* ones, of names that are no PersistentVolume's.                          *)
DeleteList(p) ==
    /\ pc[p] = "dList"
    /\ \/ Refuse(p)
       \/ /\ pc' = [pc EXCEPT ![p] = "dGet"]
          /\ currentPV' = [currentPV EXCEPT ![p] = pvs]
          /\ UNCHANGED <<job, res, holding, shared, kubernetes>>

Obsolete(p) ==
    {v \in Pv : records[v] # NoDisk /\ (records[v] = diskOf(p) \/ v \notin currentPV[p])}

(* Fault: the disk is deleted and its record is kept.                      *)
DeleteGetIgnored(p) == pc[p] = "dGet" /\ Continue(p, "dSubmit")

DeleteGet(p) ==
    /\ pc[p] = "dGet"
    /\ \/ Refuse(p)
       \/ Obsolete(p) = {} /\ Continue(p, "dSubmit")
       \/ /\ Obsolete(p) # {}
          /\ Goto(p, "dForget") /\ Get(p)
          /\ UNCHANGED <<locks, cloud>>

(* Each record, in any order, is removed by an update of its own, and all  *)
(* from the one copy: the second update is refused.                        *)
DeleteForget(p) ==
    /\ pc[p] = "dForget"
    /\ \/ \E v \in Obsolete(p) :
           /\ Update(p, [records EXCEPT ![v] = NoDisk], formatted \ {records[v]})
           /\ \/ Obsolete(p) = {v} /\ Goto(p, "dSubmit")
              \/ Return(p, "err")
           /\ UNCHANGED <<locks, cloud>>
       \/ Refuse(p)

DeleteSubmit(p) == StartTask(p, "dSubmit", "dPoll", "delete", NoNode)
DeletePoll(p) == PollAndAnswer(p, "dPoll", disk[diskOf(p)].state = "gone")

----------------------------------------------------------------------------
(* ControllerPublishVolume.                                                *)

(* A disk is not touched while a task runs or after one failed.            *)
PublishInfo(p) ==
    /\ pc[p] = "pInfo"
    /\ \/ Refuse(p)
       \/ /\ MaybeValid(diskOf(p)) /\ ~ Doing(diskOf(p)) /\ diskOf(p) \notin failed
          /\ \/ /\ AttachedTo(diskOf(p), nodeOf(p))
                /\ Return(p, "ok") /\ UNCHANGED shared
             \/ /\ Mounted(diskOf(p)) /\ ~ AttachedTo(diskOf(p), nodeOf(p))
                /\ Continue(p, "pReady")
             \/ /\ ~ Mounted(diskOf(p))
                /\ Continue(p, "pCount")

(* The disk is attached elsewhere: detached by force unless that node is   *)
(* Ready.  No one else can have moved it: it is locked.                    *)
PublishReady(p) ==
    /\ pc[p] = "pReady"
    /\ \/ Refuse(p)
       \/ disk[diskOf(p)].node \notin ready /\ Continue(p, "fSubmit")

(* The request's own node is named, and not the one the disk is on.        *)
ForceDetachSubmit(p) == StartTask(p, "fSubmit", "fPoll", "detach", nodeOf(p))
Detached(d) == disk[d].state = "free"
ForceDetachPoll(p) == Poll(p, "fPoll", Detached(diskOf(p)), "pCount")

(* checkDiskCount.  DiskCountLock is held for this one call only.          *)
PublishCount(p) ==
    /\ pc[p] = "pCount"
    /\ \/ Refuse(p)
       \/ /\ Cardinality(DisksOf(nodeOf(p))) < MaxDiskCount
          /\ Continue(p, "pSubmit")

PublishSubmit(p) == StartTask(p, "pSubmit", "pPoll", "attach", nodeOf(p))
PublishPoll(p) == PollAndAnswer(p, "pPoll", Mounted(diskOf(p)))

----------------------------------------------------------------------------
(* ControllerUnpublishVolume.                                              *)

(* Fault: a disk that is attached elsewhere is detached there.             *)
UnpublishInfoAnyNode(p) ==
    /\ pc[p] = "uInfo"
    /\ \/ Refuse(p)
       \/ /\ ~ Doing(diskOf(p)) /\ ~ Mounted(diskOf(p))
          /\ Return(p, "ok") /\ UNCHANGED shared
       \/ /\ ~ Doing(diskOf(p)) /\ Mounted(diskOf(p))
          /\ Continue(p, "uSubmit")

UnpublishInfo(p) ==
    /\ pc[p] = "uInfo"
    /\ \/ Refuse(p)
       \/ /\ ~ Doing(diskOf(p)) /\ ~ AttachedTo(diskOf(p), nodeOf(p))
          /\ Return(p, "ok") /\ UNCHANGED shared
       \/ /\ ~ Doing(diskOf(p)) /\ AttachedTo(diskOf(p), nodeOf(p))
          /\ Continue(p, "uSubmit")

UnpublishSubmit(p) == StartTask(p, "uSubmit", "uPoll", "detach", nodeOf(p))
UnpublishPoll(p) == PollAndAnswer(p, "uPoll", Detached(diskOf(p)))

----------------------------------------------------------------------------
(* The environment.                                                        *)

Restart ==
    /\ MayRestart
    /\ pc' = [p \in Proc |-> "idle"]
    /\ job' = [p \in Proc |-> NoRequest]
    /\ res' = [p \in Proc |-> "none"]
    /\ holding' = [p \in Proc |-> FALSE]
    /\ currentPV' = [p \in Proc |-> {}]
    /\ locks' = {} /\ current' = {}
    /\ UNCHANGED <<records, formatted, cloud, kubernetes>>

NodeFlips(n) ==
    /\ n \in Flapping
    /\ ready' = IF n \in ready THEN ready \ {n} ELSE ready \union {n}
    /\ UNCHANGED <<goroutines, shared, volumes, pvs>>

(* The PersistentVolume of a volume that was answered comes and goes.      *)
PvChanges(v) ==
    /\ \/ /\ \E d \in volumes : disk[d].pv = v
          /\ pvs' = pvs \union {v}
       \/ pvs' = pvs \ {v}
    /\ UNCHANGED <<goroutines, shared, ready, volumes>>

(* A node formats a disk that is attached to it, and marks it.             *)
NodeFormats(d) ==
    /\ Mounted(d) /\ d \notin formatted
    /\ MarkFormatted(d)
    /\ UNCHANGED <<goroutines, locks, cloud, kubernetes>>

(* What the cloud makes of a detach from a node the disk is not on is not  *)
(* in the repository: it may refuse it, fail it, detach the disk where it  *)
(* is, or end it without effect.                                           *)
DetachMisses(d) ==
    /\ disk[d].task = "detach" /\ ~ AttachedTo(d, disk[d].to)
    /\ EndTask(d, disk[d].state, disk[d].node, "finish")

CloudStep ==
    /\ \E d \in Disk :
          \/ (TaskFinishes(d) \/ DetachMisses(d)) /\ UNCHANGED failed
          \/ TaskFails(d) /\ failed' = failed \union {d}
    /\ UNCHANGED <<goroutines, locks, configMap, kubernetes>>

----------------------------------------------------------------------------
CreateVolume(p) ==
    \/ CreateCheck(p) \/ LockVolume(p, "cLock", "cSubmit") \/ CreateSubmit(p)
    \/ CreateGet(p) \/ CreateSave(p) \/ CreatePoll(p)

DeleteVolume(p) ==
    \/ LockVolume(p, "dLock", "dInfo") \/ DeleteInfo(p) \/ DeleteList(p) \/ DeleteGet(p)
    \/ DeleteForget(p) \/ DeleteSubmit(p) \/ DeletePoll(p)

ControllerPublishVolume(p) ==
    \/ LockVolume(p, "pLock", "pInfo") \/ PublishInfo(p) \/ PublishReady(p)
    \/ ForceDetachSubmit(p) \/ ForceDetachPoll(p) \/ PublishCount(p)
    \/ PublishSubmit(p) \/ PublishPoll(p)

ControllerUnpublishVolume(p) ==
    \/ LockVolume(p, "uLock", "uInfo") \/ UnpublishInfo(p) \/ UnpublishSubmit(p)
    \/ UnpublishPoll(p)

Handle(p) ==
    \/ CreateVolume(p) \/ DeleteVolume(p)
    \/ ControllerPublishVolume(p) \/ ControllerUnpublishVolume(p)
    \/ RunDeferred(p) \/ Answer(p)

Next ==
    \/ \E p \in Proc : Handle(p) \/ (\E r \in Requests : Start(p, r))
    \/ Restart
    \/ \E n \in Node : NodeFlips(n)
    \/ \E v \in Pv : PvChanges(v)
    \/ \E d \in Disk : NodeFormats(d)
    \/ CloudStep

Spec == Init /\ [][Next]_vars

----------------------------------------------------------------------------
(* Properties.                                                             *)

(* VolumeLocks excludes: an id in it is that of exactly one request in     *)
(* progress, which will release it, and no two requests work on one name   *)
(* or on one disk.                                                         *)
VolumeLocksOwned ==
    /\ \A id \in Pv \union Disk : id \in locks <=> \E p \in Proc : holding[p] /\ lockId(p) = id
    /\ \A p, q \in Proc : p # q /\ holding[p] /\ holding[q] => lockId(p) # lockId(q)

(* What a request saw of its disk is still so several calls later when it  *)
(* acts on it, although tasks whose answer was lost, requests that gave up *)
(* waiting and restarts leave tasks behind: a disk is detached from the    *)
(* request's node only while it is there, and by force only while it is on *)
(* another (which the code does not name to the cloud), it is attached or  *)
(* deleted only while it is nowhere, and no task runs on a disk that is    *)
(* sent another.                                                           *)
SeenStillHolds ==
    \A p \in Proc : LET d == diskOf(p) IN
        /\ pc[p] = "uSubmit" => AttachedTo(d, nodeOf(p))
        /\ pc[p] = "fSubmit" => Mounted(d) /\ ~ AttachedTo(d, nodeOf(p))
        /\ pc[p] \in {"pCount", "pSubmit", "dList", "dGet", "dForget", "dSubmit"} => ~ Mounted(d)
        /\ pc[p] \in {"uSubmit", "fSubmit", "pSubmit", "dSubmit"} => ~ Doing(d)

(* A success that was waited for holds until the disk is let go, although  *)
(* polling looks at the disk and not at the task that was started.         *)
AnswerHoldsUnderLock ==
    \A p \in Proc : pc[p] = "ret" /\ res[p] = "ok" /\ holding[p] =>
        /\ job[p].op = "publish" => AttachedTo(diskOf(p), nodeOf(p))
        /\ job[p].op = "unpublish" => ~ AttachedTo(diskOf(p), nodeOf(p))
        /\ job[p].op = "delete" => ~ Mounted(diskOf(p))

(* A record, which a repeated CreateVolume is answered with, names a disk  *)
(* that was made for that name and has not been deleted, although records  *)
(* and disks change in separate calls and a crash may come in between.     *)
RecordsNameTheirDisk ==
    \A v \in Pv : records[v] # NoDisk =>
        disk[records[v]].pv = v /\ disk[records[v]].state # "gone"

(* The controller logs "has been created, skip this" and answers success   *)
(* for a volume that has a record: then its disk has been created.         *)
RecordedIsCreated ==
    \A d \in volumes : disk[d].state \notin {"new", "broken"}
=============================================================================
