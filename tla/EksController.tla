--------------------------- MODULE EksController ---------------------------
(***************************************************************************)
(* The controller service of the EKS driver                                *)
(* (pkg/driver/eks_block/controllerserver.go and cache.go).  A goroutine   *)
(* is a p \in Proc, an action one use of CacheLockMap or one call of the   *)
(* cloud or of the Kubernetes API.                                         *)
(*                                                                         *)
(* Nothing is remembered but the locks: what a name or an id stands for is *)
(* asked of the cloud each time.  Names, nodes and disks are locked in one *)
(* map, by functions of their own (deleteDisk, attachDisk, detachDisk), so *)
(* that a publish that detaches by force gives its locks back before it    *)
(* locks again to attach.                                                  *)
(***************************************************************************)
EXTENDS CloudDisk

CONSTANTS NoDisk,
          Requests,        \* the requests the sidecars may send
          DiskMountLimit,  \* disks a node may have: 14
          Flapping,        \* nodes whose Ready condition may change
          MayRestart       \* whether the controller may restart

Request == [op : {"create", "delete", "publish", "unpublish"},
            pv : Pv \union {NoPv}, disk : Disk \union {NoDisk}, node : Node \union {NoNode}]

ASSUME EksAssumption ==
    /\ NoDisk \notin Disk
    /\ Pv \intersect Disk = {} /\ Pv \intersect Node = {} /\ Node \intersect Disk = {}
    /\ NoPv \notin Disk \union Node /\ NoDisk \notin Pv \union Node /\ NoNode \notin Pv \union Disk
    /\ DiskMountLimit \in Nat /\ Flapping \subseteq Node /\ MayRestart \in BOOLEAN
    /\ Requests \subseteq Request
    /\ \A r \in Requests : /\ r.op = "create" => r.pv # NoPv
                           /\ r.op # "create" => r.disk # NoDisk
                           /\ r.op \in {"publish", "unpublish"} => r.node # NoNode

VARIABLES pc, job, res,        \* a goroutine: where it is, its request, its answer
          held,                \* ... the ids it will delete from CacheLockMap
          diskMountedNodeID,   \* ... and the node it saw its disk attached to
          CacheLockMap,        \* the names, nodes and disks that are locked
          unmountFailed,       \* attached disks whose last detach failed
          ready,               \* nodes whose Ready condition is "True"
          volumes              \* disks whose id Kubernetes has been told

Id == Pv \union Node \union Disk

goroutines == <<pc, job, res, held, diskMountedNodeID>>
cloud == <<disk, outcome, unmountFailed>>
vars == <<goroutines, CacheLockMap, cloud, ready, volumes>>

Location ==
    {"idle", "ret",
     "cLimit", "cLock", "cInfo", "cSubmit", "cPoll",
     "dInfo", "dLock", "dSubmit", "dPoll",
     "pInfo", "pReady", "fNode", "fDisk", "fSubmit", "fPoll", "fDone",
     "pNum", "pNode", "pDisk", "pSubmit", "pPoll",
     "uInfo", "uNode", "uDisk", "uSubmit", "uPoll"}
NoRequest == [op |-> "create", pv |-> NoPv, disk |-> NoDisk, node |-> NoNode]

TypeOK ==
    /\ CloudTypeOK
    /\ pc \in [Proc -> Location]
    /\ job \in [Proc -> Request]
    /\ res \in [Proc -> {"none", "ok", "err"}]
    /\ held \in [Proc -> SUBSET Id]
    /\ diskMountedNodeID \in [Proc -> Node \union {NoNode}]
    /\ CacheLockMap \in SUBSET Id
    /\ unmountFailed \in SUBSET Disk
    /\ ready \in SUBSET Node
    /\ volumes \in SUBSET Disk

Idle ==
    /\ pc = [p \in Proc |-> "idle"]
    /\ job = [p \in Proc |-> NoRequest]
    /\ res = [p \in Proc |-> "none"]
    /\ held = [p \in Proc |-> {}]
    /\ diskMountedNodeID = [p \in Proc |-> NoNode]
    /\ CacheLockMap = {}

Init ==
    /\ CloudInit /\ Idle
    /\ unmountFailed = {} /\ ready = Node /\ volumes = Provisioned

----------------------------------------------------------------------------
(* How a goroutine moves.                                                  *)

pvOf(p) == job[p].pv
diskOf(p) == job[p].disk
nodeOf(p) == job[p].node

Goto(p, to) ==
    /\ pc' = [pc EXCEPT ![p] = to]
    /\ UNCHANGED <<job, res, held, diskMountedNodeID, CacheLockMap, ready, volumes>>

Return(p, r) ==
    /\ pc' = [pc EXCEPT ![p] = "ret"]
    /\ res' = [res EXCEPT ![p] = r]
    /\ UNCHANGED <<job, held, diskMountedNodeID, CacheLockMap, ready, volumes>>

Refuse(p) == Return(p, "err") /\ UNCHANGED cloud
Continue(p, to) == Goto(p, to) /\ UNCHANGED cloud
Succeed(p) == Return(p, "ok") /\ UNCHANGED cloud

(* A request arrives.  It names a disk that Kubernetes has a volume for.   *)
Start(p, r) ==
    /\ pc[p] = "idle"
    /\ r.op # "create" => r.disk \in volumes
    /\ pc' = [pc EXCEPT ![p] = CASE r.op = "create" -> "cLimit"
                                 [] r.op = "delete" -> "dInfo"
                                 [] r.op = "publish" -> "pInfo"
                                 [] r.op = "unpublish" -> "uInfo"]
    /\ job' = [job EXCEPT ![p] = r]
    /\ UNCHANGED <<res, held, diskMountedNodeID, CacheLockMap, cloud, ready, volumes>>

(* Fault: the id is stored whether or not it is there.                     *)
LockUnchecked(p, at, id, to) ==
    /\ pc[p] = at
    /\ pc' = [pc EXCEPT ![p] = to]
    /\ held' = [held EXCEPT ![p] = @ \union {id}]
    /\ CacheLockMap' = CacheLockMap \union {id}
    /\ UNCHANGED <<job, res, diskMountedNodeID, cloud, ready, volumes>>

(* LoadOrStore, refused when it loads, and the deferred Delete.            *)
Lock(p, at, id, to) ==
    /\ pc[p] = at
    /\ \/ id \in CacheLockMap /\ Refuse(p)
       \/ /\ id \notin CacheLockMap
          /\ pc' = [pc EXCEPT ![p] = to]
          /\ held' = [held EXCEPT ![p] = @ \union {id}]
          /\ CacheLockMap' = CacheLockMap \union {id}
          /\ UNCHANGED <<job, res, diskMountedNodeID, cloud, ready, volumes>>

(* The deferred calls, last to first: the disk was locked after the node.  *)
Unlock(p) ==
    /\ pc[p] \in {"ret", "fDone"}
    /\ \E id \in held[p] :
          /\ diskOf(p) \in held[p] => id = diskOf(p)
          /\ held' = [held EXCEPT ![p] = @ \ {id}]
          /\ CacheLockMap' = CacheLockMap \ {id}
    /\ UNCHANGED <<pc, job, res, diskMountedNodeID, cloud, ready, volumes>>

Answer(p) ==
    /\ pc[p] = "ret" /\ held[p] = {}
    /\ pc' = [pc EXCEPT ![p] = "idle"]
    /\ job' = [job EXCEPT ![p] = NoRequest]
    /\ res' = [res EXCEPT ![p] = "none"]
    /\ diskMountedNodeID' = [diskMountedNodeID EXCEPT ![p] = NoNode]
    /\ volumes' = IF job[p].op = "create" /\ res[p] = "ok" THEN volumes \union {diskOf(p)}
                  ELSE volumes
    /\ UNCHANGED <<held, CacheLockMap, cloud, ready>>

(* One call that starts a task: accepted, accepted with the answer lost,   *)
(* or refused, with an error as every Code but "Success" is.               *)
StartTask(p, at, to, kind, n) ==
    /\ pc[p] = at
    /\ \/ /\ \/ Goto(p, to) /\ Submit(p, diskOf(p), kind, n)
             \/ Return(p, "err") /\ Submit(NoProc, diskOf(p), kind, n)
          /\ unmountFailed' = unmountFailed \ {diskOf(p)}
       \/ Refuse(p)

(* waitTaskFinish: until the task finishes or fails, or 151 polls are over.*)
GiveUp(p) == Return(p, "err") /\ Forget(p, diskOf(p)) /\ UNCHANGED unmountFailed
TaskDone(p) == outcome[p] = "finish"
ClearOutcome(p) ==
    outcome' = [outcome EXCEPT ![p] = "none"] /\ UNCHANGED <<disk, unmountFailed>>

WaitTask(p, at) ==
    /\ pc[p] = at
    /\ \/ TaskDone(p) /\ Return(p, "ok") /\ ClearOutcome(p)
       \/ GiveUp(p)

----------------------------------------------------------------------------
(* CreateVolume.                                                           *)

(* The request is validated and the zone's quota asked for.  A quota of    *)
(* nothing is answered with nil, nil, which gRPC makes an error of.        *)
CreateCheck(p) == pc[p] = "cLimit" /\ (Refuse(p) \/ Continue(p, "cLock"))

(* Fault: the name is not looked up.                                       *)
CreateInfoSkipped(p) == pc[p] = "cInfo" /\ (Refuse(p) \/ Continue(p, "cSubmit"))

BlocksNamed(v) == {d \in Disk : disk[d].pv = v /\ Exists(d)}

(* Fault: a block that is being made, or could not be, is answered.        *)
CreateInfoAnyStatus(p) ==
    /\ pc[p] = "cInfo"
    /\ \/ Refuse(p)
       \/ BlocksNamed(pvOf(p)) = {} /\ Continue(p, "cSubmit")
       \/ \E d \in BlocksNamed(pvOf(p)) :
             /\ pc' = [pc EXCEPT ![p] = "ret"]
             /\ res' = [res EXCEPT ![p] = "ok"]
             /\ job' = [job EXCEPT ![p].disk = d]
             /\ UNCHANGED <<held, diskMountedNodeID, CacheLockMap, cloud, ready, volumes>>

(* describeBlockInfo by name.  A block that is being made or could not be  *)
(* is refused, any other is the answer.                                    *)
CreateInfo(p) ==
    /\ pc[p] = "cInfo"
    /\ \/ Refuse(p)
       \/ BlocksNamed(pvOf(p)) = {} /\ Continue(p, "cSubmit")
       \/ \E d \in BlocksNamed(pvOf(p)) :
             /\ disk[d].state \notin {"new", "broken"}
             /\ pc' = [pc EXCEPT ![p] = "ret"]
             /\ res' = [res EXCEPT ![p] = "ok"]
             /\ job' = [job EXCEPT ![p].disk = d]
             /\ UNCHANGED <<held, diskMountedNodeID, CacheLockMap, cloud, ready, volumes>>

CreateSubmit(p) ==
    /\ pc[p] = "cSubmit"
    /\ \/ /\ \E d \in Disk :
             \/ /\ SubmitCreate(p, d, pvOf(p))
                /\ pc' = [pc EXCEPT ![p] = "cPoll"]
                /\ job' = [job EXCEPT ![p].disk = d]
                /\ UNCHANGED <<res, held, diskMountedNodeID, CacheLockMap, ready, volumes>>
             \/ SubmitCreate(NoProc, d, pvOf(p)) /\ Return(p, "err")
          /\ UNCHANGED unmountFailed
       \/ Refuse(p)

CreatePoll(p) == WaitTask(p, "cPoll")

----------------------------------------------------------------------------
(* DeleteVolume.                                                           *)

Running(d) == disk[d].state = "attached" /\ disk[d].task = "none" /\ d \notin unmountFailed
Waiting(d) == disk[d].state = "free" /\ disk[d].task = "none"
UnmountFailed(d) == disk[d].state = "attached" /\ disk[d].task = "none" /\ d \in unmountFailed

DeleteInfo(p) ==
    /\ pc[p] = "dInfo"
    /\ \/ Refuse(p)
       \/ ~ Exists(diskOf(p)) /\ Succeed(p)
       \/ /\ \/ Waiting(diskOf(p)) \/ UnmountFailed(diskOf(p))
             \/ disk[diskOf(p)].state = "broken"
          /\ Continue(p, "dLock")

DeleteSubmit(p) == StartTask(p, "dSubmit", "dPoll", "delete", NoNode)
DeletePoll(p) == WaitTask(p, "dPoll")

----------------------------------------------------------------------------
(* ControllerPublishVolume.                                                *)

(* Fault: the disk's id is kept for that of its node.                      *)
PublishInfoMistyped(p) ==
    /\ pc[p] = "pInfo"
    /\ pc' = [pc EXCEPT ![p] = "pReady"]
    /\ diskMountedNodeID' = [diskMountedNodeID EXCEPT ![p] = diskOf(p)]
    /\ UNCHANGED <<job, res, held, CacheLockMap, cloud, ready, volumes>>

PublishInfo(p) ==
    /\ pc[p] = "pInfo"
    /\ \/ Refuse(p)
       \/ Waiting(diskOf(p)) /\ Continue(p, "pNum")
       \/ Running(diskOf(p)) /\ disk[diskOf(p)].node = nodeOf(p) /\ Succeed(p)
       \/ /\ Running(diskOf(p)) /\ disk[diskOf(p)].node # nodeOf(p)
          /\ pc' = [pc EXCEPT ![p] = "pReady"]
          /\ diskMountedNodeID' = [diskMountedNodeID EXCEPT ![p] = disk[diskOf(p)].node]
          /\ UNCHANGED <<job, res, held, CacheLockMap, cloud, ready, volumes>>

(* The disk is attached elsewhere: detached by force unless that node is   *)
(* Ready.                                                                  *)
PublishReady(p) ==
    /\ pc[p] = "pReady"
    /\ \/ Refuse(p)
       \/ diskMountedNodeID[p] \notin ready /\ Continue(p, "fNode")

ForceDetachSubmit(p) == StartTask(p, "fSubmit", "fPoll", "detach", NoNode)
ForceDetachPoll(p) ==
    /\ pc[p] = "fPoll"
    /\ \/ TaskDone(p) /\ Goto(p, "fDone") /\ ClearOutcome(p)
       \/ GiveUp(p)
ForceDetachDone(p) == pc[p] = "fDone" /\ held[p] = {} /\ Continue(p, "pNum")

(* describeNodeMountNum: the node must run and have room.                  *)
PublishNum(p) ==
    /\ pc[p] = "pNum"
    /\ \/ Refuse(p)
       \/ /\ Cardinality(DisksOf(nodeOf(p))) + 1 <= DiskMountLimit
          /\ Continue(p, "pNode")

PublishSubmit(p) == StartTask(p, "pSubmit", "pPoll", "attach", nodeOf(p))
PublishPoll(p) == WaitTask(p, "pPoll")

----------------------------------------------------------------------------
(* ControllerUnpublishVolume.                                              *)

UnpublishInfo(p) ==
    /\ pc[p] = "uInfo"
    /\ \/ Refuse(p)
       \/ (~ Exists(diskOf(p)) \/ Waiting(diskOf(p))) /\ Succeed(p)
       \/ /\ Running(diskOf(p)) \/ UnmountFailed(diskOf(p))
          /\ \/ disk[diskOf(p)].node # nodeOf(p) /\ Succeed(p)
             \/ disk[diskOf(p)].node = nodeOf(p) /\ Continue(p, "uNode")

UnpublishSubmit(p) == StartTask(p, "uSubmit", "uPoll", "detach", NoNode)

(* Fault: success is answered without waiting.                             *)
UnpublishPollSkipped(p) ==
    /\ pc[p] = "uPoll"
    /\ \/ Return(p, "ok") /\ Forget(p, diskOf(p)) /\ UNCHANGED unmountFailed
       \/ GiveUp(p)

UnpublishPoll(p) == WaitTask(p, "uPoll")

----------------------------------------------------------------------------
(* The environment.                                                        *)

Restart ==
    /\ MayRestart
    /\ ForgetAll
    /\ pc' = [p \in Proc |-> "idle"]
    /\ job' = [p \in Proc |-> NoRequest]
    /\ res' = [p \in Proc |-> "none"]
    /\ held' = [p \in Proc |-> {}]
    /\ diskMountedNodeID' = [p \in Proc |-> NoNode]
    /\ CacheLockMap' = {}
    /\ UNCHANGED <<unmountFailed, ready, volumes>>

NodeFlips(n) ==
    /\ n \in Flapping
    /\ ready' = IF n \in ready THEN ready \ {n} ELSE ready \union {n}
    /\ UNCHANGED <<goroutines, CacheLockMap, cloud, volumes>>

CloudStep ==
    /\ \E d \in Disk :
          \/ TaskFinishes(d) /\ UNCHANGED unmountFailed
          \/ /\ TaskFails(d)
             /\ unmountFailed' = IF disk[d].task = "detach" /\ disk[d].state = "attached"
                                 THEN unmountFailed \union {d} ELSE unmountFailed
    /\ UNCHANGED <<goroutines, CacheLockMap, ready, volumes>>

----------------------------------------------------------------------------
CreateVolume(p) ==
    \/ CreateCheck(p) \/ Lock(p, "cLock", pvOf(p), "cInfo") \/ CreateInfo(p)
    \/ CreateSubmit(p) \/ CreatePoll(p)

DeleteVolume(p) ==
    \/ DeleteInfo(p) \/ Lock(p, "dLock", diskOf(p), "dSubmit") \/ DeleteSubmit(p)
    \/ DeletePoll(p)

ControllerPublishVolume(p) ==
    \/ PublishInfo(p) \/ PublishReady(p)
    \/ Lock(p, "fNode", diskMountedNodeID[p], "fDisk") \/ Lock(p, "fDisk", diskOf(p), "fSubmit")
    \/ ForceDetachSubmit(p) \/ ForceDetachPoll(p) \/ ForceDetachDone(p)
    \/ PublishNum(p)
    \/ Lock(p, "pNode", nodeOf(p), "pDisk") \/ Lock(p, "pDisk", diskOf(p), "pSubmit")
    \/ PublishSubmit(p) \/ PublishPoll(p)

ControllerUnpublishVolume(p) ==
    \/ UnpublishInfo(p)
    \/ Lock(p, "uNode", nodeOf(p), "uDisk") \/ Lock(p, "uDisk", diskOf(p), "uSubmit")
    \/ UnpublishSubmit(p) \/ UnpublishPoll(p)

Handle(p) ==
    \/ CreateVolume(p) \/ DeleteVolume(p)
    \/ ControllerPublishVolume(p) \/ ControllerUnpublishVolume(p)
    \/ Unlock(p) \/ Answer(p)

Next ==
    \/ \E p \in Proc : Handle(p) \/ (\E r \in Requests : Start(p, r))
    \/ Restart
    \/ \E n \in Node : NodeFlips(n)
    \/ CloudStep

Spec == Init /\ [][Next]_vars

----------------------------------------------------------------------------
(* Properties.                                                             *)

(* CacheLockMap is a lock: an id in it is that of exactly one request in   *)
(* progress, which will delete it, although one publish locks, unlocks and *)
(* locks again, and names, nodes and disks share the map.                  *)
CacheLocksOwned ==
    /\ CacheLockMap = UNION {held[p] : p \in Proc}
    /\ \A p, q \in Proc : p # q => held[p] \intersect held[q] = {}

(* At most one block exists of a name, whatever answers were lost and      *)
(* however often the controller restarted while it was being made: what    *)
(* keeps a retried CreateVolume from ordering another is the look-up by    *)
(* name under the lock of the name.                                        *)
OneBlockPerName == \A v \in Pv : Cardinality(BlocksNamed(v)) <= 1

(* What Kubernetes was told is the volume is a disk whose creation ended.  *)
ToldIsCreated == \A d \in volumes : disk[d].state \notin {"new", "broken"}

(* A success that was waited for holds until the disk is let go: after a   *)
(* finished attach it is on the requested node, after a finished detach it *)
(* is not, and after a finished delete it is gone.                         *)
AnswerHoldsUnderLock ==
    \A p \in Proc : pc[p] = "ret" /\ res[p] = "ok" /\ diskOf(p) \in held[p] =>
        /\ job[p].op = "publish" => AttachedTo(diskOf(p), nodeOf(p))
        /\ job[p].op = "unpublish" => ~ AttachedTo(diskOf(p), nodeOf(p))
        /\ job[p].op = "delete" => disk[diskOf(p)].state = "gone"

(* The request whose entry keeps the others off a disk; the tasks that     *)
(* move a disk and that nobody waits for.                                  *)
HolderOf(d) == IF \E p \in Proc : d \in held[p] THEN CHOOSE p \in Proc : d \in held[p] ELSE NoProc
StrayDisks == {d \in Disk : disk[d].task \in {"attach", "detach"} /\ disk[d].by = NoProc}

(* The controller implements the abstract owner of the disks: a disk is    *)
(* attached and detached only by the one request that holds it, or by a    *)
(* task such a request left behind.                                        *)
Ownership == INSTANCE DiskOwnership WITH
    holder <- [d \in Disk |-> HolderOf(d)],
    place <- [d \in Disk |-> disk[d].node],
    stray <- StrayDisks
OwnsDisks == Ownership!Spec
=============================================================================
