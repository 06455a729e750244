--------------------------- MODULE EbsController ---------------------------
(***************************************************************************)
(* The controller service of the EBS driver                                *)
(* (pkg/driver/ebs_disk/controllerserver.go).  gRPC runs every request in  *)
(* a goroutine of its own; here a goroutine is a p \in Proc and every      *)
(* action is one access to a shared sync.Map or one call of the cloud, so  *)
(* that requests interleave as they do in the program.  A request that     *)
(* must answer goes to "ret", where its deferred calls run last to first,  *)
(* and is then answered.                                                   *)
(*                                                                         *)
(* The maps are in memory only: Restart loses them and every request in    *)
(* progress, and no task of the cloud.                                     *)
(***************************************************************************)
EXTENDS CloudDisk

CONSTANTS NoDisk,
          Requests,     \* the requests the sidecars may send
          AttachLimit,  \* data disks a node may have: 16
          Flapping,     \* nodes whose Ready condition may change
          BadClass,     \* volumes whose StorageClass parameters do not parse
          MayRestart    \* whether the controller may restart

Request == [op : {"create", "delete", "publish", "unpublish"},
            pv : Pv \union {NoPv}, disk : Disk \union {NoDisk}, node : Node \union {NoNode}]

ASSUME EbsAssumption ==
    /\ NoDisk \notin Disk
    /\ AttachLimit \in Nat /\ Flapping \subseteq Node /\ BadClass \subseteq Pv
    /\ MayRestart \in BOOLEAN
    /\ Requests \subseteq Request
    /\ \A r \in Requests : /\ r.op = "create" => r.pv # NoPv
                           /\ r.op # "create" => r.disk # NoDisk
                           /\ r.op \in {"publish", "unpublish"} => r.node # NoNode

VARIABLES pc, job, res,        \* a goroutine: where it is, its request, its answer
          defers,              \* ... and the deferred calls it has registered
          diskMountedNodeID,   \* ... and the node it saw its disk attached to
          diskProcessingMap, pvcCreatedMap, diskIdPvMap, diskDeletingMap,
          diskAttachingMap, diskDetachingMap, diskEventIdMap,
          AttachDetachMap, DiskMultiTaskMap,
          ready,               \* nodes whose Ready condition is "True"
          volumes              \* disks whose id Kubernetes has been told

goroutines == <<pc, job, res, defers, diskMountedNodeID>>
provisioning == <<diskProcessingMap, pvcCreatedMap, diskIdPvMap, diskDeletingMap>>
attaching == <<diskAttachingMap, diskDetachingMap, diskEventIdMap>>
locks == <<AttachDetachMap, DiskMultiTaskMap>>
cloud == <<disk, outcome>>
vars == <<goroutines, provisioning, attaching, locks, cloud, ready, volumes>>

Location ==
    {"idle", "ret",
     "cLoad", "cGuard", "cQuota", "cSubmit", "cPoll", "cIdPv", "cPvc", "cDone",
     "dLoad", "dFind", "dGuard", "dSubmit", "dPoll", "dPvc", "dIdPv",
     "pLoad", "pFind", "pReady", "fNode", "fDisk", "fSubmit", "fMark", "fPoll", "fFail",
     "pCount", "pNode", "pDisk", "pSubmit", "pMark", "pPoll", "pFail", "pClear",
     "uEvent", "uLoad", "uFind", "uNode", "uDisk", "uSubmit", "uStore", "uMark",
     "uPoll", "uFail", "uClear"}
Deferred == {"creating", "deleting", "node", "disk", "event"}
NoRequest == [op |-> "create", pv |-> NoPv, disk |-> NoDisk, node |-> NoNode]

TypeOK ==
    /\ CloudTypeOK
    /\ pc \in [Proc -> Location]
    /\ job \in [Proc -> Request]
    /\ res \in [Proc -> {"none", "ok", "err"}]
    /\ defers \in [Proc -> SUBSET Deferred]
    /\ diskMountedNodeID \in [Proc -> Node \union {NoNode}]
    /\ diskProcessingMap \in [Pv -> {"none", "creating", "error"}]
    /\ pvcCreatedMap \in [Pv -> Disk \union {NoDisk}]
    /\ diskIdPvMap \in [Disk -> Pv \union {NoPv}]
    /\ diskDeletingMap \in [Disk -> {"none", "deleting"}]
    /\ diskAttachingMap \in [Disk -> {"none", "attaching", "error"}]
    /\ diskDetachingMap \in [Disk -> {"none", "detaching", "error"}]
    /\ diskEventIdMap \in [Node -> Proc \union {NoProc}]
    /\ AttachDetachMap \in SUBSET Node
    /\ DiskMultiTaskMap \in SUBSET Disk
    /\ ready \in SUBSET Node
    /\ volumes \in SUBSET Disk

MemoryInit ==
    /\ diskProcessingMap = [v \in Pv |-> "none"]
    /\ pvcCreatedMap = [v \in Pv |-> NoDisk]
    /\ diskIdPvMap = [d \in Disk |-> NoPv]
    /\ diskDeletingMap = [d \in Disk |-> "none"]
    /\ diskAttachingMap = [d \in Disk |-> "none"]
    /\ diskDetachingMap = [d \in Disk |-> "none"]
    /\ diskEventIdMap = [n \in Node |-> NoProc]
    /\ AttachDetachMap = {} /\ DiskMultiTaskMap = {}
    /\ pc = [p \in Proc |-> "idle"]
    /\ job = [p \in Proc |-> NoRequest]
    /\ res = [p \in Proc |-> "none"]
    /\ defers = [p \in Proc |-> {}]
    /\ diskMountedNodeID = [p \in Proc |-> NoNode]

Init == CloudInit /\ MemoryInit /\ ready = Node /\ volumes = Provisioned

----------------------------------------------------------------------------
(* How a goroutine moves.                                                  *)

pvOf(p) == job[p].pv
diskOf(p) == job[p].disk
nodeOf(p) == job[p].node

Goto(p, to) ==
    /\ pc' = [pc EXCEPT ![p] = to]
    /\ UNCHANGED <<job, res, defers, diskMountedNodeID, ready, volumes>>

Return(p, r) ==
    /\ pc' = [pc EXCEPT ![p] = "ret"]
    /\ res' = [res EXCEPT ![p] = r]
    /\ UNCHANGED <<job, defers, diskMountedNodeID, ready, volumes>>

(* Goto that also registers a deferred call.                               *)
Defer(p, to, call) ==
    /\ pc' = [pc EXCEPT ![p] = to]
    /\ defers' = [defers EXCEPT ![p] = @ \union {call}]
    /\ UNCHANGED <<job, res, diskMountedNodeID, ready, volumes>>

(* A request arrives.  It names a disk that Kubernetes has a volume for.   *)
Start(p, r) ==
    /\ pc[p] = "idle"
    /\ r.op # "create" => r.disk \in volumes
    /\ pc' = [pc EXCEPT ![p] = CASE r.op = "create" -> "cLoad"
                                 [] r.op = "delete" -> "dLoad"
                                 [] r.op = "publish" -> "pLoad"
                                 [] r.op = "unpublish" -> "uEvent"]
    /\ job' = [job EXCEPT ![p] = r]
    /\ UNCHANGED <<res, defers, diskMountedNodeID, provisioning, attaching, locks, cloud, ready, volumes>>

(* The deferred calls run last registered first: event before disk before  *)
(* node.  A request registers "creating" or "deleting" alone.              *)
RunDeferred(p) ==
    /\ pc[p] = "ret"
    /\ \/ /\ "event" \in defers[p]      \* deleteNodeId: only its own task id
          /\ defers' = [defers EXCEPT ![p] = @ \ {"event"}]
          /\ diskEventIdMap' = [diskEventIdMap EXCEPT
                ![nodeOf(p)] = IF @ = p THEN NoProc ELSE @]
          /\ UNCHANGED <<provisioning, diskAttachingMap, diskDetachingMap, locks>>
       \/ /\ "disk" \in defers[p] /\ "event" \notin defers[p]
          /\ defers' = [defers EXCEPT ![p] = @ \ {"disk"}]
          /\ DiskMultiTaskMap' = DiskMultiTaskMap \ {diskOf(p)}
          /\ UNCHANGED <<provisioning, attaching, AttachDetachMap>>
       \/ /\ "node" \in defers[p] /\ defers[p] \intersect {"event", "disk"} = {}
          /\ defers' = [defers EXCEPT ![p] = @ \ {"node"}]
          /\ AttachDetachMap' = AttachDetachMap \ {nodeOf(p)}
          /\ UNCHANGED <<provisioning, attaching, DiskMultiTaskMap>>
       \/ /\ "deleting" \in defers[p]
          /\ defers' = [defers EXCEPT ![p] = @ \ {"deleting"}]
          /\ diskDeletingMap' = [diskDeletingMap EXCEPT ![diskOf(p)] = "none"]
          /\ UNCHANGED <<diskProcessingMap, pvcCreatedMap, diskIdPvMap, attaching, locks>>
       \/ /\ "creating" \in defers[p]   \* resp == nil: the volume is left in "error"
          /\ defers' = [defers EXCEPT ![p] = @ \ {"creating"}]
          /\ diskProcessingMap' = IF res[p] = "ok" THEN diskProcessingMap
                                  ELSE [diskProcessingMap EXCEPT ![pvOf(p)] = "error"]
          /\ UNCHANGED <<pvcCreatedMap, diskIdPvMap, diskDeletingMap, attaching, locks>>
    /\ UNCHANGED <<pc, job, res, diskMountedNodeID, cloud, ready, volumes>>

Answer(p) ==
    /\ pc[p] = "ret" /\ defers[p] = {}
    /\ pc' = [pc EXCEPT ![p] = "idle"]
    /\ job' = [job EXCEPT ![p] = NoRequest]
    /\ res' = [res EXCEPT ![p] = "none"]
    /\ diskMountedNodeID' = [diskMountedNodeID EXCEPT ![p] = NoNode]
    /\ volumes' = IF job[p].op = "create" /\ res[p] = "ok" THEN volumes \union {diskOf(p)}
                  ELSE volumes
    /\ UNCHANGED <<defers, provisioning, attaching, locks, cloud, ready>>

----------------------------------------------------------------------------
(* Shared pieces of the handlers.                                          *)

memory == <<provisioning, attaching, locks>>

(* A call fails, or a check refuses the request, before anything changed.  *)
Refuse(p) == Return(p, "err") /\ UNCHANGED <<memory, cloud>>

(* Fault: Load and Store instead of LoadOrStore, the answer not looked at. *)
LockNodeUnchecked(p, at, to) ==
    /\ pc[p] = at
    /\ Defer(p, to, "node")
    /\ AttachDetachMap' = AttachDetachMap \union {nodeOf(p)}
    /\ UNCHANGED <<provisioning, attaching, DiskMultiTaskMap, cloud>>

(* LoadOrStore(nodeID): refused when present, else stored until the return. *)
LockNode(p, at, to) ==
    /\ pc[p] = at
    /\ \/ /\ nodeOf(p) \in AttachDetachMap
          /\ Refuse(p)
       \/ /\ nodeOf(p) \notin AttachDetachMap
          /\ Defer(p, to, "node")
          /\ AttachDetachMap' = AttachDetachMap \union {nodeOf(p)}
          /\ UNCHANGED <<provisioning, attaching, DiskMultiTaskMap, cloud>>

(* Fault: the same for the disk.                                           *)
LockDiskUnchecked(p, at, to) ==
    /\ pc[p] = at
    /\ Defer(p, to, "disk")
    /\ DiskMultiTaskMap' = DiskMultiTaskMap \union {diskOf(p)}
    /\ UNCHANGED <<provisioning, attaching, AttachDetachMap, cloud>>

LockDisk(p, at, to) ==
    /\ pc[p] = at
    /\ \/ /\ diskOf(p) \in DiskMultiTaskMap
          /\ Refuse(p)
       \/ /\ diskOf(p) \notin DiskMultiTaskMap
          /\ Defer(p, to, "disk")
          /\ DiskMultiTaskMap' = DiskMultiTaskMap \union {diskOf(p)}
          /\ UNCHANGED <<provisioning, attaching, AttachDetachMap, cloud>>

(* One call that starts a task: accepted, accepted with the answer lost,   *)
(* or refused.                                                             *)
StartTask(p, at, to, kind, n) ==
    /\ pc[p] = at
    /\ \/ /\ Goto(p, to) /\ Submit(p, diskOf(p), kind, n)
          /\ UNCHANGED memory
       \/ /\ Return(p, "err") /\ Submit(NoProc, diskOf(p), kind, n)
          /\ UNCHANGED memory
       \/ Refuse(p)

(* describeTaskStatus: at most 119 polls, given up at the first API error. *)
TaskDone(p, to) ==
    /\ outcome[p] = "finish"
    /\ Goto(p, to)
    /\ outcome' = [outcome EXCEPT ![p] = "none"]
    /\ UNCHANGED <<memory, disk>>

MarkAttaching(p, v) ==
    /\ diskAttachingMap' = [diskAttachingMap EXCEPT ![diskOf(p)] = v]
    /\ UNCHANGED <<provisioning, diskDetachingMap, diskEventIdMap, locks, cloud>>

MarkDetaching(p, v) ==
    /\ diskDetachingMap' = [diskDetachingMap EXCEPT ![diskOf(p)] = v]
    /\ UNCHANGED <<provisioning, diskAttachingMap, diskEventIdMap, locks, cloud>>

----------------------------------------------------------------------------
(* CreateVolume.                                                           *)

CreateLoad(p) ==
    /\ pc[p] = "cLoad"
    /\ \/ /\ pvcCreatedMap[pvOf(p)] # NoDisk      \* answered with the stored volume
          /\ pc' = [pc EXCEPT ![p] = "ret"]
          /\ res' = [res EXCEPT ![p] = "ok"]
          /\ job' = [job EXCEPT ![p].disk = pvcCreatedMap[pvOf(p)]]
          /\ UNCHANGED <<defers, diskMountedNodeID, ready, volumes, memory, cloud>>
       \/ /\ pvcCreatedMap[pvOf(p)] = NoDisk
          /\ Goto(p, "cGuard") /\ UNCHANGED <<memory, cloud>>

(* Fault: a volume left in "error" is tried again.                         *)
CreateGuardRetries(p) ==
    /\ pc[p] = "cGuard"
    /\ \/ /\ diskProcessingMap[pvOf(p)] = "creating"
          /\ Refuse(p)
       \/ /\ diskProcessingMap[pvOf(p)] # "creating"
          /\ Defer(p, "cQuota", "creating")
          /\ diskProcessingMap' = [diskProcessingMap EXCEPT ![pvOf(p)] = "creating"]
          /\ UNCHANGED <<pvcCreatedMap, diskIdPvMap, diskDeletingMap, attaching, locks, cloud>>

(* Fault: the mark is stored without looking whether it is there.          *)
CreateGuardUnchecked(p) ==
    /\ pc[p] = "cGuard"
    /\ Defer(p, "cQuota", "creating")
    /\ diskProcessingMap' = [diskProcessingMap EXCEPT ![pvOf(p)] = "creating"]
    /\ UNCHANGED <<pvcCreatedMap, diskIdPvMap, diskDeletingMap, attaching, locks, cloud>>

CreateGuard(p) ==
    /\ pc[p] = "cGuard"
    /\ \/ /\ diskProcessingMap[pvOf(p)] # "none"
          /\ Refuse(p)
       \/ /\ diskProcessingMap[pvOf(p)] = "none"
          /\ Defer(p, "cQuota", "creating")
          /\ diskProcessingMap' = [diskProcessingMap EXCEPT ![pvOf(p)] = "creating"]
          /\ UNCHANGED <<pvcCreatedMap, diskIdPvMap, diskDeletingMap, attaching, locks, cloud>>

(* The request is validated and the zone's quota asked for.                *)
CreateCheck(p) ==
    /\ pc[p] = "cQuota"
    /\ pvOf(p) \notin BadClass
    /\ \/ Refuse(p)
       \/ Goto(p, "cSubmit") /\ UNCHANGED <<memory, cloud>>

CreateSubmit(p) ==
    /\ pc[p] = "cSubmit"
    /\ \/ \E d \in Disk :
           \/ /\ SubmitCreate(p, d, pvOf(p))
              /\ pc' = [pc EXCEPT ![p] = "cPoll"]
              /\ job' = [job EXCEPT ![p].disk = d]
              /\ UNCHANGED <<res, defers, diskMountedNodeID, ready, volumes, memory>>
           \/ /\ SubmitCreate(NoProc, d, pvOf(p))
              /\ Return(p, "err") /\ UNCHANGED memory
       \/ Refuse(p)

CreatePoll(p) ==
    /\ pc[p] = "cPoll"
    /\ \/ TaskDone(p, "cIdPv")
       \/ /\ Return(p, "err") /\ Forget(p, diskOf(p)) /\ UNCHANGED memory

CreateStoreIdPv(p) ==
    /\ pc[p] = "cIdPv"
    /\ Goto(p, "cPvc")
    /\ diskIdPvMap' = [diskIdPvMap EXCEPT ![diskOf(p)] = pvOf(p)]
    /\ UNCHANGED <<diskProcessingMap, pvcCreatedMap, diskDeletingMap, attaching, locks, cloud>>

CreateStorePvc(p) ==
    /\ pc[p] = "cPvc"
    /\ Goto(p, "cDone")
    /\ pvcCreatedMap' = [pvcCreatedMap EXCEPT ![pvOf(p)] = diskOf(p)]
    /\ UNCHANGED <<diskProcessingMap, diskIdPvMap, diskDeletingMap, attaching, locks, cloud>>

CreateDone(p) ==
    /\ pc[p] = "cDone"
    /\ Return(p, "ok")
    /\ diskProcessingMap' = [diskProcessingMap EXCEPT ![pvOf(p)] = "none"]
    /\ UNCHANGED <<pvcCreatedMap, diskIdPvMap, diskDeletingMap, attaching, locks, cloud>>

----------------------------------------------------------------------------
(* DeleteVolume.                                                           *)

DeleteLoad(p) ==
    /\ pc[p] = "dLoad"
    /\ \/ /\ diskDeletingMap[diskOf(p)] # "none"
          /\ Refuse(p)
       \/ /\ diskDeletingMap[diskOf(p)] = "none"
          /\ Goto(p, "dFind") /\ UNCHANGED <<memory, cloud>>

(* Gone already: success.  Attached, or being attached or detached:        *)
(* refused, as when the call itself fails.                                 *)
DeleteFind(p) ==
    /\ pc[p] = "dFind"
    /\ \/ /\ disk[diskOf(p)].state = "gone"
          /\ Return(p, "ok") /\ UNCHANGED <<memory, cloud>>
       \/ Refuse(p)
       \/ /\ disk[diskOf(p)].state \notin {"gone", "attached"}
          /\ disk[diskOf(p)].task \notin {"attach", "detach"}
          /\ Goto(p, "dGuard") /\ UNCHANGED <<memory, cloud>>

(* Fault: the mark of another operation is stored.                         *)
DeleteGuardMistyped(p) ==
    /\ pc[p] = "dGuard"
    /\ Defer(p, "dSubmit", "deleting")
    /\ diskDeletingMap' = [diskDeletingMap EXCEPT ![diskOf(p)] = "detaching"]
    /\ UNCHANGED <<diskProcessingMap, pvcCreatedMap, diskIdPvMap, attaching, locks, cloud>>

DeleteGuard(p) ==
    /\ pc[p] = "dGuard"
    /\ \/ /\ diskDeletingMap[diskOf(p)] # "none"
          /\ Refuse(p)
       \/ /\ diskDeletingMap[diskOf(p)] = "none"
          /\ Defer(p, "dSubmit", "deleting")
          /\ diskDeletingMap' = [diskDeletingMap EXCEPT ![diskOf(p)] = "deleting"]
          /\ UNCHANGED <<diskProcessingMap, pvcCreatedMap, diskIdPvMap, attaching, locks, cloud>>

DeleteSubmit(p) == StartTask(p, "dSubmit", "dPoll", "delete", NoNode)

DeletePoll(p) ==
    /\ pc[p] = "dPoll"
    /\ \/ TaskDone(p, "dPvc")
       \/ /\ Return(p, "err") /\ Forget(p, diskOf(p)) /\ UNCHANGED memory

(* Fault: the created volume is not forgotten with its disk.               *)
DeleteKeepsPvc(p) == pc[p] = "dPvc" /\ Goto(p, "dIdPv") /\ UNCHANGED <<memory, cloud>>

(* The volume that diskIdPvMap names is forgotten, whichever disk          *)
(* pvcCreatedMap has for it.  The entry read is this disk's own, which     *)
(* nothing else writes while the disk is being deleted.                    *)
DeleteForgetPvc(p) ==
    /\ pc[p] = "dPvc"
    /\ Goto(p, "dIdPv")
    /\ pvcCreatedMap' = [v \in Pv |-> IF v = diskIdPvMap[diskOf(p)] THEN NoDisk
                                      ELSE pvcCreatedMap[v]]
    /\ UNCHANGED <<diskProcessingMap, diskIdPvMap, diskDeletingMap, attaching, locks, cloud>>

DeleteForgetIdPv(p) ==
    /\ pc[p] = "dIdPv"
    /\ Return(p, "ok")
    /\ diskIdPvMap' = [diskIdPvMap EXCEPT ![diskOf(p)] = NoPv]
    /\ UNCHANGED <<diskProcessingMap, pvcCreatedMap, diskDeletingMap, attaching, locks, cloud>>

----------------------------------------------------------------------------
(* ControllerPublishVolume.                                                *)

PublishLoad(p) ==
    /\ pc[p] = "pLoad"
    /\ \/ /\ diskAttachingMap[diskOf(p)] # "none"
          /\ Refuse(p)
       \/ /\ diskAttachingMap[diskOf(p)] = "none"
          /\ Goto(p, "pFind") /\ UNCHANGED <<memory, cloud>>

Running(d) == disk[d].state = "attached" /\ disk[d].task = "none"
Waiting(d) == disk[d].state = "free" /\ disk[d].task = "none"

PublishFind(p) ==
    /\ pc[p] = "pFind"
    /\ \/ /\ Running(diskOf(p)) /\ disk[diskOf(p)].node = nodeOf(p)
          /\ Return(p, "ok") /\ UNCHANGED <<memory, cloud>>
       \/ /\ Running(diskOf(p)) /\ disk[diskOf(p)].node # nodeOf(p)
          /\ pc' = [pc EXCEPT ![p] = "pReady"]
          /\ diskMountedNodeID' = [diskMountedNodeID EXCEPT ![p] = disk[diskOf(p)].node]
          /\ UNCHANGED <<job, res, defers, ready, volumes, memory, cloud>>
       \/ /\ Waiting(diskOf(p))
          /\ Goto(p, "pCount") /\ UNCHANGED <<memory, cloud>>
       \/ Refuse(p)

(* The disk is attached elsewhere: detached by force unless that node is   *)
(* Ready.                                                                  *)
PublishReady(p) ==
    /\ pc[p] = "pReady"
    /\ \/ Refuse(p)
       \/ /\ diskMountedNodeID[p] \notin ready
          /\ Goto(p, "fNode") /\ UNCHANGED <<memory, cloud>>

ForceDetachSubmit(p) == StartTask(p, "fSubmit", "fMark", "detach", NoNode)
ForceDetachMark(p) == pc[p] = "fMark" /\ Goto(p, "fPoll") /\ MarkAttaching(p, "attaching")
ForceDetachPoll(p) ==
    /\ pc[p] = "fPoll"
    /\ \/ TaskDone(p, "pCount")
       \/ Goto(p, "fFail") /\ Forget(p, diskOf(p)) /\ UNCHANGED memory
ForceDetachFail(p) == pc[p] = "fFail" /\ Return(p, "err") /\ MarkAttaching(p, "error")

(* describeInstances: the node must run and have room.                     *)
PublishCount(p) ==
    /\ pc[p] = "pCount"
    /\ \/ Refuse(p)
       \/ /\ Cardinality(DisksOf(nodeOf(p))) + 1 <= AttachLimit
          /\ Goto(p, "pNode") /\ UNCHANGED <<memory, cloud>>

PublishSubmit(p) == StartTask(p, "pSubmit", "pMark", "attach", nodeOf(p))
PublishMark(p) == pc[p] = "pMark" /\ Goto(p, "pPoll") /\ MarkAttaching(p, "attaching")
(* Fault: the task is polled until it ends.                                *)
PublishPollForever(p) == pc[p] = "pPoll" /\ TaskDone(p, "pClear")

PublishPoll(p) ==
    /\ pc[p] = "pPoll"
    /\ \/ TaskDone(p, "pClear")
       \/ Goto(p, "pFail") /\ Forget(p, diskOf(p)) /\ UNCHANGED memory
PublishFail(p) == pc[p] = "pFail" /\ Return(p, "err") /\ MarkAttaching(p, "error")
PublishClear(p) == pc[p] = "pClear" /\ Return(p, "ok") /\ MarkAttaching(p, "none")

----------------------------------------------------------------------------
(* ControllerUnpublishVolume.                                              *)

UnpublishEvent(p) ==
    /\ pc[p] = "uEvent"
    /\ \/ /\ diskEventIdMap[nodeOf(p)] # NoProc
          /\ Refuse(p)
       \/ /\ diskEventIdMap[nodeOf(p)] = NoProc
          /\ Goto(p, "uLoad") /\ UNCHANGED <<memory, cloud>>

UnpublishLoad(p) ==
    /\ pc[p] = "uLoad"
    /\ \/ /\ diskDetachingMap[diskOf(p)] # "none"
          /\ Refuse(p)
       \/ /\ diskDetachingMap[diskOf(p)] = "none"
          /\ Goto(p, "uFind") /\ UNCHANGED <<memory, cloud>>

UnpublishFind(p) ==
    /\ pc[p] = "uFind"
    /\ \/ Refuse(p)
       \/ /\ disk[diskOf(p)].node # nodeOf(p)
          /\ Return(p, "ok") /\ UNCHANGED <<memory, cloud>>
       \/ /\ disk[diskOf(p)].node = nodeOf(p)
          /\ Goto(p, "uNode") /\ UNCHANGED <<memory, cloud>>

UnpublishSubmit(p) == StartTask(p, "uSubmit", "uStore", "detach", NoNode)
UnpublishStore(p) ==
    /\ pc[p] = "uStore"
    /\ Defer(p, "uMark", "event")
    /\ diskEventIdMap' = [diskEventIdMap EXCEPT ![nodeOf(p)] = p]
    /\ UNCHANGED <<provisioning, diskAttachingMap, diskDetachingMap, locks, cloud>>
UnpublishMark(p) == pc[p] = "uMark" /\ Goto(p, "uPoll") /\ MarkDetaching(p, "detaching")
UnpublishPoll(p) ==
    /\ pc[p] = "uPoll"
    /\ \/ TaskDone(p, "uClear")
       \/ Goto(p, "uFail") /\ Forget(p, diskOf(p)) /\ UNCHANGED memory
(* Fault: a failed detach stays marked as under way.                       *)
UnpublishFailKeepsMark(p) ==
    pc[p] = "uFail" /\ Return(p, "err") /\ UNCHANGED <<memory, cloud>>

UnpublishFail(p) == pc[p] = "uFail" /\ Return(p, "err") /\ MarkDetaching(p, "error")
UnpublishClear(p) == pc[p] = "uClear" /\ Return(p, "ok") /\ MarkDetaching(p, "none")

----------------------------------------------------------------------------
(* The environment: the process dies and starts again, nodes come and go,  *)
(* tasks of the cloud end.                                                 *)

Crash ==
    /\ ForgetAll
    /\ diskProcessingMap' = [v \in Pv |-> "none"]
    /\ pvcCreatedMap' = [v \in Pv |-> NoDisk]
    /\ diskIdPvMap' = [d \in Disk |-> NoPv]
    /\ diskDeletingMap' = [d \in Disk |-> "none"]
    /\ diskAttachingMap' = [d \in Disk |-> "none"]
    /\ diskDetachingMap' = [d \in Disk |-> "none"]
    /\ diskEventIdMap' = [n \in Node |-> NoProc]
    /\ AttachDetachMap' = {} /\ DiskMultiTaskMap' = {}
    /\ pc' = [p \in Proc |-> "idle"]
    /\ job' = [p \in Proc |-> NoRequest]
    /\ res' = [p \in Proc |-> "none"]
    /\ defers' = [p \in Proc |-> {}]
    /\ diskMountedNodeID' = [p \in Proc |-> NoNode]
    /\ UNCHANGED <<ready, volumes>>

Restart == MayRestart /\ Crash

(* parseDiskVolumeOptions fails: its nil result is used before its error   *)
(* is looked at, and the nil dereference ends the process.                 *)
CreatePanics(p) ==
    /\ pc[p] = "cQuota" /\ pvOf(p) \in BadClass
    /\ Crash

NodeFlips(n) ==
    /\ n \in Flapping
    /\ ready' = IF n \in ready THEN ready \ {n} ELSE ready \union {n}
    /\ UNCHANGED <<goroutines, memory, cloud, volumes>>

CloudStep == CloudNext /\ UNCHANGED <<goroutines, memory, ready, volumes>>

----------------------------------------------------------------------------
CreateVolume(p) ==
    \/ CreateLoad(p) \/ CreateGuard(p) \/ CreateCheck(p) \/ CreatePanics(p)
    \/ CreateSubmit(p) \/ CreatePoll(p) \/ CreateStoreIdPv(p) \/ CreateStorePvc(p)
    \/ CreateDone(p)

DeleteVolume(p) ==
    \/ DeleteLoad(p) \/ DeleteFind(p) \/ DeleteGuard(p) \/ DeleteSubmit(p)
    \/ DeletePoll(p) \/ DeleteForgetPvc(p) \/ DeleteForgetIdPv(p)

ControllerPublishVolume(p) ==
    \/ PublishLoad(p) \/ PublishFind(p) \/ PublishReady(p)
    \/ LockNode(p, "fNode", "fDisk") \/ LockDisk(p, "fDisk", "fSubmit")
    \/ ForceDetachSubmit(p) \/ ForceDetachMark(p) \/ ForceDetachPoll(p) \/ ForceDetachFail(p)
    \/ PublishCount(p)
    \/ LockNode(p, "pNode", "pDisk") \/ LockDisk(p, "pDisk", "pSubmit")
    \/ PublishSubmit(p) \/ PublishMark(p) \/ PublishPoll(p) \/ PublishFail(p)
    \/ PublishClear(p)

ControllerUnpublishVolume(p) ==
    \/ UnpublishEvent(p) \/ UnpublishLoad(p) \/ UnpublishFind(p)
    \/ LockNode(p, "uNode", "uDisk") \/ LockDisk(p, "uDisk", "uSubmit")
    \/ UnpublishSubmit(p) \/ UnpublishStore(p) \/ UnpublishMark(p) \/ UnpublishPoll(p)
    \/ UnpublishFail(p) \/ UnpublishClear(p)

Handle(p) ==
    \/ CreateVolume(p) \/ DeleteVolume(p)
    \/ ControllerPublishVolume(p) \/ ControllerUnpublishVolume(p)
    \/ RunDeferred(p) \/ Answer(p)

Next ==
    \/ \E p \in Proc : Handle(p) \/ (\E r \in Requests : Start(p, r))
    \/ Restart
    \/ \E n \in Node : NodeFlips(n)
    \/ CloudStep

Spec == Init /\ [][Next]_vars

(* A goroutine that can run does: none of the calls waits for ever, and    *)
(* describeTaskStatus gives up after 119 polls.  Nothing is assumed of the *)
(* sidecars, the nodes or the cloud.                                       *)
FairSpec == Spec /\ \A p \in Proc : WF_vars(Handle(p))

----------------------------------------------------------------------------
(* Properties.                                                             *)

HoldsNode(p, n) == "node" \in defers[p] /\ nodeOf(p) = n
HoldsDisk(p, d) == "disk" \in defers[p] /\ diskOf(p) = d

(* AttachDetachMap and DiskMultiTaskMap are locks: an entry belongs to     *)
(* exactly one request in progress, which will delete it when it returns,  *)
(* so that no entry is left behind and none is deleted under a holder.     *)
LocksOwned ==
    /\ \A n \in Node : n \in AttachDetachMap <=> \E p \in Proc : HoldsNode(p, n)
    /\ \A d \in Disk : d \in DiskMultiTaskMap <=> \E p \in Proc : HoldsDisk(p, d)
    /\ \A p, q \in Proc :
          p # q => /\ ~ ("node" \in defers[p] /\ HoldsNode(q, nodeOf(p)))
                   /\ ~ ("disk" \in defers[p] /\ HoldsDisk(q, diskOf(p)))

(* Every mark "detaching" and every event id kept for a node is the work   *)
(* of a request in progress: when ControllerUnpublishVolume has returned,  *)
(* however it did, nothing it marked as under way makes a retry wait.      *)
DetachMarksOwned ==
    /\ \A d \in Disk : diskDetachingMap[d] = "detaching" =>
          \E p \in Proc : HoldsDisk(p, d) /\ pc[p] \in {"uPoll", "uFail", "uClear"}
    /\ \A n \in Node : diskEventIdMap[n] # NoProc =>
          "event" \in defers[diskEventIdMap[n]] /\ HoldsNode(diskEventIdMap[n], n)

(* A request that finds its node in AttachDetachMap is refused with "The   *)
(* Node %s Has Another Event, Please wait": the event is another's.        *)
AnotherEvent ==
    \A p \in Proc : pc[p] \in {"fNode", "pNode", "uNode"} /\ nodeOf(p) \in AttachDetachMap =>
        \E q \in Proc : q # p /\ HoldsNode(q, nodeOf(p))

(* The answer of a request that ran a task holds until it lets the disk    *)
(* go: after a finished attach the disk is on the requested node, after a  *)
(* finished detach it is not, whatever other requests do meanwhile.        *)
AnswerHoldsUnderLock ==
    \A p \in Proc :
        LET done(at) == pc[p] = at \/ (pc[p] = "ret" /\ res[p] = "ok" /\ "disk" \in defers[p])
        IN  /\ job[p].op = "publish" /\ done("pClear") => AttachedTo(diskOf(p), nodeOf(p))
            /\ job[p].op = "unpublish" /\ done("uClear") => ~ AttachedTo(diskOf(p), nodeOf(p))

(* A volume is created by one request at a time and a disk deleted by one  *)
(* at a time, and the marks that keep others out are those of requests in  *)
(* progress.                                                               *)
Creating(p) == pc[p] \in {"cQuota", "cSubmit", "cPoll", "cIdPv", "cPvc", "cDone"}
VolumeMarksOwned ==
    /\ \A p, q \in Proc : p # q =>
          /\ ~ (Creating(p) /\ Creating(q) /\ pvOf(p) = pvOf(q))
          /\ ~ ("deleting" \in defers[p] /\ "deleting" \in defers[q] /\ diskOf(p) = diskOf(q))
    /\ \A v \in Pv : diskProcessingMap[v] = "creating" =>
          \E p \in Proc : "creating" \in defers[p] /\ pvOf(p) = v
    /\ \A d \in Disk : diskDeletingMap[d] = "deleting" =>
          \E p \in Proc : "deleting" \in defers[p] /\ diskOf(p) = d

(* What pvcCreatedMap answers a repeated CreateVolume with is a disk that  *)
(* was created, completely, for that volume, and DeleteVolume of the disk  *)
(* can find it there through diskIdPvMap.                                  *)
CacheConsistent ==
    \A v \in Pv : LET d == pvcCreatedMap[v] IN
        d # NoDisk => /\ disk[d].pv = v /\ disk[d].state \in {"free", "attached", "gone"}
                      /\ diskIdPvMap[d] = v

(* After a failed CreateVolume nobody knows whether the cloud made a disk: *)
(* until the process restarts, no other disk is made for that volume and   *)
(* no request clears the mark.                                             *)
DisksFor(v) == {d \in Disk : disk[d].pv = v}
FailedCreateIsFinal ==
    [][\A v \in Pv : diskProcessingMap[v] = "error" =>
          \/ diskProcessingMap'[v] = "error" /\ DisksFor(v)' = DisksFor(v)
          \/ Crash]_vars

(* Every request is answered, even if no task of the cloud ever ends.      *)
Answered == \A p \in Proc : pc[p] # "idle" ~> pc[p] = "idle"
=============================================================================
