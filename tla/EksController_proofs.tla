------------------------ MODULE EksController_proofs ------------------------
(***************************************************************************)
(* Proofs about EksController, for every number of requests, names, disks  *)
(* and nodes: the types are kept, CacheLockMap is a lock, answers hold     *)
(* under it, and the controller implements DiskOwnership.  The inductive   *)
(* invariant says, besides, what a request has and holds where it is       *)
(* (JobOK), what a disk's record may be (CloudShape), and that a task is   *)
(* polled by the request that holds its disk (PollOK, TaskOK).             *)
(***************************************************************************)
EXTENDS EksController, CloudDisk_proofs, FiniteSetTheorems, TLAPS

CreateAt == {"cLimit", "cLock", "cInfo", "cSubmit", "cPoll"}
DeleteAt == {"dInfo", "dLock", "dSubmit", "dPoll"}
PublishAt == {"pInfo", "pReady", "fNode", "fDisk", "fSubmit", "fPoll", "fDone",
              "pNum", "pNode", "pDisk", "pSubmit", "pPoll"}
UnpublishAt == {"uInfo", "uNode", "uDisk", "uSubmit", "uPoll"}
HasDisk == {"cPoll"} \union DeleteAt \union PublishAt \union UnpublishAt
HoldsNothing == {"idle", "cLimit", "cLock", "dInfo", "dLock", "pInfo", "pReady", "fNode", "pNum",
                 "pNode", "uInfo", "uNode"}
HoldsNoDisk == HoldsNothing \union {"cInfo", "cSubmit", "cPoll", "fDisk", "pDisk", "uDisk"}
HoldsDisk == {"dSubmit", "dPoll", "fSubmit", "fPoll", "pSubmit", "pPoll", "uSubmit", "uPoll"}
Polls == {"cPoll", "dPoll", "fPoll", "pPoll", "uPoll"}
Awaits == {"dPoll", "pPoll", "uPoll"}

(* A request has the arguments its handler uses where it is ...            *)
ArgsOK ==
    \A p \in Proc :
        /\ pc[p] \in CreateAt => pvOf(p) \in Pv
        /\ pc[p] \in HasDisk => diskOf(p) \in Disk
        /\ pc[p] \in PublishAt \union UnpublishAt => nodeOf(p) \in Node
        /\ pc[p] \in {"pReady", "fNode"} => diskMountedNodeID[p] \in Node
        /\ pc[p] = "ret" /\ res[p] = "ok" => diskOf(p) \in Disk
        /\ pc[p] \in DeleteAt => job[p].op = "delete"
        /\ pc[p] \in PublishAt => job[p].op = "publish"
        /\ pc[p] \in UnpublishAt => job[p].op = "unpublish"

(* ... and has locked what the place says; of disks no other than its own. *)
HeldOK ==
    \A p \in Proc :
        /\ pc[p] \in HoldsNothing => held[p] = {}
        /\ pc[p] \in HoldsNoDisk => held[p] \intersect Disk = {}
        /\ pc[p] \in HoldsDisk => diskOf(p) \in held[p]
        /\ held[p] \intersect Disk \subseteq {diskOf(p)}

JobOK == ArgsOK /\ HeldOK

(* Who polls a disk's task is about that disk, and waits.                  *)
PollOK ==
    \A d \in Disk : \A p \in Proc : disk[d].by = p =>
        /\ diskOf(p) = d /\ pc[p] \in Polls /\ outcome[p] = "doing"
        /\ pc[p] = "cPoll" => disk[d].task = "create"

Runs(p) ==
    /\ job[p].op = "publish" => disk[diskOf(p)].task = "attach" /\ disk[diskOf(p)].to = nodeOf(p)
    /\ job[p].op = "unpublish" => disk[diskOf(p)].task = "detach"
    /\ job[p].op = "delete" => disk[diskOf(p)].task = "delete"

Effect(p) ==
    /\ disk[diskOf(p)].task = "none"
    /\ job[p].op = "publish" => AttachedTo(diskOf(p), nodeOf(p))
    /\ job[p].op = "unpublish" => disk[diskOf(p)].state = "free"
    /\ job[p].op = "delete" => disk[diskOf(p)].state = "gone"

(* A request that waits has its task, then its effect, to the answer.      *)
TaskOK ==
    \A p \in Proc :
        /\ pc[p] \in Awaits /\ outcome[p] = "doing" => disk[diskOf(p)].by = p /\ Runs(p)
        /\ pc[p] \in Awaits /\ outcome[p] = "finish" => Effect(p)
        /\ pc[p] = "ret" /\ res[p] = "ok" /\ diskOf(p) \in held[p] /\ job[p].op # "create" => Effect(p)

IInv == TypeOK /\ JobOK /\ CacheLocksOwned /\ CloudShape /\ PollOK /\ TaskOK

----------------------------------------------------------------------------
(* Types, and what a request has and holds.                                *)

TypeInv == TypeOK /\ JobOK

(* A new process has empty maps and idle goroutines.                       *)
LEMMA InitTypeInv == Init => TypeInv
  <1>1. Init => TypeOK
    BY CloudInitTypeOK, CloudAssumption
    DEF Init, Idle, TypeOK, Request, NoRequest, Location, Id
  <1>2. Init => JobOK
    BY DEF Init, Idle, JobOK, ArgsOK, HeldOK, CreateAt, DeleteAt, PublishAt, UnpublishAt, HasDisk,
           HoldsNothing, HoldsNoDisk, HoldsDisk
  <1> QED BY <1>1, <1>2 DEF TypeInv

(* CreateVolume learns its disk from the cloud.                            *)
LEMMA JobDiskUpdate ==
  ASSUME job \in [Proc -> Request], NEW p \in Proc, NEW d \in Disk
  PROVE  [job EXCEPT ![p].disk = d] \in [Proc -> Request]
  BY DEF Request

(* CreateVolume.                                                           *)
LEMMA CreateTypeInv ==
  ASSUME TypeInv, CloudShape, NEW p \in Proc, CreateVolume(p)
  PROVE  TypeInv'
  <1> USE DEF TypeInv, TypeOK, JobOK, ArgsOK, HeldOK, pvOf, diskOf, nodeOf, CreateAt, DeleteAt,
              PublishAt, UnpublishAt, HasDisk, HoldsNothing, HoldsNoDisk, HoldsDisk, cloud
  <1>1. CASE CreateCheck(p)
    <2>1. TypeOK'
      BY <1>1
      DEF CloudTypeOK, Location, CreateCheck, Goto, Return, Refuse, Continue, Succeed
    <2>2. JobOK'
      BY <1>1
      DEF CreateCheck, Goto, Return, Refuse, Continue, Succeed
    <2> QED BY <2>1, <2>2
  <1>2. CASE Lock(p, "cLock", pvOf(p), "cInfo")
    <2>1. TypeOK'
      BY <1>2
      DEF CloudTypeOK, Location, Id, Lock, Return, Refuse
    <2>2. JobOK'
      BY <1>2, EksAssumption
      DEF Lock, Return, Refuse, Id
    <2> QED BY <2>1, <2>2
  <1>3. CASE CreateInfo(p)
    <2>job. job' \in [Proc -> Request]
      BY <1>3, JobDiskUpdate
      DEF BlocksNamed, CreateInfo, Goto, Return, Refuse, Continue, Succeed
    <2>1. TypeOK'
      BY <1>3, <2>job
      DEF CloudTypeOK, Location, BlocksNamed, CreateInfo, Goto, Return, Refuse, Continue, Succeed
    <2>2. JobOK'
      BY <1>3
      DEF Request, BlocksNamed, CreateInfo, Goto, Return, Refuse, Continue, Succeed
    <2> QED BY <2>1, <2>2
  <1>4. CASE CreateSubmit(p)
    <2>cloud. CloudTypeOK'
      BY <1>4, SubmitCreateTypeOK
      DEF CloudTypeOK, Refuse, CreateSubmit
    <2>job. job' \in [Proc -> Request]
      BY <1>4, JobDiskUpdate
      DEF CreateSubmit, Goto, Return, Refuse
    <2>1. TypeOK'
      BY <1>4, <2>cloud, <2>job
      DEF Location, CreateSubmit, Goto, Return, Refuse
    <2>2. JobOK'
      BY <1>4
      DEF Request, CreateSubmit, Goto, Return, Refuse
    <2> QED BY <2>1, <2>2
  <1>5. CASE CreatePoll(p)
    <2>cloud. CloudTypeOK'
      BY <1>5, ForgetTypeOK
      DEF CloudTypeOK, WaitTask, GiveUp, TaskDone, ClearOutcome, CreatePoll
    <2>1. TypeOK'
      BY <1>5, <2>cloud
      DEF Location, CreatePoll, WaitTask, Goto, Return, GiveUp, TaskDone, ClearOutcome, Forget
    <2>2. JobOK'
      BY <1>5
      DEF CreatePoll, WaitTask, Goto, Return, GiveUp, TaskDone, ClearOutcome, Forget
    <2> QED BY <2>1, <2>2
  <1> QED
    BY <1>1, <1>2, <1>3, <1>4, <1>5 DEF CreateVolume

(* DeleteVolume.                                                           *)
LEMMA DeleteTypeInv ==
  ASSUME TypeInv, CloudShape, NEW p \in Proc, DeleteVolume(p)
  PROVE  TypeInv'
  <1> USE DEF TypeInv, TypeOK, JobOK, ArgsOK, HeldOK, pvOf, diskOf, nodeOf, CreateAt, DeleteAt,
              PublishAt, UnpublishAt, HasDisk, HoldsNothing, HoldsNoDisk, HoldsDisk, cloud
  <1>1. CASE DeleteInfo(p)
    <2>1. TypeOK'
      BY <1>1
      DEF CloudTypeOK, Location, DeleteInfo, Goto, Return, Refuse, Continue, Succeed
    <2>2. JobOK'
      BY <1>1
      DEF DeleteInfo, Goto, Return, Refuse, Continue, Succeed
    <2> QED BY <2>1, <2>2
  <1>2. CASE Lock(p, "dLock", diskOf(p), "dSubmit")
    <2>1. TypeOK'
      BY <1>2
      DEF CloudTypeOK, Location, Id, Lock, Return, Refuse
    <2>2. JobOK'
      BY <1>2, EksAssumption
      DEF Lock, Return, Refuse, Id
    <2> QED BY <2>1, <2>2
  <1>3. CASE DeleteSubmit(p)
    <2>cloud. CloudTypeOK'
      BY <1>3, SubmitTypeOK
      DEF CloudTypeOK, StartTask, Refuse, TaskKind, DeleteSubmit
    <2>1. TypeOK'
      BY <1>3, <2>cloud
      DEF Location, DeleteSubmit, StartTask, Goto, Return, Refuse, Submit
    <2>2. JobOK'
      BY <1>3
      DEF DeleteSubmit, StartTask, Goto, Return, Refuse, Submit
    <2> QED BY <2>1, <2>2
  <1>4. CASE DeletePoll(p)
    <2>cloud. CloudTypeOK'
      BY <1>4, ForgetTypeOK
      DEF CloudTypeOK, WaitTask, GiveUp, TaskDone, ClearOutcome, DeletePoll
    <2>1. TypeOK'
      BY <1>4, <2>cloud
      DEF Location, DeletePoll, WaitTask, Goto, Return, GiveUp, TaskDone, ClearOutcome, Forget
    <2>2. JobOK'
      BY <1>4
      DEF DeletePoll, WaitTask, Goto, Return, GiveUp, TaskDone, ClearOutcome, Forget
    <2> QED BY <2>1, <2>2
  <1> QED
    BY <1>1, <1>2, <1>3, <1>4 DEF DeleteVolume

(* ControllerPublishVolume.                                                *)
LEMMA PublishTypeInv ==
  ASSUME TypeInv, CloudShape, NEW p \in Proc, ControllerPublishVolume(p)
  PROVE  TypeInv'
  <1> USE DEF TypeInv, TypeOK, JobOK, ArgsOK, HeldOK, pvOf, diskOf, nodeOf, CreateAt, DeleteAt,
              PublishAt, UnpublishAt, HasDisk, HoldsNothing, HoldsNoDisk, HoldsDisk, cloud
  <1>1. CASE PublishInfo(p)
    <2>1. TypeOK'
      BY <1>1, DiskRecordFields
      DEF CloudTypeOK, Location, Running, CloudShape, PublishInfo, Goto, Return, Refuse, Continue, Succeed
    <2>2. JobOK'
      BY <1>1, DiskRecordFields
      DEF PublishInfo, Goto, Return, Refuse, Continue, Succeed, Running, CloudShape
    <2> QED BY <2>1, <2>2
  <1>2. CASE PublishReady(p)
    <2>1. TypeOK'
      BY <1>2
      DEF CloudTypeOK, Location, PublishReady, Goto, Return, Refuse, Continue, Succeed
    <2>2. JobOK'
      BY <1>2
      DEF PublishReady, Goto, Return, Refuse, Continue, Succeed
    <2> QED BY <2>1, <2>2
  <1>3. CASE Lock(p, "fNode", diskMountedNodeID[p], "fDisk")
    <2>1. TypeOK'
      BY <1>3
      DEF CloudTypeOK, Location, Id, Lock, Return, Refuse
    <2>2. JobOK'
      BY <1>3, EksAssumption
      DEF Lock, Return, Refuse, Id
    <2> QED BY <2>1, <2>2
  <1>4. CASE Lock(p, "fDisk", diskOf(p), "fSubmit")
    <2>1. TypeOK'
      BY <1>4
      DEF CloudTypeOK, Location, Id, Lock, Return, Refuse
    <2>2. JobOK'
      BY <1>4, EksAssumption
      DEF Lock, Return, Refuse, Id
    <2> QED BY <2>1, <2>2
  <1>5. CASE ForceDetachSubmit(p)
    <2>cloud. CloudTypeOK'
      BY <1>5, SubmitTypeOK
      DEF CloudTypeOK, StartTask, Refuse, TaskKind, ForceDetachSubmit
    <2>1. TypeOK'
      BY <1>5, <2>cloud
      DEF Location, ForceDetachSubmit, StartTask, Goto, Return, Refuse, Submit
    <2>2. JobOK'
      BY <1>5
      DEF ForceDetachSubmit, StartTask, Goto, Return, Refuse, Submit
    <2> QED BY <2>1, <2>2
  <1>6. CASE ForceDetachPoll(p)
    <2>cloud. CloudTypeOK'
      BY <1>6, ForgetTypeOK
      DEF CloudTypeOK, WaitTask, GiveUp, TaskDone, ClearOutcome, ForceDetachPoll
    <2>1. TypeOK'
      BY <1>6, <2>cloud
      DEF Location, ForceDetachPoll, WaitTask, Goto, Return, GiveUp, TaskDone, ClearOutcome, Forget
    <2>2. JobOK'
      BY <1>6
      DEF ForceDetachPoll, WaitTask, Goto, Return, GiveUp, TaskDone, ClearOutcome, Forget
    <2> QED BY <2>1, <2>2
  <1>7. CASE ForceDetachDone(p)
    <2>1. TypeOK'
      BY <1>7
      DEF CloudTypeOK, Location, ForceDetachDone, Goto, Return, Refuse, Continue, Succeed
    <2>2. JobOK'
      BY <1>7
      DEF ForceDetachDone, Goto, Return, Refuse, Continue, Succeed
    <2> QED BY <2>1, <2>2
  <1>8. CASE PublishNum(p)
    <2>1. TypeOK'
      BY <1>8
      DEF CloudTypeOK, Location, PublishNum, Goto, Return, Refuse, Continue, Succeed
    <2>2. JobOK'
      BY <1>8
      DEF PublishNum, Goto, Return, Refuse, Continue, Succeed
    <2> QED BY <2>1, <2>2
  <1>9. CASE Lock(p, "pNode", nodeOf(p), "pDisk")
    <2>1. TypeOK'
      BY <1>9
      DEF CloudTypeOK, Location, Id, Lock, Return, Refuse
    <2>2. JobOK'
      BY <1>9, EksAssumption
      DEF Lock, Return, Refuse, Id
    <2> QED BY <2>1, <2>2
  <1>10. CASE Lock(p, "pDisk", diskOf(p), "pSubmit")
    <2>1. TypeOK'
      BY <1>10
      DEF CloudTypeOK, Location, Id, Lock, Return, Refuse
    <2>2. JobOK'
      BY <1>10, EksAssumption
      DEF Lock, Return, Refuse, Id
    <2> QED BY <2>1, <2>2
  <1>11. CASE PublishSubmit(p)
    <2>cloud. CloudTypeOK'
      BY <1>11, SubmitTypeOK
      DEF CloudTypeOK, StartTask, Refuse, TaskKind, PublishSubmit
    <2>1. TypeOK'
      BY <1>11, <2>cloud
      DEF Location, PublishSubmit, StartTask, Goto, Return, Refuse, Submit
    <2>2. JobOK'
      BY <1>11
      DEF PublishSubmit, StartTask, Goto, Return, Refuse, Submit
    <2> QED BY <2>1, <2>2
  <1>12. CASE PublishPoll(p)
    <2>cloud. CloudTypeOK'
      BY <1>12, ForgetTypeOK
      DEF CloudTypeOK, WaitTask, GiveUp, TaskDone, ClearOutcome, PublishPoll
    <2>1. TypeOK'
      BY <1>12, <2>cloud
      DEF Location, PublishPoll, WaitTask, Goto, Return, GiveUp, TaskDone, ClearOutcome, Forget
    <2>2. JobOK'
      BY <1>12
      DEF PublishPoll, WaitTask, Goto, Return, GiveUp, TaskDone, ClearOutcome, Forget
    <2> QED BY <2>1, <2>2
  <1> QED
    BY <1>1, <1>2, <1>3, <1>4, <1>5, <1>6, <1>7, <1>8, <1>9, <1>10, <1>11, <1>12 DEF ControllerPublishVolume

(* ControllerUnpublishVolume.                                              *)
LEMMA UnpublishTypeInv ==
  ASSUME TypeInv, CloudShape, NEW p \in Proc, ControllerUnpublishVolume(p)
  PROVE  TypeInv'
  <1> USE DEF TypeInv, TypeOK, JobOK, ArgsOK, HeldOK, pvOf, diskOf, nodeOf, CreateAt, DeleteAt,
              PublishAt, UnpublishAt, HasDisk, HoldsNothing, HoldsNoDisk, HoldsDisk, cloud
  <1>1. CASE UnpublishInfo(p)
    <2>1. TypeOK'
      BY <1>1
      DEF CloudTypeOK, Location, UnpublishInfo, Goto, Return, Refuse, Continue, Succeed
    <2>2. JobOK'
      BY <1>1
      DEF UnpublishInfo, Goto, Return, Refuse, Continue, Succeed
    <2> QED BY <2>1, <2>2
  <1>2. CASE Lock(p, "uNode", nodeOf(p), "uDisk")
    <2>1. TypeOK'
      BY <1>2
      DEF CloudTypeOK, Location, Id, Lock, Return, Refuse
    <2>2. JobOK'
      BY <1>2, EksAssumption
      DEF Lock, Return, Refuse, Id
    <2> QED BY <2>1, <2>2
  <1>3. CASE Lock(p, "uDisk", diskOf(p), "uSubmit")
    <2>1. TypeOK'
      BY <1>3
      DEF CloudTypeOK, Location, Id, Lock, Return, Refuse
    <2>2. JobOK'
      BY <1>3, EksAssumption
      DEF Lock, Return, Refuse, Id
    <2> QED BY <2>1, <2>2
  <1>4. CASE UnpublishSubmit(p)
    <2>cloud. CloudTypeOK'
      BY <1>4, SubmitTypeOK
      DEF CloudTypeOK, StartTask, Refuse, TaskKind, UnpublishSubmit
    <2>1. TypeOK'
      BY <1>4, <2>cloud
      DEF Location, UnpublishSubmit, StartTask, Goto, Return, Refuse, Submit
    <2>2. JobOK'
      BY <1>4
      DEF UnpublishSubmit, StartTask, Goto, Return, Refuse, Submit
    <2> QED BY <2>1, <2>2
  <1>5. CASE UnpublishPoll(p)
    <2>cloud. CloudTypeOK'
      BY <1>5, ForgetTypeOK
      DEF CloudTypeOK, WaitTask, GiveUp, TaskDone, ClearOutcome, UnpublishPoll
    <2>1. TypeOK'
      BY <1>5, <2>cloud
      DEF Location, UnpublishPoll, WaitTask, Goto, Return, GiveUp, TaskDone, ClearOutcome, Forget
    <2>2. JobOK'
      BY <1>5
      DEF UnpublishPoll, WaitTask, Goto, Return, GiveUp, TaskDone, ClearOutcome, Forget
    <2> QED BY <2>1, <2>2
  <1> QED
    BY <1>1, <1>2, <1>3, <1>4, <1>5 DEF ControllerUnpublishVolume

(* A request arrives with the arguments of its kind.                       *)
LEMMA StartTypeInv ==
  ASSUME TypeInv, NEW p \in Proc, NEW r \in Requests, Start(p, r)
  PROVE  TypeInv'
  <1> USE DEF TypeInv, TypeOK, JobOK, ArgsOK, HeldOK, pvOf, diskOf, nodeOf, CreateAt, DeleteAt,
              PublishAt, UnpublishAt, HasDisk, HoldsNothing, HoldsNoDisk, HoldsDisk, cloud
  <1>1. /\ r \in Request
        /\ r.op = "create" => r.pv \in Pv
        /\ r.op # "create" => r.disk \in Disk
        /\ r.op \in {"publish", "unpublish"} => r.node \in Node
        /\ r.op \in {"create", "delete", "publish", "unpublish"}
    BY EksAssumption DEF Request
  <1>2. TypeOK'
    BY <1>1 DEF CloudTypeOK, Start, Location
  <1>3. ArgsOK'
    BY <1>1 DEF Start
  <1>4. HeldOK'
    BY <1>1 DEF Start
  <1> QED BY <1>2, <1>3, <1>4

(* A deferred Delete gives one id back.                                    *)
LEMMA UnlockTypeInv ==
  ASSUME TypeInv, NEW p \in Proc, Unlock(p)
  PROVE  TypeInv'
  <1> USE DEF TypeInv, TypeOK, JobOK, ArgsOK, HeldOK, pvOf, diskOf, nodeOf, CreateAt, DeleteAt,
              PublishAt, UnpublishAt, HasDisk, HoldsNothing, HoldsNoDisk, HoldsDisk, cloud
  <1>1. TypeOK'
    BY DEF CloudTypeOK, Unlock
  <1>2. ArgsOK'
    BY DEF Unlock
  <1>3. HeldOK'
    BY DEF Unlock
  <1> QED BY <1>1, <1>2, <1>3

(* An answered request leaves an idle goroutine that holds nothing.        *)
LEMMA AnswerTypeInv ==
  ASSUME TypeInv, NEW p \in Proc, Answer(p)
  PROVE  TypeInv'
  <1> USE DEF TypeInv, TypeOK, JobOK, ArgsOK, HeldOK, pvOf, diskOf, nodeOf, CreateAt, DeleteAt,
              PublishAt, UnpublishAt, HasDisk, HoldsNothing, HoldsNoDisk, HoldsDisk, cloud
  <1>1. TypeOK'
    BY DEF CloudTypeOK, Answer, Location, Request, NoRequest
  <1>2. ArgsOK'
    BY DEF Answer
  <1>3. HeldOK'
    BY DEF Answer
  <1> QED BY <1>1, <1>2, <1>3

(* TypeInv is inductive where the cloud's records have their shape.        *)
LEMMA NextTypeInv ==
  ASSUME TypeInv, CloudShape, [Next]_vars
  PROVE  TypeInv'
  <1>1. ASSUME NEW p \in Proc, Handle(p)
        PROVE  TypeInv'
    BY <1>1, CreateTypeInv, DeleteTypeInv, PublishTypeInv, UnpublishTypeInv, UnlockTypeInv,
       AnswerTypeInv DEF Handle
  <1>2. CASE Restart
    <2>1. CloudTypeOK'
      BY <1>2, ForgetAllTypeOK DEF Restart, TypeInv, TypeOK
    <2>2. TypeOK'
      BY <1>2, <2>1, CloudAssumption DEF Restart, TypeInv, TypeOK, Request, NoRequest, Location
    <2>3. JobOK'
      BY <1>2 DEF Restart, JobOK, ArgsOK, HeldOK, CreateAt, DeleteAt, PublishAt, UnpublishAt,
                  HasDisk, HoldsNothing, HoldsNoDisk, HoldsDisk
    <2> QED BY <2>2, <2>3 DEF TypeInv
  <1>3. ASSUME NEW n \in Node, NodeFlips(n)
        PROVE  TypeInv'
    BY <1>3 DEF NodeFlips, TypeInv, TypeOK, CloudTypeOK, JobOK, ArgsOK, HeldOK, goroutines, cloud,
                pvOf, diskOf, nodeOf
  <1>4. CASE CloudStep
    <2>1. CloudTypeOK'
      BY <1>4, CloudNextTypeOK DEF CloudStep, CloudNext, TypeInv, TypeOK
    <2>2. unmountFailed' \in SUBSET Disk
      BY <1>4 DEF CloudStep, TypeInv, TypeOK
    <2> QED
      BY <1>4, <2>1, <2>2 DEF CloudStep, TypeInv, TypeOK, JobOK, ArgsOK, HeldOK, goroutines,
                              pvOf, diskOf, nodeOf
  <1>5. CASE UNCHANGED vars
    BY <1>5 DEF vars, TypeInv, TypeOK, CloudTypeOK, JobOK, ArgsOK, HeldOK, goroutines, cloud,
                pvOf, diskOf, nodeOf
  <1> QED BY <1>1, <1>2, <1>3, <1>4, <1>5, StartTypeInv DEF Next

----------------------------------------------------------------------------
(* The locks.  Only a LoadOrStore, a deferred Delete and a restart change  *)
(* CacheLockMap or what a request will delete from it.                     *)

(* A LoadOrStore takes an id only when nobody has it.                      *)
LEMMA LockLocks ==
  ASSUME CacheLocksOwned, TypeOK, NEW p \in Proc, NEW at, NEW id, NEW to, Lock(p, at, id, to)
  PROVE  CacheLocksOwned'
  <1>1. CASE UNCHANGED <<held, CacheLockMap>>
    BY <1>1 DEF CacheLocksOwned
  <1>2. CASE /\ id \notin CacheLockMap
             /\ held' = [held EXCEPT ![p] = @ \union {id}]
             /\ CacheLockMap' = CacheLockMap \union {id}
    <2>1. \A q \in Proc : held'[q] = IF q = p THEN held[q] \union {id} ELSE held[q]
      BY <1>2 DEF TypeOK
    <2>2. CacheLockMap' = UNION {held'[q] : q \in Proc}
      BY <1>2, <2>1 DEF CacheLocksOwned
    <2>3. \A q \in Proc : id \notin held[q]
      BY <1>2 DEF CacheLocksOwned
    <2> QED BY <2>1, <2>2, <2>3 DEF CacheLocksOwned
  <1> QED BY <1>1, <1>2 DEF Lock, Refuse, Return

(* The deferred Delete removes an id of its own request, and of no other.  *)
LEMMA UnlockLocks ==
  ASSUME CacheLocksOwned, TypeOK, NEW p \in Proc, Unlock(p)
  PROVE  CacheLocksOwned'
  <1>1. PICK id \in held[p] : /\ held' = [held EXCEPT ![p] = @ \ {id}]
                              /\ CacheLockMap' = CacheLockMap \ {id}
    BY DEF Unlock
  <1>2. \A q \in Proc : held'[q] = IF q = p THEN held[q] \ {id} ELSE held[q]
    BY <1>1 DEF TypeOK
  <1>3. \A q \in Proc : q # p => id \notin held[q]
    BY <1>1 DEF CacheLocksOwned
  <1>4. CacheLockMap' = UNION {held'[q] : q \in Proc}
    BY <1>1, <1>2, <1>3 DEF CacheLocksOwned
  <1> QED BY <1>2, <1>4 DEF CacheLocksOwned

(* CacheLocksOwned is inductive where the types are kept.                  *)
LEMMA NextLocks ==
  ASSUME CacheLocksOwned, TypeOK, [Next]_vars
  PROVE  CacheLocksOwned'
  <1> USE DEF Goto, Return, Refuse, Continue, Succeed
  <1>kept. ASSUME UNCHANGED <<held, CacheLockMap>>
           PROVE  CacheLocksOwned'
    BY <1>kept DEF CacheLocksOwned
  <1>1. ASSUME NEW p \in Proc, CreateVolume(p)
        PROVE  CacheLocksOwned'
    BY <1>1, <1>kept, LockLocks
    DEF CreateVolume, CreateCheck, CreateInfo, CreateSubmit, CreatePoll, WaitTask, GiveUp
  <1>2. ASSUME NEW p \in Proc, DeleteVolume(p)
        PROVE  CacheLocksOwned'
    BY <1>2, <1>kept, LockLocks
    DEF DeleteVolume, DeleteInfo, DeleteSubmit, DeletePoll, StartTask, WaitTask, GiveUp
  <1>3. ASSUME NEW p \in Proc, ControllerPublishVolume(p)
        PROVE  CacheLocksOwned'
    <2>1. CASE \/ PublishInfo(p) \/ PublishReady(p) \/ PublishNum(p)
               \/ ForceDetachSubmit(p) \/ ForceDetachPoll(p) \/ ForceDetachDone(p)
               \/ PublishSubmit(p) \/ PublishPoll(p)
      BY <2>1, <1>kept
      DEF PublishInfo, PublishReady, PublishNum, ForceDetachSubmit, ForceDetachPoll,
          ForceDetachDone, PublishSubmit, PublishPoll, StartTask, WaitTask, GiveUp
    <2> QED BY <1>3, <2>1, LockLocks DEF ControllerPublishVolume
  <1>4. ASSUME NEW p \in Proc, ControllerUnpublishVolume(p)
        PROVE  CacheLocksOwned'
    BY <1>4, <1>kept, LockLocks
    DEF ControllerUnpublishVolume, UnpublishInfo, UnpublishSubmit, UnpublishPoll, StartTask,
        WaitTask, GiveUp
  <1>5. ASSUME NEW p \in Proc, Answer(p) \/ (\E r \in Requests : Start(p, r))
        PROVE  CacheLocksOwned'
    BY <1>5, <1>kept DEF Answer, Start
  <1>6. CASE Restart
    BY <1>6 DEF Restart, CacheLocksOwned
  <1>7. CASE CloudStep \/ UNCHANGED vars \/ \E n \in Node : NodeFlips(n)
    BY <1>7, <1>kept DEF CloudStep, NodeFlips, vars, goroutines
  <1> QED BY <1>1, <1>2, <1>3, <1>4, <1>5, <1>6, <1>7, UnlockLocks DEF Next, Handle

----------------------------------------------------------------------------
(* Tasks.  A step of the controller leaves the cloud alone, submits a task *)
(* or stops polling one; the rest is the cloud's.                          *)

OthersKept(p) ==
    \A q \in Proc : q # p => /\ pc'[q] = pc[q] /\ res'[q] = res[q]
                             /\ held'[q] = held[q] /\ job'[q] = job[q]

Known == TypeOK /\ JobOK /\ CacheLocksOwned /\ CloudShape

(* A step without the cloud, of a request that polls nothing.              *)
LEMMA QuietTasks ==
  ASSUME Known, PollOK, TaskOK, NEW p \in Proc, OthersKept(p), UNCHANGED <<disk, outcome>>,
         pc[p] \notin Polls, pc'[p] \notin Polls,
         pc'[p] = "ret" /\ res'[p] = "ok" /\ diskOf(p)' \in held'[p] /\ job'[p].op # "create"
             => Effect(p)'
  PROVE  PollOK' /\ TaskOK'
  <1>1. PollOK'
    BY DEF PollOK, OthersKept, diskOf
  <1>2. TaskOK'
    BY DEF TaskOK, OthersKept, diskOf, nodeOf, Runs, Effect, AttachedTo, Awaits, Polls
  <1> QED BY <1>1, <1>2

(* A task is submitted by the request that holds the disk.                 *)
LEMMA SubmitTasks ==
  ASSUME Known, PollOK, TaskOK, NEW p \in Proc, OthersKept(p), job' = job, held' = held,
         diskOf(p) \in Disk, diskOf(p) \in held[p], pc[p] \notin Polls,
         NEW q \in {p, NoProc}, NEW kind, NEW n, Submit(q, diskOf(p), kind, n),
         q = p => pc'[p] \in {"fPoll", "dPoll", "pPoll", "uPoll"},
         q = p /\ pc'[p] \in Awaits =>
             /\ job[p].op = "publish" => kind = "attach" /\ n = nodeOf(p)
             /\ job[p].op = "unpublish" => kind = "detach"
             /\ job[p].op = "delete" => kind = "delete",
         q # p => pc'[p] = "ret" /\ res'[p] = "err"
  PROVE  PollOK' /\ TaskOK'
  <1> DEFINE d == diskOf(p)
  <1>d. /\ disk'[d].task = kind /\ disk'[d].to = n /\ disk'[d].by = q
        /\ \A e \in Disk : e # d => disk'[e] = disk[e]
    BY DEF Submit, Known, TypeOK, CloudTypeOK, DiskRecord
  <1>o. \A r \in Proc : outcome'[r] = IF r = q THEN "doing" ELSE outcome[r]
    BY DEF Submit, Await
  <1>n. NoProc \notin Proc
    BY CloudAssumption
  <1>1. PollOK'
    <2> SUFFICES ASSUME NEW e \in Disk, NEW r \in Proc, disk'[e].by = r
                 PROVE  /\ diskOf(r)' = e /\ pc'[r] \in Polls /\ outcome'[r] = "doing"
                        /\ pc'[r] = "cPoll" => disk'[e].task = "create"
      BY DEF PollOK
    <2>1. CASE e = d
      BY <2>1, <1>d, <1>o, <1>n DEF diskOf, Polls
    <2>2. CASE e # d
      <3>1. diskOf(r) = e /\ pc[r] \in Polls /\ outcome[r] = "doing"
        BY <2>2, <1>d DEF PollOK
      <3>2. r # p
        BY <3>1, <2>2
      <3> QED BY <2>2, <3>1, <3>2, <1>d, <1>o DEF PollOK, OthersKept, diskOf
    <2> QED BY <2>1, <2>2
  <1>2. TaskOK'
    <2> SUFFICES ASSUME NEW r \in Proc
                 PROVE  /\ pc'[r] \in Awaits /\ outcome'[r] = "doing" =>
                              disk'[diskOf(r)'].by = r /\ Runs(r)'
                        /\ pc'[r] \in Awaits /\ outcome'[r] = "finish" => Effect(r)'
                        /\ pc'[r] = "ret" /\ res'[r] = "ok" /\ diskOf(r)' \in held'[r]
                           /\ job'[r].op # "create" => Effect(r)'
      BY DEF TaskOK
    <2>1. CASE r = p
      BY <2>1, <1>d, <1>o, <1>n DEF diskOf, nodeOf, Runs, Awaits
    <2>2. CASE r # p
      <3>1. \/ pc[r] \in Awaits
            \/ pc[r] = "ret" /\ res[r] = "ok" /\ diskOf(r) \in held[r]
            => diskOf(r) \in Disk /\ diskOf(r) # d
        BY <2>2 DEF Known, JobOK, ArgsOK, HeldOK, Awaits, HasDisk, DeleteAt, PublishAt, UnpublishAt,
                    HoldsDisk, CacheLocksOwned
      <3>2. r # q
        BY <2>2, <1>n
      <3>3. pc'[r] = pc[r] /\ res'[r] = res[r] /\ outcome'[r] = outcome[r]
        BY <2>2, <3>2, <1>o DEF OthersKept
      <3> QED BY <3>1, <3>3, <1>d DEF TaskOK, Runs, Effect, AttachedTo, diskOf, nodeOf
    <2> QED BY <2>1, <2>2
  <1> QED BY <1>1, <1>2

(* A disk is ordered, by a request that has none yet.                      *)
LEMMA SubmitCreateTasks ==
  ASSUME Known, PollOK, TaskOK, NEW p \in Proc, OthersKept(p), held' = held, pc[p] = "cSubmit",
         NEW q \in {p, NoProc}, NEW d \in Disk, NEW pv, SubmitCreate(q, d, pv),
         q = p => pc'[p] = "cPoll" /\ diskOf(p)' = d,
         q # p => pc'[p] = "ret" /\ res'[p] = "err"
  PROVE  PollOK' /\ TaskOK'
  <1>d. /\ disk[d].state = "none" /\ disk'[d].task = "create" /\ disk'[d].by = q
        /\ \A e \in Disk : e # d => disk'[e] = disk[e]
    BY DEF SubmitCreate, Known, TypeOK, CloudTypeOK, DiskRecord
  <1>o. \A r \in Proc : outcome'[r] = IF r = q THEN "doing" ELSE outcome[r]
    BY DEF SubmitCreate, Await
  <1>n. NoProc \notin Proc
    BY CloudAssumption
  <1>1. PollOK'
    <2> SUFFICES ASSUME NEW e \in Disk, NEW r \in Proc, disk'[e].by = r
                 PROVE  /\ diskOf(r)' = e /\ pc'[r] \in Polls /\ outcome'[r] = "doing"
                        /\ pc'[r] = "cPoll" => disk'[e].task = "create"
      BY DEF PollOK
    <2>1. CASE e = d
      BY <2>1, <1>d, <1>o, <1>n DEF Polls
    <2>2. CASE e # d
      <3>1. diskOf(r) = e /\ pc[r] \in Polls /\ outcome[r] = "doing"
        BY <2>2, <1>d DEF PollOK
      <3>2. r # p
        BY <3>1 DEF Polls
      <3> QED BY <2>2, <3>1, <3>2, <1>d, <1>o DEF PollOK, OthersKept, diskOf
    <2> QED BY <2>1, <2>2
  <1>2. TaskOK'
    <2> SUFFICES ASSUME NEW r \in Proc
                 PROVE  /\ pc'[r] \in Awaits /\ outcome'[r] = "doing" =>
                              disk'[diskOf(r)'].by = r /\ Runs(r)'
                        /\ pc'[r] \in Awaits /\ outcome'[r] = "finish" => Effect(r)'
                        /\ pc'[r] = "ret" /\ res'[r] = "ok" /\ diskOf(r)' \in held'[r]
                           /\ job'[r].op # "create" => Effect(r)'
      BY DEF TaskOK
    <2>1. CASE r = p
      BY <2>1, <1>n DEF Awaits
    <2>2. CASE r # p
      <3>1. pc'[r] = pc[r] /\ res'[r] = res[r] /\ outcome'[r] = outcome[r]
        BY <2>2, <1>o, <1>n DEF OthersKept
      <3>2. pc[r] \in Awaits => diskOf(r) \in Disk /\ job[r].op # "create"
        BY DEF Known, JobOK, ArgsOK, Awaits, HasDisk, DeleteAt, PublishAt, UnpublishAt
      <3>3. pc[r] = "ret" /\ res[r] = "ok" => diskOf(r) \in Disk
        BY DEF Known, JobOK, ArgsOK
      <3>4. job[r].op \in {"create", "delete", "publish", "unpublish"}
        BY DEF Known, TypeOK, Request
      <3>5. diskOf(r) = d => disk[d].task = "none"
        BY <1>d DEF Known, CloudShape
      <3>6. job[r].op # "create" /\ (Runs(r) \/ Effect(r)) => diskOf(r) # d
        BY <1>d, <3>4, <3>5 DEF Runs, Effect, AttachedTo
      <3>7. diskOf(r) \in Disk /\ diskOf(r) # d => disk'[diskOf(r)] = disk[diskOf(r)]
        BY <1>d
      <3>8. job'[r] = job[r] /\ held'[r] = held[r]
        BY <2>2 DEF OthersKept
      <3>9. disk'[diskOf(r)] = disk[diskOf(r)] => (Runs(r) => Runs(r)') /\ (Effect(r) => Effect(r)')
        BY <3>8 DEF Runs, Effect, AttachedTo, diskOf, nodeOf
      <3> QED BY <3>1, <3>2, <3>3, <3>6, <3>7, <3>8, <3>9 DEF TaskOK, diskOf
    <2> QED BY <2>1, <2>2
  <1> QED BY <1>1, <1>2

(* waitTaskFinish ends: the task has finished, or is polled no more.       *)
LEMMA WaitTasks ==
  ASSUME Known, PollOK, TaskOK, NEW p \in Proc, OthersKept(p), job' = job, held' = held,
         pc[p] \in Polls, pc'[p] \in {"ret", "fDone"},
         \/ /\ TaskDone(p) /\ ClearOutcome(p)
            /\ pc'[p] = "ret" => pc[p] # "fPoll"
         \/ pc'[p] = "ret" /\ res'[p] = "err" /\ Forget(p, diskOf(p))
  PROVE  PollOK' /\ TaskOK'
  <1>d. diskOf(p) \in Disk
    BY DEF Known, JobOK, ArgsOK, Polls, HasDisk, DeleteAt, PublishAt, UnpublishAt
  <1>1. CASE TaskDone(p) /\ ClearOutcome(p) /\ (pc'[p] = "ret" => pc[p] # "fPoll")
    <2>1. outcome[p] = "finish" /\ disk' = disk
          /\ \A r \in Proc : r # p => outcome'[r] = outcome[r]
      BY <1>1 DEF TaskDone, ClearOutcome, Known, TypeOK, CloudTypeOK
    <2>2. PollOK'
      BY <2>1 DEF PollOK, OthersKept, diskOf
    <2>3. pc[p] = "cPoll" => diskOf(p) \notin held[p]
      BY <1>d DEF Known, JobOK, HeldOK, HoldsNoDisk
    <2>4. pc'[p] = "ret" /\ diskOf(p) \in held[p] => Effect(p)
      BY <1>1, <2>1, <2>3 DEF TaskOK, Polls, Awaits
    <2>5. TaskOK'
      BY <2>1, <2>4 DEF TaskOK, OthersKept, diskOf, nodeOf, Runs, Effect, AttachedTo, Awaits
    <2> QED BY <2>2, <2>5
  <1>2. CASE pc'[p] = "ret" /\ res'[p] = "err" /\ Forget(p, diskOf(p))
    <2>1. \A r \in Proc : r # p => outcome'[r] = outcome[r]
      BY <1>2 DEF Forget, Known, TypeOK, CloudTypeOK
    <2>2. \A e \in Disk : /\ disk'[e].task = disk[e].task /\ disk'[e].state = disk[e].state
                          /\ disk'[e].node = disk[e].node /\ disk'[e].to = disk[e].to
                          /\ disk'[e].by = IF e = diskOf(p) /\ disk[e].by = p THEN NoProc ELSE disk[e].by
      BY <1>2, <1>d DEF Forget, Known, TypeOK, CloudTypeOK, DiskRecord
    <2>3. PollOK'
      BY <2>1, <2>2, CloudAssumption DEF PollOK, OthersKept, diskOf
    <2>4. TaskOK'
      <3> SUFFICES ASSUME NEW r \in Proc, r # p
                   PROVE  /\ pc'[r] \in Awaits /\ outcome'[r] = "doing" =>
                                disk'[diskOf(r)'].by = r /\ Runs(r)'
                          /\ pc'[r] \in Awaits /\ outcome'[r] = "finish" => Effect(r)'
                          /\ pc'[r] = "ret" /\ res'[r] = "ok" /\ diskOf(r)' \in held'[r]
                             /\ job'[r].op # "create" => Effect(r)'
        BY <1>2 DEF TaskOK, Awaits
      <3>1. pc[r] \in Awaits \/ (pc[r] = "ret" /\ res[r] = "ok") => diskOf(r) \in Disk
        BY DEF Known, JobOK, ArgsOK, Awaits, HasDisk, DeleteAt, PublishAt, UnpublishAt
      <3>2. diskOf(r) \in Disk => (Runs(r) => Runs(r)') /\ (Effect(r) => Effect(r)')
        BY <2>2 DEF Runs, Effect, AttachedTo, diskOf, nodeOf
      <3>3. pc'[r] = pc[r] /\ res'[r] = res[r] /\ outcome'[r] = outcome[r] /\ diskOf(r)' = diskOf(r)
        BY <2>1 DEF OthersKept, diskOf
      <3> QED BY <2>2, <3>1, <3>2, <3>3 DEF TaskOK
    <2> QED BY <2>3, <2>4
  <1> QED BY <1>1, <1>2

(* A task ends, and its effect is what its kind says.                      *)
LEMMA EndTasks ==
  ASSUME Known, PollOK, TaskOK, UNCHANGED goroutines, NEW d \in Disk, disk[d].task # "none",
         NEW state, NEW node, NEW result \in {"finish", "error"}, EndTask(d, state, node, result),
         result = "finish" => /\ disk[d].task = "attach" => state = "attached" /\ node = disk[d].to
                              /\ disk[d].task = "detach" => state = "free"
                              /\ disk[d].task = "delete" => state = "gone"
  PROVE  PollOK' /\ TaskOK'
  <1>d. /\ disk'[d].task = "none" /\ disk'[d].by = NoProc
        /\ disk'[d].state = state /\ disk'[d].node = node
        /\ \A e \in Disk : e # d => disk'[e] = disk[e]
    BY DEF EndTask, Known, TypeOK, CloudTypeOK, DiskRecord
  <1>o. \A r \in Proc : outcome'[r] = IF r = disk[d].by THEN result ELSE outcome[r]
    BY DEF EndTask
  <1>n. NoProc \notin Proc
    BY CloudAssumption
  <1>g. pc' = pc /\ res' = res /\ held' = held /\ job' = job
    BY DEF goroutines
  <1>1. PollOK'
    BY <1>d, <1>o, <1>n, <1>g DEF PollOK, diskOf
  <1>2. TaskOK'
    <2> SUFFICES ASSUME NEW r \in Proc
                 PROVE  /\ pc[r] \in Awaits /\ outcome'[r] = "doing" =>
                              disk'[diskOf(r)].by = r /\ Runs(r)'
                        /\ pc[r] \in Awaits /\ outcome'[r] = "finish" => Effect(r)'
                        /\ pc[r] = "ret" /\ res[r] = "ok" /\ diskOf(r) \in held[r]
                           /\ job[r].op # "create" => Effect(r)'
      BY <1>g DEF TaskOK, diskOf
    <2>1. pc[r] \in Awaits \/ (pc[r] = "ret" /\ res[r] = "ok") => diskOf(r) \in Disk
      BY DEF Known, JobOK, ArgsOK, Awaits, HasDisk, DeleteAt, PublishAt, UnpublishAt
    <2>2. CASE r = disk[d].by
      <3>1. diskOf(r) = d /\ pc[r] \in Polls /\ outcome[r] = "doing" /\ outcome'[r] = result
        BY <2>2, <1>o DEF PollOK
      <3>2. pc[r] \in Awaits => Runs(r)
        BY <3>1 DEF TaskOK
      <3>3. pc[r] \in Awaits /\ result = "finish" => Effect(r)'
        BY <3>1, <3>2, <1>d, <1>g DEF Runs, Effect, AttachedTo, diskOf, nodeOf
      <3> QED BY <3>1, <3>3 DEF Polls
    <2>3. CASE r # disk[d].by
      <3>1. outcome'[r] = outcome[r]
        BY <2>3, <1>o
      <3>2. pc[r] \in Awaits /\ outcome[r] = "doing" => diskOf(r) # d
        BY <2>3 DEF TaskOK
      <3>3. Effect(r) => diskOf(r) # d
        BY DEF Effect
      <3>4. diskOf(r) \in Disk /\ diskOf(r) # d => disk'[diskOf(r)] = disk[diskOf(r)]
        BY <1>d
      <3>5. disk'[diskOf(r)] = disk[diskOf(r)] => (Runs(r) => Runs(r)') /\ (Effect(r) => Effect(r)')
        BY <1>g DEF Runs, Effect, AttachedTo, diskOf, nodeOf
      <3> QED BY <2>1, <3>1, <3>2, <3>3, <3>4, <3>5 DEF TaskOK
    <2> QED BY <2>2, <2>3
  <1> QED BY <1>1, <1>2

(* What a step of a request without the cloud changes: itself only, and    *)
(* the answer it comes to, if any, is of a disk it does not hold.          *)
Quiet(p) ==
    /\ OthersKept(p) /\ UNCHANGED <<disk, outcome>>
    /\ pc[p] \notin Polls /\ pc'[p] \notin Polls
    /\ pc'[p] = "ret" /\ res'[p] = "ok" /\ job'[p].op # "create" => diskOf(p)' \notin held'[p]

(* Such a step keeps tasks and their requests together.                    *)
LEMMA QuietKeepsTasks ==
  ASSUME Known, PollOK, TaskOK, NEW p \in Proc, Quiet(p)
  PROVE  PollOK' /\ TaskOK'
  BY QuietTasks DEF Quiet

(* A LoadOrStore is one.                                                   *)
LEMMA LockQuiet ==
  ASSUME TypeOK, NEW p \in Proc, NEW at, NEW id, NEW to, Lock(p, at, id, to),
         at \notin Polls, to \notin Polls, to # "ret"
  PROVE  Quiet(p)
  BY DEF Lock, Refuse, Return, Quiet, OthersKept, TypeOK, cloud, Polls

(* One request to start a task: accepted, accepted and lost, or refused.   *)
LEMMA StartTaskTasks ==
  ASSUME Known, PollOK, TaskOK, NEW p \in Proc, NEW at \in HoldsDisk \ Polls,
         NEW to \in {"fPoll", "dPoll", "pPoll", "uPoll"}, NEW kind, NEW n,
         StartTask(p, at, to, kind, n),
         to \in Awaits => /\ job[p].op = "publish" => kind = "attach" /\ n = nodeOf(p)
                          /\ job[p].op = "unpublish" => kind = "detach"
                          /\ job[p].op = "delete" => kind = "delete"
  PROVE  PollOK' /\ TaskOK'
  <1>1. diskOf(p) \in held[p] /\ diskOf(p) \in Disk /\ pc[p] \notin Polls
    BY DEF StartTask, Known, JobOK, ArgsOK, HeldOK, HoldsDisk, Polls, HasDisk, DeleteAt, PublishAt,
           UnpublishAt
  <1>2. CASE Goto(p, to) /\ Submit(p, diskOf(p), kind, n)
    <2>1. OthersKept(p) /\ job' = job /\ held' = held /\ pc'[p] = to
      BY <1>2 DEF Goto, OthersKept, Known, TypeOK
    <2> QED BY <1>1, <1>2, <2>1, SubmitTasks
  <1>3. CASE Return(p, "err") /\ Submit(NoProc, diskOf(p), kind, n)
    <2>1. OthersKept(p) /\ job' = job /\ held' = held /\ pc'[p] = "ret" /\ res'[p] = "err"
      BY <1>3 DEF Return, OthersKept, Known, TypeOK
    <2> QED BY <1>1, <1>3, <2>1, SubmitTasks, CloudAssumption
  <1>4. CASE Refuse(p)
    <2>1. Quiet(p)
      BY <1>1, <1>4 DEF Refuse, Return, Quiet, OthersKept, Known, TypeOK, cloud, Polls
    <2> QED BY <2>1, QuietKeepsTasks
  <1> QED BY <1>2, <1>3, <1>4 DEF StartTask

(* One wait for a task.                                                    *)
LEMMA WaitTaskTasks ==
  ASSUME Known, PollOK, TaskOK, NEW p \in Proc,
         ForceDetachPoll(p) \/ (\E at \in Polls \ {"fPoll"} : WaitTask(p, at))
  PROVE  PollOK' /\ TaskOK'
  <1>1. OthersKept(p) /\ job' = job /\ held' = held /\ pc[p] \in Polls
    BY DEF ForceDetachPoll, WaitTask, GiveUp, Goto, Return, OthersKept, Known, TypeOK, Polls
  <1>2. \/ TaskDone(p) /\ ClearOutcome(p) /\ pc'[p] = "ret" /\ pc[p] # "fPoll"
        \/ TaskDone(p) /\ ClearOutcome(p) /\ pc'[p] = "fDone"
        \/ pc'[p] = "ret" /\ res'[p] = "err" /\ Forget(p, diskOf(p))
    BY DEF ForceDetachPoll, WaitTask, GiveUp, Goto, Return, Known, TypeOK
  <1> QED BY <1>1, <1>2, WaitTasks

(* CreateVolume.                                                           *)
LEMMA CreateTasks ==
  ASSUME Known, PollOK, TaskOK, NEW p \in Proc, CreateVolume(p)
  PROVE  PollOK' /\ TaskOK'
  <1>1. CASE CreateCheck(p)
    <2>1. Quiet(p)
      BY <1>1 DEF CreateCheck, Goto, Return, Refuse, Continue, Quiet, OthersKept, Known, TypeOK, cloud, Polls
    <2> QED BY <2>1, QuietKeepsTasks
  <1>2. CASE Lock(p, "cLock", pvOf(p), "cInfo")
    BY <1>2, LockQuiet, QuietKeepsTasks DEF Known, Polls
  <1>3. CASE CreateInfo(p)
    <2>1. held[p] \intersect Disk = {}
      BY <1>3 DEF CreateInfo, Known, JobOK, HeldOK, HoldsNoDisk
    <2>2. Quiet(p)
      BY <1>3, <2>1
      DEF CreateInfo, BlocksNamed, Goto, Return, Refuse, Continue, Quiet, OthersKept, Known, TypeOK,
          cloud, Polls, diskOf, Request
    <2> QED BY <2>2, QuietKeepsTasks
  <1>4. CASE CreateSubmit(p)
    <2>1. CASE Refuse(p)
      <3>1. Quiet(p)
        BY <1>4, <2>1 DEF CreateSubmit, Refuse, Return, Quiet, OthersKept, Known, TypeOK, cloud, Polls
      <3> QED BY <3>1, QuietKeepsTasks
    <2>2. ASSUME NEW d \in Disk, SubmitCreate(p, d, pvOf(p)), pc' = [pc EXCEPT ![p] = "cPoll"],
                 job' = [job EXCEPT ![p].disk = d], UNCHANGED <<res, held>>
          PROVE  PollOK' /\ TaskOK'
      <3>1. OthersKept(p) /\ pc'[p] = "cPoll" /\ diskOf(p)' = d
        BY <2>2 DEF OthersKept, Known, TypeOK, diskOf, Request
      <3> QED BY <1>4, <2>2, <3>1, SubmitCreateTasks DEF CreateSubmit
    <2>3. ASSUME NEW d \in Disk, SubmitCreate(NoProc, d, pvOf(p)), Return(p, "err")
          PROVE  PollOK' /\ TaskOK'
      <3>1. OthersKept(p) /\ pc'[p] = "ret" /\ res'[p] = "err" /\ held' = held
        BY <2>3 DEF Return, OthersKept, Known, TypeOK
      <3> QED BY <1>4, <2>3, <3>1, SubmitCreateTasks, CloudAssumption DEF CreateSubmit
    <2> QED BY <1>4, <2>1, <2>2, <2>3 DEF CreateSubmit
  <1>5. CASE CreatePoll(p)
    BY <1>5, WaitTaskTasks DEF CreatePoll, Polls
  <1> QED BY <1>1, <1>2, <1>3, <1>4, <1>5 DEF CreateVolume

(* DeleteVolume.                                                           *)
LEMMA DeleteTasks ==
  ASSUME Known, PollOK, TaskOK, NEW p \in Proc, DeleteVolume(p)
  PROVE  PollOK' /\ TaskOK'
  <1>1. CASE DeleteInfo(p)
    <2>1. held[p] = {}
      BY <1>1 DEF DeleteInfo, Known, JobOK, HeldOK, HoldsNothing
    <2>2. Quiet(p)
      BY <1>1, <2>1 DEF DeleteInfo, Goto, Return, Refuse, Continue, Succeed, Quiet, OthersKept, Known, TypeOK,
                  cloud, Polls
    <2> QED BY <2>2, QuietKeepsTasks
  <1>2. CASE Lock(p, "dLock", diskOf(p), "dSubmit")
    BY <1>2, LockQuiet, QuietKeepsTasks DEF Known, Polls
  <1>3. CASE DeleteSubmit(p)
    <2>1. job[p].op = "delete"
      BY <1>3 DEF DeleteSubmit, StartTask, Known, JobOK, ArgsOK, DeleteAt
    <2> QED BY <1>3, <2>1, StartTaskTasks DEF DeleteSubmit, HoldsDisk, Polls
  <1>4. CASE DeletePoll(p)
    BY <1>4, WaitTaskTasks DEF DeletePoll, Polls
  <1> QED BY <1>1, <1>2, <1>3, <1>4 DEF DeleteVolume

(* ControllerPublishVolume.                                                *)
LEMMA PublishTasks ==
  ASSUME Known, PollOK, TaskOK, NEW p \in Proc, ControllerPublishVolume(p)
  PROVE  PollOK' /\ TaskOK'
  <1>1. CASE PublishInfo(p)
    <2>1. held[p] = {}
      BY <1>1 DEF PublishInfo, Known, JobOK, HeldOK, HoldsNothing
    <2>2. Quiet(p)
      BY <1>1, <2>1 DEF PublishInfo, Goto, Return, Refuse, Continue, Succeed, Quiet, OthersKept, Known, TypeOK,
                  cloud, Polls
    <2> QED BY <2>2, QuietKeepsTasks
  <1>2. CASE PublishReady(p) \/ PublishNum(p) \/ ForceDetachDone(p)
    <2>1. Quiet(p)
      BY <1>2 DEF PublishReady, PublishNum, ForceDetachDone, Goto, Return, Refuse, Continue, Quiet,
                  OthersKept, Known, TypeOK, cloud, Polls
    <2> QED BY <2>1, QuietKeepsTasks
  <1>3. CASE \/ Lock(p, "fNode", diskMountedNodeID[p], "fDisk") \/ Lock(p, "fDisk", diskOf(p), "fSubmit")
             \/ Lock(p, "pNode", nodeOf(p), "pDisk") \/ Lock(p, "pDisk", diskOf(p), "pSubmit")
    BY <1>3, LockQuiet, QuietKeepsTasks DEF Known, Polls
  <1>4. CASE ForceDetachSubmit(p)
    BY <1>4, StartTaskTasks DEF ForceDetachSubmit, HoldsDisk, Polls, Awaits
  <1>5. CASE PublishSubmit(p)
    <2>1. job[p].op = "publish"
      BY <1>5 DEF PublishSubmit, StartTask, Known, JobOK, ArgsOK, PublishAt
    <2> QED BY <1>5, <2>1, StartTaskTasks DEF PublishSubmit, HoldsDisk, Polls
  <1>6. CASE ForceDetachPoll(p) \/ PublishPoll(p)
    BY <1>6, WaitTaskTasks DEF PublishPoll, Polls
  <1> QED BY <1>1, <1>2, <1>3, <1>4, <1>5, <1>6 DEF ControllerPublishVolume

(* ControllerUnpublishVolume.                                              *)
LEMMA UnpublishTasks ==
  ASSUME Known, PollOK, TaskOK, NEW p \in Proc, ControllerUnpublishVolume(p)
  PROVE  PollOK' /\ TaskOK'
  <1>1. CASE UnpublishInfo(p)
    <2>1. held[p] = {}
      BY <1>1 DEF UnpublishInfo, Known, JobOK, HeldOK, HoldsNothing
    <2>2. Quiet(p)
      BY <1>1, <2>1 DEF UnpublishInfo, Goto, Return, Refuse, Continue, Succeed, Quiet, OthersKept, Known, TypeOK,
                  cloud, Polls
    <2> QED BY <2>2, QuietKeepsTasks
  <1>2. CASE Lock(p, "uNode", nodeOf(p), "uDisk") \/ Lock(p, "uDisk", diskOf(p), "uSubmit")
    BY <1>2, LockQuiet, QuietKeepsTasks DEF Known, Polls
  <1>3. CASE UnpublishSubmit(p)
    <2>1. job[p].op = "unpublish"
      BY <1>3 DEF UnpublishSubmit, StartTask, Known, JobOK, ArgsOK, UnpublishAt
    <2> QED BY <1>3, <2>1, StartTaskTasks DEF UnpublishSubmit, HoldsDisk, Polls
  <1>4. CASE UnpublishPoll(p)
    BY <1>4, WaitTaskTasks DEF UnpublishPoll, Polls
  <1> QED BY <1>1, <1>2, <1>3, <1>4 DEF ControllerUnpublishVolume

(* Tasks and their requests stay together.                                 *)
LEMMA NextTasks ==
  ASSUME Known, PollOK, TaskOK, [Next]_vars
  PROVE  PollOK' /\ TaskOK'
  <1>1. ASSUME NEW p \in Proc, Unlock(p)
        PROVE  PollOK' /\ TaskOK'
    <2>1. /\ OthersKept(p) /\ UNCHANGED <<disk, outcome>> /\ pc' = pc /\ res' = res /\ job' = job
          /\ pc[p] \notin Polls /\ held'[p] \subseteq held[p]
      BY <1>1 DEF Unlock, OthersKept, Known, TypeOK, cloud, Polls
    <2>2. Effect(p) => Effect(p)'
      BY <2>1 DEF Effect, AttachedTo, diskOf, nodeOf
    <2>3. pc'[p] = "ret" /\ res'[p] = "ok" /\ diskOf(p)' \in held'[p] /\ job'[p].op # "create" => Effect(p)'
      BY <2>1, <2>2 DEF TaskOK, diskOf
    <2> QED BY <2>1, <2>3, QuietTasks
  <1>2. ASSUME NEW p \in Proc, Answer(p)
        PROVE  PollOK' /\ TaskOK'
    <2>1. Quiet(p)
      BY <1>2 DEF Answer, Quiet, OthersKept, Known, TypeOK, cloud, Polls
    <2> QED BY <2>1, QuietKeepsTasks
  <1>3. ASSUME NEW p \in Proc, NEW r \in Requests, Start(p, r)
        PROVE  PollOK' /\ TaskOK'
    <2>1. r.op \in {"create", "delete", "publish", "unpublish"}
      BY EksAssumption DEF Request
    <2>2. Quiet(p)
      BY <1>3, <2>1 DEF Start, Quiet, OthersKept, Known, TypeOK, cloud, Polls
    <2> QED BY <2>2, QuietKeepsTasks
  <1>4. CASE Restart
    BY <1>4, CloudAssumption DEF Restart, ForgetAll, PollOK, TaskOK, Awaits, Known, TypeOK, CloudTypeOK,
                                 DiskRecord
  <1>5. CASE CloudStep
    <2>1. PICK d \in Disk : TaskFinishes(d) \/ TaskFails(d)
      BY <1>5 DEF CloudStep
    <2>2. UNCHANGED goroutines
      BY <1>5 DEF CloudStep
    <2>3. CASE TaskFinishes(d)
      <3>1. PICK state, node : /\ EndTask(d, state, node, "finish") /\ disk[d].task # "none"
                               /\ disk[d].task = "attach" => state = "attached" /\ node = disk[d].to
                               /\ disk[d].task = "detach" => state = "free"
                               /\ disk[d].task = "delete" => state = "gone"
        BY <2>3 DEF TaskFinishes
      <3> QED BY <2>2, <3>1, EndTasks
    <2>4. CASE TaskFails(d)
      BY <2>2, <2>4, EndTasks DEF TaskFails
    <2> QED BY <2>1, <2>3, <2>4
  <1>6. CASE UNCHANGED vars \/ \E n \in Node : NodeFlips(n)
    BY <1>6 DEF vars, NodeFlips, goroutines, cloud, PollOK, TaskOK, Runs, Effect, AttachedTo, diskOf, nodeOf
  <1> QED
    BY <1>1, <1>2, <1>3, <1>4, <1>5, <1>6, CreateTasks, DeleteTasks, PublishTasks, UnpublishTasks
    DEF Next, Handle

----------------------------------------------------------------------------
(* Every step, as the locks and the cloud see it.                          *)

Takes(p, id) ==
    /\ id \notin CacheLockMap /\ UNCHANGED disk
    /\ held' = [held EXCEPT ![p] = @ \union {id}]
Gives(p, id) ==
    /\ id \in held[p] /\ UNCHANGED disk
    /\ held' = [held EXCEPT ![p] = @ \ {id}]
Orders(p) ==
    /\ pc[p] = "cSubmit" /\ pc'[p] # "cSubmit" /\ UNCHANGED held
    /\ \E q \in {p, NoProc}, d \in Disk : SubmitCreate(q, d, pvOf(p))
Submits(p) ==
    /\ pc[p] \in HoldsDisk /\ UNCHANGED held
    /\ \E q \in {p, NoProc}, kind \in {"attach", "detach", "delete"}, n \in Node \union {NoNode} :
          /\ kind = "attach" => n \in Node
          /\ Submit(q, diskOf(p), kind, n)
Forgets(p) == pc[p] \in Polls /\ UNCHANGED held /\ Forget(p, diskOf(p))
Ends(d) == UNCHANGED held /\ (TaskFinishes(d) \/ TaskFails(d))

(* A step takes or gives back a lock, orders a disk, submits or stops      *)
(* polling a task, ends one, restarts the controller, or does none of this.*)
LEMMA Steps ==
  ASSUME TypeOK, JobOK, [Next]_vars
  PROVE  \/ UNCHANGED <<disk, held>>
         \/ \E p \in Proc : \/ \E id \in Id : Takes(p, id) \/ Gives(p, id)
                            \/ Orders(p) \/ Submits(p) \/ Forgets(p)
         \/ \E d \in Disk : Ends(d)
         \/ Restart
  <1> DEFINE Step(p) == \/ UNCHANGED <<disk, held>>
                        \/ \E id \in Id : Takes(p, id) \/ Gives(p, id)
                        \/ Orders(p) \/ Submits(p) \/ Forgets(p)
  <1>lock. ASSUME NEW p \in Proc, NEW at, NEW id \in Id, NEW to, Lock(p, at, id, to)
           PROVE  Step(p)
    BY <1>lock DEF Lock, Takes, Refuse, Return, cloud
  <1>start. ASSUME NEW p \in Proc, NEW at \in HoldsDisk, NEW to,
                   NEW kind \in {"attach", "detach", "delete"}, NEW n \in Node \union {NoNode},
                   kind = "attach" => n \in Node, StartTask(p, at, to, kind, n)
            PROVE  Step(p)
    BY <1>start DEF StartTask, Submits, Refuse, Return, Goto, cloud
  <1>wait. ASSUME NEW p \in Proc, NEW at \in Polls, WaitTask(p, at)
           PROVE  Step(p)
    BY <1>wait DEF WaitTask, GiveUp, ClearOutcome, Forgets, Return
  <1>1. ASSUME NEW p \in Proc, CreateVolume(p)
        PROVE  Step(p)
    <2>1. CASE CreateCheck(p) \/ CreateInfo(p)
      BY <2>1 DEF CreateCheck, CreateInfo, Goto, Return, Refuse, Continue, cloud
    <2>2. CASE Lock(p, "cLock", pvOf(p), "cInfo")
      <3>1. pvOf(p) \in Id
        BY <2>2 DEF Lock, JobOK, ArgsOK, CreateAt, Id
      <3> QED BY <2>2, <3>1, <1>lock
    <2>3. CASE CreateSubmit(p)
      BY <2>3 DEF CreateSubmit, Orders, Refuse, Return, cloud, TypeOK
    <2>4. CASE CreatePoll(p)
      BY <2>4, <1>wait DEF CreatePoll, Polls
    <2> QED BY <1>1, <2>1, <2>2, <2>3, <2>4 DEF CreateVolume
  <1>2. ASSUME NEW p \in Proc, DeleteVolume(p)
        PROVE  Step(p)
    <2>1. CASE DeleteInfo(p)
      BY <2>1 DEF DeleteInfo, Goto, Return, Refuse, Continue, Succeed, cloud
    <2>2. CASE Lock(p, "dLock", diskOf(p), "dSubmit")
      <3>1. diskOf(p) \in Id
        BY <2>2 DEF Lock, JobOK, ArgsOK, DeleteAt, HasDisk, Id
      <3> QED BY <2>2, <3>1, <1>lock
    <2>3. CASE DeleteSubmit(p)
      BY <2>3, <1>start DEF DeleteSubmit, HoldsDisk
    <2>4. CASE DeletePoll(p)
      BY <2>4, <1>wait DEF DeletePoll, Polls
    <2> QED BY <1>2, <2>1, <2>2, <2>3, <2>4 DEF DeleteVolume
  <1>3. ASSUME NEW p \in Proc, ControllerPublishVolume(p)
        PROVE  Step(p)
    <2>a. pc[p] \in PublishAt => diskOf(p) \in Id /\ nodeOf(p) \in Node /\ nodeOf(p) \in Id
      BY DEF JobOK, ArgsOK, PublishAt, HasDisk, Id
    <2>1. CASE PublishInfo(p) \/ PublishReady(p) \/ PublishNum(p) \/ ForceDetachDone(p)
      BY <2>1 DEF PublishInfo, PublishReady, PublishNum, ForceDetachDone, Goto, Return, Refuse,
                  Continue, Succeed, cloud
    <2>2. CASE Lock(p, "fNode", diskMountedNodeID[p], "fDisk")
      <3>1. diskMountedNodeID[p] \in Id
        BY <2>2 DEF Lock, JobOK, ArgsOK, Id
      <3> QED BY <2>2, <3>1, <1>lock
    <2>3. CASE \/ Lock(p, "fDisk", diskOf(p), "fSubmit") \/ Lock(p, "pNode", nodeOf(p), "pDisk")
               \/ Lock(p, "pDisk", diskOf(p), "pSubmit")
      <3>1. diskOf(p) \in Id /\ nodeOf(p) \in Id
        BY <2>3, <2>a DEF Lock, PublishAt
      <3> QED BY <2>3, <3>1, <1>lock
    <2>4. CASE ForceDetachSubmit(p)
      BY <2>4, <1>start DEF ForceDetachSubmit, HoldsDisk
    <2>5. CASE PublishSubmit(p)
      <3>1. nodeOf(p) \in Node
        BY <2>5, <2>a DEF PublishSubmit, StartTask, PublishAt
      <3> QED BY <2>5, <3>1, <1>start DEF PublishSubmit, HoldsDisk
    <2>6. CASE ForceDetachPoll(p)
      BY <2>6 DEF ForceDetachPoll, GiveUp, ClearOutcome, Forgets, Goto, Return, Polls
    <2>7. CASE PublishPoll(p)
      BY <2>7, <1>wait DEF PublishPoll, Polls
    <2> QED BY <1>3, <2>1, <2>2, <2>3, <2>4, <2>5, <2>6, <2>7 DEF ControllerPublishVolume
  <1>4. ASSUME NEW p \in Proc, ControllerUnpublishVolume(p)
        PROVE  Step(p)
    <2>1. CASE UnpublishInfo(p)
      BY <2>1 DEF UnpublishInfo, Goto, Return, Refuse, Continue, Succeed, cloud
    <2>2. CASE Lock(p, "uNode", nodeOf(p), "uDisk") \/ Lock(p, "uDisk", diskOf(p), "uSubmit")
      <3>1. nodeOf(p) \in Id /\ diskOf(p) \in Id
        BY <2>2 DEF Lock, JobOK, ArgsOK, UnpublishAt, HasDisk, Id
      <3> QED BY <2>2, <3>1, <1>lock
    <2>3. CASE UnpublishSubmit(p)
      BY <2>3, <1>start DEF UnpublishSubmit, HoldsDisk
    <2>4. CASE UnpublishPoll(p)
      BY <2>4, <1>wait DEF UnpublishPoll, Polls
    <2> QED BY <1>4, <2>1, <2>2, <2>3, <2>4 DEF ControllerUnpublishVolume
  <1>5. ASSUME NEW p \in Proc, Unlock(p)
        PROVE  Step(p)
    <2>1. held[p] \subseteq Id
      BY DEF TypeOK
    <2> QED BY <1>5, <2>1 DEF Unlock, Gives, cloud
  <1>6. ASSUME NEW p \in Proc, Answer(p) \/ (\E r \in Requests : Start(p, r))
        PROVE  Step(p)
    BY <1>6 DEF Answer, Start, cloud
  <1>7. CASE CloudStep
    BY <1>7 DEF CloudStep, Ends, goroutines
  <1>8. CASE UNCHANGED vars \/ \E n \in Node : NodeFlips(n)
    BY <1>8 DEF vars, NodeFlips, goroutines, cloud
  <1> HIDE DEF Step
  <1>9. (\E p \in Proc : Step(p)) \/ Restart \/ (\E d \in Disk : Ends(d)) \/ UNCHANGED <<disk, held>>
    BY <1>1, <1>2, <1>3, <1>4, <1>5, <1>6, <1>7, <1>8 DEF Next, Handle, Ends, CloudStep, goroutines,
       vars, NodeFlips, cloud
  <1> QED BY <1>9 DEF Step

(* The cloud's records keep their shape.                                   *)
LEMMA NextShape ==
  ASSUME TypeOK, JobOK, CloudShape, [Next]_vars
  PROVE  CloudShape'
  <1>t. CloudTypeOK
    BY DEF TypeOK
  <1>1. CASE UNCHANGED disk
    BY <1>1 DEF CloudShape
  <1>2. ASSUME NEW p \in Proc, Orders(p)
        PROVE  CloudShape'
    <2>1. pvOf(p) \in Pv
      BY <1>2 DEF Orders, JobOK, ArgsOK, CreateAt
    <2> QED BY <1>2, <1>t, <2>1, SubmitCreateShape DEF Orders
  <1>3. ASSUME NEW p \in Proc, Submits(p) \/ Forgets(p)
        PROVE  CloudShape'
    <2>1. diskOf(p) \in Disk
      BY <1>3 DEF Submits, Forgets, JobOK, ArgsOK, HasDisk, HoldsDisk, Polls, DeleteAt, PublishAt,
                  UnpublishAt
    <2> QED BY <1>3, <1>t, <2>1, SubmitShape, ForgetShape DEF Submits, Forgets
  <1>4. CASE Restart
    <2>1. ForgetAll
      BY <1>4 DEF Restart
    <2> QED BY <2>1, <1>t DEF ForgetAll, CloudShape, CloudTypeOK, DiskRecord
  <1>5. ASSUME NEW d \in Disk, Ends(d)
        PROVE  CloudShape'
    BY <1>5, <1>t, TaskEndsShape DEF Ends
  <1> QED BY <1>1, <1>2, <1>3, <1>4, <1>5, Steps DEF Takes, Gives

----------------------------------------------------------------------------
(* The inductive invariant, and what follows from it.                      *)

(* It holds of a controller that starts.                                   *)
LEMMA InitIInv == Init => IInv
  <1> SUFFICES ASSUME Init PROVE IInv
    OBVIOUS
  <1>1. TypeInv
    BY InitTypeInv
  <1>2. CacheLocksOwned
    BY DEF Init, Idle, CacheLocksOwned
  <1>3. CloudShape
    BY CloudInitShape DEF Init
  <1>4. PollOK /\ TaskOK
    BY CloudAssumption DEF Init, Idle, CloudInit, NewDisk, PollOK, TaskOK, Awaits
  <1> QED BY <1>1, <1>2, <1>3, <1>4 DEF IInv, TypeInv

(* It is kept by every step.                                               *)
LEMMA NextIInv == IInv /\ [Next]_vars => IInv'
  <1> SUFFICES ASSUME IInv, [Next]_vars PROVE IInv'
    OBVIOUS
  <1>1. TypeInv'
    BY NextTypeInv DEF IInv, TypeInv
  <1>2. CacheLocksOwned'
    BY NextLocks DEF IInv
  <1>3. CloudShape'
    BY NextShape DEF IInv
  <1>4. PollOK' /\ TaskOK'
    BY NextTasks DEF IInv, Known
  <1> QED BY <1>1, <1>2, <1>3, <1>4 DEF IInv, TypeInv

(* It holds always.                                                        *)
LEMMA AlwaysIInv == Spec => []IInv
  BY InitIInv, NextIInv, PTL DEF Spec

(* Every variable keeps its type, for every set of requests.               *)
THEOREM EksTypeCorrect == Spec => []TypeOK
  <1>1. IInv => TypeOK
    BY DEF IInv
  <1> QED BY <1>1, AlwaysIInv, PTL

(* CacheLockMap is a lock over names, nodes and disks together: what is in *)
(* it was put there by exactly one request, which will take it out again,  *)
(* however publishes that detach by force lock, unlock and lock again.     *)
THEOREM CacheLocksAreOwned == Spec => []CacheLocksOwned
  <1>1. IInv => CacheLocksOwned
    BY DEF IInv
  <1> QED BY <1>1, AlwaysIInv, PTL

(* What a success says of a disk is so until the disk is let go.           *)
THEOREM AnswersHold == Spec => []AnswerHoldsUnderLock
  <1>1. IInv => AnswerHoldsUnderLock
    <2> SUFFICES ASSUME IInv, NEW p \in Proc, pc[p] = "ret", res[p] = "ok",
                        diskOf(p) \in held[p], job[p].op # "create"
                 PROVE  /\ job[p].op = "publish" => AttachedTo(diskOf(p), nodeOf(p))
                        /\ job[p].op = "unpublish" => ~ AttachedTo(diskOf(p), nodeOf(p))
                        /\ job[p].op = "delete" => disk[diskOf(p)].state = "gone"
      BY DEF AnswerHoldsUnderLock
    <2>1. Effect(p)
      BY DEF IInv, TaskOK
    <2> QED BY <2>1 DEF Effect, AttachedTo
  <1> QED BY <1>1, AlwaysIInv, PTL

----------------------------------------------------------------------------
(* The blocks of a name.                                                   *)

(* A request that may order a block holds its name and has seen that there *)
(* is none.                                                                *)
NameOK ==
    /\ \A p \in Proc :
          /\ pc[p] \in {"cInfo", "cSubmit", "cPoll"} => pvOf(p) \in held[p]
          /\ pc[p] = "cSubmit" => BlocksNamed(pvOf(p)) = {}
    /\ \A d, e \in Disk : Exists(d) /\ Exists(e) /\ disk[d].pv = disk[e].pv /\ disk[d].pv \in Pv => d = e

(* Except where a disk is ordered, no block comes to be or changes name.   *)
NoneComes == \A d \in Disk : Exists(d)' => Exists(d) /\ disk'[d].pv = disk[d].pv

(* Every step that orders nothing is such a step.                          *)
LEMMA NoneComesStep ==
  ASSUME IInv, [Next]_vars
  PROVE  NoneComes \/ \E p \in Proc : Orders(p)
  <1>t. CloudTypeOK /\ TypeOK /\ JobOK
    BY DEF IInv, TypeOK
  <1>1. CASE UNCHANGED disk
    BY <1>1 DEF NoneComes, Exists
  <1>2. ASSUME NEW p \in Proc, Submits(p) \/ Forgets(p)
        PROVE  NoneComes
    <2>1. ASSUME NEW q, NEW kind, NEW n, Submit(q, diskOf(p), kind, n)
          PROVE  \A d \in Disk : disk'[d].pv = disk[d].pv /\ disk'[d].state = disk[d].state
      BY <2>1, <1>t DEF Submit, CloudTypeOK, DiskRecord
    <2>2. Forget(p, diskOf(p)) =>
             \A d \in Disk : disk'[d].pv = disk[d].pv /\ disk'[d].state = disk[d].state
      BY <1>t DEF Forget, CloudTypeOK, DiskRecord
    <2> QED BY <1>2, <2>1, <2>2 DEF Submits, Forgets, NoneComes, Exists
  <1>3. CASE Restart
    BY <1>3, <1>t DEF Restart, ForgetAll, NoneComes, Exists, CloudTypeOK, DiskRecord
  <1>4. ASSUME NEW d \in Disk, Ends(d)
        PROVE  NoneComes
    <2>1. PICK state, node, result : /\ EndTask(d, state, node, result)
                                     /\ Exists(d) \/ state \in {"none", "gone"}
      <3>1. CASE TaskFinishes(d)
        BY <3>1 DEF TaskFinishes, IInv, CloudShape, Exists
      <3>2. CASE TaskFails(d)
        BY <3>2 DEF TaskFails, IInv, CloudShape, Exists
      <3> QED BY <1>4, <3>1, <3>2 DEF Ends
    <2>2. disk'[d].state = state
      BY <2>1, <1>t DEF EndTask, CloudTypeOK, DiskRecord
    <2>3. \A e \in Disk : disk'[e].pv = disk[e].pv /\ (e # d => disk'[e] = disk[e])
      BY <2>1, <1>t DEF EndTask, CloudTypeOK, DiskRecord
    <2> QED BY <2>1, <2>2, <2>3 DEF NoneComes, Exists
  <1> QED BY <1>t, <1>1, <1>2, <1>3, <1>4, Steps DEF Takes, Gives

(* What locks a name and looks it up are the only ways on to ordering.     *)
LEMMA NameSteps ==
  ASSUME TypeInv, [Next]_vars, NEW p \in Proc
  PROVE  /\ pc'[p] = "cInfo" /\ pc[p] # "cInfo" => pvOf(p)' \in held'[p]
         /\ pc'[p] = "cSubmit" /\ pc[p] # "cSubmit" =>
               pc[p] = "cInfo" /\ BlocksNamed(pvOf(p)) = {} /\ UNCHANGED <<disk, job, held>>
         /\ pc'[p] = "cPoll" /\ pc[p] # "cPoll" => pc[p] = "cSubmit" /\ pvOf(p)' = pvOf(p) /\ UNCHANGED held
         /\ pc[p] \in {"cInfo", "cSubmit", "cPoll"} /\ pc'[p] = pc[p] =>
               job'[p] = job[p] /\ held'[p] = held[p]
  <1> DEFINE Goal == /\ pc'[p] = "cInfo" /\ pc[p] # "cInfo" => pvOf(p)' \in held'[p]
                     /\ pc'[p] = "cSubmit" /\ pc[p] # "cSubmit" =>
                           pc[p] = "cInfo" /\ BlocksNamed(pvOf(p)) = {} /\ UNCHANGED <<disk, job, held>>
                     /\ pc'[p] = "cPoll" /\ pc[p] # "cPoll" =>
                           pc[p] = "cSubmit" /\ pvOf(p)' = pvOf(p) /\ UNCHANGED held
                     /\ pc[p] \in {"cInfo", "cSubmit", "cPoll"} /\ pc'[p] = pc[p] =>
                           job'[p] = job[p] /\ held'[p] = held[p]
  <1> USE DEF TypeInv, TypeOK, Goto, Return, Refuse, Continue, Succeed, StartTask, WaitTask, GiveUp, Lock
  <1>1. ASSUME NEW q \in Proc, CreateVolume(q)
        PROVE  Goal
    <2>1. CASE CreateInfo(q)
      BY <1>1, <2>1 DEF CreateInfo, cloud, Request
    <2>2. CASE CreateSubmit(q)
      <3>1. CASE p = q
        <4>1. ASSUME NEW d, job' = [job EXCEPT ![p].disk = d]
              PROVE  job'[p].pv = job[p].pv
          BY <4>1 DEF Request
        <4> QED BY <2>2, <3>1, <4>1 DEF CreateSubmit, pvOf
      <3>2. CASE p # q
        BY <2>2, <3>2 DEF CreateSubmit
      <3> QED BY <3>1, <3>2
    <2>3. CASE CreateCheck(q) \/ Lock(q, "cLock", pvOf(q), "cInfo") \/ CreatePoll(q)
      BY <1>1, <2>3 DEF CreateCheck, CreatePoll, pvOf
    <2> QED BY <1>1, <2>1, <2>2, <2>3 DEF CreateVolume
  <1>2. ASSUME NEW q \in Proc, DeleteVolume(q)
        PROVE  Goal
    BY <1>2 DEF DeleteVolume, DeleteInfo, DeleteSubmit, DeletePoll
  <1>3. ASSUME NEW q \in Proc, ControllerPublishVolume(q)
        PROVE  Goal
    <2>1. CASE PublishInfo(q) \/ PublishReady(q) \/ PublishNum(q) \/ ForceDetachDone(q)
      BY <2>1 DEF PublishInfo, PublishReady, PublishNum, ForceDetachDone
    <2>2. CASE ForceDetachSubmit(q) \/ PublishSubmit(q)
      BY <2>2 DEF ForceDetachSubmit, PublishSubmit
    <2>3. CASE ForceDetachPoll(q) \/ PublishPoll(q)
      BY <2>3 DEF ForceDetachPoll, PublishPoll
    <2>4. CASE \/ Lock(q, "fNode", diskMountedNodeID[q], "fDisk") \/ Lock(q, "fDisk", diskOf(q), "fSubmit")
               \/ Lock(q, "pNode", nodeOf(q), "pDisk") \/ Lock(q, "pDisk", diskOf(q), "pSubmit")
      BY <2>4
    <2> QED BY <1>3, <2>1, <2>2, <2>3, <2>4 DEF ControllerPublishVolume
  <1>4. ASSUME NEW q \in Proc, ControllerUnpublishVolume(q)
        PROVE  Goal
    BY <1>4 DEF ControllerUnpublishVolume, UnpublishInfo, UnpublishSubmit, UnpublishPoll
  <1>5. ASSUME NEW q \in Proc, Unlock(q) \/ Answer(q)
        PROVE  Goal
    BY <1>5 DEF Unlock, Answer
  <1>6. ASSUME NEW q \in Proc, NEW r \in Requests, Start(q, r)
        PROVE  Goal
    <2>1. r.op \in {"create", "delete", "publish", "unpublish"}
      BY EksAssumption DEF Request
    <2> QED BY <1>6, <2>1 DEF Start
  <1>7. CASE Restart
    BY <1>7 DEF Restart
  <1>8. CASE CloudStep \/ UNCHANGED vars \/ \E n \in Node : NodeFlips(n)
    BY <1>8 DEF CloudStep, NodeFlips, vars, goroutines
  <1> QED BY <1>1, <1>2, <1>3, <1>4, <1>5, <1>6, <1>7, <1>8 DEF Next, Handle

(* NameOK is inductive.                                                    *)
LEMMA NextNames ==
  ASSUME IInv, NameOK, [Next]_vars
  PROVE  NameOK'
  <1>t. TypeInv /\ CloudTypeOK
    BY DEF IInv, TypeInv, TypeOK
  <1>0. ASSUME NEW p \in Proc, pc'[p] \in {"cInfo", "cSubmit", "cPoll"}
        PROVE  /\ pvOf(p)' \in held'[p]
               /\ pc'[p] # pc[p] \/ (job'[p] = job[p] /\ held'[p] = held[p])
    BY <1>0, <1>t, NameSteps DEF NameOK, pvOf
  <1>1. CASE NoneComes
    <2>1. \A v \in Pv : BlocksNamed(v)' \subseteq BlocksNamed(v)
      BY <1>1 DEF NoneComes, BlocksNamed
    <2>2. ASSUME NEW p \in Proc, pc'[p] = "cSubmit"
          PROVE  BlocksNamed(pvOf(p))' = {}
      <3>1. pvOf(p)' = pvOf(p) /\ BlocksNamed(pvOf(p)) = {}
        BY <2>2, <1>t, NameSteps DEF NameOK, pvOf
      <3> QED BY <3>1, <1>1 DEF NoneComes, BlocksNamed
    <2>3. \A d, e \in Disk : (Exists(d) /\ Exists(e) /\ disk[d].pv = disk[e].pv /\ disk[d].pv \in Pv)' => d = e
      BY <1>1 DEF NoneComes, NameOK
    <2> QED BY <1>0, <2>2, <2>3 DEF NameOK
  <1>2. ASSUME NEW o \in Proc, Orders(o)
        PROVE  NameOK'
    <2>1. PICK q \in {o, NoProc}, d \in Disk : SubmitCreate(q, d, pvOf(o))
      BY <1>2 DEF Orders
    <2>2. /\ disk'[d].pv = pvOf(o) /\ (\A e \in Disk : e # d => disk'[e] = disk[e])
          /\ BlocksNamed(pvOf(o)) = {} /\ held' = held /\ pc[o] = "cSubmit"
          /\ disk[d].state = "none" /\ disk'[d].state = "new"
      <3>1. held' = held /\ pc[o] = "cSubmit"
        BY <1>2 DEF Orders
      <3>2. disk[d].state = "none" /\ disk'[d].state = "new" /\ disk'[d].pv = pvOf(o)
        BY <2>1, <1>t DEF SubmitCreate, CloudTypeOK, DiskRecord
      <3>3. \A e \in Disk : e # d => disk'[e] = disk[e]
        BY <2>1, <1>t DEF SubmitCreate, CloudTypeOK
      <3> QED BY <3>1, <3>2, <3>3 DEF NameOK
    <2>3. ASSUME NEW p \in Proc, pc'[p] = "cSubmit", p # o
          PROVE  BlocksNamed(pvOf(p))' = {}
      <3>1. pc[p] = "cSubmit" \/ (pc[p] = "cInfo" /\ UNCHANGED disk)
        BY <2>3, <1>t, NameSteps
      <3>2. disk' # disk
        BY <2>2
      <3>3. pvOf(p)' = pvOf(p) /\ BlocksNamed(pvOf(p)) = {} /\ pvOf(p) \in held[p]
        BY <2>3, <3>1, <3>2, <1>0 DEF NameOK, pvOf
      <3>4. pvOf(o) \in held[o]
        BY <2>2 DEF NameOK
      <3>5. pvOf(p) # pvOf(o)
        BY <2>3, <3>3, <3>4 DEF IInv, CacheLocksOwned
      <3> QED BY <2>2, <3>3, <3>5 DEF BlocksNamed, Exists
    <2>4. pc'[o] # "cSubmit"
      BY <1>2 DEF Orders
    <2>5. ASSUME NEW e \in Disk, e # d, Exists(e)'
          PROVE  disk'[e].pv # pvOf(o) /\ Exists(e) /\ disk'[e].pv = disk[e].pv
      BY <2>2, <2>5 DEF BlocksNamed, Exists
    <2>6. \A a, b \in Disk : (Exists(a) /\ Exists(b) /\ disk[a].pv = disk[b].pv /\ disk[a].pv \in Pv)' => a = b
      BY <2>2, <2>5 DEF NameOK
    <2> QED BY <1>0, <2>3, <2>4, <2>6 DEF NameOK
  <1> QED BY <1>1, <1>2, NoneComesStep

(* A name has at most one block, whatever answers were lost and however    *)
(* often the controller restarted while one was being made.                *)
THEOREM OneBlockOfAName == Spec => []OneBlockPerName
  <1>1. Init => NameOK
    BY CloudAssumption DEF Init, Idle, CloudInit, NewDisk, NameOK
  <1>2. IInv /\ NameOK /\ [Next]_vars => NameOK'
    BY NextNames
  <1>3. NameOK => OneBlockPerName
    <2> SUFFICES ASSUME NameOK, NEW v \in Pv PROVE Cardinality(BlocksNamed(v)) <= 1
      BY DEF OneBlockPerName
    <2>1. CASE BlocksNamed(v) = {}
      BY <2>1, FS_EmptySet
    <2>2. ASSUME NEW d \in BlocksNamed(v) PROVE BlocksNamed(v) = {d}
      BY <2>2 DEF NameOK, BlocksNamed
    <2>3. \A d : Cardinality({d}) = 1
      BY FS_Singleton
    <2>4. BlocksNamed(v) = {} \/ Cardinality(BlocksNamed(v)) = 1
      BY <2>2, <2>3
    <2> QED BY <2>1, <2>4
  <1> QED BY <1>1, <1>2, <1>3, AlwaysIInv, PTL DEF Spec

----------------------------------------------------------------------------
(* What Kubernetes is told.                                                *)

Made(d) == disk[d].state \notin {"none", "new", "broken"}

MadeOK ==
    /\ \A d \in volumes : Made(d)
    /\ \A p \in Proc :
          /\ pc[p] = "cPoll" /\ outcome[p] = "finish" => Made(diskOf(p))
          /\ pc[p] = "ret" /\ res[p] = "ok" /\ job[p].op = "create" => Made(diskOf(p))

(* A disk that was made stays so, deleted or not.                          *)
LEMMA MadeStays ==
  ASSUME IInv, [Next]_vars, NEW d \in Disk, Made(d)
  PROVE  Made(d)'
  <1>t. CloudTypeOK /\ TypeOK /\ JobOK
    BY DEF IInv, TypeOK
  <1>1. ASSUME NEW p \in Proc, Orders(p)
        PROVE  Made(d)'
    <2>1. PICK q \in {p, NoProc}, e \in Disk : SubmitCreate(q, e, pvOf(p))
      BY <1>1 DEF Orders
    <2>2. e # d
      BY <2>1 DEF SubmitCreate, Made
    <2>3. disk'[d] = disk[d]
      BY <2>1, <2>2, <1>t DEF SubmitCreate, CloudTypeOK
    <2> QED BY <2>3 DEF Made
  <1>2. ASSUME NEW p \in Proc, Submits(p)
        PROVE  Made(d)'
    <2>1. PICK q, kind, n : Submit(q, diskOf(p), kind, n)
      BY <1>2 DEF Submits
    <2>2. disk'[d].state = disk[d].state
      BY <2>1, <1>t DEF Submit, CloudTypeOK, DiskRecord
    <2> QED BY <2>2 DEF Made
  <1>3. ASSUME NEW p \in Proc, Forgets(p)
        PROVE  Made(d)'
    BY <1>3, <1>t DEF Forgets, Forget, Made, CloudTypeOK, DiskRecord
  <1>4. CASE Restart
    BY <1>4, <1>t DEF Restart, ForgetAll, Made, CloudTypeOK, DiskRecord
  <1>5. ASSUME NEW e \in Disk, Ends(e)
        PROVE  Made(d)'
    <2>1. PICK state, node, result : /\ EndTask(e, state, node, result)
                                     /\ Made(e) => state \notin {"none", "new", "broken"}
      <3>1. CASE TaskFinishes(e)
        BY <3>1 DEF TaskFinishes
      <3>2. CASE TaskFails(e)
        BY <3>2 DEF TaskFails, Made, IInv, CloudShape
      <3> QED BY <1>5, <3>1, <3>2 DEF Ends
    <2>2. disk'[e].state = state /\ (e # d => disk'[d] = disk[d])
      BY <2>1, <1>t DEF EndTask, CloudTypeOK, DiskRecord
    <2> QED BY <2>1, <2>2 DEF Made
  <1> QED BY <1>t, <1>1, <1>2, <1>3, <1>4, <1>5, Steps DEF Takes, Gives, Made

(* A step of a request is its own: the others, their tasks and what        *)
(* Kubernetes was told stay.                                               *)
Aside(p) ==
    /\ OthersKept(p) /\ UNCHANGED volumes
    /\ \A r \in Proc : r # p => outcome'[r] = outcome[r]

(* Handlers take such steps; only CreateVolume comes to wait for a block.  *)
LEMMA HandlerAside ==
  ASSUME TypeInv, NEW p \in Proc,
         DeleteVolume(p) \/ ControllerPublishVolume(p) \/ ControllerUnpublishVolume(p)
  PROVE  Aside(p) /\ pc'[p] # "cPoll" /\ job'[p].op # "create"
  <1> USE DEF TypeInv, TypeOK, CloudTypeOK, JobOK, ArgsOK, Goto, Return, Refuse, Continue, Succeed, cloud,
              OthersKept, Aside, DeleteAt, PublishAt, UnpublishAt
  <1>start. ASSUME NEW at \in HoldsDisk, NEW to \in Polls \ {"cPoll"}, NEW kind, NEW n,
                   StartTask(p, at, to, kind, n)
            PROVE  Aside(p) /\ pc'[p] # "cPoll" /\ job'[p].op # "create"
    BY <1>start, CloudAssumption DEF StartTask, Submit, Await, HoldsDisk, Polls
  <1>wait. ASSUME NEW at \in Polls \ {"cPoll"}, WaitTask(p, at)
           PROVE  Aside(p) /\ pc'[p] # "cPoll" /\ job'[p].op # "create"
    BY <1>wait DEF WaitTask, GiveUp, Forget, ClearOutcome, Polls
  <1>lock. ASSUME NEW at \in DeleteAt \union PublishAt \union UnpublishAt, NEW id, NEW to, to # "cPoll",
                  Lock(p, at, id, to)
           PROVE  Aside(p) /\ pc'[p] # "cPoll" /\ job'[p].op # "create"
    BY <1>lock DEF Lock
  <1>1. CASE DeleteVolume(p)
    <2>1. CASE DeleteInfo(p)
      BY <2>1 DEF DeleteInfo
    <2> QED BY <1>1, <2>1, <1>start, <1>wait, <1>lock
            DEF DeleteVolume, DeleteSubmit, DeletePoll, HoldsDisk, Polls
  <1>2. CASE ControllerPublishVolume(p)
    <2>1. CASE PublishInfo(p) \/ PublishReady(p) \/ PublishNum(p) \/ ForceDetachDone(p)
      BY <2>1 DEF PublishInfo, PublishReady, PublishNum, ForceDetachDone
    <2>2. CASE ForceDetachPoll(p)
      BY <2>2 DEF ForceDetachPoll, GiveUp, Forget, ClearOutcome
    <2> QED BY <1>2, <2>1, <2>2, <1>start, <1>wait, <1>lock
            DEF ControllerPublishVolume, ForceDetachSubmit, PublishSubmit, PublishPoll, HoldsDisk, Polls
  <1>3. CASE ControllerUnpublishVolume(p)
    <2>1. CASE UnpublishInfo(p)
      BY <2>1 DEF UnpublishInfo
    <2> QED BY <1>3, <2>1, <1>start, <1>wait, <1>lock
            DEF ControllerUnpublishVolume, UnpublishSubmit, UnpublishPoll, HoldsDisk, Polls
  <1> QED BY <1>1, <1>2, <1>3

(* MadeOK is inductive.                                                    *)
LEMMA NextMade ==
  ASSUME IInv, MadeOK, [Next]_vars
  PROVE  MadeOK'
  <1>t. TypeInv /\ CloudTypeOK /\ TypeOK /\ volumes \subseteq Disk
    BY DEF IInv, TypeInv, TypeOK
  <1>s. \A d \in Disk : Made(d) => Made(d)'
    BY MadeStays
  <1>d. \A r \in Proc : pc[r] = "cPoll" \/ (pc[r] = "ret" /\ res[r] = "ok") => diskOf(r) \in Disk
    BY <1>t DEF TypeInv, JobOK, ArgsOK, HasDisk
  <1>own. ASSUME NEW p \in Proc, Aside(p),
                 pc'[p] = "cPoll" /\ outcome'[p] = "finish" => Made(diskOf(p))',
                 pc'[p] = "ret" /\ res'[p] = "ok" /\ job'[p].op = "create" => Made(diskOf(p))'
          PROVE  MadeOK'
    <2>1. \A r \in Proc : r # p => /\ pc'[r] = pc[r] /\ res'[r] = res[r] /\ job'[r] = job[r]
                                  /\ outcome'[r] = outcome[r] /\ diskOf(r)' = diskOf(r)
      BY <1>own DEF Aside, OthersKept, diskOf
    <2>2. \A d \in volumes' : Made(d)'
      BY <1>own, <1>s, <1>t DEF Aside, MadeOK
    <2>3. \A r \in Proc : r # p => /\ (pc[r] = "cPoll" /\ outcome[r] = "finish" => Made(diskOf(r))')
                                  /\ (pc[r] = "ret" /\ res[r] = "ok" /\ job[r].op = "create"
                                         => Made(diskOf(r))')
      <3>1. \A r \in Proc : r # p /\ diskOf(r) \in Disk /\ Made(diskOf(r)) => Made(diskOf(r))'
        BY <1>s, <2>1 DEF Made
      <3> QED BY <1>d, <3>1 DEF MadeOK
    <2> QED BY <1>own, <2>1, <2>2, <2>3 DEF MadeOK
  <1>1. ASSUME NEW p \in Proc, CreateVolume(p)
        PROVE  MadeOK'
    <2> USE DEF Goto, Return, Refuse, Continue, cloud, OthersKept, Aside
    <2>1. CASE CreateCheck(p) \/ Lock(p, "cLock", pvOf(p), "cInfo")
      <3>1. Aside(p) /\ pc'[p] # "cPoll" /\ (pc'[p] = "ret" => res'[p] = "err")
        BY <2>1, <1>t DEF CreateCheck, Lock, TypeOK
      <3> QED BY <3>1, <1>own
    <2>2. CASE CreateInfo(p)
      <3>1. CASE Refuse(p) \/ Continue(p, "cSubmit")
        <4>1. Aside(p) /\ pc'[p] # "cPoll" /\ (pc'[p] = "ret" => res'[p] = "err")
          BY <3>1, <1>t DEF TypeOK
        <4> QED BY <4>1, <1>own
      <3>2. ASSUME NEW d \in BlocksNamed(pvOf(p)), disk[d].state \notin {"new", "broken"},
                   pc' = [pc EXCEPT ![p] = "ret"], res' = [res EXCEPT ![p] = "ok"],
                   job' = [job EXCEPT ![p].disk = d],
                   UNCHANGED <<held, diskMountedNodeID, CacheLockMap, cloud, ready, volumes>>
            PROVE  MadeOK'
        <4>1. Aside(p) /\ pc'[p] = "ret"
          BY <3>2, <1>t DEF TypeOK
        <4>2. diskOf(p)' = d
          BY <3>2, <1>t DEF TypeOK, Request, diskOf
        <4>3. d \in Disk /\ Made(d)
          BY <3>2 DEF BlocksNamed, Exists, Made
        <4>4. Made(diskOf(p))'
          BY <4>2, <4>3, <1>s DEF Made
        <4> QED BY <4>1, <4>4, <1>own
      <3> QED BY <2>2, <3>1, <3>2 DEF CreateInfo
    <2>3. CASE CreateSubmit(p)
      <3>1. Aside(p) /\ (pc'[p] = "ret" => res'[p] = "err")
                     /\ (pc'[p] = "cPoll" => outcome'[p] = "doing")
        BY <2>3, <1>t, CloudAssumption DEF CreateSubmit, SubmitCreate, Await, TypeOK
      <3> QED BY <3>1, <1>own
    <2>4. CASE CreatePoll(p)
      <3>1. Aside(p) /\ pc'[p] = "ret" /\ (res'[p] = "ok" => outcome[p] = "finish") /\ job' = job
            /\ pc[p] = "cPoll"
        BY <2>4, <1>t DEF CreatePoll, WaitTask, GiveUp, Forget, ClearOutcome, TaskDone, TypeOK, CloudTypeOK
      <3>2. res'[p] = "ok" => Made(diskOf(p))'
        <4>1. diskOf(p)' = diskOf(p) /\ diskOf(p) \in Disk
          BY <3>1, <1>d DEF diskOf
        <4> QED BY <3>1, <4>1, <1>s DEF MadeOK, Made
      <3> QED BY <3>1, <3>2, <1>own
    <2> QED BY <1>1, <2>1, <2>2, <2>3, <2>4 DEF CreateVolume
  <1>2. ASSUME NEW p \in Proc,
               DeleteVolume(p) \/ ControllerPublishVolume(p) \/ ControllerUnpublishVolume(p)
        PROVE  MadeOK'
    BY <1>2, <1>t, <1>own, HandlerAside
  <1>3. ASSUME NEW p \in Proc, Unlock(p)
        PROVE  MadeOK'
    <2>1. UNCHANGED <<pc, res, job, disk, outcome, volumes>>
      BY <1>3 DEF Unlock, cloud
    <2> QED BY <2>1 DEF MadeOK, Made, diskOf
  <1>4. ASSUME NEW p \in Proc, Answer(p)
        PROVE  MadeOK'
    <2>1. /\ pc[p] = "ret" /\ pc' = [pc EXCEPT ![p] = "idle"] /\ UNCHANGED <<disk, outcome>>
          /\ \A r \in Proc : r # p => job'[r] = job[r] /\ res'[r] = res[r] /\ pc'[r] = pc[r]
          /\ pc'[p] = "idle"
      BY <1>4, <1>t DEF Answer, cloud, TypeOK
    <2>2. \A d \in volumes' : Made(d)
      BY <1>4, <2>1 DEF Answer, MadeOK
    <2> QED BY <2>1, <2>2 DEF MadeOK, Made, diskOf
  <1>5. ASSUME NEW p \in Proc, NEW r \in Requests, Start(p, r)
        PROVE  MadeOK'
    <2>1. r.op \in {"create", "delete", "publish", "unpublish"}
      BY EksAssumption DEF Request
    <2>2. Aside(p) /\ pc'[p] \notin {"cPoll", "ret"}
      BY <1>5, <2>1, <1>t DEF Start, Aside, OthersKept, TypeOK, cloud
    <2> QED BY <2>2, <1>own
  <1>6. CASE Restart
    <2>1. \A d \in volumes' : Made(d)'
      BY <1>6, <1>s, <1>t DEF Restart, MadeOK
    <2> QED BY <1>6, <2>1 DEF Restart, MadeOK
  <1>7. CASE CloudStep
    <2>1. UNCHANGED <<pc, job, res, volumes>>
      BY <1>7 DEF CloudStep, goroutines
    <2>2. PICK d \in Disk : TaskFinishes(d) \/ TaskFails(d)
      BY <1>7 DEF CloudStep
    <2>3. ASSUME NEW r \in Proc, pc[r] = "cPoll", outcome'[r] = "finish"
          PROVE  Made(diskOf(r))'
      <3>1. CASE r = disk[d].by
        <4>1. diskOf(r) = d /\ disk[d].task = "create"
          BY <2>3, <3>1 DEF IInv, PollOK
        <4>2. EndTask(d, "free", NoNode, "finish")
          BY <2>2, <2>3, <3>1, <4>1 DEF TaskFinishes, TaskFails, EndTask
        <4>3. disk'[d].state = "free"
          BY <4>2, <1>t DEF EndTask, CloudTypeOK, DiskRecord
        <4> QED BY <2>1, <4>1, <4>3 DEF Made, diskOf
      <3>2. CASE r # disk[d].by
        <4>1. outcome[r] = "finish"
          BY <2>2, <2>3, <3>2 DEF TaskFinishes, TaskFails, EndTask
        <4>2. diskOf(r) \in Disk /\ Made(diskOf(r)) /\ diskOf(r)' = diskOf(r)
          BY <2>1, <2>3, <4>1, <1>d DEF MadeOK, diskOf
        <4> QED BY <4>2, <1>s DEF Made
      <3> QED BY <3>1, <3>2
    <2>4. ASSUME NEW r \in Proc, pc[r] = "ret", res[r] = "ok", job[r].op = "create"
          PROVE  Made(diskOf(r))'
      <3>1. diskOf(r) \in Disk /\ Made(diskOf(r)) /\ diskOf(r)' = diskOf(r)
        BY <2>1, <2>4, <1>d DEF MadeOK, diskOf
      <3> QED BY <3>1, <1>s DEF Made
    <2>5. \A e \in volumes' : Made(e)'
      BY <2>1, <1>s, <1>t DEF MadeOK
    <2> QED BY <2>1, <2>3, <2>4, <2>5 DEF MadeOK
  <1>8. CASE UNCHANGED vars \/ \E n \in Node : NodeFlips(n)
    BY <1>8 DEF vars, NodeFlips, goroutines, cloud, MadeOK, Made, diskOf
  <1> QED BY <1>1, <1>2, <1>3, <1>4, <1>5, <1>6, <1>7, <1>8 DEF Next, Handle

(* A volume Kubernetes was told of is a disk whose creation ended well,    *)
(* although a repeated CreateVolume may answer with a block that an        *)
(* earlier one ordered.                                                    *)
THEOREM ToldOfMadeDisks == Spec => []ToldIsCreated
  <1>1. Init => MadeOK
    BY CloudAssumption DEF Init, Idle, CloudInit, NewDisk, MadeOK, Made
  <1>2. IInv /\ MadeOK /\ [Next]_vars => MadeOK'
    BY NextMade
  <1>3. MadeOK => ToldIsCreated
    BY DEF MadeOK, Made, ToldIsCreated
  <1> QED BY <1>1, <1>2, <1>3, AlwaysIInv, PTL DEF Spec

----------------------------------------------------------------------------
(* The refinement: DiskOwnership's holder of a disk is the request that    *)
(* has its id to delete from CacheLockMap.                                 *)

(* HolderOf names that request.                                            *)
LEMMA HolderIs ==
  ASSUME CacheLocksOwned, NEW d \in Disk
  PROVE  /\ \A p \in Proc : d \in held[p] => HolderOf(d) = p
         /\ (\A p \in Proc : d \notin held[p]) => HolderOf(d) = NoProc
  <1>1. ASSUME NEW p \in Proc, d \in held[p]
        PROVE  HolderOf(d) = p
    <2>1. \A q \in Proc : d \in held[q] => q = p
      BY <1>1 DEF CacheLocksOwned
    <2> QED BY <1>1, <2>1 DEF HolderOf
  <1> QED BY <1>1 DEF HolderOf

(* So it does after a step.                                                *)
LEMMA HolderWillBe ==
  ASSUME CacheLocksOwned', NEW d \in Disk
  PROVE  /\ \A p \in Proc : d \in held'[p] => HolderOf(d)' = p
         /\ (\A p \in Proc : d \notin held'[p]) => HolderOf(d)' = NoProc
  <1>1. ASSUME NEW p \in Proc, d \in held'[p]
        PROVE  HolderOf(d)' = p
    <2>1. \A q \in Proc : d \in held'[q] => q = p
      BY <1>1 DEF CacheLocksOwned
    <2> QED BY <1>1, <2>1 DEF HolderOf
  <1> QED BY <1>1 DEF HolderOf

(* A polled task that moves a disk is polled by the disk's holder.         *)
LEMMA MoverHolds ==
  ASSUME IInv, NEW d \in Disk, disk[d].task \in {"attach", "detach"}, disk[d].by # NoProc
  PROVE  disk[d].by \in Proc /\ d \in held[disk[d].by] /\ HolderOf(d) # NoProc
  <1>1. disk[d].by \in Proc
    BY DiskRecordFields DEF IInv, TypeOK
  <1> DEFINE p == disk[d].by
  <1>2. diskOf(p) = d /\ pc[p] \in Polls \ {"cPoll"}
    BY <1>1 DEF IInv, PollOK
  <1>3. d \in held[p]
    BY <1>1, <1>2 DEF IInv, JobOK, HeldOK, HoldsDisk, Polls
  <1>4. HolderOf(d) = p
    BY <1>1, <1>3, HolderIs DEF IInv
  <1> QED BY <1>1, <1>3, <1>4

(* The map of holders, of places and the stray disks, and one disk of them.*)
Holders == [d \in Disk |-> HolderOf(d)]
Places == [d \in Disk |-> disk[d].node]

(* Where no lock changes hands, holders stay.                              *)
LEMMA HoldersStay ==
  ASSUME UNCHANGED held
  PROVE  UNCHANGED Holders
  BY DEF Holders, HolderOf

(* A controller that starts is an owner that starts.                       *)
LEMMA InitOwns == Init => Ownership!Init
  <1> SUFFICES ASSUME Init PROVE Ownership!Init
    OBVIOUS
  <1>1. \A d \in Disk : HolderOf(d) = NoProc
    BY DEF Init, Idle, HolderOf
  <1>2. \A d \in Disk : disk[d].node = NoNode /\ disk[d].task = "none"
    BY DEF Init, CloudInit, NewDisk
  <1>3. StrayDisks = {}
    BY <1>2 DEF StrayDisks
  <1> QED BY <1>1, <1>2, <1>3 DEF Ownership!Init

(* A lock taken is a disk taken, or a name's or a node's lock.             *)
LEMMA TakesOwns ==
  ASSUME IInv, IInv', NEW p \in Proc, NEW id \in Id, Takes(p, id)
  PROVE  [Ownership!Next]_(Ownership!vars)
  <1>1. \A q \in Proc : held'[q] = IF q = p THEN held[q] \union {id} ELSE held[q]
    BY DEF Takes, IInv, TypeOK
  <1>2. UNCHANGED Places /\ UNCHANGED StrayDisks
    BY DEF Takes, Places, StrayDisks
  <1>3. \A d \in Disk : d # id => HolderOf(d)' = HolderOf(d)
    BY <1>1, HolderIs, HolderWillBe DEF IInv
  <1>4. CASE id \in Disk
    <2>1. HolderOf(id) = NoProc
      BY <1>4, HolderIs DEF Takes, IInv, CacheLocksOwned
    <2>2. HolderOf(id)' = p
      BY <1>1, <1>4, HolderWillBe DEF IInv
    <2>3. Holders' = [Holders EXCEPT ![id] = p]
      BY <1>3, <2>2 DEF Holders
    <2>4. Ownership!Take(p, id)
      BY <1>2, <1>4, <2>1, <2>3 DEF Ownership!Take, Ownership!Held, Holders, Places
    <2> QED BY <1>4, <2>4 DEF Ownership!Next
  <1>5. CASE id \notin Disk
    <2>1. UNCHANGED Holders
      BY <1>3, <1>5 DEF Holders
    <2> QED BY <1>2, <2>1 DEF Ownership!vars, Holders, Places
  <1> QED BY <1>4, <1>5

(* A lock given back likewise.                                             *)
LEMMA GivesOwns ==
  ASSUME IInv, IInv', NEW p \in Proc, NEW id \in Id, Gives(p, id)
  PROVE  [Ownership!Next]_(Ownership!vars)
  <1>1. \A q \in Proc : held'[q] = IF q = p THEN held[q] \ {id} ELSE held[q]
    BY DEF Gives, IInv, TypeOK
  <1>2. UNCHANGED Places /\ UNCHANGED StrayDisks
    BY DEF Gives, Places, StrayDisks
  <1>3. \A d \in Disk : d # id => HolderOf(d)' = HolderOf(d)
    BY <1>1, HolderIs, HolderWillBe DEF IInv
  <1>4. CASE id \in Disk
    <2>1. HolderOf(id) = p
      BY <1>4, HolderIs DEF Gives, IInv
    <2>2. \A q \in Proc : id \notin held'[q]
      BY <1>1 DEF Gives, IInv, CacheLocksOwned
    <2>3. HolderOf(id)' = NoProc
      BY <1>4, <2>2, HolderWillBe DEF IInv
    <2>4. Holders' = [Holders EXCEPT ![id] = NoProc]
      BY <1>3, <2>3 DEF Holders
    <2>5. Ownership!Give(id)
      BY <1>2, <1>4, <2>1, <2>4, CloudAssumption
      DEF Ownership!Give, Ownership!Held, Holders, Places
    <2> QED BY <1>4, <2>5 DEF Ownership!Next
  <1>5. CASE id \notin Disk
    <2>1. UNCHANGED Holders
      BY <1>3, <1>5 DEF Holders
    <2> QED BY <1>2, <2>1 DEF Ownership!vars, Holders, Places
  <1> QED BY <1>4, <1>5

(* A disk that is ordered is attached nowhere and does not move.           *)
LEMMA OrdersOwns ==
  ASSUME IInv, NEW p \in Proc, Orders(p)
  PROVE  UNCHANGED Ownership!vars
  <1>1. UNCHANGED Holders
    BY HoldersStay DEF Orders
  <1>2. PICK q \in {p, NoProc}, e \in Disk : SubmitCreate(q, e, pvOf(p))
    BY DEF Orders
  <1>3. \A d \in Disk : d # e => disk'[d] = disk[d]
    BY <1>2 DEF SubmitCreate, IInv, TypeOK, CloudTypeOK
  <1>4. disk'[e].node = disk[e].node /\ disk'[e].task = "create" /\ disk[e].task = "none"
    BY <1>2 DEF SubmitCreate, IInv, TypeOK, CloudTypeOK, DiskRecord, CloudShape
  <1>5. UNCHANGED Places
    BY <1>3, <1>4 DEF Places
  <1>6. UNCHANGED StrayDisks
    BY <1>3, <1>4 DEF StrayDisks
  <1> QED BY <1>1, <1>5, <1>6 DEF Ownership!vars, Holders, Places

(* A task whose answer is lost is one its holder leaves.                   *)
LEMMA SubmitsOwns ==
  ASSUME IInv, NEW p \in Proc, Submits(p)
  PROVE  [Ownership!Next]_(Ownership!vars)
  <1> DEFINE d == diskOf(p)
  <1>1. d \in Disk /\ d \in held[p]
    BY DEF Submits, IInv, JobOK, ArgsOK, HeldOK, HasDisk, HoldsDisk, DeleteAt, PublishAt, UnpublishAt
  <1>2. HolderOf(d) # NoProc
    BY <1>1, HolderIs, CloudAssumption DEF IInv
  <1>3. UNCHANGED Holders
    BY HoldersStay DEF Submits
  <1>0. PICK q \in {p, NoProc} : \E kind, n : Submit(q, d, kind, n)
    BY DEF Submits
  <1>4. PICK kind, n : Submit(q, d, kind, n)
    BY <1>0
  <1>5. \A e \in Disk : e # d => disk'[e] = disk[e]
    BY <1>4 DEF Submit, IInv, TypeOK, CloudTypeOK
  <1>6. /\ disk'[d].node = disk[d].node /\ disk[d].task = "none"
        /\ disk'[d].task = kind /\ disk'[d].by = q
    BY <1>1, <1>4 DEF Submit, IInv, TypeOK, CloudTypeOK, DiskRecord
  <1>7. UNCHANGED Places
    BY <1>5, <1>6 DEF Places
  <1>8. StrayDisks' = IF kind \in {"attach", "detach"} /\ q = NoProc THEN StrayDisks \union {d} ELSE StrayDisks
    BY <1>1, <1>5, <1>6 DEF StrayDisks
  <1>9. CASE StrayDisks' = StrayDisks
    BY <1>3, <1>7, <1>9 DEF Ownership!vars, Holders, Places
  <1>10. CASE StrayDisks' = StrayDisks \union {d}
    <2>1. Ownership!Leave(d)
      BY <1>1, <1>2, <1>3, <1>7, <1>10 DEF Ownership!Leave, Ownership!Held, Holders, Places
    <2> QED BY <1>1, <2>1 DEF Ownership!Next
  <1> QED BY <1>8, <1>9, <1>10

(* A task that is polled no more likewise.                                 *)
LEMMA ForgetsOwns ==
  ASSUME IInv, NEW p \in Proc, Forgets(p)
  PROVE  [Ownership!Next]_(Ownership!vars)
  <1> DEFINE d == diskOf(p)
  <1>1. d \in Disk
    BY DEF Forgets, IInv, JobOK, ArgsOK, HasDisk, Polls, DeleteAt, PublishAt, UnpublishAt
  <1>2. UNCHANGED Holders
    BY HoldersStay DEF Forgets
  <1>3. \A e \in Disk : e # d => disk'[e] = disk[e]
    BY DEF Forgets, Forget, IInv, TypeOK, CloudTypeOK
  <1>4. /\ disk'[d].node = disk[d].node /\ disk'[d].task = disk[d].task
        /\ disk'[d].by = IF disk[d].by = p THEN NoProc ELSE disk[d].by
    BY <1>1 DEF Forgets, Forget, IInv, TypeOK, CloudTypeOK, DiskRecord
  <1>5. UNCHANGED Places
    BY <1>3, <1>4 DEF Places
  <1>6. CASE disk[d].by = p /\ disk[d].task \in {"attach", "detach"}
    <2>1. HolderOf(d) # NoProc
      BY <1>1, <1>6, MoverHolds, CloudAssumption
    <2>2. StrayDisks' = StrayDisks \union {d}
      BY <1>1, <1>3, <1>4, <1>6 DEF StrayDisks
    <2>3. Ownership!Leave(d)
      BY <1>1, <1>2, <1>5, <2>1, <2>2 DEF Ownership!Leave, Ownership!Held, Holders, Places
    <2> QED BY <1>1, <2>3 DEF Ownership!Next
  <1>7. CASE ~ (disk[d].by = p /\ disk[d].task \in {"attach", "detach"})
    <2>1. UNCHANGED StrayDisks
      BY <1>1, <1>3, <1>4, <1>7 DEF StrayDisks
    <2> QED BY <1>2, <1>5, <2>1 DEF Ownership!vars, Holders, Places
  <1> QED BY <1>6, <1>7

(* A task ends: the disk of an attach or a detach moves, and it is held or *)
(* stray.                                                                  *)
LEMMA EndsOwns ==
  ASSUME IInv, IInv', NEW d \in Disk, Ends(d)
  PROVE  [Ownership!Next]_(Ownership!vars)
  <1>1. UNCHANGED Holders
    BY HoldersStay DEF Ends
  <1>2. PICK state, node, result :
           /\ EndTask(d, state, node, result)
           /\ disk[d].task \notin {"none", "attach", "detach"} => node = disk[d].node
    <2>1. CASE TaskFinishes(d)
      BY <2>1 DEF TaskFinishes, IInv, CloudShape
    <2>2. CASE TaskFails(d)
      BY <2>2 DEF TaskFails
    <2> QED BY <2>1, <2>2 DEF Ends
  <1>3. disk[d].task # "none"
    BY DEF Ends, TaskFinishes, TaskFails
  <1>4. \A e \in Disk : e # d => disk'[e] = disk[e]
    BY <1>2 DEF EndTask, IInv, TypeOK, CloudTypeOK
  <1>5. disk'[d].node = node /\ disk'[d].task = "none"
    BY <1>2 DEF EndTask, IInv, TypeOK, CloudTypeOK, DiskRecord
  <1>6. node \in Node \union {NoNode}
    BY <1>5, DiskRecordFields DEF IInv, TypeOK, CloudTypeOK, DiskRecord
  <1>7. StrayDisks' = StrayDisks \ {d}
    BY <1>4, <1>5 DEF StrayDisks
  <1>8. CASE disk[d].task \in {"attach", "detach"}
    <2>1. HolderOf(d) # NoProc \/ d \in StrayDisks
      BY <1>8, MoverHolds DEF StrayDisks
    <2>2. Places' = [Places EXCEPT ![d] = node]
      BY <1>4, <1>5 DEF Places
    <2>3. Ownership!Move(d)
      BY <1>1, <1>6, <1>7, <2>1, <2>2 DEF Ownership!Move, Ownership!Held, Holders, Places
    <2> QED BY <2>3 DEF Ownership!Next
  <1>9. CASE disk[d].task \notin {"attach", "detach"}
    <2>1. UNCHANGED StrayDisks
      BY <1>7, <1>9 DEF StrayDisks
    <2>2. UNCHANGED Places
      BY <1>2, <1>3, <1>4, <1>5, <1>9 DEF Places
    <2> QED BY <1>1, <2>1, <2>2 DEF Ownership!vars, Holders, Places
  <1> QED BY <1>8, <1>9

(* A controller that restarts holds nothing; the tasks of its requests are *)
(* left, on disks that were held.                                          *)
LEMMA RestartOwns ==
  ASSUME IInv, Restart
  PROVE  Ownership!Restart
  <1> DEFINE left == {d \in Disk : disk[d].task \in {"attach", "detach"} /\ disk[d].by # NoProc}
  <1>1. \A d \in Disk : HolderOf(d)' = NoProc
    BY DEF Restart, HolderOf
  <1>2. \A d \in Disk : /\ disk'[d].node = disk[d].node /\ disk'[d].task = disk[d].task
                        /\ disk'[d].by = NoProc
    BY DEF Restart, ForgetAll, IInv, TypeOK, CloudTypeOK, DiskRecord
  <1>3. UNCHANGED Places
    BY <1>2 DEF Places
  <1>4. StrayDisks' = StrayDisks \union left
    BY <1>2 DEF StrayDisks
  <1>5. left \in SUBSET {d \in Disk : HolderOf(d) # NoProc}
    BY MoverHolds
  <1>6. left \in SUBSET {d \in Disk : Ownership!Held(d)}
    BY <1>5 DEF Ownership!Held
  <1>7. Holders' = [d \in Disk |-> NoProc]
    BY <1>1 DEF Holders
  <1> HIDE DEF left
  <1> QED BY <1>3, <1>4, <1>6, <1>7 DEF Ownership!Restart, Holders, Places

(* The controller implements the abstract owner: whatever requests come,   *)
(* whichever answers are lost and whenever it restarts, a disk moves only  *)
(* for the one request that holds it, or because of a task such a request  *)
(* left behind.                                                            *)
THEOREM ControllerOwnsDisks == Spec => OwnsDisks
  <1>1. IInv /\ IInv' /\ [Next]_vars => [Ownership!Next]_(Ownership!vars)
    <2> SUFFICES ASSUME IInv, IInv', [Next]_vars PROVE [Ownership!Next]_(Ownership!vars)
      OBVIOUS
    <2>1. CASE UNCHANGED <<disk, held>>
      <3>1. UNCHANGED Holders
        BY <2>1, HoldersStay
      <3> QED BY <2>1, <3>1 DEF Ownership!vars, Holders, StrayDisks
    <2>2. CASE Restart
      BY <2>2, RestartOwns DEF Ownership!Next
    <2> QED
      BY <2>1, <2>2, Steps, TakesOwns, GivesOwns, OrdersOwns, SubmitsOwns, ForgetsOwns, EndsOwns DEF IInv
  <1> QED BY <1>1, InitOwns, AlwaysIInv, PTL DEF Spec, OwnsDisks, Ownership!Spec

=============================================================================
