----------------------- MODULE CcsController_proofs -----------------------
(***************************************************************************)
(* Proofs about CcsController, for every number of requests, volumes,      *)
(* disks and nodes: the types are kept, VolumeLocks is a lock, the         *)
(* ConfigMap never names a disk that is gone or is another volume's, and   *)
(* what a request has seen of the disk it locks, and answers, still holds. *)
(*                                                                         *)
(* The inductive invariant has two parts.  LockInv says who may touch a    *)
(* disk: only the request that holds its lock starts a task on it (HeldOK),*)
(* or the one that makes it (RecordInv).  SeenOK says of the holder, place *)
(* by place, what it has seen of the disk; a task of the cloud that ends   *)
(* ends as the holder expects.                                             *)
(***************************************************************************)
EXTENDS CcsController, CloudDisk_proofs, TLAPS

CreateAt == {"cCheck", "cLock", "cSubmit", "cGet", "cSave", "cPoll"}
DeleteAt == {"dLock", "dInfo", "dList", "dGet", "dForget", "dSubmit", "dPoll"}
PublishAt == {"pLock", "pInfo", "pReady", "fSubmit", "fPoll", "pCount", "pSubmit", "pPoll"}
UnpublishAt == {"uLock", "uInfo", "uSubmit", "uPoll"}
VolumeAt == DeleteAt \union PublishAt \union UnpublishAt
BeforeLock == {"idle", "cCheck", "cLock", "dLock", "pLock", "uLock"}

(* A request in progress has the arguments its handler uses, and has       *)
(* deferred a Release only once it has the lock.                           *)
JobOK ==
    \A p \in Proc :
        /\ pc[p] \in BeforeLock => ~ holding[p]
        /\ pc[p] \in CreateAt => job[p].op = "create" /\ pvOf(p) \in Pv
        /\ pc[p] \in {"cGet", "cSave", "cPoll"} => diskOf(p) \in Disk
        /\ pc[p] \in VolumeAt => job[p].op # "create" /\ diskOf(p) \in Disk
        /\ pc[p] \in PublishAt \union UnpublishAt => nodeOf(p) \in Node
        /\ pc[p] = "ret" /\ res[p] = "ok" => diskOf(p) \in Disk
        /\ holding[p] => lockId(p) \in Pv \union Disk

TypeInv == TypeOK /\ JobOK

(* The empty maps and idle goroutines of a new process have their types.   *)
LEMMA InitTypeInv == Init => TypeInv
  <1>1. Init => CloudTypeOK
    BY CloudInitTypeOK DEF Init
  <1>2. Init => TypeOK
    BY <1>1, CloudAssumption, CcsAssumption
    DEF Init, RecordInit, RecordTypeOK, LocksInit, Idle, TypeOK, Request, NoRequest, Location
  <1>3. Init => JobOK
    BY DEF Init, Idle, JobOK, BeforeLock, CreateAt, DeleteAt, PublishAt, UnpublishAt, VolumeAt
  <1> QED BY <1>2, <1>3 DEF TypeInv

(* CreateVolume learns its disk from the cloud or from the ConfigMap.      *)
LEMMA JobDiskUpdate ==
  ASSUME job \in [Proc -> Request], NEW p \in Proc, NEW d \in Disk
  PROVE  [job EXCEPT ![p].disk = d] \in [Proc -> Request]
  BY DEF Request

(* CreateVolume.                                                           *)
LEMMA CreateTypeInv ==
  ASSUME TypeInv, NEW p \in Proc, CreateVolume(p)
  PROVE  TypeInv'
  <1> USE DEF TypeInv, TypeOK, JobOK, RecordTypeOK, CloudTypeOK, pvOf, diskOf, nodeOf, lockId,
              BeforeLock, CreateAt, DeleteAt, PublishAt, UnpublishAt, VolumeAt,
              goroutines, shared, configMap, cloud, kubernetes
  <1>1. CASE CreateCheck(p)
    <2>job. job' \in [Proc -> Request]
      BY <1>1, JobDiskUpdate
      DEF CreateCheck, Refuse, Return, Continue, Goto
    <2>1. TypeOK'
      BY <1>1, <2>job
      DEF Location, CreateCheck, Refuse, Return, Continue, Goto
    <2>2. JobOK'
      BY <1>1
      DEF Request, CreateCheck, Refuse, Return, Continue, Goto
    <2> QED BY <2>1, <2>2
  <1>2. CASE LockVolume(p, "cLock", "cSubmit")
    <2>1. TypeOK'
      BY <1>2
      DEF Location, LockVolume, TryAcquire, Refuse, Return
    <2>2. JobOK'
      BY <1>2
      DEF LockVolume, TryAcquire, Refuse, Return
    <2> QED BY <2>1, <2>2
  <1>3. CASE CreateSubmit(p)
    <2>cloud. CloudTypeOK'
      BY <1>3, SubmitCreateTypeOK
      DEF CreateSubmit, Refuse, Return, TaskKind
    <2>job. job' \in [Proc -> Request]
      BY <1>3, JobDiskUpdate
      DEF CreateSubmit, Refuse, Return
    <2>1. TypeOK'
      BY <1>3, <2>cloud, <2>job
      DEF Location, CreateSubmit, Refuse, Return
    <2>2. JobOK'
      BY <1>3
      DEF Request, CreateSubmit, Refuse, Return
    <2> QED BY <2>1, <2>2
  <1>4. CASE CreateGet(p)
    <2>1. TypeOK'
      BY <1>4
      DEF Location, CreateGet, Get, Refuse, Return, Continue, Goto
    <2>2. JobOK'
      BY <1>4
      DEF CreateGet, Get, Refuse, Return, Continue, Goto
    <2> QED BY <2>1, <2>2
  <1>5. CASE CreateSave(p)
    <2>1. TypeOK'
      BY <1>5
      DEF Location, CreateSave, Update, Refuse, Return, Goto
    <2>2. JobOK'
      BY <1>5
      DEF CreateSave, Update, Refuse, Return, Goto
    <2> QED BY <2>1, <2>2
  <1>6. CASE CreatePoll(p)
    <2>1. TypeOK'
      BY <1>6
      DEF Location, CreatePoll, PollAndAnswer, Refuse, Return
    <2>2. JobOK'
      BY <1>6
      DEF CreatePoll, PollAndAnswer, Refuse, Return
    <2> QED BY <2>1, <2>2
  <1> QED
    BY <1>1, <1>2, <1>3, <1>4, <1>5, <1>6 DEF CreateVolume

(* DeleteVolume.                                                           *)
LEMMA DeleteTypeInv ==
  ASSUME TypeInv, NEW p \in Proc, DeleteVolume(p)
  PROVE  TypeInv'
  <1> USE DEF TypeInv, TypeOK, JobOK, RecordTypeOK, CloudTypeOK, pvOf, diskOf, nodeOf, lockId,
              BeforeLock, CreateAt, DeleteAt, PublishAt, UnpublishAt, VolumeAt,
              goroutines, shared, configMap, cloud, kubernetes
  <1>1. CASE LockVolume(p, "dLock", "dInfo")
    <2>1. TypeOK'
      BY <1>1
      DEF Location, LockVolume, TryAcquire, Refuse, Return
    <2>2. JobOK'
      BY <1>1
      DEF LockVolume, TryAcquire, Refuse, Return
    <2> QED BY <2>1, <2>2
  <1>2. CASE DeleteInfo(p)
    <2>1. TypeOK'
      BY <1>2
      DEF Location, DeleteInfo, Refuse, Return, Continue, Goto
    <2>2. JobOK'
      BY <1>2
      DEF DeleteInfo, Refuse, Return, Continue, Goto
    <2> QED BY <2>1, <2>2
  <1>3. CASE DeleteList(p)
    <2>1. TypeOK'
      BY <1>3
      DEF Location, DeleteList, Refuse, Return
    <2>2. JobOK'
      BY <1>3
      DEF DeleteList, Refuse, Return
    <2> QED BY <2>1, <2>2
  <1>4. CASE DeleteGet(p)
    <2>1. TypeOK'
      BY <1>4
      DEF Location, DeleteGet, Get, Refuse, Return, Continue, Goto
    <2>2. JobOK'
      BY <1>4
      DEF DeleteGet, Get, Refuse, Return, Continue, Goto
    <2> QED BY <2>1, <2>2
  <1>5. CASE DeleteForget(p)
    <2>1. TypeOK'
      BY <1>5
      DEF Location, DeleteForget, Update, Obsolete, Refuse, Return, Goto
    <2>2. JobOK'
      BY <1>5
      DEF DeleteForget, Update, Obsolete, Refuse, Return, Goto
    <2> QED BY <2>1, <2>2
  <1>6. CASE DeleteSubmit(p)
    <2>cloud. CloudTypeOK'
      BY <1>6, SubmitTypeOK
      DEF DeleteSubmit, StartTask, Refuse, Return, Goto, TaskKind
    <2>1. TypeOK'
      BY <1>6, <2>cloud
      DEF Location, DeleteSubmit, StartTask, Submit, Refuse, Return, Goto
    <2>2. JobOK'
      BY <1>6
      DEF DeleteSubmit, StartTask, Submit, Refuse, Return, Goto
    <2> QED BY <2>1, <2>2
  <1>7. CASE DeletePoll(p)
    <2>1. TypeOK'
      BY <1>7
      DEF Location, DeletePoll, PollAndAnswer, Refuse, Return
    <2>2. JobOK'
      BY <1>7
      DEF DeletePoll, PollAndAnswer, Refuse, Return
    <2> QED BY <2>1, <2>2
  <1> QED
    BY <1>1, <1>2, <1>3, <1>4, <1>5, <1>6, <1>7 DEF DeleteVolume

(* ControllerPublishVolume.                                                *)
LEMMA PublishTypeInv ==
  ASSUME TypeInv, NEW p \in Proc, ControllerPublishVolume(p)
  PROVE  TypeInv'
  <1> USE DEF TypeInv, TypeOK, JobOK, RecordTypeOK, CloudTypeOK, pvOf, diskOf, nodeOf, lockId,
              BeforeLock, CreateAt, DeleteAt, PublishAt, UnpublishAt, VolumeAt,
              goroutines, shared, configMap, cloud, kubernetes
  <1>1. CASE LockVolume(p, "pLock", "pInfo")
    <2>1. TypeOK'
      BY <1>1
      DEF Location, LockVolume, TryAcquire, Refuse, Return
    <2>2. JobOK'
      BY <1>1
      DEF LockVolume, TryAcquire, Refuse, Return
    <2> QED BY <2>1, <2>2
  <1>2. CASE PublishInfo(p)
    <2>1. TypeOK'
      BY <1>2
      DEF Location, PublishInfo, Refuse, Return, Continue, Goto
    <2>2. JobOK'
      BY <1>2
      DEF PublishInfo, Refuse, Return, Continue, Goto
    <2> QED BY <2>1, <2>2
  <1>3. CASE PublishReady(p)
    <2>1. TypeOK'
      BY <1>3
      DEF Location, PublishReady, Refuse, Return, Continue, Goto
    <2>2. JobOK'
      BY <1>3
      DEF PublishReady, Refuse, Return, Continue, Goto
    <2> QED BY <2>1, <2>2
  <1>4. CASE ForceDetachSubmit(p)
    <2>cloud. CloudTypeOK'
      BY <1>4, SubmitTypeOK
      DEF ForceDetachSubmit, StartTask, Refuse, Return, Goto, TaskKind
    <2>1. TypeOK'
      BY <1>4, <2>cloud
      DEF Location, ForceDetachSubmit, StartTask, Submit, Refuse, Return, Goto
    <2>2. JobOK'
      BY <1>4
      DEF ForceDetachSubmit, StartTask, Submit, Refuse, Return, Goto
    <2> QED BY <2>1, <2>2
  <1>5. CASE ForceDetachPoll(p)
    <2>1. TypeOK'
      BY <1>5
      DEF Location, ForceDetachPoll, Poll, Refuse, Return, Continue, Goto
    <2>2. JobOK'
      BY <1>5
      DEF ForceDetachPoll, Poll, Refuse, Return, Continue, Goto
    <2> QED BY <2>1, <2>2
  <1>6. CASE PublishCount(p)
    <2>1. TypeOK'
      BY <1>6
      DEF Location, PublishCount, Refuse, Return, Continue, Goto
    <2>2. JobOK'
      BY <1>6
      DEF PublishCount, Refuse, Return, Continue, Goto
    <2> QED BY <2>1, <2>2
  <1>7. CASE PublishSubmit(p)
    <2>cloud. CloudTypeOK'
      BY <1>7, SubmitTypeOK
      DEF PublishSubmit, StartTask, Refuse, Return, Goto, TaskKind
    <2>1. TypeOK'
      BY <1>7, <2>cloud
      DEF Location, PublishSubmit, StartTask, Submit, Refuse, Return, Goto
    <2>2. JobOK'
      BY <1>7
      DEF PublishSubmit, StartTask, Submit, Refuse, Return, Goto
    <2> QED BY <2>1, <2>2
  <1>8. CASE PublishPoll(p)
    <2>1. TypeOK'
      BY <1>8
      DEF Location, PublishPoll, PollAndAnswer, Refuse, Return
    <2>2. JobOK'
      BY <1>8
      DEF PublishPoll, PollAndAnswer, Refuse, Return
    <2> QED BY <2>1, <2>2
  <1> QED
    BY <1>1, <1>2, <1>3, <1>4, <1>5, <1>6, <1>7, <1>8 DEF ControllerPublishVolume

(* ControllerUnpublishVolume.                                              *)
LEMMA UnpublishTypeInv ==
  ASSUME TypeInv, NEW p \in Proc, ControllerUnpublishVolume(p)
  PROVE  TypeInv'
  <1> USE DEF TypeInv, TypeOK, JobOK, RecordTypeOK, CloudTypeOK, pvOf, diskOf, nodeOf, lockId,
              BeforeLock, CreateAt, DeleteAt, PublishAt, UnpublishAt, VolumeAt,
              goroutines, shared, configMap, cloud, kubernetes
  <1>1. CASE LockVolume(p, "uLock", "uInfo")
    <2>1. TypeOK'
      BY <1>1
      DEF Location, LockVolume, TryAcquire, Refuse, Return
    <2>2. JobOK'
      BY <1>1
      DEF LockVolume, TryAcquire, Refuse, Return
    <2> QED BY <2>1, <2>2
  <1>2. CASE UnpublishInfo(p)
    <2>1. TypeOK'
      BY <1>2
      DEF Location, UnpublishInfo, Refuse, Return, Continue, Goto
    <2>2. JobOK'
      BY <1>2
      DEF UnpublishInfo, Refuse, Return, Continue, Goto
    <2> QED BY <2>1, <2>2
  <1>3. CASE UnpublishSubmit(p)
    <2>cloud. CloudTypeOK'
      BY <1>3, SubmitTypeOK
      DEF UnpublishSubmit, StartTask, Refuse, Return, Goto, TaskKind
    <2>1. TypeOK'
      BY <1>3, <2>cloud
      DEF Location, UnpublishSubmit, StartTask, Submit, Refuse, Return, Goto
    <2>2. JobOK'
      BY <1>3
      DEF UnpublishSubmit, StartTask, Submit, Refuse, Return, Goto
    <2> QED BY <2>1, <2>2
  <1>4. CASE UnpublishPoll(p)
    <2>1. TypeOK'
      BY <1>4
      DEF Location, UnpublishPoll, PollAndAnswer, Refuse, Return
    <2>2. JobOK'
      BY <1>4
      DEF UnpublishPoll, PollAndAnswer, Refuse, Return
    <2> QED BY <2>1, <2>2
  <1> QED
    BY <1>1, <1>2, <1>3, <1>4 DEF ControllerUnpublishVolume

(* A request arrives at an idle goroutine.                                 *)
LEMMA StartTypeInv ==
  ASSUME TypeInv, NEW p \in Proc, NEW r \in Requests, Start(p, r)
  PROVE  TypeInv'
  <1>1. /\ r \in Request
        /\ r.op = "create" => r.pv \in Pv
        /\ r.op # "create" => r.disk \in Disk
        /\ r.op \in {"publish", "unpublish"} => r.node \in Node
        /\ r.op \in {"create", "delete", "publish", "unpublish"}
    BY CcsAssumption DEF Request
  <1>2. TypeOK'
    BY <1>1 DEF TypeInv, TypeOK, RecordTypeOK, CloudTypeOK, Start, Location, shared, configMap,
                cloud, kubernetes
  <1>3. JobOK'
    BY <1>1 DEF TypeInv, TypeOK, JobOK, Start, BeforeLock, CreateAt, DeleteAt, PublishAt,
                UnpublishAt, VolumeAt, pvOf, diskOf, nodeOf, lockId
  <1> QED BY <1>2, <1>3 DEF TypeInv

(* The end of a request: the deferred Release, then the answer.            *)
LEMMA EndTypeInv ==
  ASSUME TypeInv, NEW p \in Proc, RunDeferred(p) \/ Answer(p)
  PROVE  TypeInv'
  <1> USE DEF TypeInv, TypeOK, RecordTypeOK, CloudTypeOK, JobOK, configMap, cloud, kubernetes,
              pvOf, diskOf, nodeOf, lockId, BeforeLock, CreateAt, DeleteAt, PublishAt,
              UnpublishAt, VolumeAt
  <1>1. CASE RunDeferred(p)
    <2>1. TypeOK'
      BY <1>1 DEF RunDeferred, Release
    <2>2. JobOK'
      BY <1>1 DEF RunDeferred, Release
    <2> QED BY <2>1, <2>2
  <1>2. CASE Answer(p)
    <2>1. NoRequest \in Request
      BY DEF NoRequest, Request
    <2>2. TypeOK'
      BY <1>2, <2>1 DEF Answer, Location
    <2>3. JobOK'
      BY <1>2 DEF Answer
    <2> QED BY <2>2, <2>3
  <1> QED BY <1>1, <1>2

(* What the controller's environment does.                                 *)
LEMMA EnvironmentTypeInv ==
  ASSUME TypeInv,
         \/ Restart \/ CloudStep
         \/ \E n \in Node : NodeFlips(n)
         \/ \E v \in Pv : PvChanges(v)
         \/ \E d \in Disk : NodeFormats(d)
  PROVE  TypeInv'
  <1> USE DEF TypeInv, TypeOK, RecordTypeOK, CloudTypeOK, JobOK, goroutines, shared, configMap,
              cloud, kubernetes, pvOf, diskOf, nodeOf, lockId
  <1>1. CASE Restart
    <2>1. NoRequest \in Request
      BY DEF NoRequest, Request
    <2>2. TypeOK'
      BY <1>1, <2>1 DEF Restart, Location
    <2>3. JobOK'
      BY <1>1 DEF Restart, BeforeLock, CreateAt, DeleteAt, PublishAt, UnpublishAt, VolumeAt
    <2> QED BY <2>2, <2>3
  <1>2. CASE CloudStep
    <2>1. CloudTypeOK'
      <3>1. CASE CloudNext
        BY <3>1, CloudNextTypeOK
      <3>2. ASSUME NEW d \in Disk, DetachMisses(d)
            PROVE  CloudTypeOK'
        <4>1. CloudTypeOK
          BY DEF CloudTypeOK
        <4>2. disk[d].state \in DiskState /\ disk[d].node \in Node \union {NoNode}
          BY <4>1, DiskRecordFields
        <4> QED BY <3>2, <4>1, <4>2, EndTaskTypeOK DEF DetachMisses
      <3> QED BY <1>2, <3>1, <3>2 DEF CloudStep, CloudNext
    <2>2. failed' \in SUBSET Disk
      BY <1>2 DEF CloudStep
    <2> QED BY <1>2, <2>1, <2>2 DEF CloudStep
  <1>3. CASE \E n \in Node : NodeFlips(n)
    BY <1>3 DEF NodeFlips
  <1>4. CASE \E v \in Pv : PvChanges(v)
    BY <1>4 DEF PvChanges
  <1>5. CASE \E d \in Disk : NodeFormats(d)
    BY <1>5 DEF NodeFormats, MarkFormatted
  <1> QED BY <1>1, <1>2, <1>3, <1>4, <1>5

(* TypeInv is inductive.                                                   *)
LEMMA NextTypeInv ==
  ASSUME TypeInv, [Next]_vars
  PROVE  TypeInv'
  <1>1. ASSUME NEW p \in Proc, Handle(p)
        PROVE  TypeInv'
    BY <1>1, CreateTypeInv, DeleteTypeInv, PublishTypeInv, UnpublishTypeInv, EndTypeInv DEF Handle
  <1>2. CASE UNCHANGED vars
    BY <1>2 DEF TypeInv, TypeOK, RecordTypeOK, CloudTypeOK, JobOK, vars, goroutines, configMap,
                cloud, kubernetes, pvOf, diskOf, nodeOf, lockId
  <1> QED BY <1>1, <1>2, StartTypeInv, EnvironmentTypeInv DEF Next

(* Every variable keeps its type and every request its arguments, whatever *)
(* the interleaving of requests, nodes, restarts and the cloud's tasks.    *)
THEOREM CcsTypeCorrect == Spec => []TypeOK
  <1>1. Spec => []TypeInv
    BY InitTypeInv, NextTypeInv, PTL DEF Spec
  <1> QED BY <1>1, PTL DEF TypeInv

----------------------------------------------------------------------------
(* The lock.  VolumeLocksOwned reads the lock, who has deferred a Release  *)
(* and what each request locks; most steps change none of them.            *)

(* A step that leaves the lock and all that is locked alone.               *)
LEMMA LocksKept ==
  ASSUME VolumeLocksOwned, UNCHANGED <<locks, holding>>,
         \A p \in Proc : holding[p] => lockId(p)' = lockId(p)
  PROVE  VolumeLocksOwned'
  BY DEF VolumeLocksOwned

(* TryAcquire takes an id only when nobody has it.                         *)
LEMMA LockVolumeLocks ==
  ASSUME VolumeLocksOwned, TypeInv, NEW p \in Proc, NEW at \in BeforeLock, NEW to,
         lockId(p) \in Pv \union Disk, LockVolume(p, at, to)
  PROVE  VolumeLocksOwned'
  <1>1. CASE Refuse(p)
    BY <1>1, LocksKept DEF Refuse, Return, shared, lockId, pvOf, diskOf
  <1>2. CASE ~ Refuse(p)
    <2>1. /\ pc[p] = at /\ lockId(p) \notin locks /\ locks' = locks \union {lockId(p)}
          /\ holding' = [holding EXCEPT ![p] = TRUE] /\ job' = job
      BY <1>2 DEF LockVolume, TryAcquire
    <2>2. \A q \in Proc : holding'[q] <=> q = p \/ holding[q]
      BY <2>1 DEF TypeInv, TypeOK
    <2>3. ~ holding[p] /\ (\A q \in Proc : lockId(q)' = lockId(q))
      BY <2>1 DEF TypeInv, JobOK, lockId, pvOf, diskOf
    <2> QED BY <2>1, <2>2, <2>3 DEF VolumeLocksOwned
  <1> QED BY <1>1, <1>2

(* The deferred Release releases what the request acquired.                *)
LEMMA RunDeferredLocks ==
  ASSUME VolumeLocksOwned, TypeInv, NEW p \in Proc, RunDeferred(p)
  PROVE  VolumeLocksOwned'
  <1>1. \A q \in Proc : holding'[q] <=> q # p /\ holding[q]
    BY DEF RunDeferred, TypeInv, TypeOK
  <1>2. holding[p] /\ locks' = locks \ {lockId(p)} /\ (\A q \in Proc : lockId(q)' = lockId(q))
    BY DEF RunDeferred, Release, lockId, pvOf, diskOf
  <1> QED BY <1>1, <1>2 DEF VolumeLocksOwned

(* CreateVolume learns its disk with or without the lock of its name.      *)
LEMMA CreateLocks ==
  ASSUME VolumeLocksOwned, TypeInv, NEW p \in Proc, CreateVolume(p)
  PROVE  VolumeLocksOwned'
  <1>1. CASE LockVolume(p, "cLock", "cSubmit")
    <2>1. lockId(p) \in Pv \union Disk
      BY <1>1 DEF LockVolume, TypeInv, JobOK, CreateAt, lockId
    <2> QED BY <1>1, <2>1, LockVolumeLocks DEF BeforeLock
  <1>2. CASE CreateCheck(p) \/ CreateSubmit(p)
    <2>1. job[p].op = "create" /\ job \in [Proc -> Request]
      BY <1>2 DEF CreateCheck, CreateSubmit, TypeInv, TypeOK, JobOK, CreateAt
    <2>2. UNCHANGED <<locks, holding>>
      BY <1>2 DEF CreateCheck, CreateSubmit, Refuse, Return, Continue, Goto, shared
    <2>3. job' = job \/ \E d : job' = [job EXCEPT ![p].disk = d]
      BY <1>2 DEF CreateCheck, CreateSubmit, Refuse, Return, Continue, Goto
    <2>4. \A q \in Proc : lockId(q)' = lockId(q)
      BY <2>1, <2>3 DEF lockId, pvOf, diskOf, Request
    <2> QED BY <2>2, <2>4, LocksKept
  <1>3. CASE CreateGet(p) \/ CreateSave(p) \/ CreatePoll(p)
    <2>1. UNCHANGED <<locks, holding, job>>
      BY <1>3 DEF CreateGet, CreateSave, CreatePoll, PollAndAnswer, Refuse, Return, Continue, Goto, shared
    <2> QED BY <2>1, LocksKept DEF lockId, pvOf, diskOf
  <1> QED BY <1>1, <1>2, <1>3 DEF CreateVolume

(* The other requests take the lock of their disk, once.                   *)
LEMMA VolumeRpcLocks ==
  ASSUME VolumeLocksOwned, TypeInv, NEW p \in Proc,
         DeleteVolume(p) \/ ControllerPublishVolume(p) \/ ControllerUnpublishVolume(p)
  PROVE  VolumeLocksOwned'
  <1> DEFINE Lock == \/ LockVolume(p, "dLock", "dInfo") \/ LockVolume(p, "pLock", "pInfo")
                     \/ LockVolume(p, "uLock", "uInfo")
  <1>1. CASE Lock
    <2>1. lockId(p) \in Pv \union Disk
      BY <1>1 DEF LockVolume, TypeInv, JobOK, VolumeAt, DeleteAt, PublishAt, UnpublishAt, lockId
    <2> QED BY <1>1, <2>1, LockVolumeLocks DEF BeforeLock
  <1>2. CASE ~ Lock
    <2> USE DEF Refuse, Return, Continue, Goto, shared
    <2>1. ASSUME DeleteVolume(p)
          PROVE  UNCHANGED <<locks, holding, job>>
      BY <1>2, <2>1 DEF DeleteVolume, DeleteInfo, DeleteList, DeleteGet, DeleteForget, DeleteSubmit,
                        DeletePoll, PollAndAnswer, StartTask
    <2>2. ASSUME ControllerPublishVolume(p)
          PROVE  UNCHANGED <<locks, holding, job>>
      BY <1>2, <2>2 DEF ControllerPublishVolume, PublishInfo, PublishReady, ForceDetachSubmit,
                        ForceDetachPoll, PublishCount, PublishSubmit, PublishPoll, Poll,
                        PollAndAnswer, StartTask
    <2>3. ASSUME ControllerUnpublishVolume(p)
          PROVE  UNCHANGED <<locks, holding, job>>
      BY <1>2, <2>3 DEF ControllerUnpublishVolume, UnpublishInfo, UnpublishSubmit, UnpublishPoll,
                        PollAndAnswer, StartTask
    <2> QED BY <2>1, <2>2, <2>3, LocksKept DEF lockId, pvOf, diskOf
  <1> QED BY <1>1, <1>2

(* VolumeLocksOwned is inductive relative to TypeInv.                      *)
LEMMA NextLocks ==
  ASSUME VolumeLocksOwned, TypeInv, [Next]_vars
  PROVE  VolumeLocksOwned'
  <1> USE DEF goroutines, shared
  <1>1. ASSUME NEW p \in Proc, Answer(p)
        PROVE  VolumeLocksOwned'
    <2>1. ~ holding[p] /\ (\A q \in Proc : q # p => job'[q] = job[q])
      BY <1>1 DEF Answer, TypeInv, TypeOK
    <2> QED BY <1>1, <2>1, LocksKept DEF Answer, lockId, pvOf, diskOf
  <1>2. ASSUME NEW p \in Proc, NEW r \in Requests, Start(p, r)
        PROVE  VolumeLocksOwned'
    <2>1. ~ holding[p] /\ (\A q \in Proc : q # p => job'[q] = job[q])
      BY <1>2 DEF Start, TypeInv, TypeOK, JobOK, BeforeLock
    <2> QED BY <1>2, <2>1, LocksKept DEF Start, lockId, pvOf, diskOf
  <1>3. CASE Restart
    BY <1>3 DEF Restart, VolumeLocksOwned
  <1>4. CASE \/ CloudStep \/ UNCHANGED vars \/ \E n \in Node : NodeFlips(n)
             \/ \E v \in Pv : PvChanges(v)
             \/ \E d \in Disk : NodeFormats(d)
    BY <1>4, LocksKept DEF CloudStep, NodeFlips, PvChanges, NodeFormats, vars, lockId, pvOf, diskOf
  <1> QED BY <1>1, <1>2, <1>3, <1>4, CreateLocks, VolumeRpcLocks, RunDeferredLocks DEF Next, Handle

(* VolumeLocks excludes: of any number of requests one at a time works on  *)
(* a name or a disk, and no id outlives its holder, also when a request is *)
(* refused half way or the controller restarts.                            *)
THEOREM VolumeLocksAreOwned == Spec => []VolumeLocksOwned
  <1>1. Init => VolumeLocksOwned
    BY DEF Init, LocksInit, Idle, VolumeLocksOwned
  <1>2. Spec => [](TypeInv /\ VolumeLocksOwned)
    <2>1. TypeInv /\ VolumeLocksOwned /\ [Next]_vars => TypeInv' /\ VolumeLocksOwned'
      BY NextTypeInv, NextLocks
    <2> QED BY <1>1, <2>1, InitTypeInv, PTL DEF Spec
  <1> QED BY <1>2, PTL

----------------------------------------------------------------------------
(* The records, and why they are right.                                    *)

(* A record names disk d; goroutine q has a disk that CreateVolume made,   *)
(* or is about to answer with.                                             *)
Recorded(d) == \E v \in Pv : records[v] = d
Creating(q) == \/ pc[q] \in {"cGet", "cSave", "cPoll"}
               \/ pc[q] = "ret" /\ res[q] = "ok" /\ job[q].op = "create"

(* The disk of a CreateVolume that has yet to record it is known to nobody *)
(* else: neither to Kubernetes, nor to the ConfigMap, nor to another one.  *)
Private(p) ==
    /\ disk[diskOf(p)].pv = pvOf(p)
    /\ disk[diskOf(p)].state \notin {"none", "gone"}
    /\ diskOf(p) \notin volumes
    /\ ~ Recorded(diskOf(p))
    /\ \A q \in Proc : q # p /\ Creating(q) => diskOf(q) # diskOf(p)

(* What RecordInv says of one goroutine.                                   *)
ProcRecordOK(p) ==
    /\ pc[p] \in VolumeAt => diskOf(p) \in volumes
    /\ pc[p] = "dSubmit" => ~ Recorded(diskOf(p))
    /\ Creating(p) => disk[diskOf(p)].state # "none"
    /\ pc[p] \in {"cGet", "cSave"} => Private(p)

(* RecordsNameTheirDisk is about two stores that change one after the      *)
(* other.  It is kept because a disk is deleted only when Kubernetes knows *)
(* it and no record names it, and is recorded only while it is private.    *)
RecordInv ==
    /\ RecordsNameTheirDisk
    /\ \A d \in Disk : disk[d].state = "none" => d \notin volumes /\ ~ Recorded(d)
    /\ \A d \in Disk : disk[d].task = "delete" => d \in volumes /\ ~ Recorded(d)
    /\ \A p \in Proc : ProcRecordOK(p)

(* A goroutine that goes on or returns, and may start or be started on a   *)
(* task: it keeps RecordInv unless it creates a disk or writes a record.   *)
LEMMA MoveKeepsRecord ==
  ASSUME RecordInv, NEW p \in Proc, UNCHANGED <<records, volumes>>,
         \A d \in Disk : /\ disk'[d].pv = disk[d].pv /\ disk'[d].state = disk[d].state
                         /\ disk'[d].task = "delete" =>
                               disk[d].task = "delete" \/ (d \in volumes /\ ~ Recorded(d)),
         \A q \in Proc : q # p => pc'[q] = pc[q] /\ job'[q] = job[q] /\ res'[q] = res[q],
         \A q \in Proc : Creating(q) => diskOf(q) \in Disk,
         \A v \in Pv : records[v] # NoDisk => records[v] \in Disk,
         Creating(p)' => \/ Creating(p) /\ job'[p] = job[p]
                         \/ diskOf(p)' \in Disk /\ Recorded(diskOf(p)'),
         pc'[p] \in VolumeAt => diskOf(p)' \in volumes,
         pc'[p] = "dSubmit" => ~ Recorded(diskOf(p)'),
         pc'[p] \in {"cGet", "cSave"} => pc[p] \in {"cGet", "cSave"} /\ job'[p] = job[p]
  PROVE  RecordInv'
  <1>1. RecordsNameTheirDisk'
    BY DEF RecordInv, RecordsNameTheirDisk
  <1>2. \A d : Recorded(d)' <=> Recorded(d)
    BY DEF Recorded
  <1>3. \A q \in Proc : q # p => /\ diskOf(q)' = diskOf(q) /\ pvOf(q)' = pvOf(q)
                                 /\ Creating(q)' <=> Creating(q)
    BY DEF diskOf, pvOf, Creating
  <1>4. \A q \in Proc : Creating(q)' => diskOf(q)' \in Disk /\ disk'[diskOf(q)'].state # "none"
    BY <1>3 DEF RecordInv, ProcRecordOK, diskOf
  <1>5. ASSUME NEW q \in Proc, pc'[q] \in {"cGet", "cSave"}
        PROVE  Private(q)'
    <2>1. /\ pc[q] \in {"cGet", "cSave"} /\ job'[q] = job[q]
          /\ Private(q) /\ diskOf(q)' = diskOf(q) /\ pvOf(q)' = pvOf(q) /\ diskOf(q) \in Disk
      BY <1>5 DEF RecordInv, ProcRecordOK, Creating, diskOf, pvOf
    <2>2. ASSUME NEW o \in Proc, o # q, Creating(o)'
          PROVE  diskOf(o)' # diskOf(q)
      BY <1>3, <2>1, <2>2 DEF Private, diskOf
    <2> QED BY <1>2, <2>1, <2>2 DEF Private
  <1>6. \A q \in Proc : ProcRecordOK(q)'
    BY <1>2, <1>3, <1>4, <1>5 DEF RecordInv, ProcRecordOK
  <1> QED BY <1>1, <1>2, <1>6 DEF RecordInv

(* What the typing contributes to the steps below.                         *)
LEMMA RecordTypes ==
  ASSUME TypeInv
  PROVE  /\ \A q \in Proc : Creating(q) => diskOf(q) \in Disk
         /\ \A v \in Pv : records[v] # NoDisk => records[v] \in Disk
  BY DEF TypeInv, TypeOK, JobOK, RecordTypeOK, Creating

(* Where a goroutine is after a step; the others have not moved.           *)
LEMMA GotoMoves ==
  ASSUME TypeInv, NEW p \in Proc, NEW to, Goto(p, to)
  PROVE  /\ pc'[p] = to /\ job' = job /\ res' = res /\ volumes' = volumes
         /\ \A q \in Proc : q # p => pc'[q] = pc[q]
  BY DEF Goto, kubernetes, TypeInv, TypeOK

(* The same when the handler returns.                                     *)
LEMMA ReturnMoves ==
  ASSUME TypeInv, NEW p \in Proc, NEW r, Return(p, r)
  PROVE  /\ pc'[p] = "ret" /\ res'[p] = r /\ job' = job /\ volumes' = volumes
         /\ \A q \in Proc : q # p => pc'[q] = pc[q] /\ res'[q] = res[q]
  BY DEF Return, kubernetes, TypeInv, TypeOK

(* A step of one goroutine that leaves disks, records and request alone.   *)
LEMMA StepKeepsRecord ==
  ASSUME TypeInv, RecordInv, NEW p \in Proc, NEW to, UNCHANGED <<disk, records, volumes, job>>,
         pc' = [pc EXCEPT ![p] = to],
         \A q \in Proc : q # p => res'[q] = res[q],
         to \in VolumeAt => pc[p] \in VolumeAt,
         to = "dSubmit" => ~ Recorded(diskOf(p)),
         to = "cPoll" => Creating(p),
         to = "ret" /\ res'[p] = "ok" /\ job[p].op = "create" => Creating(p),
         to \in {"cGet", "cSave"} => pc[p] \in {"cGet", "cSave"}
  PROVE  RecordInv'
  <1>1. pc'[p] = to /\ (\A q \in Proc : q # p => pc'[q] = pc[q])
    BY DEF TypeInv, TypeOK
  <1>2. diskOf(p)' = diskOf(p)
    BY DEF diskOf
  <1>3. pc[p] \in VolumeAt => diskOf(p) \in volumes
    BY DEF RecordInv, ProcRecordOK
  <1>4. Creating(p)' => Creating(p)
    BY <1>1 DEF Creating
  <1> QED BY <1>1, <1>2, <1>3, <1>4, RecordTypes, MoveKeepsRecord

(* A handler that goes on to its next call.                                *)
LEMMA ContinueKeepsRecord ==
  ASSUME TypeInv, RecordInv, NEW p \in Proc, NEW to, Goto(p, to), UNCHANGED <<disk, records>>,
         to \in VolumeAt => pc[p] \in VolumeAt,
         to = "dSubmit" => ~ Recorded(diskOf(p)),
         to = "cPoll" => Creating(p),
         to # "ret",
         to \in {"cGet", "cSave"} => pc[p] \in {"cGet", "cSave"}
  PROVE  RecordInv'
  BY StepKeepsRecord DEF Goto, kubernetes

(* A success is about a disk that CreateVolume already had, if it is its.  *)
LEMMA ReturnKeepsRecord ==
  ASSUME TypeInv, RecordInv, NEW p \in Proc, NEW r, Return(p, r), UNCHANGED <<disk, records>>,
         r = "ok" /\ job[p].op = "create" => Creating(p)
  PROVE  RecordInv'
  <1>1. res'[p] = r /\ (\A q \in Proc : q # p => res'[q] = res[q])
    BY ReturnMoves
  <1>2. "ret" \notin VolumeAt
    BY DEF VolumeAt, DeleteAt, PublishAt, UnpublishAt
  <1> QED BY <1>1, <1>2, StepKeepsRecord DEF Return, kubernetes

(* A refusal answers nothing.                                              *)
LEMMA RefuseKeepsRecord ==
  ASSUME TypeInv, RecordInv, NEW p \in Proc, Refuse(p)
  PROVE  RecordInv'
  BY ReturnKeepsRecord DEF Refuse, shared, configMap, cloud

(* A lock that is taken changes no disk and no record.                     *)
LEMMA LockKeepsRecord ==
  ASSUME TypeInv, RecordInv, NEW p \in Proc, NEW at, NEW to, LockVolume(p, at, to),
         to \in VolumeAt => at \in VolumeAt,
         to \notin {"cGet", "cSave", "cPoll", "dSubmit", "ret"}
  PROVE  RecordInv'
  BY RefuseKeepsRecord, StepKeepsRecord DEF LockVolume, configMap, cloud, kubernetes

(* A task that is started on a disk: if it deletes the disk, no record     *)
(* names it and Kubernetes knows it.                                       *)
LEMMA StartTaskKeepsRecord ==
  ASSUME TypeInv, RecordInv, NEW p \in Proc, NEW at \in VolumeAt, NEW to \in VolumeAt,
         NEW kind, NEW n, StartTask(p, at, to, kind, n),
         to # "dSubmit", kind = "delete" => at = "dSubmit"
  PROVE  RecordInv'
  <1>1. CASE Refuse(p)
    BY <1>1, RefuseKeepsRecord
  <1>2. CASE ~ Refuse(p)
    <2>1. /\ pc[p] = at /\ (Goto(p, to) \/ Return(p, "err"))
          /\ Submit(NoProc, diskOf(p), kind, n) /\ UNCHANGED records
      BY <1>2 DEF StartTask, configMap
    <2>2. diskOf(p) \in Disk /\ diskOf(p) \in volumes /\ (kind = "delete" => ~ Recorded(diskOf(p)))
      <3>1. JobOK /\ ProcRecordOK(p)
        BY DEF TypeInv, RecordInv
      <3> QED BY <2>1, <3>1 DEF JobOK, ProcRecordOK
    <2>3. \A d \in Disk : /\ disk'[d].pv = disk[d].pv /\ disk'[d].state = disk[d].state
                          /\ disk'[d].task = "delete" =>
                               disk[d].task = "delete" \/ (d \in volumes /\ ~ Recorded(d))
      BY <2>1, <2>2 DEF Submit, TypeInv, TypeOK, CloudTypeOK, DiskRecord
    <2>4. /\ pc'[p] = to \/ (pc'[p] = "ret" /\ res'[p] = "err")
          /\ \A q \in Proc : q # p => pc'[q] = pc[q] /\ res'[q] = res[q]
      BY <2>1, GotoMoves, ReturnMoves
    <2>5. job' = job /\ UNCHANGED volumes
      BY <2>1, GotoMoves, ReturnMoves
    <2>6. ~ Creating(p)' /\ pc'[p] \notin {"cGet", "cSave", "dSubmit"}
      BY <2>4 DEF Creating, VolumeAt, DeleteAt, PublishAt, UnpublishAt
    <2>7. \A q \in Proc : q # p => job'[q] = job[q]
      BY <2>5
    <2>8. diskOf(p)' \in volumes
      BY <2>2, <2>5 DEF diskOf
    <2> QED BY <2>1, <2>3, <2>4, <2>5, <2>6, <2>7, <2>8, RecordTypes, MoveKeepsRecord
  <1> QED BY <1>1, <1>2

(* The disk that CreateVolume gets is new, whether or not it is told.      *)
LEMMA CreateSubmitKeepsRecord ==
  ASSUME TypeInv, RecordInv, NEW p \in Proc, CreateSubmit(p)
  PROVE  RecordInv'
  <1>1. CASE Refuse(p)
    BY <1>1, RefuseKeepsRecord
  <1>2. ASSUME NEW d \in Disk, SubmitCreate(NoProc, d, pvOf(p)), UNCHANGED configMap,
               pc[p] = "cSubmit",
               \/ /\ pc' = [pc EXCEPT ![p] = "cGet"]
                  /\ job' = [job EXCEPT ![p].disk = d]
                  /\ UNCHANGED <<res, holding, currentPV, kubernetes>>
               \/ Return(p, "err")
        PROVE  RecordInv'
    <2>1. /\ disk[d].state = "none" /\ d \notin volumes /\ ~ Recorded(d)
          /\ disk'[d].state = "new" /\ disk'[d].pv = pvOf(p) /\ disk'[d].task = "create"
          /\ \A e \in Disk : e # d => disk'[e] = disk[e]
      BY <1>2 DEF SubmitCreate, RecordInv, TypeInv, TypeOK, CloudTypeOK, DiskRecord
    <2>2. UNCHANGED <<records, volumes>> /\ (\A e : Recorded(e)' <=> Recorded(e))
      BY <1>2 DEF configMap, kubernetes, Return, Recorded
    <2>3. /\ \A q \in Proc : q # p => /\ pc'[q] = pc[q] /\ job'[q] = job[q] /\ res'[q] = res[q]
          /\ \/ pc'[p] = "cGet" /\ diskOf(p)' = d /\ pvOf(p)' = pvOf(p)
             \/ pc'[p] = "ret" /\ res'[p] = "err"
      <3>1. CASE Return(p, "err")
        BY <3>1, ReturnMoves
      <3>2. CASE ~ Return(p, "err")
        BY <1>2, <3>2 DEF TypeInv, TypeOK, Request, diskOf, pvOf
      <3> QED BY <3>1, <3>2
    <2>4. \A q \in Proc : Creating(q) => diskOf(q) \in Disk /\ diskOf(q) # d
      BY <2>1, RecordTypes DEF RecordInv, ProcRecordOK
    <2>5. \A q \in Proc : q # p => /\ diskOf(q)' = diskOf(q) /\ pvOf(q)' = pvOf(q)
                                   /\ Creating(q)' <=> Creating(q)
      BY <2>3 DEF diskOf, pvOf, Creating
    <2>6. RecordsNameTheirDisk'
      BY <2>1, <2>2, RecordTypes DEF RecordInv, RecordsNameTheirDisk, Recorded
    <2>7. ProcRecordOK(p)'
      <3>1. CASE pc'[p] = "ret" /\ res'[p] = "err"
        BY <3>1 DEF ProcRecordOK, Creating, VolumeAt, DeleteAt, PublishAt, UnpublishAt
      <3>2. CASE pc'[p] = "cGet" /\ diskOf(p)' = d /\ pvOf(p)' = pvOf(p)
        <4>1. Private(p)'
          BY <3>2, <2>1, <2>2, <2>4, <2>5 DEF Private
        <4> QED BY <3>2, <4>1, <2>1 DEF ProcRecordOK, VolumeAt, DeleteAt, PublishAt, UnpublishAt
      <3> QED BY <2>3, <3>1, <3>2
    <2>8. ASSUME NEW q \in Proc, q # p
          PROVE  ProcRecordOK(q)'
      <3>1. ASSUME pc'[q] \in {"cGet", "cSave"}
            PROVE  Private(q)'
        <4>1. Private(q) /\ diskOf(q) \in Disk /\ diskOf(q) # d
          BY <2>3, <2>4, <2>8, <3>1 DEF RecordInv, ProcRecordOK, Creating
        <4>2. ASSUME NEW o \in Proc, o # q, Creating(o)'
              PROVE  diskOf(o)' # diskOf(q)
          <5>1. CASE o = p
            BY <5>1, <4>1, <4>2, <2>3 DEF Creating
          <5>2. CASE o # p
            BY <5>2, <4>1, <4>2, <2>5 DEF Private
          <5> QED BY <5>1, <5>2
        <4> QED BY <4>1, <4>2, <2>1, <2>2, <2>5, <2>8 DEF Private
      <3>2. Creating(q)' => disk'[diskOf(q)'].state # "none"
        BY <2>1, <2>4, <2>5, <2>8 DEF RecordInv, ProcRecordOK
      <3> QED BY <3>1, <3>2, <2>2, <2>3, <2>5, <2>8 DEF RecordInv, ProcRecordOK
    <2> QED BY <2>1, <2>2, <2>6, <2>7, <2>8 DEF RecordInv
  <1> QED BY <1>1, <1>2 DEF CreateSubmit

(* A record is made for a disk that is private.                            *)
LEMMA CreateSaveKeepsRecord ==
  ASSUME TypeInv, RecordInv, NEW p \in Proc, CreateSave(p)
  PROVE  RecordInv'
  <1>1. CASE Refuse(p)
    BY <1>1, RefuseKeepsRecord
  <1>2. CASE ~ Refuse(p)
    <2>1. /\ pc[p] = "cSave" /\ pvOf(p) \in Pv /\ diskOf(p) \in Disk /\ Private(p)
          /\ records' = [records EXCEPT ![pvOf(p)] = diskOf(p)]
          /\ UNCHANGED <<disk, job, volumes>>
          /\ Goto(p, "cPoll") \/ Return(p, "err")
      BY <1>2 DEF CreateSave, Update, Goto, Return, cloud, kubernetes, TypeInv, JobOK, CreateAt,
                  RecordInv, ProcRecordOK
    <2>2. /\ \A q \in Proc : q # p => pc'[q] = pc[q] /\ res'[q] = res[q]
          /\ pc'[p] = "cPoll" \/ (pc'[p] = "ret" /\ res'[p] = "err")
      BY <2>1, GotoMoves, ReturnMoves
    <2>3. \A q \in Proc : diskOf(q)' = diskOf(q) /\ pvOf(q)' = pvOf(q)
      BY <2>1 DEF diskOf, pvOf
    <2>4. \A d : Recorded(d)' => Recorded(d) \/ d = diskOf(p)
      BY <2>1 DEF Recorded, TypeInv, TypeOK, RecordTypeOK
    <2>5. \A q \in Proc : Creating(q)' => Creating(q)
      BY <2>1, <2>2 DEF Creating
    <2>6. RecordsNameTheirDisk'
      BY <2>1 DEF RecordInv, RecordsNameTheirDisk, Private, TypeInv, TypeOK, RecordTypeOK
    <2>7. \A d \in Disk : /\ disk[d].state = "none" => d \notin volumes /\ ~ Recorded(d)'
                          /\ disk[d].task = "delete" => d \in volumes /\ ~ Recorded(d)'
      BY <2>1, <2>4 DEF RecordInv, Private
    <2>8. ASSUME NEW q \in Proc
          PROVE  ProcRecordOK(q)'
      <3>1. CASE q = p
        BY <3>1, <2>1, <2>2, <2>3
        DEF ProcRecordOK, Private, VolumeAt, DeleteAt, PublishAt, UnpublishAt
      <3>2. CASE q # p
        <4>1. pc[q] \in {"cGet", "cSave"} => Private(q) /\ diskOf(q) # diskOf(p)
          BY <3>2, <2>1 DEF RecordInv, ProcRecordOK, Private, Creating
        <4>2. pc[q] \in {"cGet", "cSave"} => Private(q)'
          BY <4>1, <2>1, <2>3, <2>4, <2>5 DEF Private
        <4>3. pc[q] = "dSubmit" => diskOf(q) # diskOf(p)
          BY <2>1 DEF RecordInv, ProcRecordOK, Private, VolumeAt, DeleteAt
        <4> QED BY <3>2, <4>2, <4>3, <2>1, <2>2, <2>3, <2>4, <2>5 DEF RecordInv, ProcRecordOK
      <3> QED BY <3>1, <3>2
    <2> QED BY <2>1, <2>6, <2>7, <2>8 DEF RecordInv
  <1> QED BY <1>1, <1>2

(* Fewer records can only help; the last one of the disk is gone before    *)
(* the task that deletes the disk.                                         *)
LEMMA DeleteForgetKeepsRecord ==
  ASSUME TypeInv, RecordInv, NEW p \in Proc, DeleteForget(p)
  PROVE  RecordInv'
  <1>1. CASE Refuse(p)
    BY <1>1, RefuseKeepsRecord
  <1>2. CASE ~ Refuse(p)
    <2>1. PICK v \in Obsolete(p) :
             /\ records' = [records EXCEPT ![v] = NoDisk]
             /\ (Obsolete(p) = {v} /\ Goto(p, "dSubmit")) \/ Return(p, "err")
             /\ UNCHANGED <<disk, job, volumes>> /\ pc[p] = "dForget"
      BY <1>2 DEF DeleteForget, Update, Goto, Return, cloud, kubernetes
    <2>2. /\ \A q \in Proc : q # p => pc'[q] = pc[q] /\ res'[q] = res[q]
          /\ \/ Obsolete(p) = {v} /\ pc'[p] = "dSubmit"
             \/ pc'[p] = "ret" /\ res'[p] = "err"
      BY <2>1, GotoMoves, ReturnMoves
    <2>3. \A q \in Proc : diskOf(q)' = diskOf(q) /\ pvOf(q)' = pvOf(q)
      BY <2>1 DEF diskOf, pvOf
    <2>4. diskOf(p) \in Disk /\ NoDisk \notin Disk
      BY <2>1, CcsAssumption DEF TypeInv, JobOK, VolumeAt, DeleteAt
    <2>5. \A u \in Pv : records'[u] \in {records[u], NoDisk}
      BY <2>1 DEF TypeInv, TypeOK, RecordTypeOK
    <2>6. \A d \in Disk : Recorded(d)' => Recorded(d)
      BY <2>4, <2>5 DEF Recorded
    <2>7. Obsolete(p) = {v} => ~ Recorded(diskOf(p))'
      <3>1. \A u \in Pv : records[u] = diskOf(p) => u \in Obsolete(p)
        BY <2>4 DEF Obsolete
      <3>2. \A u \in Pv : records'[u] = IF u = v THEN NoDisk ELSE records[u]
        BY <2>1 DEF TypeInv, TypeOK, RecordTypeOK
      <3> QED BY <3>1, <3>2, <2>3, <2>4 DEF Recorded
    <2>8. \A q \in Proc : Creating(q)' => Creating(q)
      BY <2>1, <2>2 DEF Creating
    <2>9. RecordsNameTheirDisk'
      BY <2>1, <2>5 DEF RecordInv, RecordsNameTheirDisk
    <2>10. ASSUME NEW q \in Proc
           PROVE  ProcRecordOK(q)'
      <3>1. CASE q = p
        BY <3>1, <2>1, <2>2, <2>3, <2>7
        DEF RecordInv, ProcRecordOK, Creating, VolumeAt, DeleteAt, PublishAt, UnpublishAt
      <3>2. CASE q # p
        <4>1. pc[q] \in {"cGet", "cSave"} => Private(q) /\ diskOf(q) \in Disk
          BY RecordTypes DEF RecordInv, ProcRecordOK, Creating
        <4>2. pc[q] \in {"cGet", "cSave"} => Private(q)'
          BY <4>1, <2>1, <2>3, <2>6, <2>8 DEF Private
        <4>3. pc[q] = "dSubmit" => diskOf(q) \in Disk
          BY DEF TypeInv, JobOK, VolumeAt, DeleteAt
        <4> QED BY <3>2, <4>2, <4>3, <2>1, <2>2, <2>3, <2>6, <2>8 DEF RecordInv, ProcRecordOK
      <3> QED BY <3>1, <3>2
    <2> QED BY <2>1, <2>6, <2>9, <2>10 DEF RecordInv
  <1> QED BY <1>1, <1>2

(* CreateVolume.  An answer from the ConfigMap names a recorded disk.      *)
LEMMA CreateKeepsRecord ==
  ASSUME TypeInv, RecordInv, NEW p \in Proc, CreateVolume(p)
  PROVE  RecordInv'
  <1> USE DEF shared, configMap, cloud
  <1>1. CASE CreateCheck(p)
    <2>1. CASE Refuse(p) \/ Continue(p, "cLock")
      BY <2>1, RefuseKeepsRecord, ContinueKeepsRecord
      DEF Continue, VolumeAt, DeleteAt, PublishAt, UnpublishAt
    <2>2. CASE ~ (Refuse(p) \/ Continue(p, "cLock"))
      <3>1. /\ pvOf(p) \in Pv /\ records[pvOf(p)] \in Disk
            /\ pc' = [pc EXCEPT ![p] = "ret"] /\ res' = [res EXCEPT ![p] = "ok"]
            /\ job' = [job EXCEPT ![p].disk = records[pvOf(p)]]
            /\ UNCHANGED <<disk, records, volumes>>
        BY <1>1, <2>2, RecordTypes DEF CreateCheck, kubernetes, TypeInv, JobOK, CreateAt
      <3>2. /\ pc'[p] = "ret" /\ diskOf(p)' = records[pvOf(p)]
            /\ \A q \in Proc : q # p => pc'[q] = pc[q] /\ job'[q] = job[q] /\ res'[q] = res[q]
        BY <3>1 DEF TypeInv, TypeOK, Request, diskOf
      <3>3. diskOf(p)' \in Disk /\ Recorded(diskOf(p)')
        BY <3>1, <3>2 DEF Recorded
      <3>4. "ret" \notin VolumeAt
        BY DEF VolumeAt, DeleteAt, PublishAt, UnpublishAt
      <3> QED BY <3>1, <3>2, <3>3, <3>4, RecordTypes, MoveKeepsRecord
    <2> QED BY <2>1, <2>2
  <1>2. CASE LockVolume(p, "cLock", "cSubmit")
    BY <1>2, LockKeepsRecord DEF VolumeAt, DeleteAt, PublishAt, UnpublishAt
  <1>3. CASE CreateGet(p)
    BY <1>3, RefuseKeepsRecord, ContinueKeepsRecord
    DEF CreateGet, Continue, Get, Creating, VolumeAt, DeleteAt, PublishAt, UnpublishAt
  <1>4. CASE CreatePoll(p)
    BY <1>4, RefuseKeepsRecord, ReturnKeepsRecord DEF CreatePoll, PollAndAnswer, Creating
  <1> QED BY <1>1, <1>2, <1>3, <1>4, CreateSubmitKeepsRecord, CreateSaveKeepsRecord DEF CreateVolume

(* DeleteVolume goes on to delete the disk only when no record names it.   *)
LEMMA DeleteKeepsRecord ==
  ASSUME TypeInv, RecordInv, NEW p \in Proc, DeleteVolume(p)
  PROVE  RecordInv'
  <1> USE DEF shared, configMap, cloud, DeleteAt, VolumeAt
  <1>1. CASE LockVolume(p, "dLock", "dInfo")
    BY <1>1, LockKeepsRecord
  <1>2. CASE DeleteInfo(p)
    <2>1. job[p].op # "create"
      BY <1>2 DEF DeleteInfo, TypeInv, JobOK
    <2> QED BY <1>2, <2>1, RefuseKeepsRecord, ReturnKeepsRecord, ContinueKeepsRecord
            DEF DeleteInfo, Continue
  <1>3. CASE DeleteList(p)
    BY <1>3, RefuseKeepsRecord, StepKeepsRecord DEF DeleteList, kubernetes
  <1>4. CASE DeleteGet(p)
    <2>1. diskOf(p) \in Disk /\ NoDisk \notin Disk
      BY <1>4, CcsAssumption DEF DeleteGet, TypeInv, JobOK
    <2>2. Obsolete(p) = {} => ~ Recorded(diskOf(p))
      BY <2>1 DEF Obsolete, Recorded
    <2> QED BY <1>4, <2>2, RefuseKeepsRecord, ContinueKeepsRecord DEF DeleteGet, Continue, Get
  <1>5. CASE DeleteSubmit(p)
    BY <1>5, StartTaskKeepsRecord DEF DeleteSubmit
  <1>6. CASE DeletePoll(p)
    <2>1. job[p].op # "create"
      BY <1>6 DEF DeletePoll, PollAndAnswer, TypeInv, JobOK
    <2> QED BY <1>6, <2>1, RefuseKeepsRecord, ReturnKeepsRecord DEF DeletePoll, PollAndAnswer
  <1> QED BY <1>1, <1>2, <1>3, <1>4, <1>5, <1>6, DeleteForgetKeepsRecord DEF DeleteVolume

(* Attaching and detaching concern no record.                              *)
LEMMA AttachKeepsRecord ==
  ASSUME TypeInv, RecordInv, NEW p \in Proc,
         ControllerPublishVolume(p) \/ ControllerUnpublishVolume(p)
  PROVE  RecordInv'
  <1> USE DEF shared, configMap, cloud, PublishAt, UnpublishAt, VolumeAt
  <1>1. CASE \/ LockVolume(p, "pLock", "pInfo") \/ LockVolume(p, "uLock", "uInfo")
    BY <1>1, LockKeepsRecord
  <1>2. CASE ForceDetachSubmit(p) \/ PublishSubmit(p) \/ UnpublishSubmit(p)
    BY <1>2, StartTaskKeepsRecord DEF ForceDetachSubmit, PublishSubmit, UnpublishSubmit
  <1>3. CASE PublishInfo(p) \/ UnpublishInfo(p)
    <2>1. job[p].op # "create"
      BY <1>3 DEF PublishInfo, UnpublishInfo, TypeInv, JobOK
    <2> QED BY <1>3, <2>1, RefuseKeepsRecord, ReturnKeepsRecord, ContinueKeepsRecord
            DEF PublishInfo, UnpublishInfo, Continue
  <1>4. CASE PublishReady(p) \/ ForceDetachPoll(p) \/ PublishCount(p)
    BY <1>4, RefuseKeepsRecord, ContinueKeepsRecord
    DEF PublishReady, ForceDetachPoll, PublishCount, Poll, Continue
  <1>5. CASE PublishPoll(p) \/ UnpublishPoll(p)
    <2>1. job[p].op # "create"
      BY <1>5 DEF PublishPoll, UnpublishPoll, PollAndAnswer, TypeInv, JobOK
    <2> QED BY <1>5, <2>1, RefuseKeepsRecord, ReturnKeepsRecord
            DEF PublishPoll, UnpublishPoll, PollAndAnswer
  <1> QED BY <1>1, <1>2, <1>3, <1>4, <1>5 DEF ControllerPublishVolume, ControllerUnpublishVolume

(* Kubernetes learns a disk from an answer: it was not private then.       *)
LEMMA AnswerKeepsRecord ==
  ASSUME TypeInv, RecordInv, NEW p \in Proc, Answer(p)
  PROVE  RecordInv'
  <1>1. /\ pc[p] = "ret" /\ pc'[p] = "idle" /\ UNCHANGED <<disk, records>>
        /\ \A q \in Proc : q # p => pc'[q] = pc[q] /\ job'[q] = job[q] /\ res'[q] = res[q]
    BY DEF Answer, cloud, TypeInv, TypeOK
  <1>2. /\ volumes \subseteq volumes'
        /\ volumes' \subseteq volumes \union (IF Creating(p) THEN {diskOf(p)} ELSE {})
    BY DEF Answer, Creating
  <1>3. \A d : Recorded(d)' <=> Recorded(d)
    BY <1>1 DEF Recorded
  <1>4. \A q \in Proc : q # p => /\ diskOf(q)' = diskOf(q) /\ pvOf(q)' = pvOf(q)
                                 /\ Creating(q)' <=> Creating(q)
    BY <1>1 DEF diskOf, pvOf, Creating
  <1>5. ~ Creating(p)'
    BY <1>1 DEF Creating
  <1>6. RecordsNameTheirDisk'
    BY <1>1 DEF RecordInv, RecordsNameTheirDisk
  <1>7. \A d \in Disk : /\ disk[d].state = "none" => d \notin volumes'
                        /\ disk[d].task = "delete" => d \in volumes'
    BY <1>2 DEF RecordInv, ProcRecordOK
  <1>8. ASSUME NEW q \in Proc
        PROVE  ProcRecordOK(q)'
    <2>1. CASE q = p
      BY <2>1, <1>1, <1>5 DEF ProcRecordOK, VolumeAt, DeleteAt, PublishAt, UnpublishAt
    <2>2. CASE q # p
      <3>1. pc[q] \in {"cGet", "cSave"} => Private(q)'
        BY <2>2, <1>1, <1>2, <1>3, <1>4, <1>5 DEF RecordInv, ProcRecordOK, Private
      <3> QED BY <2>2, <3>1, <1>1, <1>2, <1>3, <1>4 DEF RecordInv, ProcRecordOK
    <2> QED BY <2>1, <2>2
  <1> QED BY <1>1, <1>3, <1>6, <1>7, <1>8 DEF RecordInv

(* What the end of a task changes of the disks.                            *)
LEMMA EndTaskFields ==
  ASSUME CloudTypeOK, NEW d \in Disk, NEW state, NEW node, NEW result,
         EndTask(d, state, node, result)
  PROVE  /\ disk'[d].state = state /\ disk'[d].task = "none" /\ disk'[d].pv = disk[d].pv
         /\ \A e \in Disk : e # d => disk'[e] = disk[e]
  BY DEF CloudTypeOK, EndTask, DiskRecord

(* A task that ends: only a delete makes a disk be gone.                   *)
LEMMA CloudKeepsRecord ==
  ASSUME TypeInv, RecordInv, CloudStep
  PROVE  RecordInv'
  <1>1. PICK d \in Disk : TaskFinishes(d) \/ DetachMisses(d) \/ TaskFails(d)
    BY DEF CloudStep
  <1>2. UNCHANGED <<records, volumes, pc, job, res>>
    BY DEF CloudStep, goroutines, configMap, kubernetes
  <1>3. \A e \in Disk : /\ disk'[e].pv = disk[e].pv
                        /\ disk'[e].state = "none" => disk[e].state = "none"
                        /\ disk'[e].state = "gone" => disk[e].state = "gone" \/ disk[e].task = "delete"
                        /\ disk'[e].task = "delete" => disk[e].task = "delete"
    <2>1. CASE TaskFinishes(d)
      BY <2>1, EndTaskFields DEF TaskFinishes, TypeInv, TypeOK
    <2>2. CASE TaskFails(d)
      BY <2>2, EndTaskFields DEF TaskFails, TypeInv, TypeOK
    <2>3. CASE DetachMisses(d)
      BY <2>3, EndTaskFields DEF DetachMisses, TypeInv, TypeOK
    <2> QED BY <1>1, <2>1, <2>2, <2>3
  <1>4. \A q \in Proc : diskOf(q)' = diskOf(q) /\ pvOf(q)' = pvOf(q) /\ (Creating(q)' <=> Creating(q))
    BY <1>2 DEF diskOf, pvOf, Creating
  <1>5. \A e : Recorded(e)' <=> Recorded(e)
    BY <1>2 DEF Recorded
  <1>6. RecordsNameTheirDisk'
    BY <1>2, <1>3, RecordTypes DEF RecordInv, RecordsNameTheirDisk, Recorded
  <1>7. ASSUME NEW q \in Proc
        PROVE  ProcRecordOK(q)'
    <2>1. Creating(q) => diskOf(q) \in Disk /\ disk'[diskOf(q)].state # "none"
      BY <1>3, RecordTypes DEF RecordInv, ProcRecordOK
    <2>2. pc[q] \in {"cGet", "cSave"} => Private(q)'
      <3>1. pc[q] \in {"cGet", "cSave"} => Private(q) /\ diskOf(q) \in Disk
        BY RecordTypes DEF RecordInv, ProcRecordOK, Creating
      <3> QED BY <3>1, <1>2, <1>3, <1>4, <1>5 DEF RecordInv, Private
    <2> QED BY <2>1, <2>2, <1>2, <1>4, <1>5 DEF RecordInv, ProcRecordOK
  <1> QED BY <1>2, <1>3, <1>5, <1>6, <1>7 DEF RecordInv

(* A step that touches nothing RecordInv reads.                            *)
LEMMA RecordKept ==
  ASSUME RecordInv, UNCHANGED <<disk, records, volumes, pc, job, res>>
  PROVE  RecordInv'
  BY DEF RecordInv, RecordsNameTheirDisk, ProcRecordOK, Private, Recorded, Creating, diskOf, pvOf

(* RecordInv is inductive relative to TypeInv.                             *)
LEMMA NextRecord ==
  ASSUME TypeInv, RecordInv, [Next]_vars
  PROVE  RecordInv'
  <1> USE DEF goroutines, shared, configMap, cloud, kubernetes
  <1>1. ASSUME NEW p \in Proc, RunDeferred(p)
        PROVE  RecordInv'
    BY <1>1, RecordKept DEF RunDeferred
  <1>2. ASSUME NEW p \in Proc, NEW r \in Requests, Start(p, r)
        PROVE  RecordInv'
    <2>1. /\ r \in Request /\ r.op \in {"create", "delete", "publish", "unpublish"}
      BY CcsAssumption DEF Request
    <2>2. /\ pc'[p] \in {"cCheck", "dLock", "pLock", "uLock"} /\ diskOf(p)' = r.disk
          /\ pc'[p] \in VolumeAt => r.disk \in volumes
          /\ \A q \in Proc : q # p => pc'[q] = pc[q] /\ job'[q] = job[q] /\ res'[q] = res[q]
      BY <1>2, <2>1 DEF Start, TypeInv, TypeOK, diskOf, VolumeAt, DeleteAt, PublishAt, UnpublishAt
    <2>3. UNCHANGED <<disk, records, volumes>> /\ ~ Creating(p)'
      BY <1>2, <2>2 DEF Start, Creating
    <2> QED BY <2>2, <2>3, RecordTypes, MoveKeepsRecord
  <1>3. CASE Restart
    <2>1. \A q \in Proc : pc'[q] = "idle"
      BY <1>3 DEF Restart
    <2>2. \A q \in Proc : ProcRecordOK(q)'
      BY <2>1 DEF ProcRecordOK, Creating, VolumeAt, DeleteAt, PublishAt, UnpublishAt
    <2> QED BY <1>3, <2>2 DEF Restart, RecordInv, RecordsNameTheirDisk, Recorded
  <1>4. CASE \/ UNCHANGED vars \/ \E n \in Node : NodeFlips(n)
             \/ \E v \in Pv : PvChanges(v)
             \/ \E d \in Disk : NodeFormats(d)
    BY <1>4, RecordKept DEF NodeFlips, PvChanges, NodeFormats, MarkFormatted, vars
  <1> QED BY <1>1, <1>2, <1>3, <1>4, CreateKeepsRecord, DeleteKeepsRecord, AttachKeepsRecord,
             AnswerKeepsRecord, CloudKeepsRecord DEF Next, Handle

(* It holds at the start: no record, no request and no task is there.      *)
LEMMA InitRecord == Init => RecordInv
  <1>1. Init => /\ \A v \in Pv : records[v] = NoDisk
                /\ \A d \in Disk : disk[d].task = "none" /\ (disk[d].state = "none" => d \notin volumes)
                /\ \A q \in Proc : pc[q] = "idle"
    BY DEF Init, Idle, CloudInit, NewDisk, RecordInit
  <1>2. NoDisk \notin Disk
    BY CcsAssumption
  <1> QED BY <1>1, <1>2 DEF RecordInv, RecordsNameTheirDisk, ProcRecordOK, Creating, Recorded,
                            VolumeAt, DeleteAt, PublishAt, UnpublishAt

(* The ConfigMap names no disk that was made for another volume or has     *)
(* been deleted, although disk and record change in separate calls, calls  *)
(* fail half way, tasks go on without their request, and it all restarts.  *)
THEOREM RecordsAreRight == Spec => []RecordsNameTheirDisk
  <1>1. TypeInv /\ RecordInv /\ [Next]_vars => TypeInv' /\ RecordInv'
    BY NextTypeInv, NextRecord
  <1>2. Spec => [](TypeInv /\ RecordInv)
    BY <1>1, InitRecord, InitTypeInv, PTL DEF Spec
  <1> QED BY <1>2, PTL DEF RecordInv

----------------------------------------------------------------------------
(* What a request saw under the lock of its disk.                          *)

Locked == (VolumeAt \ BeforeLock) \union {"cSubmit", "cGet", "cSave", "cPoll"}
Held(p) == holding[p] /\ job[p].op # "create"
Succeeds(p, op) == pc[p] = "ret" /\ res[p] = "ok" /\ holding[p] /\ job[p].op = op

(* A request works on its disk only while it holds it.                     *)
HeldOf(p) ==
    /\ pc[p] \in DeleteAt => job[p].op = "delete"
    /\ pc[p] \in PublishAt => job[p].op = "publish"
    /\ pc[p] \in UnpublishAt => job[p].op = "unpublish"
    /\ pc[p] \in Locked => holding[p]
    /\ Held(p) => diskOf(p) \in volumes
HeldOK == \A p \in Proc : HeldOf(p)

(* Between the look at a disk and the answer only a task that was started  *)
(* before, or by the request itself, changes the disk.                     *)
SeenOf(p) ==
    LET d == diskOf(p)
        n == nodeOf(p)
    IN  /\ pc[p] = "uSubmit" => AttachedTo(d, n) /\ ~ Doing(d)
        /\ pc[p] \in {"pReady", "fSubmit"} => Mounted(d) /\ ~ AttachedTo(d, n) /\ ~ Doing(d)
        /\ pc[p] \in {"pCount", "pSubmit", "dList", "dGet", "dForget", "dSubmit"} =>
              ~ Mounted(d) /\ ~ Doing(d)
        /\ pc[p] \in {"fPoll", "uPoll"} => ~ Doing(d) \/ (disk[d].task = "detach" /\ Mounted(d))
        /\ pc[p] = "pPoll" => \/ ~ Doing(d) /\ (Mounted(d) => AttachedTo(d, n))
                              \/ disk[d].task = "attach" /\ disk[d].to = n /\ ~ Mounted(d)
        /\ pc[p] = "dPoll" => ~ Mounted(d) /\ disk[d].task # "attach"
        /\ Succeeds(p, "publish") => AttachedTo(d, n) /\ ~ Doing(d)
        /\ Succeeds(p, "unpublish") => ~ AttachedTo(d, n) /\ ~ Doing(d)
        /\ Succeeds(p, "delete") => ~ Mounted(d) /\ (disk[d].task = "attach" => disk[d].state # "free")
SeenOK == \A p \in Proc : SeenOf(p)

(* The step is one goroutine's.                                            *)
Others(p) == \A q \in Proc : q # p => /\ pc'[q] = pc[q] /\ job'[q] = job[q]
                                      /\ res'[q] = res[q] /\ holding'[q] = holding[q]

(* Where a handler may go on, and with what it holds then.                 *)
Leads(p, to) ==
    /\ to \in DeleteAt => pc[p] \in DeleteAt
    /\ to \in PublishAt => pc[p] \in PublishAt
    /\ to \in UnpublishAt => pc[p] \in UnpublishAt
    /\ to \in Locked => pc[p] \in Locked \/ holding'[p]
    /\ holding'[p] => holding[p] \/ pc[p] \in VolumeAt \union CreateAt

(* A handler that goes on there works on a disk it holds.                  *)
LEMMA MoveHeld ==
  ASSUME TypeInv, RecordInv, HeldOK, NEW p \in Proc, NEW to, Others(p), pc'[p] = to, Leads(p, to),
         holding[p] => holding'[p], job' = job, volumes \subseteq volumes'
  PROVE  HeldOK'
  <1>1. HeldOf(p)'
    <2>1. Held(p)' => diskOf(p) \in volumes
      <3>1. CASE holding[p]
        BY <3>1 DEF HeldOK, HeldOf, Held
      <3>2. CASE pc[p] \in CreateAt
        BY <3>2 DEF TypeInv, JobOK, Held
      <3>3. CASE pc[p] \in VolumeAt
        BY <3>3 DEF RecordInv, ProcRecordOK
      <3> QED BY <3>1, <3>2, <3>3 DEF Leads, Held
    <2>2. diskOf(p)' = diskOf(p)
      BY DEF diskOf
    <2>3. pc'[p] \in Locked => holding'[p]
      BY DEF Leads, HeldOK, HeldOf
    <2> QED BY <2>1, <2>2, <2>3 DEF Leads, HeldOK, HeldOf
  <1>2. ASSUME NEW q \in Proc, q # p
        PROVE  HeldOf(q)'
    BY <1>2 DEF Others, HeldOK, HeldOf, Held, diskOf
  <1> QED BY <1>1, <1>2 DEF HeldOK

(* So does one that returns, ...                                           *)
LEMMA ReturnHeld ==
  ASSUME TypeInv, RecordInv, HeldOK, NEW p \in Proc, NEW r, Return(p, r)
  PROVE  HeldOK' /\ Others(p) /\ pc'[p] = "ret" /\ res'[p] = r
  <1>1. /\ Others(p) /\ pc'[p] = "ret" /\ res'[p] = r /\ job' = job /\ holding' = holding
        /\ volumes' = volumes
    BY DEF Return, kubernetes, Others, TypeInv, TypeOK
  <1>2. Leads(p, "ret")
    BY <1>1 DEF Leads, Locked, BeforeLock, VolumeAt, DeleteAt, PublishAt, UnpublishAt
  <1> QED BY <1>1, <1>2, MoveHeld

(* ... one that goes on to its next call, ...                              *)
LEMMA GotoHeld ==
  ASSUME TypeInv, RecordInv, HeldOK, NEW p \in Proc, NEW to, Goto(p, to),
         \/ to \notin Locked /\ to \notin VolumeAt
         \/ /\ pc[p] \in Locked /\ to \in Locked
            /\ \/ to \in CreateAt
               \/ pc[p] \in DeleteAt /\ to \in DeleteAt
               \/ pc[p] \in PublishAt /\ to \in PublishAt
               \/ pc[p] \in UnpublishAt /\ to \in UnpublishAt
  PROVE  HeldOK' /\ Others(p) /\ pc'[p] = to
  <1>1. Others(p) /\ pc'[p] = to /\ job' = job /\ holding' = holding /\ volumes' = volumes
    BY DEF Goto, kubernetes, Others, TypeInv, TypeOK
  <1>2. Leads(p, to)
    BY <1>1 DEF Leads, VolumeAt, CreateAt, DeleteAt, PublishAt, UnpublishAt
  <1> QED BY <1>1, <1>2, MoveHeld

(* ... and one that takes its lock.                                        *)
LEMMA LockHeld ==
  ASSUME TypeInv, RecordInv, HeldOK, NEW p \in Proc, NEW at, NEW to, LockVolume(p, at, to),
         \/ at = "cLock" /\ to = "cSubmit"
         \/ at = "dLock" /\ to = "dInfo"
         \/ at = "pLock" /\ to = "pInfo"
         \/ at = "uLock" /\ to = "uInfo"
  PROVE  HeldOK' /\ Others(p) /\ (pc'[p] = to \/ (pc'[p] = "ret" /\ res'[p] = "err"))
  <1>1. CASE Refuse(p)
    BY <1>1, ReturnHeld DEF Refuse
  <1>2. CASE ~ Refuse(p)
    <2>1. Others(p) /\ pc[p] = at /\ pc'[p] = to /\ job' = job /\ holding'[p] /\ volumes' = volumes
      BY <1>2 DEF LockVolume, kubernetes, Others, TypeInv, TypeOK
    <2>2. Leads(p, to)
      BY <2>1 DEF Leads, VolumeAt, CreateAt, DeleteAt, PublishAt, UnpublishAt
    <2> QED BY <2>1, <2>2, MoveHeld
  <1> QED BY <1>1, <1>2

(* The invariants that the steps below rely on.                            *)
LockInv == TypeInv /\ VolumeLocksOwned /\ RecordInv /\ HeldOK

(* A disk that is held exists, and nobody else holds it.                   *)
LEMMA HeldDisk ==
  ASSUME LockInv, NEW p \in Proc, Held(p)
  PROVE  /\ diskOf(p) \in Disk /\ disk[diskOf(p)].state # "none"
         /\ \A q \in Proc : q # p /\ Held(q) => diskOf(q) # diskOf(p)
  <1>1. diskOf(p) \in Disk /\ disk[diskOf(p)].state # "none"
    BY DEF LockInv, HeldOK, HeldOf, TypeInv, TypeOK, RecordInv
  <1>2. ASSUME NEW q \in Proc, q # p, Held(q)
        PROVE  diskOf(q) # diskOf(p)
    <2>1. lockId(p) = diskOf(p) /\ lockId(q) = diskOf(q) /\ holding[p] /\ holding[q]
      BY <1>2 DEF Held, lockId
    <2> QED BY <1>2, <2>1 DEF LockInv, VolumeLocksOwned
  <1> QED BY <1>1, <1>2

(* Who saw something of a disk, and has not let go of it, holds it.        *)
LEMMA SeesHeld ==
  ASSUME LockInv, NEW p \in Proc, ~ Held(p)
  PROVE  SeenOf(p)
  <1>1. pc[p] \notin VolumeAt \ BeforeLock
    BY DEF LockInv, HeldOK, HeldOf, Held, Locked, VolumeAt
  <1>2. \A op \in {"delete", "publish", "unpublish"} : ~ Succeeds(p, op)
    BY DEF Succeeds, Held
  <1> QED BY <1>1, <1>2 DEF SeenOf, VolumeAt, DeleteAt, PublishAt, UnpublishAt, BeforeLock

(* The same of the next state.                                             *)
LEMMA SeesHeldNext ==
  ASSUME HeldOK', NEW p \in Proc, ~ Held(p)'
  PROVE  SeenOf(p)'
  <1>1. pc'[p] \notin VolumeAt \ BeforeLock
    BY DEF HeldOK, HeldOf, Held, Locked, VolumeAt
  <1>2. \A op \in {"delete", "publish", "unpublish"} : ~ Succeeds(p, op)'
    BY DEF Succeeds, Held
  <1> QED BY <1>1, <1>2 DEF SeenOf, VolumeAt, DeleteAt, PublishAt, UnpublishAt, BeforeLock

(* What the others saw is as it was, when the step leaves their disks.     *)
LEMMA SeenByStep ==
  ASSUME LockInv, SeenOK, HeldOK', NEW p \in Proc, Others(p), SeenOf(p)',
         \A q \in Proc : q # p /\ Held(q) => disk'[diskOf(q)] = disk[diskOf(q)]
  PROVE  SeenOK'
  <1>1. ASSUME NEW q \in Proc, q # p, Held(q)'
        PROVE  SeenOf(q)'
    <2>1. /\ pc'[q] = pc[q] /\ res'[q] = res[q] /\ holding'[q] = holding[q] /\ job'[q] = job[q]
          /\ diskOf(q)' = diskOf(q) /\ nodeOf(q)' = nodeOf(q)
      BY <1>1 DEF Others, diskOf, nodeOf
    <2>2. disk'[diskOf(q)] = disk[diskOf(q)]
      BY <1>1, <2>1 DEF Held
    <2>3. SeenOf(q)
      BY DEF SeenOK
    <2> QED BY <2>1, <2>2, <2>3 DEF SeenOf, Succeeds, AttachedTo, Mounted, Doing
  <1> QED BY <1>1, SeesHeldNext DEF SeenOK

Blind == {"idle", "cCheck", "cLock", "cSubmit", "cGet", "cSave", "cPoll",
          "dLock", "dInfo", "pLock", "pInfo", "uLock", "uInfo"}

(* Who refuses, or locks its disk, has seen nothing yet.                   *)
LEMMA BlindSeen ==
  ASSUME LockInv, SeenOK, HeldOK', NEW p \in Proc, Others(p), disk' = disk,
         pc'[p] \in Blind \/ (pc'[p] = "ret" /\ (res'[p] # "ok" \/ job'[p].op = "create"))
  PROVE  SeenOK'
  <1>1. SeenOf(p)'
    BY DEF SeenOf, Succeeds, Blind
  <1> QED BY <1>1, SeenByStep

(* A call that starts a task is made on a disk the caller holds.           *)
LEMMA StartTaskSeen ==
  ASSUME LockInv, SeenOK, NEW p \in Proc, NEW at, NEW to, NEW kind, NEW n, StartTask(p, at, to, kind, n),
         \/ at = "dSubmit" /\ to = "dPoll" /\ kind = "delete"
         \/ at = "fSubmit" /\ to = "fPoll" /\ kind = "detach"
         \/ at = "pSubmit" /\ to = "pPoll" /\ kind = "attach" /\ n = nodeOf(p)
         \/ at = "uSubmit" /\ to = "uPoll" /\ kind = "detach"
  PROVE  HeldOK' /\ SeenOK'
  <1>t. TypeInv /\ RecordInv /\ HeldOK
    BY DEF LockInv
  <1>1. CASE Refuse(p)
    BY <1>1, <1>t, ReturnHeld, BlindSeen DEF Refuse, shared, cloud
  <1>2. CASE ~ Refuse(p)
    <2>1. pc[p] = at /\ (Goto(p, to) \/ Return(p, "err")) /\ Submit(NoProc, diskOf(p), kind, n)
      BY <1>2 DEF StartTask
    <2>2. /\ HeldOK' /\ Others(p) /\ job' = job
          /\ pc'[p] = to \/ (pc'[p] = "ret" /\ res'[p] = "err")
      BY <1>t, <2>1, ReturnHeld, GotoHeld
      DEF Return, Goto, Locked, VolumeAt, DeleteAt, PublishAt, UnpublishAt, BeforeLock
    <2>3. Held(p)
      BY <1>t, <2>1 DEF HeldOK, HeldOf, Held, Locked, VolumeAt, DeleteAt, PublishAt, UnpublishAt, BeforeLock
    <2>d. PICK d \in Disk : d = diskOf(p) /\ d = diskOf(p)'
      BY <2>2, <2>3, HeldDisk DEF diskOf
    <2>4. /\ disk'[d].task = kind /\ disk'[d].to = n /\ disk'[d].state = disk[d].state
          /\ \A e \in Disk : e # d => disk'[e] = disk[e]
      BY <1>t, <2>1, <2>d DEF Submit, TypeInv, TypeOK, CloudTypeOK, DiskRecord
    <2>5. at # "pSubmit" /\ at # "dSubmit" => Mounted(d)
      BY <2>1, <2>d DEF SeenOK, SeenOf, AttachedTo, Mounted
    <2>6. at = "pSubmit" \/ at = "dSubmit" => ~ Mounted(d)
      BY <2>1, <2>d DEF SeenOK, SeenOf
    <2>7. nodeOf(p)' = nodeOf(p)
      BY <2>2 DEF nodeOf
    <2>8. SeenOf(p)'
      BY <2>2, <2>4, <2>5, <2>6, <2>7, <2>d DEF SeenOf, Succeeds, Mounted
    <2>9. \A q \in Proc : q # p /\ Held(q) => disk'[diskOf(q)] = disk[diskOf(q)]
      BY <2>3, <2>4, <2>d, HeldDisk
    <2> QED BY <2>2, <2>8, <2>9, SeenByStep
  <1> QED BY <1>1, <1>2

(* CreateVolume works on a disk that nobody holds.                         *)
LEMMA CreateSeen ==
  ASSUME LockInv, SeenOK, NEW p \in Proc, CreateVolume(p)
  PROVE  HeldOK' /\ SeenOK'
  <1>t. TypeInv /\ RecordInv /\ HeldOK
    BY DEF LockInv
  <1>a. pc[p] \in CreateAt => job[p].op = "create"
    BY <1>t DEF TypeInv, JobOK
  <1> USE DEF Locked, VolumeAt, CreateAt, DeleteAt, PublishAt, UnpublishAt, BeforeLock, Blind, shared, cloud
  <1>r. CASE Refuse(p)
    BY <1>r, <1>t, ReturnHeld, BlindSeen DEF Refuse
  <1>1. CASE LockVolume(p, "cLock", "cSubmit") /\ ~ Refuse(p)
    BY <1>1, <1>t, LockHeld, BlindSeen DEF LockVolume
  <1>2. CASE CreateCheck(p) /\ ~ Refuse(p)
    <2>1. CASE Continue(p, "cLock")
      BY <1>2, <2>1, <1>t, GotoHeld, BlindSeen DEF CreateCheck, Continue
    <2>2. CASE ~ Continue(p, "cLock")
      <3>1. /\ Others(p) /\ pc'[p] = "ret" /\ job'[p].op = "create" /\ disk' = disk /\ volumes' = volumes
            /\ holding' = holding
        BY <1>2, <1>a, <1>t, <2>2 DEF CreateCheck, Others, TypeInv, TypeOK, Request, kubernetes
      <3>2. HeldOK'
        BY <1>t, <3>1 DEF HeldOK, HeldOf, Held, Others, diskOf
      <3> QED BY <3>1, <3>2, BlindSeen
    <2> QED BY <2>1, <2>2
  <1>3. ASSUME CreateSubmit(p), ~ Refuse(p)
        PROVE  HeldOK' /\ SeenOK'
    <2>1. PICK d \in Disk :
            /\ SubmitCreate(NoProc, d, pvOf(p)) /\ pc[p] = "cSubmit"
            /\ \/ /\ pc' = [pc EXCEPT ![p] = "cGet"] /\ job' = [job EXCEPT ![p].disk = d]
                  /\ UNCHANGED <<res, holding, currentPV, kubernetes>>
               \/ Return(p, "err")
      BY <1>3 DEF CreateSubmit
    <2>2. /\ Others(p) /\ job'[p].op = "create" /\ holding' = holding /\ volumes' = volumes
          /\ pc'[p] = "cGet" \/ (pc'[p] = "ret" /\ res'[p] = "err")
      BY <1>a, <1>t, <2>1 DEF Return, Others, TypeInv, TypeOK, Request, kubernetes
    <2>3. holding[p]
      BY <1>t, <2>1 DEF HeldOK, HeldOf
    <2>4. HeldOK'
      BY <1>t, <2>2, <2>3 DEF HeldOK, HeldOf, Held, Others, diskOf
    <2>5. disk[d].state = "none" /\ \A e \in Disk : e # d => disk'[e] = disk[e]
      BY <1>t, <2>1 DEF SubmitCreate, TypeInv, TypeOK, CloudTypeOK
    <2>6. \A q \in Proc : q # p /\ Held(q) => disk'[diskOf(q)] = disk[diskOf(q)]
      BY <2>5, HeldDisk
    <2>7. ~ Held(p)'
      BY <2>2 DEF Held
    <2> QED BY <2>2, <2>4, <2>6, <2>7, SeesHeldNext, SeenByStep
  <1>4. CASE (CreateGet(p) \/ CreateSave(p) \/ CreatePoll(p)) /\ ~ Refuse(p)
    <2>1. /\ disk' = disk /\ pc[p] \in {"cGet", "cSave", "cPoll"}
          /\ Goto(p, "cPoll") \/ Goto(p, "cSave") \/ Return(p, "ok") \/ Return(p, "err")
      BY <1>4 DEF CreateGet, CreateSave, CreatePoll, PollAndAnswer, Continue
    <2>2. CASE Goto(p, "cPoll") \/ Goto(p, "cSave")
      BY <1>t, <2>1, <2>2, GotoHeld, BlindSeen
    <2>3. CASE Return(p, "ok") \/ Return(p, "err")
      <3>1. job'[p].op = "create"
        BY <1>a, <2>1, <2>3 DEF Return
      <3> QED BY <1>t, <2>1, <2>3, <3>1, ReturnHeld, BlindSeen
    <2> QED BY <2>1, <2>2, <2>3
  <1> QED BY <1>r, <1>1, <1>2, <1>3, <1>4 DEF CreateVolume

(* A step that looks at the disk, and what it saw.                         *)
LEMMA LookSeen ==
  ASSUME LockInv, SeenOK, HeldOK', NEW p \in Proc, NEW to, Others(p), disk' = disk, job' = job, pc'[p] = to,
         to = "uSubmit" => AttachedTo(diskOf(p), nodeOf(p)) /\ ~ Doing(diskOf(p)),
         to \in {"pReady", "fSubmit"} => /\ Mounted(diskOf(p)) /\ ~ AttachedTo(diskOf(p), nodeOf(p))
                                         /\ ~ Doing(diskOf(p)),
         to \in {"pCount", "pSubmit", "dList", "dGet", "dForget", "dSubmit"} =>
            ~ Mounted(diskOf(p)) /\ ~ Doing(diskOf(p)),
         to \notin {"fPoll", "uPoll", "pPoll", "dPoll"},
         to = "ret" /\ res'[p] = "ok" /\ job[p].op = "publish" =>
            AttachedTo(diskOf(p), nodeOf(p)) /\ ~ Doing(diskOf(p)),
         to = "ret" /\ res'[p] = "ok" /\ job[p].op = "unpublish" =>
            ~ AttachedTo(diskOf(p), nodeOf(p)) /\ ~ Doing(diskOf(p)),
         to = "ret" /\ res'[p] = "ok" /\ job[p].op = "delete" =>
            /\ ~ Mounted(diskOf(p))
            /\ disk[diskOf(p)].task = "attach" => disk[diskOf(p)].state # "free"
  PROVE  SeenOK'
  <1>1. diskOf(p)' = diskOf(p) /\ nodeOf(p)' = nodeOf(p)
    BY DEF diskOf, nodeOf
  <1>2. SeenOf(p)'
    BY <1>1 DEF SeenOf, Succeeds, AttachedTo, Mounted, Doing
  <1> QED BY <1>2, SeenByStep

(* A refusal says nothing.                                                 *)
LEMMA RefuseSeen ==
  ASSUME LockInv, SeenOK, NEW p \in Proc, Refuse(p)
  PROVE  HeldOK' /\ SeenOK'
  BY ReturnHeld, BlindSeen DEF LockInv, Refuse, shared, cloud

(* DeleteVolume goes on only with a disk that is free and has no task.     *)
LEMMA DeleteSeen ==
  ASSUME LockInv, SeenOK, NEW p \in Proc, DeleteVolume(p)
  PROVE  HeldOK' /\ SeenOK'
  <1>t. TypeInv /\ RecordInv /\ HeldOK
    BY DEF LockInv
  <1>a. pc[p] \in DeleteAt => job[p].op = "delete"
    BY <1>t DEF HeldOK, HeldOf
  <1> USE DEF Locked, VolumeAt, CreateAt, DeleteAt, PublishAt, UnpublishAt, BeforeLock, shared, cloud
  <1>1. CASE LockVolume(p, "dLock", "dInfo") /\ ~ Refuse(p)
    BY <1>1, <1>t, LockHeld, BlindSeen DEF LockVolume, Blind
  <1>2. CASE DeleteInfo(p) /\ ~ Refuse(p)
    <2>1. CASE MaybeInvalid(diskOf(p)) /\ Return(p, "ok") /\ UNCHANGED shared
      <3>1. HeldOK' /\ Others(p) /\ job' = job /\ pc'[p] = "ret" /\ pc[p] = "dInfo"
        BY <1>2, <1>t, <2>1, ReturnHeld DEF Return, DeleteInfo
      <3>2. disk[diskOf(p)].state \notin {"free", "attached"}
        BY <2>1 DEF MaybeInvalid
      <3> QED BY <1>a, <2>1, <3>1, <3>2, LookSeen DEF Mounted
    <2>2. CASE ~ Mounted(diskOf(p)) /\ ~ Doing(diskOf(p)) /\ Continue(p, "dList")
      <3>1. HeldOK' /\ Others(p) /\ job' = job /\ pc'[p] = "dList"
        BY <1>2, <1>t, <2>2, GotoHeld DEF Goto, Continue, DeleteInfo
      <3> QED BY <2>2, <3>1, LookSeen DEF Continue
    <2> QED BY <1>2, <2>1, <2>2 DEF DeleteInfo
  <1>3. CASE DeleteList(p) /\ ~ Refuse(p)
    <2>1. /\ pc[p] = "dList" /\ pc'[p] = "dGet" /\ Others(p) /\ disk' = disk /\ job' = job
          /\ holding' = holding /\ volumes' = volumes
      BY <1>3, <1>t DEF DeleteList, Others, TypeInv, TypeOK, kubernetes
    <2>2. HeldOK'
      BY <1>t, <2>1, MoveHeld DEF Leads
    <2> QED BY <2>1, <2>2, LookSeen DEF SeenOK, SeenOf
  <1>4. CASE (DeleteGet(p) \/ DeleteForget(p)) /\ ~ Refuse(p)
    <2>1. pc[p] \in {"dGet", "dForget"} /\ disk' = disk
      BY <1>4 DEF DeleteGet, DeleteForget, Continue
    <2>2. CASE Return(p, "err")
      BY <1>t, <2>1, <2>2, ReturnHeld, BlindSeen
    <2>3. ASSUME NEW to \in {"dForget", "dSubmit"}, Goto(p, to)
          PROVE  HeldOK' /\ SeenOK'
      <3>1. HeldOK' /\ Others(p) /\ job' = job /\ pc'[p] = to
        BY <1>t, <2>1, <2>3, GotoHeld DEF Goto
      <3> QED BY <2>1, <3>1, LookSeen DEF SeenOK, SeenOf
    <2> QED BY <1>4, <2>2, <2>3 DEF DeleteGet, DeleteForget, Continue
  <1>5. CASE DeleteSubmit(p)
    BY <1>5, StartTaskSeen DEF DeleteSubmit
  <1>6. CASE DeletePoll(p) /\ ~ Refuse(p)
    <2>1. /\ HeldOK' /\ Others(p) /\ job' = job /\ pc'[p] = "ret" /\ disk' = disk /\ pc[p] = "dPoll"
          /\ disk[diskOf(p)].state = "gone"
      BY <1>6, <1>t, ReturnHeld DEF Return, DeletePoll, PollAndAnswer
    <2> QED BY <1>a, <2>1, LookSeen DEF Mounted
  <1> QED BY <1>1, <1>2, <1>3, <1>4, <1>5, <1>6, RefuseSeen DEF DeleteVolume

(* ControllerPublishVolume detaches a disk that is elsewhere and attaches  *)
(* one that is free; a disk it polls has no other task than its own.       *)
LEMMA PublishSeen ==
  ASSUME LockInv, SeenOK, NEW p \in Proc, ControllerPublishVolume(p)
  PROVE  HeldOK' /\ SeenOK'
  <1>t. TypeInv /\ RecordInv /\ HeldOK
    BY DEF LockInv
  <1>a. pc[p] \in PublishAt => job[p].op = "publish"
    BY <1>t DEF HeldOK, HeldOf
  <1> USE DEF Locked, VolumeAt, CreateAt, DeleteAt, PublishAt, UnpublishAt, BeforeLock, shared, cloud
  <1>1. CASE LockVolume(p, "pLock", "pInfo") /\ ~ Refuse(p)
    BY <1>1, <1>t, LockHeld, BlindSeen DEF LockVolume, Blind
  <1>2. CASE PublishInfo(p) /\ ~ Refuse(p)
    <2>1. pc[p] = "pInfo" /\ ~ Doing(diskOf(p)) /\ disk' = disk
      BY <1>2 DEF PublishInfo, Continue
    <2>2. CASE AttachedTo(diskOf(p), nodeOf(p)) /\ Return(p, "ok")
      <3>1. HeldOK' /\ Others(p) /\ job' = job /\ pc'[p] = "ret"
        BY <1>t, <2>2, ReturnHeld DEF Return
      <3> QED BY <1>a, <2>1, <2>2, <3>1, LookSeen
    <2>3. ASSUME NEW to \in {"pReady", "pCount"}, Goto(p, to),
                 IF to = "pReady" THEN Mounted(diskOf(p)) /\ ~ AttachedTo(diskOf(p), nodeOf(p))
                 ELSE ~ Mounted(diskOf(p))
          PROVE  HeldOK' /\ SeenOK'
      <3>1. HeldOK' /\ Others(p) /\ job' = job /\ pc'[p] = to
        BY <1>t, <2>1, <2>3, GotoHeld DEF Goto
      <3> QED BY <2>1, <2>3, <3>1, LookSeen
    <2> QED BY <1>2, <2>2, <2>3 DEF PublishInfo, Continue
  <1>3. CASE PublishReady(p) /\ ~ Refuse(p)
    <2>1. HeldOK' /\ Others(p) /\ job' = job /\ pc'[p] = "fSubmit" /\ disk' = disk /\ pc[p] = "pReady"
      BY <1>3, <1>t, GotoHeld DEF Goto, PublishReady, Continue
    <2> QED BY <2>1, LookSeen DEF SeenOK, SeenOf
  <1>4. CASE ForceDetachPoll(p) /\ ~ Refuse(p)
    <2>1. /\ HeldOK' /\ Others(p) /\ job' = job /\ pc'[p] = "pCount" /\ disk' = disk /\ pc[p] = "fPoll"
          /\ disk[diskOf(p)].state = "free"
      BY <1>4, <1>t, GotoHeld DEF Goto, ForceDetachPoll, Poll, Continue, Detached
    <2>2. ~ Mounted(diskOf(p)) /\ ~ Doing(diskOf(p))
      BY <2>1 DEF SeenOK, SeenOf, Mounted
    <2> QED BY <2>1, <2>2, LookSeen
  <1>5. CASE PublishCount(p) /\ ~ Refuse(p)
    <2>1. HeldOK' /\ Others(p) /\ job' = job /\ pc'[p] = "pSubmit" /\ disk' = disk /\ pc[p] = "pCount"
      BY <1>5, <1>t, GotoHeld DEF Goto, PublishCount, Continue
    <2> QED BY <2>1, LookSeen DEF SeenOK, SeenOf
  <1>6. CASE ForceDetachSubmit(p) \/ PublishSubmit(p)
    BY <1>6, StartTaskSeen DEF ForceDetachSubmit, PublishSubmit
  <1>7. CASE PublishPoll(p) /\ ~ Refuse(p)
    <2>1. /\ HeldOK' /\ Others(p) /\ job' = job /\ pc'[p] = "ret" /\ disk' = disk /\ pc[p] = "pPoll"
          /\ Mounted(diskOf(p))
      BY <1>7, <1>t, ReturnHeld DEF Return, PublishPoll, PollAndAnswer
    <2>2. AttachedTo(diskOf(p), nodeOf(p)) /\ ~ Doing(diskOf(p))
      BY <2>1 DEF SeenOK, SeenOf
    <2> QED BY <1>a, <2>1, <2>2, LookSeen
  <1> QED BY <1>1, <1>2, <1>3, <1>4, <1>5, <1>6, <1>7, RefuseSeen DEF ControllerPublishVolume

(* ControllerUnpublishVolume detaches a disk that is on the node.          *)
LEMMA UnpublishSeen ==
  ASSUME LockInv, SeenOK, NEW p \in Proc, ControllerUnpublishVolume(p)
  PROVE  HeldOK' /\ SeenOK'
  <1>t. TypeInv /\ RecordInv /\ HeldOK
    BY DEF LockInv
  <1>a. pc[p] \in UnpublishAt => job[p].op = "unpublish"
    BY <1>t DEF HeldOK, HeldOf
  <1> USE DEF Locked, VolumeAt, CreateAt, DeleteAt, PublishAt, UnpublishAt, BeforeLock, shared, cloud
  <1>1. CASE LockVolume(p, "uLock", "uInfo") /\ ~ Refuse(p)
    BY <1>1, <1>t, LockHeld, BlindSeen DEF LockVolume, Blind
  <1>2. CASE UnpublishInfo(p) /\ ~ Refuse(p)
    <2>1. pc[p] = "uInfo" /\ ~ Doing(diskOf(p)) /\ disk' = disk
      BY <1>2 DEF UnpublishInfo, Continue
    <2>2. CASE ~ AttachedTo(diskOf(p), nodeOf(p)) /\ Return(p, "ok")
      <3>1. HeldOK' /\ Others(p) /\ job' = job /\ pc'[p] = "ret"
        BY <1>t, <2>2, ReturnHeld DEF Return
      <3> QED BY <1>a, <2>1, <2>2, <3>1, LookSeen
    <2>3. CASE AttachedTo(diskOf(p), nodeOf(p)) /\ Goto(p, "uSubmit")
      <3>1. HeldOK' /\ Others(p) /\ job' = job /\ pc'[p] = "uSubmit"
        BY <1>t, <2>1, <2>3, GotoHeld DEF Goto
      <3> QED BY <2>1, <2>3, <3>1, LookSeen
    <2> QED BY <1>2, <2>2, <2>3 DEF UnpublishInfo, Continue
  <1>3. CASE UnpublishSubmit(p)
    BY <1>3, StartTaskSeen DEF UnpublishSubmit
  <1>4. CASE UnpublishPoll(p) /\ ~ Refuse(p)
    <2>1. /\ HeldOK' /\ Others(p) /\ job' = job /\ pc'[p] = "ret" /\ disk' = disk /\ pc[p] = "uPoll"
          /\ disk[diskOf(p)].state = "free"
      BY <1>4, <1>t, ReturnHeld DEF Return, UnpublishPoll, PollAndAnswer, Detached
    <2>2. ~ AttachedTo(diskOf(p), nodeOf(p)) /\ ~ Doing(diskOf(p))
      BY <2>1 DEF SeenOK, SeenOf, Mounted, AttachedTo
    <2> QED BY <1>a, <2>1, <2>2, LookSeen
  <1> QED BY <1>1, <1>2, <1>3, <1>4, RefuseSeen DEF ControllerUnpublishVolume

(* A request starts, lets go or is answered.                               *)
LEMMA EndSeen ==
  ASSUME LockInv, SeenOK, NEW p \in Proc, RunDeferred(p) \/ Answer(p) \/ \E r \in Requests : Start(p, r)
  PROVE  HeldOK' /\ SeenOK'
  <1>t. TypeInv /\ RecordInv /\ HeldOK
    BY DEF LockInv
  <1> USE DEF Locked, VolumeAt, CreateAt, DeleteAt, PublishAt, UnpublishAt, BeforeLock, shared, cloud
  <1> DEFINE Begins ==
        /\ Others(p) /\ disk' = disk /\ volumes \subseteq volumes' /\ ~ holding'[p]
        /\ pc'[p] \in {"ret", "idle", "cCheck", "dLock", "pLock", "uLock"}
        /\ pc'[p] = "cCheck" => job'[p].op = "create"
        /\ pc'[p] = "dLock" => job'[p].op = "delete"
        /\ pc'[p] = "pLock" => job'[p].op = "publish"
        /\ pc'[p] = "uLock" => job'[p].op = "unpublish"
  <1>1. Begins
    <2>1. CASE RunDeferred(p) \/ Answer(p)
      BY <2>1, <1>t DEF RunDeferred, Answer, Others, TypeInv, TypeOK, kubernetes
    <2>2. ASSUME NEW r \in Requests, Start(p, r)
          PROVE  Begins
      <3>1. r.op \in {"create", "delete", "publish", "unpublish"} /\ ~ holding[p]
        BY <1>t, <2>2, CcsAssumption DEF Request, Start, TypeInv, JobOK
      <3> QED BY <1>t, <2>2, <3>1 DEF Start, Others, TypeInv, TypeOK, kubernetes
    <2> QED BY <2>1, <2>2
  <1>2. ~ Held(p)'
    BY <1>1 DEF Held
  <1>3. HeldOf(p)'
    BY <1>1, <1>2 DEF HeldOf
  <1>4. ASSUME NEW q \in Proc, q # p
        PROVE  HeldOf(q)'
    BY <1>1, <1>4, <1>t DEF Others, HeldOK, HeldOf, Held, diskOf
  <1>5. HeldOK'
    BY <1>3, <1>4 DEF HeldOK
  <1> QED BY <1>1, <1>2, <1>5, SeesHeldNext, SeenByStep

(* A task that ends does to a held disk what its holder expects.           *)
LEMMA CloudSeen ==
  ASSUME LockInv, SeenOK, CloudStep
  PROVE  HeldOK' /\ SeenOK'
  <1>t. TypeInv /\ RecordInv /\ HeldOK
    BY DEF LockInv
  <1>1. UNCHANGED <<pc, job, res, holding, volumes>>
    BY DEF CloudStep, goroutines, kubernetes
  <1>2. HeldOK'
    BY <1>1, <1>t DEF HeldOK, HeldOf, Held, diskOf
  <1>3. PICK d \in Disk : TaskFinishes(d) \/ DetachMisses(d) \/ TaskFails(d)
    BY DEF CloudStep
  <1>4. PICK state, node :
           /\ disk'[d].state = state /\ disk'[d].node = node /\ disk'[d].task = "none"
           /\ \A e \in Disk : e # d => disk'[e] = disk[e]
           /\ disk[d].task # "none"
           /\ \/ state = disk[d].state /\ node = disk[d].node
              \/ disk[d].task = "create" /\ state \in {"free", "broken"}
              \/ disk[d].task = "attach" /\ state = "attached" /\ node = disk[d].to
                 /\ disk[d].state = "free"
              \/ disk[d].task = "detach" /\ state = "free"
              \/ disk[d].task = "delete" /\ state = "gone"
    <2>1. CloudTypeOK
      BY <1>t DEF TypeInv, TypeOK
    <2>2. PICK state, node, result :
             /\ EndTask(d, state, node, result)
             /\ disk[d].task # "none"
             /\ \/ state = disk[d].state /\ node = disk[d].node
                \/ disk[d].task = "create" /\ state \in {"free", "broken"}
                \/ disk[d].task = "attach" /\ state = "attached" /\ node = disk[d].to
                   /\ disk[d].state = "free"
                \/ disk[d].task = "detach" /\ state = "free"
                \/ disk[d].task = "delete" /\ state = "gone"
      BY <1>3 DEF TaskFinishes, DetachMisses, TaskFails
    <2>3. disk'[d].state = state /\ disk'[d].node = node /\ disk'[d].task = "none"
      BY <2>1, <2>2 DEF EndTask, CloudTypeOK, DiskRecord
    <2>4. \A e \in Disk : e # d => disk'[e] = disk[e]
      BY <2>1, <2>2 DEF EndTask, CloudTypeOK
    <2> QED BY <2>2, <2>3, <2>4
  <1>5. ASSUME NEW p \in Proc, Held(p)
        PROVE  SeenOf(p)'
    <2>e. PICK e \in Disk : e = diskOf(p) /\ e = diskOf(p)'
      BY <1>1, <1>5, HeldDisk DEF diskOf
    <2>n. PICK n : n = nodeOf(p) /\ n = nodeOf(p)'
      BY <1>1 DEF nodeOf
    <2>s. SeenOf(p)
      BY DEF SeenOK
    <2>1. CASE e # d
      <3>1. disk'[e] = disk[e]
        BY <1>4, <2>1
      <3> QED BY <1>1, <2>e, <2>n, <2>s, <3>1 DEF SeenOf, Succeeds, AttachedTo, Mounted, Doing
    <2>2. CASE e = d
      BY <1>1, <1>4, <2>2, <2>e, <2>n, <2>s DEF SeenOf, Succeeds, AttachedTo, Mounted, Doing
    <2> QED BY <2>1, <2>2
  <1>6. \A p \in Proc : Held(p)' <=> Held(p)
    BY <1>1 DEF Held
  <1> QED BY <1>2, <1>5, <1>6, SeesHeldNext DEF SeenOK

(* HeldOK and SeenOK are inductive.                                        *)
LEMMA NextSeen ==
  ASSUME LockInv, SeenOK, [Next]_vars
  PROVE  HeldOK' /\ SeenOK'
  <1>1. CASE Restart
    <2>1. \A p \in Proc : pc'[p] = "idle" /\ ~ holding'[p]
      BY <1>1 DEF Restart
    <2> QED BY <2>1 DEF HeldOK, HeldOf, Held, SeenOK, SeenOf, Succeeds, Locked, VolumeAt, DeleteAt,
                        PublishAt, UnpublishAt
  <1>2. CASE \/ UNCHANGED vars \/ \E n \in Node : NodeFlips(n)
             \/ \E v \in Pv : PvChanges(v)
             \/ \E d \in Disk : NodeFormats(d)
    <2>1. UNCHANGED <<pc, job, res, holding, disk, volumes>>
      BY <1>2 DEF NodeFlips, PvChanges, NodeFormats, vars, goroutines, shared, cloud, kubernetes
    <2> QED BY <2>1 DEF LockInv, HeldOK, HeldOf, Held, SeenOK, SeenOf, Succeeds, AttachedTo, Mounted, Doing,
                        diskOf, nodeOf
  <1> QED
    BY <1>1, <1>2, CreateSeen, DeleteSeen, PublishSeen, UnpublishSeen, EndSeen, CloudSeen DEF Next, Handle

(* LockInv and SeenOK always hold.                                         *)
THEOREM CcsInvariant == Spec => [](LockInv /\ SeenOK)
  <1>1. Init => LockInv /\ SeenOK
    <2>1. Init => /\ \A p \in Proc : pc[p] = "idle" /\ ~ holding[p]
      BY DEF Init, Idle
    <2>2. Init => HeldOK /\ SeenOK
      BY <2>1 DEF HeldOK, HeldOf, Held, SeenOK, SeenOf, Succeeds, Locked, VolumeAt, DeleteAt, PublishAt,
                  UnpublishAt
    <2>3. Init => VolumeLocksOwned
      BY DEF Init, LocksInit, Idle, VolumeLocksOwned
    <2> QED BY <2>2, <2>3, InitTypeInv, InitRecord DEF LockInv
  <1>2. LockInv /\ SeenOK /\ [Next]_vars => LockInv' /\ SeenOK'
    BY NextTypeInv, NextLocks, NextRecord, NextSeen DEF LockInv
  <1> QED BY <1>1, <1>2, PTL DEF Spec

(* What a request saw of its disk under the lock is still so when it acts  *)
(* on it: a task that was left behind would have been seen, and a new one  *)
(* needs the lock.                                                         *)
THEOREM SeenHolds == Spec => []SeenStillHolds
  <1>1. LockInv /\ SeenOK => SeenStillHolds
    BY DEF SeenOK, SeenOf, SeenStillHolds
  <1> QED BY <1>1, CcsInvariant, PTL

(* So what an attach, a detach or a delete answers is true when it lets    *)
(* the disk go, although it looked at the disk and not at its task.        *)
THEOREM CcsAnswersHold == Spec => []AnswerHoldsUnderLock
  <1>1. LockInv /\ SeenOK => AnswerHoldsUnderLock
    BY DEF SeenOK, SeenOf, Succeeds, AnswerHoldsUnderLock
  <1> QED BY <1>1, CcsInvariant, PTL
=============================================================================
