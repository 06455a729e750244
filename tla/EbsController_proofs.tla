----------------------- MODULE EbsController_proofs -----------------------
(***************************************************************************)
(* Proofs about EbsController, for every number of requests, volumes,      *)
(* disks and nodes.  First the types and the two lock maps: TypeOK alone   *)
(* is not inductive, because an action applies a map to the disk or the    *)
(* node of its request, and JobOK says a request has them.  Then one       *)
(* invariant, IInv, behind the other properties: what a request has        *)
(* deferred is where its place in the handler says, so a mark or a lock    *)
(* that is set will be taken away (DeferOK, MarksOK); who polls a task of  *)
(* a disk waits for it alone (TaskOK); and a disk is known, ordered and    *)
(* remembered for one volume only (KnownOK, OrderOK, CacheOK).             *)
(***************************************************************************)
EXTENDS EbsController, CloudDisk_proofs, TLAPS

CreateAt == {"cLoad", "cGuard", "cQuota", "cSubmit", "cPoll", "cIdPv", "cPvc", "cDone"}
DeleteAt == {"dLoad", "dFind", "dGuard", "dSubmit", "dPoll", "dPvc", "dIdPv"}
PublishAt == {"pLoad", "pFind", "pReady", "fNode", "fDisk", "fSubmit", "fMark", "fPoll", "fFail",
              "pCount", "pNode", "pDisk", "pSubmit", "pMark", "pPoll", "pFail", "pClear"}
UnpublishAt == {"uEvent", "uLoad", "uFind", "uNode", "uDisk", "uSubmit", "uStore", "uMark",
                "uPoll", "uFail", "uClear"}
HasDisk == {"cPoll", "cIdPv", "cPvc", "cDone"} \union DeleteAt \union PublishAt \union UnpublishAt

(* A request in progress has the arguments its handler uses, what it has   *)
(* deferred is about them, and only an idle goroutine has nothing to do.   *)
JobOK ==
    \A p \in Proc :
        /\ pc[p] = "idle" => defers[p] = {}
        /\ pc[p] \in CreateAt => pvOf(p) \in Pv
        /\ pc[p] \in CreateAt => defers[p] \subseteq {"creating"}
        /\ pc[p] \in HasDisk => diskOf(p) \in Disk
        /\ pc[p] \in PublishAt \union UnpublishAt => nodeOf(p) \in Node
        /\ pc[p] = "ret" /\ res[p] = "ok" => diskOf(p) \in Disk
        /\ "creating" \in defers[p] => pvOf(p) \in Pv
        /\ "deleting" \in defers[p] => diskOf(p) \in Disk
        /\ "disk" \in defers[p] => diskOf(p) \in Disk
        /\ "node" \in defers[p] => nodeOf(p) \in Node
        /\ "event" \in defers[p] => nodeOf(p) \in Node

TypeInv == TypeOK /\ JobOK

(* The empty maps and idle goroutines of a new process have their types.   *)
LEMMA InitTypeInv == Init => TypeInv
  <1>1. Init => CloudTypeOK
    BY CloudInitTypeOK DEF Init
  <1>2. Init => TypeOK
    BY <1>1, CloudAssumption DEF Init, MemoryInit, TypeOK, Request, NoRequest, Location, Deferred
  <1>3. Init => JobOK
    BY DEF Init, MemoryInit, JobOK, CreateAt, DeleteAt, PublishAt, UnpublishAt, HasDisk
  <1> QED BY <1>2, <1>3 DEF TypeInv

(* CreateVolume learns its disk from the cloud or from pvcCreatedMap.      *)
LEMMA JobDiskUpdate ==
  ASSUME job \in [Proc -> Request], NEW p \in Proc, NEW d \in Disk
  PROVE  [job EXCEPT ![p].disk = d] \in [Proc -> Request]
  BY DEF Request

(* A crash or a restart leaves the initial memory.                         *)
LEMMA CrashTypeInv ==
  ASSUME TypeInv, Crash
  PROVE  TypeInv'
  <1>1. CloudTypeOK'
    BY ForgetAllTypeOK DEF TypeInv, TypeOK, Crash
  <1>2. TypeOK'
    BY <1>1, CloudAssumption
    DEF TypeInv, TypeOK, Crash, Request, NoRequest, Location, Deferred
  <1>3. JobOK'
    BY DEF Crash, JobOK, CreateAt, DeleteAt, PublishAt, UnpublishAt, HasDisk
  <1> QED BY <1>2, <1>3 DEF TypeInv

(* CreateVolume: every step of it but the panic, which is a crash.         *)
LEMMA CreateTypeInv ==
  ASSUME TypeInv, NEW p \in Proc, CreateVolume(p)
  PROVE  TypeInv'
  <1> USE DEF TypeInv, TypeOK, JobOK, pvOf, diskOf, nodeOf, CreateAt, DeleteAt, PublishAt,
              UnpublishAt, HasDisk, memory, provisioning, attaching, locks, cloud
  <1>1. CASE CreateLoad(p)
    <2>job. job' \in [Proc -> Request]
      BY <1>1, JobDiskUpdate
      DEF CreateLoad, Goto, Return, Refuse
    <2>1. TypeOK'
      BY <1>1, <2>job
      DEF CloudTypeOK, Location, CreateLoad, Goto, Return, Refuse
    <2>2. JobOK'
      BY <1>1
      DEF Request, CreateLoad, Goto, Return, Refuse
    <2> QED BY <2>1, <2>2
  <1>2. CASE CreateGuard(p)
    <2>1. TypeOK'
      BY <1>2
      DEF CloudTypeOK, Location, Deferred, CreateGuard, Goto, Return, Refuse, Defer
    <2>2. JobOK'
      BY <1>2
      DEF CreateGuard, Goto, Return, Refuse, Defer
    <2> QED BY <2>1, <2>2
  <1>3. CASE CreateCheck(p)
    <2>1. TypeOK'
      BY <1>3
      DEF CloudTypeOK, Location, CreateCheck, Goto, Return, Refuse
    <2>2. JobOK'
      BY <1>3
      DEF CreateCheck, Goto, Return, Refuse
    <2> QED BY <2>1, <2>2
  <1>4. CASE CreateSubmit(p)
    <2>cloud. CloudTypeOK'
      BY <1>4, SubmitCreateTypeOK
      DEF CloudTypeOK, Refuse, CreateSubmit
    <2>job. job' \in [Proc -> Request]
      BY <1>4, JobDiskUpdate
      DEF CreateSubmit, Goto, Return, Refuse
    <2>1. TypeOK'
      BY <1>4, <2>cloud, <2>job
      DEF Location, CreateSubmit, Goto, Return, Refuse
    <2>2. JobOK'
      BY <1>4
      DEF Request, CreateSubmit, Goto, Return, Refuse
    <2> QED BY <2>1, <2>2
  <1>5. CASE CreatePoll(p)
    <2>cloud. CloudTypeOK'
      BY <1>5, ForgetTypeOK
      DEF CloudTypeOK, TaskDone, CreatePoll
    <2>1. TypeOK'
      BY <1>5, <2>cloud
      DEF Location, CreatePoll, Goto, Return, TaskDone, Forget
    <2>2. JobOK'
      BY <1>5
      DEF CreatePoll, Goto, Return, TaskDone, Forget
    <2> QED BY <2>1, <2>2
  <1>6. CASE CreateStoreIdPv(p)
    <2>1. TypeOK'
      BY <1>6
      DEF CloudTypeOK, Location, CreateStoreIdPv, Goto
    <2>2. JobOK'
      BY <1>6
      DEF CreateStoreIdPv, Goto
    <2> QED BY <2>1, <2>2
  <1>7. CASE CreateStorePvc(p)
    <2>1. TypeOK'
      BY <1>7
      DEF CloudTypeOK, Location, CreateStorePvc, Goto
    <2>2. JobOK'
      BY <1>7
      DEF CreateStorePvc, Goto
    <2> QED BY <2>1, <2>2
  <1>8. CASE CreateDone(p)
    <2>1. TypeOK'
      BY <1>8
      DEF CloudTypeOK, Location, CreateDone, Return
    <2>2. JobOK'
      BY <1>8
      DEF CreateDone, Return
    <2> QED BY <2>1, <2>2
  <1> QED
    BY <1>1, <1>2, <1>3, <1>4, <1>5, <1>6, <1>7, <1>8, CrashTypeInv
    DEF CreateVolume, CreatePanics

(* DeleteVolume.                                                           *)
LEMMA DeleteTypeInv ==
  ASSUME TypeInv, NEW p \in Proc, DeleteVolume(p)
  PROVE  TypeInv'
  <1> USE DEF TypeInv, TypeOK, JobOK, pvOf, diskOf, nodeOf, CreateAt, DeleteAt, PublishAt,
              UnpublishAt, HasDisk, memory, provisioning, attaching, locks, cloud
  <1>1. CASE DeleteLoad(p)
    <2>1. TypeOK'
      BY <1>1
      DEF CloudTypeOK, Location, DeleteLoad, Goto, Return, Refuse
    <2>2. JobOK'
      BY <1>1
      DEF DeleteLoad, Goto, Return, Refuse
    <2> QED BY <2>1, <2>2
  <1>2. CASE DeleteFind(p)
    <2>1. TypeOK'
      BY <1>2
      DEF CloudTypeOK, Location, DeleteFind, Goto, Return, Refuse
    <2>2. JobOK'
      BY <1>2
      DEF DeleteFind, Goto, Return, Refuse
    <2> QED BY <2>1, <2>2
  <1>3. CASE DeleteGuard(p)
    <2>1. TypeOK'
      BY <1>3
      DEF CloudTypeOK, Location, Deferred, DeleteGuard, Goto, Return, Refuse, Defer
    <2>2. JobOK'
      BY <1>3
      DEF DeleteGuard, Goto, Return, Refuse, Defer
    <2> QED BY <2>1, <2>2
  <1>4. CASE DeleteSubmit(p)
    <2>cloud. CloudTypeOK'
      BY <1>4, SubmitTypeOK
      DEF CloudTypeOK, StartTask, Refuse, TaskKind, DeleteSubmit
    <2>1. TypeOK'
      BY <1>4, <2>cloud
      DEF Location, DeleteSubmit, Goto, Return, Refuse, StartTask, Submit
    <2>2. JobOK'
      BY <1>4
      DEF DeleteSubmit, Goto, Return, Refuse, StartTask, Submit
    <2> QED BY <2>1, <2>2
  <1>5. CASE DeletePoll(p)
    <2>cloud. CloudTypeOK'
      BY <1>5, ForgetTypeOK
      DEF CloudTypeOK, TaskDone, DeletePoll
    <2>1. TypeOK'
      BY <1>5, <2>cloud
      DEF Location, DeletePoll, Goto, Return, TaskDone, Forget
    <2>2. JobOK'
      BY <1>5
      DEF DeletePoll, Goto, Return, TaskDone, Forget
    <2> QED BY <2>1, <2>2
  <1>6. CASE DeleteForgetPvc(p)
    <2>1. TypeOK'
      BY <1>6
      DEF CloudTypeOK, Location, DeleteForgetPvc, Goto
    <2>2. JobOK'
      BY <1>6
      DEF DeleteForgetPvc, Goto
    <2> QED BY <2>1, <2>2
  <1>7. CASE DeleteForgetIdPv(p)
    <2>1. TypeOK'
      BY <1>7
      DEF CloudTypeOK, Location, DeleteForgetIdPv, Return
    <2>2. JobOK'
      BY <1>7
      DEF DeleteForgetIdPv, Return
    <2> QED BY <2>1, <2>2
  <1> QED
    BY <1>1, <1>2, <1>3, <1>4, <1>5, <1>6, <1>7 DEF DeleteVolume

(* ControllerPublishVolume.                                                *)
LEMMA PublishTypeInv ==
  ASSUME TypeInv, NEW p \in Proc, ControllerPublishVolume(p)
  PROVE  TypeInv'
  <1> USE DEF TypeInv, TypeOK, JobOK, pvOf, diskOf, nodeOf, CreateAt, DeleteAt, PublishAt,
              UnpublishAt, HasDisk, memory, provisioning, attaching, locks, cloud
  <1>1. CASE PublishLoad(p)
    <2>1. TypeOK'
      BY <1>1
      DEF CloudTypeOK, Location, PublishLoad, Goto, Return, Refuse
    <2>2. JobOK'
      BY <1>1
      DEF PublishLoad, Goto, Return, Refuse
    <2> QED BY <2>1, <2>2
  <1>2. CASE PublishFind(p)
    <2>1. TypeOK'
      BY <1>2, DiskRecordFields
      DEF CloudTypeOK, Location, PublishFind, Goto, Return, Refuse
    <2>2. JobOK'
      BY <1>2
      DEF PublishFind, Goto, Return, Refuse
    <2> QED BY <2>1, <2>2
  <1>3. CASE PublishReady(p)
    <2>1. TypeOK'
      BY <1>3
      DEF CloudTypeOK, Location, PublishReady, Goto, Return, Refuse
    <2>2. JobOK'
      BY <1>3
      DEF PublishReady, Goto, Return, Refuse
    <2> QED BY <2>1, <2>2
  <1>4. CASE LockNode(p, "fNode", "fDisk")
    <2>1. TypeOK'
      BY <1>4
      DEF CloudTypeOK, Location, Deferred, LockNode, Goto, Return, Refuse, Defer
    <2>2. JobOK'
      BY <1>4
      DEF LockNode, Goto, Return, Refuse, Defer
    <2> QED BY <2>1, <2>2
  <1>5. CASE LockDisk(p, "fDisk", "fSubmit")
    <2>1. TypeOK'
      BY <1>5
      DEF CloudTypeOK, Location, Deferred, LockDisk, Goto, Return, Refuse, Defer
    <2>2. JobOK'
      BY <1>5
      DEF LockDisk, Goto, Return, Refuse, Defer
    <2> QED BY <2>1, <2>2
  <1>6. CASE ForceDetachSubmit(p)
    <2>cloud. CloudTypeOK'
      BY <1>6, SubmitTypeOK
      DEF CloudTypeOK, StartTask, Refuse, TaskKind, ForceDetachSubmit
    <2>1. TypeOK'
      BY <1>6, <2>cloud
      DEF Location, ForceDetachSubmit, Goto, Return, Refuse, StartTask, Submit
    <2>2. JobOK'
      BY <1>6
      DEF ForceDetachSubmit, Goto, Return, Refuse, StartTask, Submit
    <2> QED BY <2>1, <2>2
  <1>7. CASE ForceDetachMark(p)
    <2>1. TypeOK'
      BY <1>7
      DEF CloudTypeOK, Location, ForceDetachMark, Goto, MarkAttaching
    <2>2. JobOK'
      BY <1>7
      DEF ForceDetachMark, Goto, MarkAttaching
    <2> QED BY <2>1, <2>2
  <1>8. CASE ForceDetachPoll(p)
    <2>cloud. CloudTypeOK'
      BY <1>8, ForgetTypeOK
      DEF CloudTypeOK, TaskDone, ForceDetachPoll
    <2>1. TypeOK'
      BY <1>8, <2>cloud
      DEF Location, ForceDetachPoll, Goto, Return, TaskDone, Forget
    <2>2. JobOK'
      BY <1>8
      DEF ForceDetachPoll, Goto, Return, TaskDone, Forget
    <2> QED BY <2>1, <2>2
  <1>9. CASE ForceDetachFail(p)
    <2>1. TypeOK'
      BY <1>9
      DEF CloudTypeOK, Location, ForceDetachFail, Return, MarkAttaching
    <2>2. JobOK'
      BY <1>9
      DEF ForceDetachFail, Return, MarkAttaching
    <2> QED BY <2>1, <2>2
  <1>10. CASE PublishCount(p)
    <2>1. TypeOK'
      BY <1>10
      DEF CloudTypeOK, Location, PublishCount, Goto, Return, Refuse
    <2>2. JobOK'
      BY <1>10
      DEF PublishCount, Goto, Return, Refuse
    <2> QED BY <2>1, <2>2
  <1>11. CASE LockNode(p, "pNode", "pDisk")
    <2>1. TypeOK'
      BY <1>11
      DEF CloudTypeOK, Location, Deferred, LockNode, Goto, Return, Refuse, Defer
    <2>2. JobOK'
      BY <1>11
      DEF LockNode, Goto, Return, Refuse, Defer
    <2> QED BY <2>1, <2>2
  <1>12. CASE LockDisk(p, "pDisk", "pSubmit")
    <2>1. TypeOK'
      BY <1>12
      DEF CloudTypeOK, Location, Deferred, LockDisk, Goto, Return, Refuse, Defer
    <2>2. JobOK'
      BY <1>12
      DEF LockDisk, Goto, Return, Refuse, Defer
    <2> QED BY <2>1, <2>2
  <1>13. CASE PublishSubmit(p)
    <2>cloud. CloudTypeOK'
      BY <1>13, SubmitTypeOK
      DEF CloudTypeOK, StartTask, Refuse, TaskKind, PublishSubmit
    <2>1. TypeOK'
      BY <1>13, <2>cloud
      DEF Location, PublishSubmit, Goto, Return, Refuse, StartTask, Submit
    <2>2. JobOK'
      BY <1>13
      DEF PublishSubmit, Goto, Return, Refuse, StartTask, Submit
    <2> QED BY <2>1, <2>2
  <1>14. CASE PublishMark(p)
    <2>1. TypeOK'
      BY <1>14
      DEF CloudTypeOK, Location, PublishMark, Goto, MarkAttaching
    <2>2. JobOK'
      BY <1>14
      DEF PublishMark, Goto, MarkAttaching
    <2> QED BY <2>1, <2>2
  <1>15. CASE PublishPoll(p)
    <2>cloud. CloudTypeOK'
      BY <1>15, ForgetTypeOK
      DEF CloudTypeOK, TaskDone, PublishPoll
    <2>1. TypeOK'
      BY <1>15, <2>cloud
      DEF Location, PublishPoll, Goto, Return, TaskDone, Forget
    <2>2. JobOK'
      BY <1>15
      DEF PublishPoll, Goto, Return, TaskDone, Forget
    <2> QED BY <2>1, <2>2
  <1>16. CASE PublishFail(p)
    <2>1. TypeOK'
      BY <1>16
      DEF CloudTypeOK, Location, PublishFail, Return, MarkAttaching
    <2>2. JobOK'
      BY <1>16
      DEF PublishFail, Return, MarkAttaching
    <2> QED BY <2>1, <2>2
  <1>17. CASE PublishClear(p)
    <2>1. TypeOK'
      BY <1>17
      DEF CloudTypeOK, Location, PublishClear, Return, MarkAttaching
    <2>2. JobOK'
      BY <1>17
      DEF PublishClear, Return, MarkAttaching
    <2> QED BY <2>1, <2>2
  <1> QED
    BY <1>1, <1>2, <1>3, <1>4, <1>5, <1>6, <1>7, <1>8, <1>9, <1>10, <1>11, <1>12, <1>13, <1>14, <1>15,
       <1>16, <1>17 DEF ControllerPublishVolume

(* ControllerUnpublishVolume.                                              *)
LEMMA UnpublishTypeInv ==
  ASSUME TypeInv, NEW p \in Proc, ControllerUnpublishVolume(p)
  PROVE  TypeInv'
  <1> USE DEF TypeInv, TypeOK, JobOK, pvOf, diskOf, nodeOf, CreateAt, DeleteAt, PublishAt,
              UnpublishAt, HasDisk, memory, provisioning, attaching, locks, cloud
  <1>1. CASE UnpublishEvent(p)
    <2>1. TypeOK'
      BY <1>1
      DEF CloudTypeOK, Location, UnpublishEvent, Goto, Return, Refuse
    <2>2. JobOK'
      BY <1>1
      DEF UnpublishEvent, Goto, Return, Refuse
    <2> QED BY <2>1, <2>2
  <1>2. CASE UnpublishLoad(p)
    <2>1. TypeOK'
      BY <1>2
      DEF CloudTypeOK, Location, UnpublishLoad, Goto, Return, Refuse
    <2>2. JobOK'
      BY <1>2
      DEF UnpublishLoad, Goto, Return, Refuse
    <2> QED BY <2>1, <2>2
  <1>3. CASE UnpublishFind(p)
    <2>1. TypeOK'
      BY <1>3
      DEF CloudTypeOK, Location, UnpublishFind, Goto, Return, Refuse
    <2>2. JobOK'
      BY <1>3
      DEF UnpublishFind, Goto, Return, Refuse
    <2> QED BY <2>1, <2>2
  <1>4. CASE LockNode(p, "uNode", "uDisk")
    <2>1. TypeOK'
      BY <1>4
      DEF CloudTypeOK, Location, Deferred, LockNode, Goto, Return, Refuse, Defer
    <2>2. JobOK'
      BY <1>4
      DEF LockNode, Goto, Return, Refuse, Defer
    <2> QED BY <2>1, <2>2
  <1>5. CASE LockDisk(p, "uDisk", "uSubmit")
    <2>1. TypeOK'
      BY <1>5
      DEF CloudTypeOK, Location, Deferred, LockDisk, Goto, Return, Refuse, Defer
    <2>2. JobOK'
      BY <1>5
      DEF LockDisk, Goto, Return, Refuse, Defer
    <2> QED BY <2>1, <2>2
  <1>6. CASE UnpublishSubmit(p)
    <2>cloud. CloudTypeOK'
      BY <1>6, SubmitTypeOK
      DEF CloudTypeOK, StartTask, Refuse, TaskKind, UnpublishSubmit
    <2>1. TypeOK'
      BY <1>6, <2>cloud
      DEF Location, UnpublishSubmit, Goto, Return, Refuse, StartTask, Submit
    <2>2. JobOK'
      BY <1>6
      DEF UnpublishSubmit, Goto, Return, Refuse, StartTask, Submit
    <2> QED BY <2>1, <2>2
  <1>7. CASE UnpublishStore(p)
    <2>1. TypeOK'
      BY <1>7
      DEF CloudTypeOK, Location, Deferred, UnpublishStore, Defer
    <2>2. JobOK'
      BY <1>7
      DEF UnpublishStore, Defer
    <2> QED BY <2>1, <2>2
  <1>8. CASE UnpublishMark(p)
    <2>1. TypeOK'
      BY <1>8
      DEF CloudTypeOK, Location, UnpublishMark, Goto, MarkDetaching
    <2>2. JobOK'
      BY <1>8
      DEF UnpublishMark, Goto, MarkDetaching
    <2> QED BY <2>1, <2>2
  <1>9. CASE UnpublishPoll(p)
    <2>cloud. CloudTypeOK'
      BY <1>9, ForgetTypeOK
      DEF CloudTypeOK, TaskDone, UnpublishPoll
    <2>1. TypeOK'
      BY <1>9, <2>cloud
      DEF Location, UnpublishPoll, Goto, Return, TaskDone, Forget
    <2>2. JobOK'
      BY <1>9
      DEF UnpublishPoll, Goto, Return, TaskDone, Forget
    <2> QED BY <2>1, <2>2
  <1>10. CASE UnpublishFail(p)
    <2>1. TypeOK'
      BY <1>10
      DEF CloudTypeOK, Location, UnpublishFail, Return, MarkDetaching
    <2>2. JobOK'
      BY <1>10
      DEF UnpublishFail, Return, MarkDetaching
    <2> QED BY <2>1, <2>2
  <1>11. CASE UnpublishClear(p)
    <2>1. TypeOK'
      BY <1>11
      DEF CloudTypeOK, Location, UnpublishClear, Return, MarkDetaching
    <2>2. JobOK'
      BY <1>11
      DEF UnpublishClear, Return, MarkDetaching
    <2> QED BY <2>1, <2>2
  <1> QED
    BY <1>1, <1>2, <1>3, <1>4, <1>5, <1>6, <1>7, <1>8, <1>9, <1>10, <1>11 DEF ControllerUnpublishVolume

(* A request arrives, runs its deferred calls, is answered.                *)
LEMMA StartTypeInv ==
  ASSUME TypeInv, NEW p \in Proc, NEW r \in Requests, Start(p, r)
  PROVE  TypeInv'
  <1>1. /\ r \in Request
        /\ r.op = "create" => r.pv \in Pv
        /\ r.op # "create" => r.disk \in Disk
        /\ r.op \in {"publish", "unpublish"} => r.node \in Node
        /\ r.op \in {"create", "delete", "publish", "unpublish"}
    BY EbsAssumption DEF Request
  <1>2. TypeOK'
    BY <1>1 DEF TypeInv, TypeOK, CloudTypeOK, Start, Location, provisioning, attaching, locks, cloud
  <1>3. JobOK'
    BY <1>1 DEF TypeInv, TypeOK, JobOK, Start, CreateAt, DeleteAt, PublishAt, UnpublishAt, HasDisk,
                pvOf, diskOf, nodeOf
  <1> QED BY <1>2, <1>3 DEF TypeInv

(* A deferred call deletes entries of the request that registered it.      *)
LEMMA RunDeferredTypeInv ==
  ASSUME TypeInv, NEW p \in Proc, RunDeferred(p)
  PROVE  TypeInv'
  <1> USE DEF TypeInv, provisioning, attaching, locks, cloud
  <1>1. TypeOK'
    BY DEF TypeOK, CloudTypeOK, JobOK, RunDeferred, Deferred, pvOf, diskOf, nodeOf
  <1>2. JobOK'
    BY DEF TypeOK, JobOK, RunDeferred, Deferred, CreateAt, DeleteAt, PublishAt, UnpublishAt, HasDisk,
           pvOf, diskOf, nodeOf
  <1> QED BY <1>1, <1>2

(* An answered request leaves an idle goroutine with nothing deferred.     *)
LEMMA AnswerTypeInv ==
  ASSUME TypeInv, NEW p \in Proc, Answer(p)
  PROVE  TypeInv'
  <1> USE DEF TypeInv, provisioning, attaching, locks, cloud
  <1>1. TypeOK'
    BY DEF TypeOK, CloudTypeOK, JobOK, Answer, Location, Request, NoRequest, diskOf
  <1>2. JobOK'
    BY DEF TypeOK, JobOK, Answer, CreateAt, DeleteAt, PublishAt, UnpublishAt, HasDisk,
           pvOf, diskOf, nodeOf
  <1> QED BY <1>1, <1>2

(* TypeInv is inductive.                                                   *)
LEMMA NextTypeInv ==
  ASSUME TypeInv, [Next]_vars
  PROVE  TypeInv'
  <1>1. ASSUME NEW p \in Proc, Handle(p)
        PROVE  TypeInv'
    BY <1>1, CreateTypeInv, DeleteTypeInv, PublishTypeInv, UnpublishTypeInv, RunDeferredTypeInv,
       AnswerTypeInv DEF Handle
  <1>2. CASE Restart
    BY <1>2, CrashTypeInv DEF Restart
  <1>3. ASSUME NEW n \in Node, NodeFlips(n)
        PROVE  TypeInv'
    BY <1>3 DEF TypeInv, TypeOK, CloudTypeOK, JobOK, NodeFlips, goroutines, memory, provisioning,
                attaching, locks, cloud, pvOf, diskOf, nodeOf
  <1>4. CASE CloudStep
    <2>1. CloudTypeOK'
      BY <1>4, CloudNextTypeOK DEF CloudStep, TypeInv, TypeOK
    <2> QED
      BY <1>4, <2>1 DEF CloudStep, TypeInv, TypeOK, JobOK, goroutines, memory, provisioning,
                        attaching, locks, pvOf, diskOf, nodeOf
  <1>5. CASE UNCHANGED vars
    BY <1>5 DEF TypeInv, TypeOK, CloudTypeOK, JobOK, vars, goroutines, provisioning, attaching,
                locks, cloud, pvOf, diskOf, nodeOf
  <1> QED BY <1>1, <1>2, <1>3, <1>4, <1>5, StartTypeInv DEF Next

(* Every variable keeps its type and every request its arguments, whatever *)
(* the interleaving of requests, restarts and the cloud's tasks.           *)
THEOREM TypeCorrect == Spec => []TypeOK
  <1>1. Spec => []TypeInv
    BY InitTypeInv, NextTypeInv, PTL DEF Spec
  <1> QED BY <1>1, PTL DEF TypeInv

----------------------------------------------------------------------------
(* The locks.  LocksOwned reads the lock maps, the requests and their      *)
(* deferred calls and nothing else; most steps touch none of them.         *)

(* A step that leaves the lock maps, requests and deferred calls alone.    *)
LEMMA LocksKept ==
  ASSUME LocksOwned, UNCHANGED <<locks, job, defers>>
  PROVE  LocksOwned'
  BY DEF LocksOwned, HoldsNode, HoldsDisk, nodeOf, diskOf, locks

(* A request that holds no lock may change, and may defer other calls.     *)
LEMMA LocksKeptByOthers ==
  ASSUME LocksOwned, TypeOK, NEW p \in Proc, UNCHANGED locks,
         "node" \notin defers[p], "disk" \notin defers[p],
         "node" \notin defers'[p], "disk" \notin defers'[p],
         \A q \in Proc : q # p => defers'[q] = defers[q] /\ job'[q] = job[q]
  PROVE  LocksOwned'
  BY DEF LocksOwned, HoldsNode, HoldsDisk, nodeOf, diskOf, locks

(* A request that holds locks may defer other calls than their release.    *)
LEMMA LocksKeptByHolder ==
  ASSUME LocksOwned, TypeOK, NEW p \in Proc, UNCHANGED <<locks, job>>,
         "node" \in defers'[p] <=> "node" \in defers[p],
         "disk" \in defers'[p] <=> "disk" \in defers[p],
         \A q \in Proc : q # p => defers'[q] = defers[q]
  PROVE  LocksOwned'
  BY DEF LocksOwned, HoldsNode, HoldsDisk, nodeOf, diskOf, locks

(* LoadOrStore takes a lock only when nobody has it.                       *)
LEMMA LockNodeLocks ==
  ASSUME LocksOwned, TypeOK, NEW p \in Proc, nodeOf(p) \in Node, NEW at, NEW to, LockNode(p, at, to)
  PROVE  LocksOwned'
  <1>1. CASE Refuse(p)
    BY <1>1, LocksKept DEF Refuse, Return, memory, locks
  <1>2. CASE nodeOf(p) \notin AttachDetachMap /\ Defer(p, to, "node")
    BY <1>2 DEF LocksOwned, TypeOK, LockNode, Defer, Refuse, Return, HoldsNode, HoldsDisk, nodeOf, diskOf
  <1> QED BY <1>1, <1>2 DEF LockNode

(* The same for the disk.                                                  *)
LEMMA LockDiskLocks ==
  ASSUME LocksOwned, TypeOK, NEW p \in Proc, diskOf(p) \in Disk, NEW at, NEW to, LockDisk(p, at, to)
  PROVE  LocksOwned'
  <1>1. CASE Refuse(p)
    BY <1>1, LocksKept DEF Refuse, Return, memory, locks
  <1>2. CASE diskOf(p) \notin DiskMultiTaskMap /\ Defer(p, to, "disk")
    BY <1>2 DEF LocksOwned, TypeOK, LockDisk, Defer, Refuse, Return, HoldsNode, HoldsDisk, nodeOf, diskOf
  <1> QED BY <1>1, <1>2 DEF LockDisk

(* The deferred Delete removes the entry its own request stored.           *)
LEMMA RunDeferredLocks ==
  ASSUME LocksOwned, TypeOK, NEW p \in Proc, RunDeferred(p)
  PROVE  LocksOwned'
  BY DEF LocksOwned, TypeOK, RunDeferred, HoldsNode, HoldsDisk, nodeOf, diskOf, locks, provisioning, attaching

(* CreateVolume takes neither lock, and a panic loses both maps whole.     *)
LEMMA CreateLocks ==
  ASSUME LocksOwned, TypeInv, NEW p \in Proc, CreateVolume(p)
  PROVE  LocksOwned'
  <1> USE DEF memory, locks, cloud
  <1>1. CASE CreatePanics(p)
    BY <1>1 DEF CreatePanics, Crash, LocksOwned, HoldsNode, HoldsDisk
  <1>2. CASE CreateLoad(p) \/ CreateGuard(p) \/ CreateSubmit(p)
    <2>1. "node" \notin defers[p] /\ "disk" \notin defers[p]
      BY <1>2 DEF TypeInv, JobOK, CreateAt, CreateLoad, CreateGuard, CreateSubmit
    <2>2. "node" \notin defers'[p] /\ "disk" \notin defers'[p]
      BY <1>2, <2>1 DEF TypeInv, TypeOK, CreateLoad, CreateGuard, CreateSubmit, Goto, Return, Refuse, Defer
    <2>3. \A q \in Proc : q # p => defers'[q] = defers[q]
      BY <1>2 DEF TypeInv, TypeOK, CreateLoad, CreateGuard, CreateSubmit, Goto, Return, Refuse, Defer
    <2>4. \A q \in Proc : q # p => job'[q] = job[q]
      BY <1>2 DEF TypeInv, TypeOK, CreateLoad, CreateGuard, CreateSubmit, Goto, Return, Refuse, Defer
    <2>5. UNCHANGED locks
      BY <1>2 DEF CreateLoad, CreateGuard, CreateSubmit, Refuse
    <2> QED BY <2>1, <2>2, <2>3, <2>4, <2>5, LocksKeptByOthers DEF TypeInv
  <1>3. CASE CreateCheck(p) \/ CreatePoll(p) \/ CreateStoreIdPv(p) \/ CreateStorePvc(p) \/ CreateDone(p)
    BY <1>3, LocksKept
    DEF CreateCheck, CreatePoll, CreateStoreIdPv, CreateStorePvc, CreateDone, Goto, Return, Refuse, TaskDone
  <1> QED BY <1>1, <1>2, <1>3 DEF CreateVolume

(* DeleteVolume takes neither lock.                                        *)
LEMMA DeleteLocks ==
  ASSUME LocksOwned, TypeInv, NEW p \in Proc, DeleteVolume(p)
  PROVE  LocksOwned'
  <1> USE DEF memory, locks, cloud
  <1>1. CASE DeleteGuard(p)
    <2>1. UNCHANGED <<locks, job>> /\ (Refuse(p) \/ Defer(p, "dSubmit", "deleting"))
      BY <1>1 DEF DeleteGuard, Refuse, Return, Defer
    <2>2. /\ "node" \in defers'[p] <=> "node" \in defers[p]
          /\ "disk" \in defers'[p] <=> "disk" \in defers[p]
          /\ \A q \in Proc : q # p => defers'[q] = defers[q]
      BY <2>1 DEF TypeInv, TypeOK, Refuse, Return, Defer
    <2> QED BY <2>1, <2>2, LocksKeptByHolder DEF TypeInv
  <1>2. CASE DeleteLoad(p) \/ DeleteFind(p) \/ DeletePoll(p) \/ DeleteForgetPvc(p) \/ DeleteForgetIdPv(p)
    BY <1>2, LocksKept
    DEF DeleteLoad, DeleteFind, DeletePoll, DeleteForgetPvc, DeleteForgetIdPv, Goto, Return, Refuse, TaskDone
  <1>3. CASE DeleteSubmit(p)
    BY <1>3, LocksKept DEF DeleteSubmit, StartTask, Goto, Return, Refuse
  <1> QED BY <1>1, <1>2, <1>3 DEF DeleteVolume

(* ControllerPublishVolume takes the node, then the disk, on either path.  *)
LEMMA PublishLocks ==
  ASSUME LocksOwned, TypeInv, NEW p \in Proc, ControllerPublishVolume(p)
  PROVE  LocksOwned'
  <1> USE DEF memory, locks, cloud
  <1>1. CASE LockNode(p, "fNode", "fDisk") \/ LockNode(p, "pNode", "pDisk")
    <2>1. nodeOf(p) \in Node
      BY <1>1 DEF LockNode, TypeInv, JobOK, PublishAt
    <2> QED BY <1>1, <2>1, LockNodeLocks DEF TypeInv
  <1>2. CASE LockDisk(p, "fDisk", "fSubmit") \/ LockDisk(p, "pDisk", "pSubmit")
    <2>1. diskOf(p) \in Disk
      BY <1>2 DEF LockDisk, TypeInv, JobOK, PublishAt, HasDisk
    <2> QED BY <1>2, <2>1, LockDiskLocks DEF TypeInv
  <1>3. CASE PublishLoad(p) \/ PublishFind(p) \/ PublishReady(p) \/ PublishCount(p)
    BY <1>3, LocksKept DEF PublishLoad, PublishFind, PublishReady, PublishCount, Goto, Return, Refuse
  <1>4. CASE ForceDetachSubmit(p) \/ PublishSubmit(p)
    BY <1>4, LocksKept DEF ForceDetachSubmit, PublishSubmit, StartTask, Goto, Return, Refuse
  <1>5. CASE ForceDetachMark(p) \/ ForceDetachPoll(p) \/ ForceDetachFail(p)
    BY <1>5, LocksKept DEF ForceDetachMark, ForceDetachPoll, ForceDetachFail, MarkAttaching, Goto,
                           Return, TaskDone
  <1>6. CASE PublishMark(p) \/ PublishPoll(p) \/ PublishFail(p) \/ PublishClear(p)
    BY <1>6, LocksKept DEF PublishMark, PublishPoll, PublishFail, PublishClear, MarkAttaching, Goto,
                           Return, TaskDone
  <1> QED BY <1>1, <1>2, <1>3, <1>4, <1>5, <1>6 DEF ControllerPublishVolume

(* So does ControllerUnpublishVolume, which defers one call more.          *)
LEMMA UnpublishLocks ==
  ASSUME LocksOwned, TypeInv, NEW p \in Proc, ControllerUnpublishVolume(p)
  PROVE  LocksOwned'
  <1> USE DEF memory, locks, cloud
  <1>1. CASE LockNode(p, "uNode", "uDisk")
    <2>1. nodeOf(p) \in Node
      BY <1>1 DEF LockNode, TypeInv, JobOK, UnpublishAt
    <2> QED BY <1>1, <2>1, LockNodeLocks DEF TypeInv
  <1>2. CASE LockDisk(p, "uDisk", "uSubmit")
    <2>1. diskOf(p) \in Disk
      BY <1>2 DEF LockDisk, TypeInv, JobOK, UnpublishAt, HasDisk
    <2> QED BY <1>2, <2>1, LockDiskLocks DEF TypeInv
  <1>3. CASE UnpublishEvent(p) \/ UnpublishLoad(p) \/ UnpublishFind(p)
    BY <1>3, LocksKept DEF UnpublishEvent, UnpublishLoad, UnpublishFind, Goto, Return, Refuse
  <1>4. CASE UnpublishSubmit(p)
    BY <1>4, LocksKept DEF UnpublishSubmit, StartTask, Goto, Return, Refuse
  <1>5. CASE UnpublishStore(p)
    <2>1. UNCHANGED <<locks, job>> /\ Defer(p, "uMark", "event")
      BY <1>5 DEF UnpublishStore, Defer
    <2>2. \A q \in Proc : defers'[q] = IF q = p THEN defers[q] \union {"event"} ELSE defers[q]
      BY <2>1 DEF TypeInv, TypeOK, Defer
    <2> QED BY <2>1, <2>2, LocksKeptByHolder DEF TypeInv
  <1>6. CASE UnpublishMark(p) \/ UnpublishPoll(p) \/ UnpublishFail(p) \/ UnpublishClear(p)
    BY <1>6, LocksKept
    DEF UnpublishMark, UnpublishPoll, UnpublishFail, UnpublishClear, MarkDetaching, Goto, Return, TaskDone
  <1> QED BY <1>1, <1>2, <1>3, <1>4, <1>5, <1>6 DEF ControllerUnpublishVolume

(* LocksOwned is inductive relative to TypeInv.                            *)
LEMMA NextLocks ==
  ASSUME LocksOwned, TypeInv, [Next]_vars
  PROVE  LocksOwned'
  <1> USE DEF memory, locks, goroutines
  <1>1. ASSUME NEW p \in Proc, Handle(p)
        PROVE  LocksOwned'
    <2>1. CASE Answer(p)
      <3>1. \A q \in Proc : q # p => job'[q] = job[q]
        BY <2>1 DEF Answer, TypeInv, TypeOK
      <3> QED BY <2>1, <3>1, LocksKeptByOthers DEF Answer, TypeInv
    <2> QED BY <1>1, <2>1, CreateLocks, DeleteLocks, PublishLocks, UnpublishLocks, RunDeferredLocks
            DEF Handle, TypeInv
  <1>2. ASSUME NEW p \in Proc, NEW r \in Requests, Start(p, r)
        PROVE  LocksOwned'
    <2>1. defers[p] = {}
      BY <1>2 DEF Start, TypeInv, JobOK
    <2>2. \A q \in Proc : q # p => job'[q] = job[q]
      BY <1>2 DEF Start, TypeInv, TypeOK
    <2> QED BY <1>2, <2>1, <2>2, LocksKeptByOthers DEF Start, TypeInv
  <1>3. CASE Restart
    BY <1>3 DEF Restart, Crash, LocksOwned, HoldsNode, HoldsDisk
  <1>4. CASE CloudStep \/ UNCHANGED vars \/ \E n \in Node : NodeFlips(n)
    BY <1>4, LocksKept DEF CloudStep, NodeFlips, vars
  <1> QED BY <1>1, <1>2, <1>3, <1>4 DEF Next

(* AttachDetachMap and DiskMultiTaskMap exclude: of any number of requests *)
(* one at a time holds a node or a disk, and no entry outlives its holder, *)
(* also over restarts and when a request is refused half way.              *)
THEOREM LocksAreOwned == Spec => []LocksOwned
  <1>1. Init => LocksOwned
    BY DEF Init, MemoryInit, LocksOwned, HoldsNode, HoldsDisk
  <1>2. Spec => [](TypeInv /\ LocksOwned)
    <2>1. TypeInv /\ LocksOwned /\ [Next]_vars => TypeInv' /\ LocksOwned'
      BY NextTypeInv, NextLocks
    <2> QED BY <1>1, <2>1, InitTypeInv, PTL DEF Spec
  <1> QED BY <1>2, PTL

----------------------------------------------------------------------------
(* The invariant behind the other properties.                              *)

Unlocked == {"cLoad", "cGuard", "dLoad", "dFind", "dGuard", "pLoad", "pFind", "pReady", "fNode",
             "uEvent", "uLoad", "uFind", "uNode"}
DiskHeld == {"fSubmit", "fMark", "fPoll", "fFail", "pSubmit", "pMark", "pPoll", "pFail", "pClear",
             "uSubmit", "uStore", "uMark", "uPoll", "uFail", "uClear"}
Ordered == {"cPoll", "cIdPv", "cPvc"}
Stores == {"fMark", "pMark", "uStore", "uMark"}
Polls == {"cPoll", "dPoll", "fPoll", "pPoll", "uPoll"}

(* A request defers the calls of its own RPC, and has deferred what its    *)
(* place in the handler says.                                              *)
DeferOf(p) ==
    /\ pc[p] \in CreateAt => job[p].op = "create"
    /\ pc[p] \in DeleteAt => job[p].op = "delete" /\ diskOf(p) \in volumes
    /\ pc[p] \in PublishAt => job[p].op = "publish"
    /\ pc[p] \in UnpublishAt => job[p].op = "unpublish"
    /\ "creating" \in defers[p] => job[p].op = "create"
    /\ "deleting" \in defers[p] => job[p].op = "delete"
    /\ "node" \in defers[p] => job[p].op \in {"publish", "unpublish"}
    /\ "disk" \in defers[p] => "node" \in defers[p]
    /\ "event" \in defers[p] => /\ "disk" \in defers[p]
                                /\ pc[p] \in {"uMark", "uPoll", "uFail", "uClear", "ret"}
    /\ pc[p] \in Unlocked => defers[p] = {}
    /\ Creating(p) => "creating" \in defers[p]
    /\ pc[p] \in {"dSubmit", "dPoll", "dPvc", "dIdPv"} => "deleting" \in defers[p]
    /\ pc[p] \in {"fDisk", "pDisk", "uDisk"} => "node" \in defers[p]
    /\ pc[p] \in DiskHeld => "disk" \in defers[p]
DeferOK == \A p \in Proc : DeferOf(p)

(* The marks "creating" and "deleting" are locks, the first until the      *)
(* request has answered "ok" or its deferred call has run.                 *)
InCreate(p) == "creating" \in defers[p] /\ ~ (pc[p] = "ret" /\ res[p] = "ok")
InDelete(p) == "deleting" \in defers[p]
MarksOK ==
    /\ \A v \in Pv : diskProcessingMap[v] = "creating" => \E p \in Proc : InCreate(p) /\ pvOf(p) = v
    /\ \A d \in Disk : diskDeletingMap[d] = "deleting" => \E p \in Proc : InDelete(p) /\ diskOf(p) = d
    /\ \A p \in Proc : /\ InCreate(p) => diskProcessingMap[pvOf(p)] = "creating"
                       /\ InDelete(p) => diskDeletingMap[diskOf(p)] = "deleting"
    /\ \A p, q \in Proc : p # q => /\ ~ (InCreate(p) /\ InCreate(q) /\ pvOf(p) = pvOf(q))
                                   /\ ~ (InDelete(p) /\ InDelete(q) /\ diskOf(p) = diskOf(q))

Made(d) == disk[d].state \notin {"none", "new", "broken"}
Quiet(d) == disk[d].task \in {"none", "delete"}
On(p) == AttachedTo(diskOf(p), nodeOf(p)) /\ Quiet(diskOf(p))
Off(p) == disk[diskOf(p)].state \in {"free", "gone"} /\ Quiet(diskOf(p))
Settled(p) == pc[p] = "ret" /\ res[p] = "ok" /\ "disk" \in defers[p]

(* Who polls a disk's task is about that disk and waits; a task that was   *)
(* seen to finish has had its effect, which lasts while the disk is held.  *)
TaskOf(p) ==
    /\ \A d \in Disk : disk[d].by = p =>
          /\ diskOf(p) = d /\ pc[p] \in Stores \union Polls /\ outcome[p] = "doing"
          /\ pc[p] = "cPoll" => disk[d].task = "create"
          /\ pc[p] \in {"pMark", "pPoll"} => disk[d].task = "attach" /\ disk[d].to = nodeOf(p)
          /\ pc[p] \in {"uStore", "uMark", "uPoll"} => disk[d].task = "detach"
    /\ pc[p] = "cPoll" /\ outcome[p] = "finish" => Made(diskOf(p))
    /\ pc[p] \in {"cIdPv", "cPvc", "cDone"} => Made(diskOf(p))
    /\ pc[p] \in {"pMark", "pPoll"} /\ outcome[p] = "finish" => On(p)
    /\ pc[p] = "pClear" \/ (Settled(p) /\ job[p].op = "publish") => On(p)
    /\ pc[p] \in {"uStore", "uMark", "uPoll"} /\ outcome[p] = "finish" => Off(p)
    /\ pc[p] = "uClear" \/ (Settled(p) /\ job[p].op = "unpublish") => Off(p)
TaskOK == \A p \in Proc : TaskOf(p)

(* Where a disk is known beyond the request that ordered it.               *)
Answers(p) == pc[p] = "cDone" \/ (pc[p] = "ret" /\ res[p] = "ok" /\ job[p].op = "create")
Known(d) ==
    \/ d \in volumes \/ \E v \in Pv : pvcCreatedMap[v] = d
    \/ \E p \in Proc : Answers(p) /\ diskOf(p) = d

(* What is known was made; an id that was not handed out has no name.      *)
KnownOK == \A d \in Disk : /\ Known(d) => Made(d)
                           /\ disk[d].state = "none" => disk[d].pv = NoPv

(* What was ordered for a name is the request's own.                       *)
OrderOK ==
    \A p \in Proc : pc[p] \in Ordered =>
        /\ disk[diskOf(p)].state # "none" /\ disk[diskOf(p)].pv = pvOf(p)
        /\ ~ Known(diskOf(p))
        /\ \A q \in Proc : pc[q] \in Ordered /\ diskOf(q) = diskOf(p) => q = p
        /\ pc[p] = "cPvc" => diskIdPvMap[diskOf(p)] = pvOf(p)

(* What is kept for a name was made for it and is found there by a delete, *)
(* which has removed it before it forgets the name.                        *)
CacheOK ==
    /\ \A v \in Pv : pvcCreatedMap[v] # NoDisk =>
          diskIdPvMap[pvcCreatedMap[v]] = v /\ disk[pvcCreatedMap[v]].pv = v
    /\ \A p \in Proc : pc[p] = "dIdPv" => \A v \in Pv : pvcCreatedMap[v] # diskOf(p)

HeldInv == TypeInv /\ LocksOwned /\ DeferOK
IInv == HeldInv /\ MarksOK /\ CloudShape /\ TaskOK /\ KnownOK /\ OrderOK /\ CacheOK

----------------------------------------------------------------------------
(* The deferred calls.                                                     *)

Others(p) ==
    \A q \in Proc : q # p => /\ pc'[q] = pc[q] /\ job'[q] = job[q]
                             /\ res'[q] = res[q] /\ defers'[q] = defers[q]

(* A step of one request leaves the others' deferred calls in order.       *)
LEMMA DefersByStep ==
  ASSUME DeferOK, NEW p \in Proc, Others(p), volumes \subseteq volumes', DeferOf(p)'
  PROVE  DeferOK'
  <1>1. ASSUME NEW q \in Proc, q # p
        PROVE  DeferOf(q)'
    <2>1. /\ pc'[q] = pc[q] /\ job'[q] = job[q] /\ defers'[q] = defers[q]
          /\ DeferOf(q)
      BY <1>1 DEF Others, DeferOK
    <2> QED BY <2>1 DEF DeferOf, diskOf, Creating
  <1> QED BY <1>1 DEF DeferOK

(* A request that is refused or answered has nothing else to defer.        *)
LEMMA ReturnDefers ==
  ASSUME TypeInv, DeferOK, NEW p \in Proc, NEW r, Return(p, r)
  PROVE  DeferOK'
  <1>1. Others(p)
    BY DEF Return, Others, TypeInv, TypeOK
  <1>2. pc'[p] = "ret" /\ job'[p] = job[p] /\ defers'[p] = defers[p] /\ DeferOf(p)
    BY DEF Return, TypeInv, TypeOK, DeferOK
  <1>3. DeferOf(p)'
    BY <1>2 DEF DeferOf, CreateAt, DeleteAt, PublishAt, UnpublishAt, Unlocked, DiskHeld, Creating
  <1> QED BY <1>1, <1>3, DefersByStep DEF Return

(* Where a request goes on and its deferred calls are still the right ones.*)
Leads(from, to) ==
    \/ from = "cLoad" /\ to = "cGuard"
    \/ from \in {"cQuota", "cPoll", "cIdPv", "cPvc"} /\ to \in {"cSubmit", "cIdPv", "cPvc", "cDone"}
    \/ from \in {"dLoad", "dFind"} /\ to \in {"dFind", "dGuard"}
    \/ from \in {"dSubmit", "dPoll", "dPvc"} /\ to \in {"dPoll", "dPvc", "dIdPv"}
    \/ from \in {"pLoad", "pFind", "pReady"} /\ to \in {"pFind", "pCount", "fNode"}
    \/ from \in DiskHeld \intersect PublishAt /\ to \in (DiskHeld \intersect PublishAt) \union {"pCount"}
    \/ from = "pCount" /\ to = "pNode"
    \/ from \in {"uEvent", "uLoad", "uFind"} /\ to \in {"uLoad", "uFind", "uNode"}
    \/ from = "uSubmit" /\ to = "uStore"
    \/ from \in {"uMark", "uPoll"} /\ to \in {"uPoll", "uFail", "uClear"}

(* A request that goes on there keeps them.                                *)
LEMMA GotoDefers ==
  ASSUME TypeInv, DeferOK, NEW p \in Proc, NEW from, NEW to, pc[p] = from, Goto(p, to), Leads(from, to)
  PROVE  DeferOK'
  <1>1. Others(p)
    BY DEF Goto, Others, TypeInv, TypeOK
  <1>2. pc'[p] = to /\ job'[p] = job[p] /\ defers'[p] = defers[p] /\ DeferOf(p) /\ volumes' = volumes
    BY DEF Goto, TypeInv, TypeOK, DeferOK
  <1>3. DeferOf(p)'
    BY <1>2 DEF Leads, DeferOf, CreateAt, DeleteAt, PublishAt, UnpublishAt, Creating, diskOf,
                Unlocked, DiskHeld
  <1> QED BY <1>1, <1>2, <1>3, DefersByStep

(* So does one that registers a call of its own RPC.                       *)
LEMMA DeferDefers ==
  ASSUME TypeInv, DeferOK, NEW p \in Proc, NEW to, NEW call, Defer(p, to, call),
         \/ pc[p] = "cGuard" /\ to = "cQuota" /\ call = "creating"
         \/ pc[p] = "dGuard" /\ to = "dSubmit" /\ call = "deleting"
         \/ pc[p] = "fNode" /\ to = "fDisk" /\ call = "node"
         \/ pc[p] = "fDisk" /\ to = "fSubmit" /\ call = "disk"
         \/ pc[p] = "pNode" /\ to = "pDisk" /\ call = "node"
         \/ pc[p] = "pDisk" /\ to = "pSubmit" /\ call = "disk"
         \/ pc[p] = "uNode" /\ to = "uDisk" /\ call = "node"
         \/ pc[p] = "uDisk" /\ to = "uSubmit" /\ call = "disk"
         \/ pc[p] = "uStore" /\ to = "uMark" /\ call = "event"
  PROVE  DeferOK'
  <1>1. Others(p)
    BY DEF Defer, Others, TypeInv, TypeOK
  <1>2. /\ pc'[p] = to /\ job'[p] = job[p] /\ volumes' = volumes
        /\ defers'[p] = defers[p] \union {call} /\ DeferOf(p)
    BY DEF Defer, TypeInv, TypeOK, DeferOK
  <1>3. DeferOf(p)'
    BY <1>2 DEF DeferOf, CreateAt, DeleteAt, PublishAt, UnpublishAt, Unlocked, DiskHeld, Creating, diskOf
  <1> QED BY <1>1, <1>2, <1>3, DefersByStep

(* A crash leaves no request and nothing deferred.                         *)
LEMMA CrashDefers ==
  ASSUME Crash
  PROVE  DeferOK'
  BY DEF Crash, DeferOK, DeferOf, CreateAt, DeleteAt, PublishAt, UnpublishAt, Unlocked, DiskHeld, Creating

(* CreateVolume.                                                           *)
LEMMA CreateDefers ==
  ASSUME TypeInv, DeferOK, NEW p \in Proc, CreateVolume(p)
  PROVE  DeferOK'
  <1> USE DEF CreateAt, DeleteAt, PublishAt, UnpublishAt, Unlocked, DiskHeld, Creating, Leads
  <1>1. CASE CreateLoad(p)
    <2>1. CASE pvcCreatedMap[pvOf(p)] # NoDisk
      <3>1. Others(p)
        BY <1>1, <2>1 DEF CreateLoad, Others, TypeInv, TypeOK
      <3>2. /\ pc'[p] = "ret" /\ job'[p].op = job[p].op /\ defers'[p] = defers[p] /\ DeferOf(p)
            /\ volumes' = volumes
        BY <1>1, <2>1 DEF CreateLoad, TypeInv, TypeOK, DeferOK, Request
      <3>3. DeferOf(p)'
        BY <3>2 DEF DeferOf
      <3> QED BY <3>1, <3>2, <3>3, DefersByStep
    <2>2. CASE Goto(p, "cGuard")
      BY <1>1, <2>2, GotoDefers DEF CreateLoad
    <2> QED BY <1>1, <2>1, <2>2 DEF CreateLoad
  <1>2. CASE CreateGuard(p)
    BY <1>2, ReturnDefers, DeferDefers DEF CreateGuard, Refuse
  <1>3. CASE CreateCheck(p)
    BY <1>3, ReturnDefers, GotoDefers DEF CreateCheck, Refuse
  <1>4. CASE CreateSubmit(p)
    <2>1. ASSUME NEW d \in Disk, pc' = [pc EXCEPT ![p] = "cPoll"], job' = [job EXCEPT ![p].disk = d],
                 UNCHANGED <<res, defers, volumes>>
          PROVE  DeferOK'
      <3>1. Others(p)
        BY <2>1 DEF Others, TypeInv, TypeOK
      <3>2. pc'[p] = "cPoll" /\ job'[p].op = job[p].op /\ defers'[p] = defers[p] /\ DeferOf(p)
        BY <2>1 DEF TypeInv, TypeOK, DeferOK, Request
      <3>3. DeferOf(p)'
        BY <1>4, <3>2 DEF CreateSubmit, DeferOf
      <3> QED BY <2>1, <3>1, <3>3, DefersByStep
    <2> QED BY <1>4, <2>1, ReturnDefers DEF CreateSubmit, Refuse
  <1>5. CASE CreatePoll(p)
    BY <1>5, ReturnDefers, GotoDefers DEF CreatePoll, TaskDone
  <1>6. CASE CreateStoreIdPv(p) \/ CreateStorePvc(p) \/ CreateDone(p)
    BY <1>6, ReturnDefers, GotoDefers DEF CreateStoreIdPv, CreateStorePvc, CreateDone
  <1>7. CASE CreatePanics(p)
    BY <1>7, CrashDefers DEF CreatePanics
  <1> QED BY <1>1, <1>2, <1>3, <1>4, <1>5, <1>6, <1>7 DEF CreateVolume

(* DeleteVolume.                                                           *)
LEMMA DeleteDefers ==
  ASSUME TypeInv, DeferOK, NEW p \in Proc, DeleteVolume(p)
  PROVE  DeferOK'
  <1> USE DEF CreateAt, DeleteAt, PublishAt, UnpublishAt, Unlocked, DiskHeld, Creating, Refuse, Leads
  <1>1. CASE DeleteLoad(p) \/ DeleteFind(p)
    BY <1>1, ReturnDefers, GotoDefers DEF DeleteLoad, DeleteFind
  <1>2. CASE DeleteGuard(p)
    BY <1>2, ReturnDefers, DeferDefers DEF DeleteGuard
  <1>3. CASE DeleteSubmit(p) \/ DeletePoll(p)
    BY <1>3, ReturnDefers, GotoDefers DEF DeleteSubmit, StartTask, DeletePoll, TaskDone
  <1>4. CASE DeleteForgetPvc(p) \/ DeleteForgetIdPv(p)
    BY <1>4, ReturnDefers, GotoDefers DEF DeleteForgetPvc, DeleteForgetIdPv
  <1> QED BY <1>1, <1>2, <1>3, <1>4 DEF DeleteVolume

(* ControllerPublishVolume.                                                *)
LEMMA PublishDefers ==
  ASSUME TypeInv, DeferOK, NEW p \in Proc, ControllerPublishVolume(p)
  PROVE  DeferOK'
  <1> USE DEF CreateAt, DeleteAt, PublishAt, UnpublishAt, Unlocked, DiskHeld, Creating, Refuse, Leads
  <1>1. CASE PublishLoad(p) \/ PublishReady(p)
    BY <1>1, ReturnDefers, GotoDefers DEF PublishLoad, PublishReady
  <1>2. CASE PublishFind(p)
    <2>1. ASSUME pc[p] = "pFind", pc' = [pc EXCEPT ![p] = "pReady"], UNCHANGED <<job, res, defers, volumes>>
          PROVE  DeferOK'
      <3>1. Others(p)
        BY <2>1 DEF Others, TypeInv, TypeOK
      <3>2. pc'[p] = "pReady" /\ job'[p] = job[p] /\ defers'[p] = defers[p] /\ DeferOf(p)
        BY <2>1 DEF TypeInv, TypeOK, DeferOK
      <3>3. DeferOf(p)'
        BY <2>1, <3>2 DEF DeferOf
      <3> QED BY <2>1, <3>1, <3>3, DefersByStep
    <2> QED BY <1>2, <2>1, ReturnDefers, GotoDefers DEF PublishFind
  <1>3. CASE LockNode(p, "fNode", "fDisk") \/ LockNode(p, "pNode", "pDisk")
    BY <1>3, ReturnDefers, DeferDefers DEF LockNode
  <1>4. CASE LockDisk(p, "fDisk", "fSubmit") \/ LockDisk(p, "pDisk", "pSubmit")
    BY <1>4, ReturnDefers, DeferDefers DEF LockDisk
  <1>5. CASE ForceDetachSubmit(p) \/ PublishSubmit(p)
    BY <1>5, ReturnDefers, GotoDefers DEF ForceDetachSubmit, PublishSubmit, StartTask
  <1>6. CASE ForceDetachMark(p) \/ ForceDetachPoll(p) \/ ForceDetachFail(p) \/ PublishCount(p)
    BY <1>6, ReturnDefers, GotoDefers
    DEF ForceDetachMark, ForceDetachPoll, ForceDetachFail, PublishCount, TaskDone
  <1>7. CASE PublishMark(p) \/ PublishPoll(p) \/ PublishFail(p) \/ PublishClear(p)
    BY <1>7, ReturnDefers, GotoDefers DEF PublishMark, PublishPoll, PublishFail, PublishClear, TaskDone
  <1> QED BY <1>1, <1>2, <1>3, <1>4, <1>5, <1>6, <1>7 DEF ControllerPublishVolume

(* ControllerUnpublishVolume.                                              *)
LEMMA UnpublishDefers ==
  ASSUME TypeInv, DeferOK, NEW p \in Proc, ControllerUnpublishVolume(p)
  PROVE  DeferOK'
  <1> USE DEF CreateAt, DeleteAt, PublishAt, UnpublishAt, Unlocked, DiskHeld, Creating, Refuse, Leads
  <1>1. CASE UnpublishEvent(p) \/ UnpublishLoad(p) \/ UnpublishFind(p)
    BY <1>1, ReturnDefers, GotoDefers DEF UnpublishEvent, UnpublishLoad, UnpublishFind
  <1>2. CASE LockNode(p, "uNode", "uDisk") \/ LockDisk(p, "uDisk", "uSubmit")
    BY <1>2, ReturnDefers, DeferDefers DEF LockNode, LockDisk
  <1>3. CASE UnpublishSubmit(p)
    BY <1>3, ReturnDefers, GotoDefers DEF UnpublishSubmit, StartTask
  <1>4. CASE UnpublishStore(p)
    BY <1>4, DeferDefers DEF UnpublishStore
  <1>5. CASE UnpublishMark(p) \/ UnpublishPoll(p) \/ UnpublishFail(p) \/ UnpublishClear(p)
    BY <1>5, ReturnDefers, GotoDefers
    DEF UnpublishMark, UnpublishPoll, UnpublishFail, UnpublishClear, TaskDone
  <1> QED BY <1>1, <1>2, <1>3, <1>4, <1>5 DEF ControllerUnpublishVolume

(* The deferred calls run in the order that DeferOK has them in.           *)
LEMMA RunDeferredDefers ==
  ASSUME TypeInv, DeferOK, NEW p \in Proc, RunDeferred(p)
  PROVE  DeferOK'
  <1>1. PICK call \in Deferred :
           /\ defers' = [defers EXCEPT ![p] = @ \ {call}]
           /\ call = "disk" => "event" \notin defers[p]
           /\ call = "node" => "event" \notin defers[p] /\ "disk" \notin defers[p]
    BY DEF RunDeferred, Deferred
  <1>2. Others(p)
    BY <1>1 DEF RunDeferred, Others, TypeInv, TypeOK
  <1>3. /\ pc'[p] = "ret" /\ job'[p] = job[p] /\ volumes' = volumes
        /\ defers'[p] = defers[p] \ {call} /\ DeferOf(p)
    BY <1>1 DEF RunDeferred, TypeInv, TypeOK, DeferOK
  <1>4. DeferOf(p)'
    BY <1>1, <1>3
    DEF DeferOf, CreateAt, DeleteAt, PublishAt, UnpublishAt, Unlocked, DiskHeld, Creating, Deferred
  <1> QED BY <1>2, <1>3, <1>4, DefersByStep

(* DeferOK is inductive where the types are kept.                          *)
LEMMA NextDefers ==
  ASSUME TypeInv, DeferOK, [Next]_vars
  PROVE  DeferOK'
  <1> USE DEF CreateAt, DeleteAt, PublishAt, UnpublishAt, Unlocked, DiskHeld, Creating
  <1>1. ASSUME NEW p \in Proc, Answer(p)
        PROVE  DeferOK'
    <2>1. Others(p) /\ volumes \subseteq volumes'
      BY <1>1 DEF Answer, Others, TypeInv, TypeOK
    <2>2. pc'[p] = "idle" /\ defers'[p] = {}
      BY <1>1 DEF Answer, TypeInv, TypeOK
    <2>3. DeferOf(p)'
      BY <2>2 DEF DeferOf
    <2> QED BY <2>1, <2>3, DefersByStep
  <1>2. ASSUME NEW p \in Proc, NEW r \in Requests, Start(p, r)
        PROVE  DeferOK'
    <2>1. Others(p) /\ volumes' = volumes
      BY <1>2 DEF Start, Others, TypeInv, TypeOK
    <2>2. /\ defers'[p] = {} /\ job'[p] = r /\ (r.op # "create" => r.disk \in volumes)
          /\ pc'[p] = CASE r.op = "create" -> "cLoad" [] r.op = "delete" -> "dLoad"
                        [] r.op = "publish" -> "pLoad" [] r.op = "unpublish" -> "uEvent"
      BY <1>2 DEF Start, TypeInv, TypeOK, JobOK
    <2>3. r.op \in {"create", "delete", "publish", "unpublish"}
      BY EbsAssumption DEF Request
    <2>4. DeferOf(p)'
      BY <2>1, <2>2, <2>3 DEF DeferOf, diskOf
    <2> QED BY <2>1, <2>4, DefersByStep
  <1>3. CASE Restart
    BY <1>3, CrashDefers DEF Restart
  <1>4. CASE CloudStep \/ UNCHANGED vars \/ \E n \in Node : NodeFlips(n)
    <2>1. UNCHANGED <<pc, job, defers, volumes>>
      BY <1>4 DEF CloudStep, NodeFlips, vars, goroutines
    <2> QED BY <2>1 DEF DeferOK, DeferOf, diskOf
  <1> QED
    BY <1>1, <1>2, <1>3, <1>4, CreateDefers, DeleteDefers, PublishDefers, UnpublishDefers, RunDeferredDefers
    DEF Next, Handle

----------------------------------------------------------------------------
(* The marks of CreateVolume and DeleteVolume.                             *)

(* A step that stores none of these marks, of a request that keeps its own.*)
Unmarked(p) ==
    /\ Others(p) /\ UNCHANGED <<diskProcessingMap, diskDeletingMap>>
    /\ InCreate(p)' <=> InCreate(p)
    /\ InDelete(p)' <=> InDelete(p)
    /\ InCreate(p) => pvOf(p)' = pvOf(p)
    /\ InDelete(p) => diskOf(p)' = diskOf(p)

(* It leaves who has marked what as it was.                                *)
LEMMA UnmarkedStep ==
  ASSUME MarksOK, NEW p \in Proc, Unmarked(p)
  PROVE  MarksOK'
  <1>1. \A q \in Proc : /\ InCreate(q)' <=> InCreate(q)
                        /\ InDelete(q)' <=> InDelete(q)
                        /\ InCreate(q) => pvOf(q)' = pvOf(q)
                        /\ InDelete(q) => diskOf(q)' = diskOf(q)
    BY DEF Unmarked, Others, InCreate, InDelete, pvOf, diskOf
  <1>2. UNCHANGED <<diskProcessingMap, diskDeletingMap>>
    BY DEF Unmarked
  <1> QED BY <1>1, <1>2 DEF MarksOK

(* A request that answers, or goes on, with the marks as they were.        *)
LEMMA ReturnMarks ==
  ASSUME TypeInv, MarksOK, NEW p \in Proc, NEW r \in {"ok", "err"}, Return(p, r),
         r = "ok" => "creating" \notin defers[p], pc[p] # "ret",
         UNCHANGED <<diskProcessingMap, diskDeletingMap>>
  PROVE  MarksOK'
  <1>1. pc'[p] = "ret" /\ res'[p] = r /\ job' = job /\ defers' = defers
    BY DEF Return, TypeInv, TypeOK
  <1>2. Others(p)
    BY DEF Return, Others, TypeInv, TypeOK
  <1>3. Unmarked(p)
    BY <1>1, <1>2 DEF Unmarked, InCreate, InDelete, pvOf, diskOf
  <1> QED BY <1>3, UnmarkedStep

(* The same where it goes on, also when it defers a call of the locks.     *)
LEMMA GotoMarks ==
  ASSUME TypeInv, MarksOK, NEW p \in Proc, NEW to, to # "ret", pc[p] # "ret", job' = job,
         Goto(p, to) \/ \E call \in {"node", "disk", "event"} : Defer(p, to, call),
         UNCHANGED <<diskProcessingMap, diskDeletingMap>>
  PROVE  MarksOK'
  <1>1. /\ pc'[p] = to
        /\ "creating" \in defers'[p] <=> "creating" \in defers[p]
        /\ "deleting" \in defers'[p] <=> "deleting" \in defers[p]
    BY DEF Goto, Defer, TypeInv, TypeOK
  <1>2. Others(p)
    BY DEF Goto, Defer, Others, TypeInv, TypeOK
  <1>3. Unmarked(p)
    BY <1>1, <1>2 DEF Unmarked, InCreate, InDelete, pvOf, diskOf
  <1> QED BY <1>3, UnmarkedStep

(* A crash leaves no mark.                                                 *)
LEMMA CrashMarks ==
  ASSUME Crash
  PROVE  MarksOK'
  BY DEF Crash, MarksOK, InCreate, InDelete

(* CreateVolume stores its mark only where there is none, and takes it     *)
(* away itself when it succeeds.                                           *)
LEMMA CreateMarks ==
  ASSUME TypeInv, DeferOK, MarksOK, NEW p \in Proc, CreateVolume(p)
  PROVE  MarksOK'
  <1> USE DEF memory, provisioning, Refuse
  <1>1. CASE CreateLoad(p)
    <2>1. CASE pvcCreatedMap[pvOf(p)] # NoDisk
      <3>1. Others(p)
        BY <1>1, <2>1 DEF CreateLoad, Others, TypeInv, TypeOK
      <3>2. defers[p] = {} /\ defers' = defers
        BY <1>1, <2>1 DEF CreateLoad, DeferOK, DeferOf, Unlocked
      <3>3. Unmarked(p)
        BY <1>1, <2>1, <3>1, <3>2 DEF CreateLoad, Unmarked, InCreate, InDelete
      <3> QED BY <3>3, UnmarkedStep
    <2>2. CASE Refuse(p) \/ Goto(p, "cGuard")
      BY <1>1, <2>2, ReturnMarks, GotoMarks DEF CreateLoad, Goto
    <2> QED BY <1>1, <2>1, <2>2 DEF CreateLoad
  <1>2. CASE CreateGuard(p)
    <2>1. CASE Refuse(p)
      BY <1>2, <2>1, ReturnMarks DEF CreateGuard
    <2>2. CASE ~ Refuse(p)
      <3>1. /\ diskProcessingMap[pvOf(p)] = "none" /\ pc[p] = "cGuard"
            /\ Defer(p, "cQuota", "creating") /\ diskDeletingMap' = diskDeletingMap
            /\ diskProcessingMap' = [diskProcessingMap EXCEPT ![pvOf(p)] = "creating"]
        BY <1>2, <2>2 DEF CreateGuard
      <3>2. pvOf(p) \in Pv /\ defers[p] = {}
        BY <3>1 DEF TypeInv, JobOK, CreateAt, DeferOK, DeferOf, Unlocked
      <3>3. \A v \in Pv : diskProcessingMap'[v] = IF v = pvOf(p) THEN "creating" ELSE diskProcessingMap[v]
        BY <3>1 DEF TypeInv, TypeOK
      <3>4. /\ \A q \in Proc : pvOf(q)' = pvOf(q) /\ diskOf(q)' = diskOf(q)
            /\ \A q \in Proc : InDelete(q)' = InDelete(q)
            /\ \A q \in Proc : q # p => InCreate(q)' = InCreate(q)
            /\ ~ InCreate(p) /\ InCreate(p)'
        BY <3>1, <3>2 DEF Defer, InCreate, InDelete, pvOf, diskOf, TypeInv, TypeOK
      <3>5. \A q \in Proc : InCreate(q) => pvOf(q) # pvOf(p)
        BY <3>1 DEF MarksOK
      <3>6. \A q \in Proc : InCreate(q) => pvOf(q) \in Pv
        BY DEF InCreate, TypeInv, JobOK
      <3> QED BY <3>1, <3>2, <3>3, <3>4, <3>5, <3>6 DEF MarksOK
    <2> QED BY <2>1, <2>2
  <1>3. CASE CreateCheck(p)
    BY <1>3, ReturnMarks, GotoMarks DEF CreateCheck, Goto
  <1>4. CASE CreateSubmit(p)
    <2>1. ASSUME NEW d \in Disk, pc' = [pc EXCEPT ![p] = "cPoll"], job' = [job EXCEPT ![p].disk = d],
                 UNCHANGED <<res, defers, memory>>
          PROVE  MarksOK'
      <3>1. Others(p)
        BY <2>1 DEF Others, TypeInv, TypeOK
      <3>2. pc[p] = "cSubmit" /\ pc'[p] = "cPoll" /\ job'[p].pv = job[p].pv
        BY <1>4, <2>1 DEF CreateSubmit, TypeInv, TypeOK, Request
      <3>3. "deleting" \notin defers[p]
        BY <3>2 DEF TypeInv, JobOK, CreateAt
      <3>4. Unmarked(p)
        BY <2>1, <3>1, <3>2, <3>3 DEF Unmarked, InCreate, InDelete, pvOf
      <3> QED BY <3>4, UnmarkedStep
    <2> QED BY <1>4, <2>1, ReturnMarks DEF CreateSubmit
  <1>5. CASE CreatePoll(p)
    BY <1>5, ReturnMarks, GotoMarks DEF CreatePoll, TaskDone, Goto
  <1>6. CASE CreateStoreIdPv(p) \/ CreateStorePvc(p)
    BY <1>6, GotoMarks DEF CreateStoreIdPv, CreateStorePvc, Goto
  <1>7. CASE CreateDone(p)
    <2>1. pvOf(p) \in Pv /\ "creating" \in defers[p] /\ InCreate(p)
      BY <1>7 DEF CreateDone, TypeInv, JobOK, CreateAt, DeferOK, DeferOf, Creating, InCreate
    <2>2. \A v \in Pv : diskProcessingMap'[v] = IF v = pvOf(p) THEN "none" ELSE diskProcessingMap[v]
      BY <1>7 DEF CreateDone, TypeInv, TypeOK
    <2>3. /\ \A q \in Proc : pvOf(q)' = pvOf(q) /\ diskOf(q)' = diskOf(q)
          /\ \A q \in Proc : InDelete(q)' = InDelete(q)
          /\ \A q \in Proc : q # p => InCreate(q)' = InCreate(q)
          /\ ~ InCreate(p)'
      BY <1>7 DEF CreateDone, Return, InCreate, InDelete, pvOf, diskOf, TypeInv, TypeOK
    <2>4. \A q \in Proc : InCreate(q) => pvOf(q) \in Pv
      BY DEF InCreate, TypeInv, JobOK
    <2>5. diskDeletingMap' = diskDeletingMap
      BY <1>7 DEF CreateDone
    <2> QED BY <2>1, <2>2, <2>3, <2>4, <2>5 DEF MarksOK
  <1>8. CASE CreatePanics(p)
    BY <1>8, CrashMarks DEF CreatePanics
  <1> QED BY <1>1, <1>2, <1>3, <1>4, <1>5, <1>6, <1>7, <1>8 DEF CreateVolume

(* DeleteVolume stores its mark only where there is none.                  *)
LEMMA DeleteMarks ==
  ASSUME TypeInv, DeferOK, MarksOK, NEW p \in Proc, DeleteVolume(p)
  PROVE  MarksOK'
  <1> USE DEF memory, provisioning, Refuse
  <1>c. pc[p] \in DeleteAt => "creating" \notin defers[p]
    BY DEF DeferOK, DeferOf
  <1>1. CASE DeleteLoad(p) \/ DeleteFind(p)
    BY <1>1, <1>c, ReturnMarks, GotoMarks DEF DeleteLoad, DeleteFind, Goto, DeleteAt
  <1>2. CASE DeleteGuard(p)
    <2>1. CASE Refuse(p)
      BY <1>2, <2>1, ReturnMarks DEF DeleteGuard
    <2>2. CASE ~ Refuse(p)
      <3>1. /\ diskDeletingMap[diskOf(p)] = "none" /\ pc[p] = "dGuard"
            /\ Defer(p, "dSubmit", "deleting") /\ diskProcessingMap' = diskProcessingMap
            /\ diskDeletingMap' = [diskDeletingMap EXCEPT ![diskOf(p)] = "deleting"]
        BY <1>2, <2>2 DEF DeleteGuard
      <3>2. diskOf(p) \in Disk /\ defers[p] = {}
        BY <3>1 DEF TypeInv, JobOK, DeleteAt, HasDisk, DeferOK, DeferOf, Unlocked
      <3>3. \A d \in Disk : diskDeletingMap'[d] = IF d = diskOf(p) THEN "deleting" ELSE diskDeletingMap[d]
        BY <3>1 DEF TypeInv, TypeOK
      <3>4. /\ \A q \in Proc : pvOf(q)' = pvOf(q) /\ diskOf(q)' = diskOf(q)
            /\ \A q \in Proc : InCreate(q)' = InCreate(q)
            /\ \A q \in Proc : q # p => InDelete(q)' = InDelete(q)
            /\ ~ InDelete(p) /\ InDelete(p)'
        BY <3>1, <3>2 DEF Defer, InCreate, InDelete, pvOf, diskOf, TypeInv, TypeOK
      <3>5. \A q \in Proc : InDelete(q) => diskOf(q) # diskOf(p)
        BY <3>1 DEF MarksOK
      <3>6. \A q \in Proc : InDelete(q) => diskOf(q) \in Disk
        BY DEF InDelete, TypeInv, JobOK
      <3> QED BY <3>1, <3>2, <3>3, <3>4, <3>5, <3>6 DEF MarksOK
    <2> QED BY <2>1, <2>2
  <1>3. CASE DeleteSubmit(p) \/ DeletePoll(p)
    BY <1>3, ReturnMarks, GotoMarks DEF DeleteSubmit, StartTask, DeletePoll, TaskDone, Goto
  <1>4. CASE DeleteForgetPvc(p) \/ DeleteForgetIdPv(p)
    BY <1>4, <1>c, ReturnMarks, GotoMarks DEF DeleteForgetPvc, DeleteForgetIdPv, DeleteAt, Goto
  <1> QED BY <1>1, <1>2, <1>3, <1>4 DEF DeleteVolume

(* The other RPCs store none of these marks.                               *)
LEMMA PublishMarks ==
  ASSUME TypeInv, DeferOK, MarksOK, NEW p \in Proc, ControllerPublishVolume(p)
  PROVE  MarksOK'
  <1> USE DEF memory, provisioning, Refuse
  <1>c. pc[p] \in PublishAt => "creating" \notin defers[p]
    BY DEF DeferOK, DeferOf
  <1>1. CASE PublishLoad(p) \/ PublishReady(p) \/ PublishCount(p)
    BY <1>1, ReturnMarks, GotoMarks DEF PublishLoad, PublishReady, PublishCount, Goto
  <1>2. CASE PublishFind(p)
    <2>1. ASSUME pc[p] = "pFind", pc' = [pc EXCEPT ![p] = "pReady"], UNCHANGED <<job, res, defers, memory>>
          PROVE  MarksOK'
      <3>1. Others(p) /\ pc'[p] = "pReady"
        BY <2>1 DEF Others, TypeInv, TypeOK
      <3>2. Unmarked(p)
        BY <2>1, <3>1 DEF Unmarked, InCreate, InDelete, pvOf, diskOf
      <3> QED BY <3>2, UnmarkedStep
    <2> QED BY <1>2, <1>c, <2>1, ReturnMarks, GotoMarks DEF PublishFind, PublishAt, Goto
  <1>3. CASE LockNode(p, "fNode", "fDisk") \/ LockNode(p, "pNode", "pDisk")
    BY <1>3, ReturnMarks, GotoMarks DEF LockNode, Defer
  <1>4. CASE LockDisk(p, "fDisk", "fSubmit") \/ LockDisk(p, "pDisk", "pSubmit")
    BY <1>4, ReturnMarks, GotoMarks DEF LockDisk, Defer
  <1>5. CASE ForceDetachSubmit(p) \/ PublishSubmit(p)
    BY <1>5, ReturnMarks, GotoMarks DEF ForceDetachSubmit, PublishSubmit, StartTask, Goto
  <1>6. CASE ForceDetachMark(p) \/ ForceDetachPoll(p) \/ ForceDetachFail(p)
    BY <1>6, ReturnMarks, GotoMarks
    DEF ForceDetachMark, ForceDetachPoll, ForceDetachFail, MarkAttaching, TaskDone, Goto
  <1>7. CASE PublishMark(p) \/ PublishPoll(p) \/ PublishFail(p) \/ PublishClear(p)
    BY <1>7, <1>c, ReturnMarks, GotoMarks
    DEF PublishMark, PublishPoll, PublishFail, PublishClear, MarkAttaching, TaskDone, Goto, PublishAt
  <1> QED BY <1>1, <1>2, <1>3, <1>4, <1>5, <1>6, <1>7 DEF ControllerPublishVolume

(* Nor does ControllerUnpublishVolume.                                     *)
LEMMA UnpublishMarks ==
  ASSUME TypeInv, DeferOK, MarksOK, NEW p \in Proc, ControllerUnpublishVolume(p)
  PROVE  MarksOK'
  <1> USE DEF memory, provisioning, Refuse
  <1>c. pc[p] \in UnpublishAt => "creating" \notin defers[p]
    BY DEF DeferOK, DeferOf
  <1>1. CASE UnpublishEvent(p) \/ UnpublishLoad(p) \/ UnpublishFind(p)
    BY <1>1, <1>c, ReturnMarks, GotoMarks DEF UnpublishEvent, UnpublishLoad, UnpublishFind, UnpublishAt, Goto
  <1>2. CASE LockNode(p, "uNode", "uDisk") \/ LockDisk(p, "uDisk", "uSubmit")
    BY <1>2, ReturnMarks, GotoMarks DEF LockNode, LockDisk, Defer
  <1>3. CASE UnpublishSubmit(p)
    BY <1>3, ReturnMarks, GotoMarks DEF UnpublishSubmit, StartTask, Goto
  <1>4. CASE UnpublishStore(p)
    BY <1>4, GotoMarks DEF UnpublishStore, Defer
  <1>5. CASE UnpublishMark(p) \/ UnpublishPoll(p) \/ UnpublishFail(p) \/ UnpublishClear(p)
    BY <1>5, <1>c, ReturnMarks, GotoMarks
    DEF UnpublishMark, UnpublishPoll, UnpublishFail, UnpublishClear, MarkDetaching, TaskDone, UnpublishAt,
        Goto
  <1> QED BY <1>1, <1>2, <1>3, <1>4, <1>5 DEF ControllerUnpublishVolume

(* The deferred calls of a create and a delete are the last that matter.   *)
LEMMA RunDeferredMarks ==
  ASSUME TypeInv, DeferOK, MarksOK, NEW p \in Proc, RunDeferred(p)
  PROVE  MarksOK'
  <1>1. /\ pc' = pc /\ res' = res /\ job' = job /\ Others(p)
        /\ \A q \in Proc : pvOf(q)' = pvOf(q) /\ diskOf(q)' = diskOf(q)
    BY DEF RunDeferred, Others, TypeInv, TypeOK, pvOf, diskOf
  <1>2. ASSUME NEW call \in {"event", "disk", "node"}, defers' = [defers EXCEPT ![p] = @ \ {call}],
               UNCHANGED <<diskProcessingMap, diskDeletingMap>>
        PROVE  MarksOK'
    <2>1. /\ "creating" \in defers'[p] <=> "creating" \in defers[p]
          /\ "deleting" \in defers'[p] <=> "deleting" \in defers[p]
      BY <1>2 DEF TypeInv, TypeOK
    <2>2. Unmarked(p)
      BY <1>1, <1>2, <2>1 DEF Unmarked, InCreate, InDelete
    <2> QED BY <2>2, UnmarkedStep
  <1>3. ASSUME "deleting" \in defers[p], defers' = [defers EXCEPT ![p] = @ \ {"deleting"}],
               diskDeletingMap' = [diskDeletingMap EXCEPT ![diskOf(p)] = "none"],
               diskProcessingMap' = diskProcessingMap
        PROVE  MarksOK'
    <2>1. diskOf(p) \in Disk /\ InDelete(p) /\ \A q \in Proc : InDelete(q) => diskOf(q) \in Disk
      BY <1>3 DEF TypeInv, JobOK, InDelete
    <2>2. \A d \in Disk : diskDeletingMap'[d] = IF d = diskOf(p) THEN "none" ELSE diskDeletingMap[d]
      BY <1>3 DEF TypeInv, TypeOK
    <2>3. /\ \A q \in Proc : InCreate(q)' = InCreate(q)
          /\ \A q \in Proc : q # p => InDelete(q)' = InDelete(q)
          /\ ~ InDelete(p)'
      BY <1>1, <1>3 DEF Others, InCreate, InDelete, TypeInv, TypeOK
    <2> QED BY <1>1, <1>3, <2>1, <2>2, <2>3 DEF MarksOK
  <1>4. ASSUME "creating" \in defers[p], defers' = [defers EXCEPT ![p] = @ \ {"creating"}],
               diskProcessingMap' = IF res[p] = "ok" THEN diskProcessingMap
                                    ELSE [diskProcessingMap EXCEPT ![pvOf(p)] = "error"],
               diskDeletingMap' = diskDeletingMap
        PROVE  MarksOK'
    <2>1. pvOf(p) \in Pv /\ \A q \in Proc : InCreate(q) => pvOf(q) \in Pv
      BY <1>4 DEF TypeInv, JobOK, InCreate
    <2>2. /\ \A q \in Proc : InDelete(q)' = InDelete(q)
          /\ \A q \in Proc : q # p => InCreate(q)' = InCreate(q)
          /\ ~ InCreate(p)'
      BY <1>1, <1>4 DEF Others, InCreate, InDelete, TypeInv, TypeOK
    <2>3. CASE res[p] = "ok"
      <3>1. ~ InCreate(p)
        BY <2>3 DEF RunDeferred, InCreate
      <3>2. diskProcessingMap' = diskProcessingMap
        BY <1>4, <2>3
      <3> QED BY <1>1, <1>4, <2>2, <3>1, <3>2 DEF MarksOK
    <2>4. CASE res[p] # "ok"
      <3>1. InCreate(p)
        BY <1>4, <2>4 DEF InCreate
      <3>2. \A v \in Pv : diskProcessingMap'[v] = IF v = pvOf(p) THEN "error" ELSE diskProcessingMap[v]
        BY <1>4, <2>4 DEF TypeInv, TypeOK
      <3> QED BY <1>1, <1>4, <2>1, <2>2, <3>1, <3>2 DEF MarksOK
    <2> QED BY <2>3, <2>4
  <1> QED BY <1>2, <1>3, <1>4 DEF RunDeferred, provisioning

(* MarksOK is inductive where the deferred calls are in order.             *)
LEMMA NextMarks ==
  ASSUME TypeInv, DeferOK, MarksOK, [Next]_vars
  PROVE  MarksOK'
  <1>1. ASSUME NEW p \in Proc, Answer(p) \/ (\E r \in Requests : Start(p, r))
        PROVE  MarksOK'
    <2>1. defers[p] = {} /\ defers' = defers
      BY <1>1 DEF Answer, Start, TypeInv, JobOK
    <2>2. Others(p)
      BY <1>1 DEF Answer, Start, Others, TypeInv, TypeOK
    <2>3. Unmarked(p)
      BY <1>1, <2>1, <2>2 DEF Answer, Start, Unmarked, InCreate, InDelete, provisioning
    <2> QED BY <2>3, UnmarkedStep
  <1>2. CASE Restart
    BY <1>2, CrashMarks DEF Restart
  <1>3. CASE CloudStep \/ UNCHANGED vars \/ \E n \in Node : NodeFlips(n)
    <2>1. UNCHANGED <<pc, job, res, defers, diskProcessingMap, diskDeletingMap>>
      BY <1>3 DEF CloudStep, NodeFlips, vars, goroutines, memory, provisioning
    <2> QED BY <2>1 DEF MarksOK, InCreate, InDelete, pvOf, diskOf
  <1> QED
    BY <1>1, <1>2, <1>3, CreateMarks, DeleteMarks, PublishMarks, UnpublishMarks, RunDeferredMarks
    DEF Next, Handle

----------------------------------------------------------------------------
(* What a detach keeps: the mark "detaching" and the event id of a node.   *)

(* A step that stores neither, of a request that answers for neither.      *)
LEMMA DetachUntouched ==
  ASSUME DetachMarksOwned, NEW p \in Proc, Others(p), UNCHANGED <<diskDetachingMap, diskEventIdMap>>,
         pc[p] \notin {"uPoll", "uFail", "uClear"}, "event" \notin defers[p], NoProc \notin Proc,
         diskEventIdMap \in [Node -> Proc \union {NoProc}]
  PROVE  DetachMarksOwned'
  <1>1. ASSUME NEW d \in Disk, diskDetachingMap'[d] = "detaching"
        PROVE  \E q \in Proc : HoldsDisk(q, d)' /\ pc'[q] \in {"uPoll", "uFail", "uClear"}
    <2>1. PICK q \in Proc : HoldsDisk(q, d) /\ pc[q] \in {"uPoll", "uFail", "uClear"}
      BY <1>1 DEF DetachMarksOwned
    <2>2. q # p
      BY <2>1
    <2> QED BY <2>1, <2>2 DEF Others, HoldsDisk, diskOf
  <1>2. ASSUME NEW n \in Node, diskEventIdMap'[n] # NoProc
        PROVE  "event" \in defers'[diskEventIdMap'[n]] /\ HoldsNode(diskEventIdMap[n], n)'
    <2>1. PICK q \in Proc : q = diskEventIdMap[n] /\ "event" \in defers[q] /\ HoldsNode(q, n)
      BY <1>2 DEF DetachMarksOwned
    <2>2. q # p
      BY <2>1
    <2> QED BY <1>2, <2>1, <2>2 DEF Others, HoldsNode, nodeOf
  <1> QED BY <1>1, <1>2 DEF DetachMarksOwned

(* The steps of ControllerUnpublishVolume from the stored id to the answer.*)
LEMMA DetachSteps ==
  ASSUME TypeInv, DeferOK, DetachMarksOwned, NEW p \in Proc,
         UnpublishStore(p) \/ UnpublishMark(p) \/ UnpublishPoll(p) \/ UnpublishFail(p) \/ UnpublishClear(p)
  PROVE  DetachMarksOwned'
  <1>a. pc[p] \in {"uStore", "uMark", "uPoll", "uFail", "uClear"}
    BY DEF UnpublishStore, UnpublishMark, UnpublishPoll, UnpublishFail, UnpublishClear
  <1>b. /\ diskOf(p) \in Disk /\ nodeOf(p) \in Node /\ "disk" \in defers[p] /\ "node" \in defers[p]
        /\ NoProc \notin Proc
    BY <1>a, CloudAssumption DEF TypeInv, JobOK, HasDisk, UnpublishAt, DeferOK, DeferOf, DiskHeld
  <1>c. /\ job' = job
        /\ \A q \in Proc : q # p => pc'[q] = pc[q] /\ defers'[q] = defers[q]
        /\ defers[p] \subseteq defers'[p]
        /\ pc[p] \in {"uStore", "uFail", "uClear"} => pc'[p] \notin {"uPoll", "uFail", "uClear"}
        /\ pc[p] \in {"uMark", "uPoll"} => pc'[p] \in {"uPoll", "uFail", "uClear"}
    BY DEF UnpublishStore, UnpublishMark, UnpublishPoll, UnpublishFail, UnpublishClear, Defer, Goto, Return,
           TaskDone, TypeInv, TypeOK
  <1>d. \A d \in Disk : diskDetachingMap'[d] = "detaching" =>
           \/ d = diskOf(p) /\ pc[p] = "uMark"
           \/ diskDetachingMap[d] = "detaching" /\ (pc[p] \in {"uFail", "uClear"} => d # diskOf(p))
    BY <1>b DEF UnpublishStore, UnpublishMark, UnpublishPoll, UnpublishFail, UnpublishClear, TaskDone,
                MarkDetaching, memory, attaching, TypeInv, TypeOK
  <1>e. \A n \in Node : \/ diskEventIdMap'[n] = diskEventIdMap[n]
                        \/ n = nodeOf(p) /\ diskEventIdMap'[n] = p /\ "event" \in defers'[p]
    BY <1>b DEF UnpublishStore, UnpublishMark, UnpublishPoll, UnpublishFail, UnpublishClear, TaskDone,
                MarkDetaching, memory, attaching, Defer, TypeInv, TypeOK
  <1>1. ASSUME NEW d \in Disk, diskDetachingMap'[d] = "detaching"
        PROVE  \E q \in Proc : HoldsDisk(q, d)' /\ pc'[q] \in {"uPoll", "uFail", "uClear"}
    <2>1. CASE d = diskOf(p) /\ pc[p] = "uMark"
      BY <1>b, <1>c, <2>1 DEF HoldsDisk, diskOf
    <2>2. CASE diskDetachingMap[d] = "detaching" /\ (pc[p] \in {"uFail", "uClear"} => d # diskOf(p))
      <3>1. PICK q \in Proc : HoldsDisk(q, d) /\ pc[q] \in {"uPoll", "uFail", "uClear"}
        BY <2>2 DEF DetachMarksOwned
      <3>2. CASE q = p
        <4>1. pc[p] \in {"uMark", "uPoll"}
          BY <1>a, <2>2, <3>1, <3>2 DEF HoldsDisk
        <4> QED BY <1>c, <3>1, <3>2, <4>1 DEF HoldsDisk, diskOf
      <3>3. CASE q # p
        BY <1>c, <3>1, <3>3 DEF HoldsDisk, diskOf
      <3> QED BY <3>2, <3>3
    <2> QED BY <1>1, <1>d, <2>1, <2>2
  <1>2. ASSUME NEW n \in Node, diskEventIdMap'[n] # NoProc
        PROVE  "event" \in defers'[diskEventIdMap'[n]] /\ HoldsNode(diskEventIdMap[n], n)'
    <2>1. CASE n = nodeOf(p) /\ diskEventIdMap'[n] = p /\ "event" \in defers'[p]
      BY <1>b, <1>c, <2>1 DEF HoldsNode, nodeOf
    <2>2. CASE diskEventIdMap'[n] = diskEventIdMap[n]
      <3>1. PICK q \in Proc : q = diskEventIdMap[n]
        BY <1>2, <2>2 DEF TypeInv, TypeOK
      <3>2. "event" \in defers[q] /\ HoldsNode(q, n)
        BY <1>2, <2>2, <3>1 DEF DetachMarksOwned
      <3> QED BY <1>c, <2>2, <3>1, <3>2 DEF HoldsNode, nodeOf
    <2> QED BY <1>e, <2>1, <2>2
  <1> QED BY <1>1, <1>2 DEF DetachMarksOwned

(* The deferred call takes the request's own id away, before the lock.     *)
LEMMA RunDeferredDetach ==
  ASSUME TypeInv, DeferOK, DetachMarksOwned, NEW p \in Proc, RunDeferred(p)
  PROVE  DetachMarksOwned'
  <1>1. /\ pc' = pc /\ job' = job /\ pc[p] = "ret" /\ diskDetachingMap' = diskDetachingMap
        /\ \A q \in Proc : q # p => defers'[q] = defers[q]
    BY DEF RunDeferred, TypeInv, TypeOK, attaching
  <1>2. ASSUME NEW d \in Disk, diskDetachingMap'[d] = "detaching"
        PROVE  \E q \in Proc : HoldsDisk(q, d)' /\ pc'[q] \in {"uPoll", "uFail", "uClear"}
    <2>1. PICK q \in Proc : HoldsDisk(q, d) /\ pc[q] \in {"uPoll", "uFail", "uClear"}
      BY <1>1, <1>2 DEF DetachMarksOwned
    <2> QED BY <1>1, <2>1 DEF HoldsDisk, diskOf
  <1>3. ASSUME NEW n \in Node, diskEventIdMap'[n] # NoProc
        PROVE  "event" \in defers'[diskEventIdMap'[n]] /\ HoldsNode(diskEventIdMap[n], n)'
    <2>1. diskEventIdMap'[n] = diskEventIdMap[n]
      BY <1>3 DEF RunDeferred, TypeInv, TypeOK, attaching
    <2>2. PICK q \in Proc : q = diskEventIdMap[n]
      BY <1>3, <2>1 DEF TypeInv, TypeOK
    <2>3. "event" \in defers[q] /\ HoldsNode(q, n)
      BY <1>3, <2>1, <2>2 DEF DetachMarksOwned
    <2>4. ASSUME q = p
          PROVE  FALSE
      <3>1. "creating" \notin defers[p] /\ "deleting" \notin defers[p]
        BY <2>3, <2>4 DEF DeferOK, DeferOf
      <3>2. diskEventIdMap' = [diskEventIdMap EXCEPT ![nodeOf(p)] = IF @ = p THEN NoProc ELSE @]
        BY <2>3, <2>4, <3>1 DEF RunDeferred
      <3> QED BY <1>3, <2>1, <2>2, <2>3, <2>4, <3>2 DEF HoldsNode, TypeInv, TypeOK
    <2> QED BY <1>1, <2>1, <2>2, <2>3, <2>4 DEF HoldsNode, nodeOf
  <1> QED BY <1>2, <1>3 DEF DetachMarksOwned

(* DetachMarksOwned is inductive where the deferred calls are in order.    *)
LEMMA NextDetach ==
  ASSUME TypeInv, DeferOK, DetachMarksOwned, [Next]_vars
  PROVE  DetachMarksOwned'
  <1>t. NoProc \notin Proc /\ diskEventIdMap \in [Node -> Proc \union {NoProc}]
    BY CloudAssumption DEF TypeInv, TypeOK
  <1>crash. Crash => DetachMarksOwned'
    BY DEF Crash, DetachMarksOwned
  <1> USE DEF memory, attaching, Refuse, Goto, Return, Defer
  <1>1. ASSUME NEW p \in Proc, CreateVolume(p)
        PROVE  DetachMarksOwned'
    <2>1. CASE CreatePanics(p)
      BY <2>1, <1>crash DEF CreatePanics
    <2>2. CASE ~ CreatePanics(p)
      <3>1. pc[p] \in CreateAt
        BY <1>1 DEF CreateVolume, CreateLoad, CreateGuard, CreateCheck, CreateSubmit, CreatePoll,
                    CreateStoreIdPv, CreateStorePvc, CreateDone, CreatePanics, CreateAt
      <3>2. Others(p) /\ UNCHANGED <<diskDetachingMap, diskEventIdMap>>
        BY <1>1, <2>2 DEF CreateVolume, CreateLoad, CreateGuard, CreateCheck, CreateSubmit, CreatePoll,
                    CreateStoreIdPv, CreateStorePvc, CreateDone, TaskDone, Others, TypeInv, TypeOK
      <3>3. "event" \notin defers[p] /\ pc[p] \notin {"uPoll", "uFail", "uClear"}
        BY <3>1 DEF DeferOK, DeferOf, CreateAt
      <3> QED BY <1>t, <3>2, <3>3, DetachUntouched
    <2> QED BY <2>1, <2>2
  <1>2. ASSUME NEW p \in Proc, DeleteVolume(p)
        PROVE  DetachMarksOwned'
    <2>1. pc[p] \in DeleteAt
      BY <1>2 DEF DeleteVolume, DeleteLoad, DeleteFind, DeleteGuard, DeleteSubmit, DeletePoll, StartTask,
                  DeleteForgetPvc, DeleteForgetIdPv, DeleteAt
    <2>2. Others(p) /\ UNCHANGED <<diskDetachingMap, diskEventIdMap>>
      BY <1>2 DEF DeleteVolume, DeleteLoad, DeleteFind, DeleteGuard, DeleteSubmit, DeletePoll, StartTask,
                  DeleteForgetPvc, DeleteForgetIdPv, TaskDone, Others, TypeInv, TypeOK
    <2>3. "event" \notin defers[p] /\ pc[p] \notin {"uPoll", "uFail", "uClear"}
      BY <2>1 DEF DeferOK, DeferOf, DeleteAt, PublishAt
    <2> QED BY <1>t, <2>2, <2>3, DetachUntouched
  <1>3. ASSUME NEW p \in Proc, ControllerPublishVolume(p)
        PROVE  DetachMarksOwned'
    <2>1. pc[p] \in PublishAt
      BY <1>3 DEF ControllerPublishVolume, PublishLoad, PublishFind, PublishReady, LockNode, LockDisk,
                  ForceDetachSubmit, ForceDetachMark, ForceDetachPoll, ForceDetachFail, PublishCount,
                  PublishSubmit, PublishMark, PublishPoll, PublishFail, PublishClear, StartTask, PublishAt
    <2>2. Others(p) /\ UNCHANGED <<diskDetachingMap, diskEventIdMap>>
      BY <1>3 DEF ControllerPublishVolume, PublishLoad, PublishFind, PublishReady, LockNode, LockDisk,
                  ForceDetachSubmit, ForceDetachMark, ForceDetachPoll, ForceDetachFail, PublishCount,
                  PublishSubmit, PublishMark, PublishPoll, PublishFail, PublishClear, StartTask,
                  TaskDone, MarkAttaching, Others, TypeInv, TypeOK
    <2>3. "event" \notin defers[p] /\ pc[p] \notin {"uPoll", "uFail", "uClear"}
      BY <2>1 DEF DeferOK, DeferOf, DeleteAt, PublishAt
    <2> QED BY <1>t, <2>2, <2>3, DetachUntouched
  <1>4. ASSUME NEW p \in Proc, ControllerUnpublishVolume(p)
        PROVE  DetachMarksOwned'
    <2>1. CASE \/ UnpublishEvent(p) \/ UnpublishLoad(p) \/ UnpublishFind(p) \/ UnpublishSubmit(p)
               \/ LockNode(p, "uNode", "uDisk") \/ LockDisk(p, "uDisk", "uSubmit")
      <3>1. pc[p] \in {"uEvent", "uLoad", "uFind", "uNode", "uDisk", "uSubmit"}
        BY <2>1 DEF UnpublishEvent, UnpublishLoad, UnpublishFind, LockNode, LockDisk, UnpublishSubmit,
                    StartTask
      <3>2. Others(p) /\ UNCHANGED <<diskDetachingMap, diskEventIdMap>>
        BY <2>1 DEF UnpublishEvent, UnpublishLoad, UnpublishFind, LockNode, LockDisk, UnpublishSubmit,
                    StartTask, Others, TypeInv, TypeOK
      <3>3. "event" \notin defers[p]
        BY <3>1 DEF DeferOK, DeferOf
      <3> QED BY <1>t, <3>1, <3>2, <3>3, DetachUntouched
    <2> QED BY <1>4, <2>1, DetachSteps DEF ControllerUnpublishVolume
  <1>5. ASSUME NEW p \in Proc, Answer(p) \/ (\E r \in Requests : Start(p, r))
        PROVE  DetachMarksOwned'
    <2>1. defers[p] = {} /\ pc[p] \in {"ret", "idle"}
      BY <1>5 DEF Answer, Start, TypeInv, JobOK
    <2>2. Others(p) /\ UNCHANGED <<diskDetachingMap, diskEventIdMap>>
      BY <1>5 DEF Answer, Start, Others, TypeInv, TypeOK
    <2> QED BY <1>t, <2>1, <2>2, DetachUntouched
  <1>6. CASE Restart
    BY <1>6, <1>crash DEF Restart
  <1>7. CASE CloudStep \/ UNCHANGED vars \/ \E n \in Node : NodeFlips(n)
    <2>1. UNCHANGED <<pc, job, defers, diskDetachingMap, diskEventIdMap>>
      BY <1>7 DEF CloudStep, NodeFlips, vars, goroutines
    <2> QED BY <2>1 DEF DetachMarksOwned, HoldsDisk, HoldsNode, diskOf, nodeOf
  <1> QED BY <1>1, <1>2, <1>3, <1>4, <1>5, <1>6, <1>7, RunDeferredDetach DEF Next, Handle

----------------------------------------------------------------------------
(* What a step may do to the disks and to what is remembered of them.      *)

maps == <<pvcCreatedMap, diskIdPvMap>>
FromTo(p, from, to) == pc[p] \in from /\ pc'[p] \in to
Busy == Stores \union Polls \union {"cIdPv", "cPvc", "cDone", "dPvc", "dIdPv", "pClear", "uClear"}

(* It looks, locks, marks, runs a deferred call or starts, and may answer  *)
(* from the cache;                                                         *)
Wanders(p) ==
    /\ Others(p) /\ UNCHANGED <<cloud, maps, volumes>>
    /\ pc[p] \notin Busy /\ pc'[p] \notin Busy
    /\ Answers(p)' => \/ Answers(p) /\ diskOf(p)' = diskOf(p)
                      \/ \E v \in Pv : diskOf(p)' = pvcCreatedMap[v]
    /\ Settled(p)' => Settled(p) /\ job'[p] = job[p]

(* it gives the answer;                                                    *)
Tells(p) ==
    /\ Others(p) /\ UNCHANGED <<cloud, maps>>
    /\ FromTo(p, {"ret"}, {"idle"})
    /\ volumes' = IF Answers(p) THEN volumes \union {diskOf(p)} ELSE volumes

(* it goes on from its task to the wait for it;                            *)
Waits(p) ==
    /\ Others(p) /\ UNCHANGED <<cloud, maps, volumes, job>>
    /\ \/ FromTo(p, {"fMark"}, {"fPoll"}) \/ FromTo(p, {"pMark"}, {"pPoll"})
       \/ FromTo(p, {"uStore"}, {"uMark"}) \/ FromTo(p, {"uMark"}, {"uPoll"})

(* it starts a task, under the disk's lock unless it deletes the disk;     *)
Submits(p) ==
    /\ Others(p) /\ UNCHANGED <<maps, volumes, job>>
    /\ pc[p] \in {"dSubmit", "fSubmit", "pSubmit", "uSubmit"}
    /\ \E kind \in {"attach", "detach", "delete"}, n \in Node \union {NoNode} :
          /\ kind = "attach" => n \in Node
          /\ kind # "delete" => "disk" \in defers[p]
          /\ \/ /\ Submit(p, diskOf(p), kind, n) /\ pc'[p] \in {"dPoll", "fMark", "pMark", "uStore"}
                /\ pc'[p] = "pMark" => kind = "attach" /\ n = nodeOf(p)
                /\ pc'[p] = "uStore" => kind = "detach"
             \/ Submit(NoProc, diskOf(p), kind, n) /\ pc'[p] = "ret" /\ res'[p] = "err"

(* it orders a disk;                                                       *)
Orders(p) ==
    /\ Others(p) /\ UNCHANGED <<maps, volumes>>
    /\ pc[p] = "cSubmit" /\ pvOf(p)' = pvOf(p)
    /\ \E d \in Disk :
          \/ SubmitCreate(p, d, pvOf(p)) /\ pc'[p] = "cPoll" /\ diskOf(p)' = d
          \/ SubmitCreate(NoProc, d, pvOf(p)) /\ pc'[p] = "ret" /\ res'[p] = "err"

(* it sees its task finished;                                              *)
Sees(p) ==
    /\ Others(p) /\ UNCHANGED <<disk, maps, volumes, job>>
    /\ outcome[p] = "finish" /\ outcome' = [outcome EXCEPT ![p] = "none"]
    /\ \/ FromTo(p, {"cPoll"}, {"cIdPv"}) \/ FromTo(p, {"dPoll"}, {"dPvc"})
       \/ FromTo(p, {"fPoll"}, {"pCount"}) \/ FromTo(p, {"pPoll"}, {"pClear"})
       \/ FromTo(p, {"uPoll"}, {"uClear"})

(* it does not wait for it any longer;                                     *)
Forgets(p) ==
    /\ Others(p) /\ UNCHANGED <<maps, volumes, job>>
    /\ FromTo(p, Polls, {"ret", "fFail", "pFail", "uFail"})
    /\ pc'[p] = "ret" => res'[p] = "err"
    /\ Forget(p, diskOf(p))

(* or it answers that its task is done.                                    *)
Clears(p) ==
    /\ Others(p) /\ UNCHANGED <<cloud, maps, volumes, job>>
    /\ FromTo(p, {"pClear", "uClear"}, {"ret"})

(* The three steps of CreateVolume that remember its disk.                 *)
Remembers(p) == CreateStoreIdPv(p) \/ CreateStorePvc(p) \/ CreateDone(p)

(* The steps of CreateVolume, but for those.                               *)
LEMMA CreateSteps ==
  ASSUME TypeInv, DeferOK, NEW p \in Proc, CreateVolume(p)
  PROVE  Wanders(p) \/ Orders(p) \/ Sees(p) \/ Forgets(p) \/ Remembers(p) \/ Crash
  <1> USE DEF memory, provisioning, maps, cloud, Refuse
  <1>t. /\ pc \in [Proc -> Location] /\ res \in [Proc -> {"none", "ok", "err"}] /\ job \in [Proc -> Request]
        /\ defers \in [Proc -> SUBSET Deferred] /\ outcome \in [Proc -> {"none", "doing", "finish", "error"}]
    BY DEF TypeInv, TypeOK, CloudTypeOK
  <1>1. CASE CreateLoad(p)
    <2>1. CASE pvcCreatedMap[pvOf(p)] # NoDisk
      <3>1. /\ diskOf(p)' = pvcCreatedMap[pvOf(p)] /\ pvOf(p) \in Pv /\ pc[p] = "cLoad" /\ pc'[p] = "ret"
            /\ defers'[p] = {}
        BY <1>1, <1>t, <2>1
        DEF CreateLoad, diskOf, Request, TypeInv, JobOK, CreateAt, DeferOK, DeferOf, Unlocked
      <3>2. Others(p)
        BY <1>1, <1>t, <2>1 DEF CreateLoad, Others
      <3> QED BY <1>1, <2>1, <3>1, <3>2 DEF CreateLoad, Wanders, Busy, Stores, Polls, Settled
    <2>2. CASE pvcCreatedMap[pvOf(p)] = NoDisk
      BY <1>1, <1>t, <2>2 DEF CreateLoad, Goto, Wanders, Others, Busy, Stores, Polls, Settled, Answers
    <2> QED BY <2>1, <2>2
  <1>2. CASE CreateGuard(p) \/ CreateCheck(p)
    BY <1>2, <1>t DEF CreateGuard, CreateCheck, Goto, Return, Defer, Wanders, Others, Busy, Stores, Polls,
                      Settled, Answers
  <1>3. CASE CreateSubmit(p)
    <2>1. CASE Refuse(p)
      BY <1>3, <1>t, <2>1 DEF CreateSubmit, Return, Wanders, Others, Busy, Stores, Polls, Settled, Answers
    <2>2. ASSUME NEW d \in Disk, SubmitCreate(p, d, pvOf(p)), pc' = [pc EXCEPT ![p] = "cPoll"],
                 job' = [job EXCEPT ![p].disk = d], UNCHANGED <<res, defers, volumes, memory>>
          PROVE  Orders(p)
      <3>1. diskOf(p)' = d /\ pvOf(p)' = pvOf(p) /\ pc'[p] = "cPoll" /\ Others(p)
        BY <1>t, <2>2 DEF diskOf, pvOf, Others, Request
      <3> QED BY <1>3, <2>2, <3>1 DEF CreateSubmit, Orders
    <2>3. ASSUME NEW d \in Disk, SubmitCreate(NoProc, d, pvOf(p)), Return(p, "err"), UNCHANGED memory
          PROVE  Orders(p)
      <3>1. pvOf(p)' = pvOf(p) /\ pc'[p] = "ret" /\ res'[p] = "err" /\ Others(p)
        BY <1>t, <2>3 DEF pvOf, Others, Return
      <3> QED BY <1>3, <2>3, <3>1 DEF CreateSubmit, Orders, Return
    <2> QED BY <1>3, <2>1, <2>2, <2>3 DEF CreateSubmit
  <1>4. CASE CreatePoll(p)
    BY <1>4, <1>t DEF CreatePoll, TaskDone, Goto, Return, Sees, Forgets, Others, FromTo, Polls
  <1>5. CASE CreatePanics(p)
    BY <1>5 DEF CreatePanics
  <1> QED BY <1>1, <1>2, <1>3, <1>4, <1>5 DEF CreateVolume, Remembers

(* A call that starts a task.                                              *)
LEMMA StartTaskSteps ==
  ASSUME TypeInv, NEW p \in Proc, NEW at, NEW to, NEW kind \in {"attach", "detach", "delete"},
         NEW n \in Node \union {NoNode}, StartTask(p, at, to, kind, n),
         at \in {"dSubmit", "fSubmit", "pSubmit", "uSubmit"}, to \in {"dPoll", "fMark", "pMark", "uStore"},
         kind = "attach" => n \in Node, kind # "delete" => "disk" \in defers[p],
         to = "pMark" => kind = "attach" /\ n = nodeOf(p), to = "uStore" => kind = "detach"
  PROVE  Wanders(p) \/ Submits(p)
  <1> USE DEF TypeInv, TypeOK, Others, StartTask, Goto, Return, memory, provisioning, maps, cloud
  <1>1. CASE Refuse(p)
    BY <1>1 DEF Refuse, Wanders, Answers, Settled, Busy, Stores, Polls
  <1>2. CASE Goto(p, to) /\ Submit(p, diskOf(p), kind, n) /\ UNCHANGED memory
    BY <1>2 DEF Submits
  <1>3. CASE Return(p, "err") /\ Submit(NoProc, diskOf(p), kind, n) /\ UNCHANGED memory
    BY <1>3 DEF Submits
  <1> QED BY <1>1, <1>2, <1>3

(* The steps of DeleteVolume, but for the two that forget the disk.        *)
LEMMA DeleteSteps ==
  ASSUME TypeInv, DeferOK, NEW p \in Proc, DeleteVolume(p)
  PROVE  \/ Wanders(p) \/ Submits(p) \/ Sees(p) \/ Forgets(p)
         \/ DeleteForgetPvc(p) \/ DeleteForgetIdPv(p)
  <1> USE DEF memory, provisioning, maps, cloud, Refuse
  <1>t. /\ pc \in [Proc -> Location] /\ res \in [Proc -> {"none", "ok", "err"}] /\ job \in [Proc -> Request]
        /\ defers \in [Proc -> SUBSET Deferred] /\ outcome \in [Proc -> {"none", "doing", "finish", "error"}]
    BY DEF TypeInv, TypeOK, CloudTypeOK
  <1>1. CASE DeleteSubmit(p)
    BY <1>1, StartTaskSteps DEF DeleteSubmit
  <1>2. CASE DeleteLoad(p) \/ DeleteFind(p) \/ DeleteGuard(p)
    <2>1. /\ pc[p] \in {"dLoad", "dFind", "dGuard"} /\ job' = job /\ job[p].op = "delete"
          /\ "disk" \notin defers[p] /\ (defers'[p] = defers[p] \/ pc'[p] = "dSubmit")
          /\ pc'[p] \in {"ret", "dFind", "dGuard", "dSubmit"}
      BY <1>2, <1>t DEF DeleteLoad, DeleteFind, DeleteGuard, Goto, Return, Defer, DeferOK, DeferOf, DeleteAt,
                        Unlocked
    <2>2. Others(p)
      BY <1>2, <1>t DEF DeleteLoad, DeleteFind, DeleteGuard, Goto, Return, Defer, Others
    <2> QED BY <1>2, <2>1, <2>2 DEF DeleteLoad, DeleteFind, DeleteGuard, Goto, Return, Defer, Wanders, Busy,
                                    Stores, Polls, Settled, Answers
  <1>3. CASE DeletePoll(p)
    BY <1>3, <1>t DEF DeletePoll, TaskDone, Goto, Return, Sees, Forgets, Others, FromTo, Polls
  <1> QED BY <1>1, <1>2, <1>3 DEF DeleteVolume

(* The steps of ControllerPublishVolume.                                   *)
LEMMA PublishSteps ==
  ASSUME TypeInv, DeferOK, NEW p \in Proc, ControllerPublishVolume(p)
  PROVE  Wanders(p) \/ Waits(p) \/ Submits(p) \/ Sees(p) \/ Forgets(p) \/ Clears(p)
  <1> USE DEF memory, provisioning, maps, cloud, Refuse
  <1>t. /\ pc \in [Proc -> Location] /\ res \in [Proc -> {"none", "ok", "err"}] /\ job \in [Proc -> Request]
        /\ defers \in [Proc -> SUBSET Deferred] /\ outcome \in [Proc -> {"none", "doing", "finish", "error"}]
    BY DEF TypeInv, TypeOK, CloudTypeOK
  <1>1. CASE ForceDetachSubmit(p)
    <2>1. "disk" \in defers[p]
      BY <1>1 DEF ForceDetachSubmit, StartTask, DeferOK, DeferOf, DiskHeld
    <2> QED BY <1>1, <2>1, StartTaskSteps DEF ForceDetachSubmit
  <1>2. CASE PublishSubmit(p)
    <2>1. "disk" \in defers[p] /\ nodeOf(p) \in Node
      BY <1>2 DEF PublishSubmit, StartTask, DeferOK, DeferOf, DiskHeld, TypeInv, JobOK, PublishAt
    <2> QED BY <1>2, <2>1, StartTaskSteps DEF PublishSubmit
  <1>3. CASE PublishLoad(p) \/ PublishFind(p) \/ PublishReady(p)
    <2>1. /\ pc[p] \in {"pLoad", "pFind", "pReady"} /\ job' = job /\ job[p].op = "publish"
          /\ defers[p] = {} /\ defers' = defers
          /\ pc'[p] \in {"ret", "pFind", "pReady", "pCount", "fNode"}
      BY <1>3, <1>t DEF PublishLoad, PublishFind, PublishReady, Goto, Return, DeferOK, DeferOf, PublishAt,
                        Unlocked
    <2>2. Others(p)
      BY <1>3, <1>t DEF PublishLoad, PublishFind, PublishReady, Goto, Return, Others
    <2> QED BY <1>3, <2>1, <2>2 DEF PublishLoad, PublishFind, PublishReady, Goto, Return, Wanders, Busy,
                                    Stores, Polls, Settled, Answers
  <1>4. CASE \/ LockNode(p, "fNode", "fDisk") \/ LockNode(p, "pNode", "pDisk")
             \/ LockDisk(p, "fDisk", "fSubmit") \/ LockDisk(p, "pDisk", "pSubmit")
    BY <1>4, <1>t DEF LockNode, LockDisk, Defer, Return, Wanders, Others, Busy, Stores, Polls, Settled,
                      Answers
  <1>5. CASE ForceDetachFail(p) \/ PublishFail(p) \/ PublishCount(p)
    BY <1>5, <1>t DEF ForceDetachFail, PublishFail, PublishCount, Goto, Return, MarkAttaching, Wanders,
                      Others,
                      Busy, Stores, Polls, Settled, Answers
  <1>6. CASE ForceDetachMark(p) \/ PublishMark(p)
    BY <1>6, <1>t DEF ForceDetachMark, PublishMark, Goto, MarkAttaching, Waits, Others, FromTo
  <1>7. CASE ForceDetachPoll(p) \/ PublishPoll(p)
    BY <1>7, <1>t DEF ForceDetachPoll, PublishPoll, TaskDone, Goto, Sees, Forgets, Others, FromTo, Polls
  <1>8. CASE PublishClear(p)
    BY <1>8, <1>t DEF PublishClear, Return, MarkAttaching, Clears, Others, FromTo
  <1> QED BY <1>1, <1>2, <1>3, <1>4, <1>5, <1>6, <1>7, <1>8 DEF ControllerPublishVolume

(* The steps of ControllerUnpublishVolume.                                 *)
LEMMA UnpublishSteps ==
  ASSUME TypeInv, DeferOK, NEW p \in Proc, ControllerUnpublishVolume(p)
  PROVE  Wanders(p) \/ Waits(p) \/ Submits(p) \/ Sees(p) \/ Forgets(p) \/ Clears(p)
  <1> USE DEF memory, provisioning, maps, cloud, Refuse
  <1>t. /\ pc \in [Proc -> Location] /\ res \in [Proc -> {"none", "ok", "err"}] /\ job \in [Proc -> Request]
        /\ defers \in [Proc -> SUBSET Deferred] /\ outcome \in [Proc -> {"none", "doing", "finish", "error"}]
    BY DEF TypeInv, TypeOK, CloudTypeOK
  <1>1. CASE UnpublishSubmit(p)
    <2>1. "disk" \in defers[p]
      BY <1>1 DEF UnpublishSubmit, StartTask, DeferOK, DeferOf, DiskHeld
    <2> QED BY <1>1, <2>1, StartTaskSteps DEF UnpublishSubmit
  <1>2. CASE UnpublishEvent(p) \/ UnpublishLoad(p) \/ UnpublishFind(p)
    <2>1. /\ pc[p] \in {"uEvent", "uLoad", "uFind"} /\ job' = job /\ job[p].op = "unpublish"
          /\ defers[p] = {} /\ defers' = defers
          /\ pc'[p] \in {"ret", "uLoad", "uFind", "uNode"}
      BY <1>2, <1>t DEF UnpublishEvent, UnpublishLoad, UnpublishFind, Goto, Return, DeferOK, DeferOf,
                        UnpublishAt, Unlocked
    <2>2. Others(p)
      BY <1>2, <1>t DEF UnpublishEvent, UnpublishLoad, UnpublishFind, Goto, Return, Others
    <2> QED BY <1>2, <2>1, <2>2 DEF UnpublishEvent, UnpublishLoad, UnpublishFind, Goto, Return, Wanders, Busy,
                                    Stores, Polls, Settled, Answers
  <1>3. CASE LockNode(p, "uNode", "uDisk") \/ LockDisk(p, "uDisk", "uSubmit")
    BY <1>3, <1>t DEF LockNode, LockDisk, Defer, Return, Wanders, Others, Busy, Stores, Polls, Settled,
                      Answers
  <1>4. CASE UnpublishStore(p) \/ UnpublishMark(p)
    BY <1>4, <1>t DEF UnpublishStore, UnpublishMark, Defer, Goto, MarkDetaching, Waits, Others, FromTo
  <1>5. CASE UnpublishPoll(p)
    BY <1>5, <1>t DEF UnpublishPoll, TaskDone, Goto, Sees, Forgets, Others, FromTo, Polls
  <1>6. CASE UnpublishFail(p)
    BY <1>6, <1>t DEF UnpublishFail, Return, MarkDetaching, Wanders, Others, Busy, Stores, Polls, Settled,
                      Answers
  <1>7. CASE UnpublishClear(p)
    BY <1>7, <1>t DEF UnpublishClear, Return, MarkDetaching, Clears, Others, FromTo
  <1> QED BY <1>1, <1>2, <1>3, <1>4, <1>5, <1>6, <1>7 DEF ControllerUnpublishVolume

Ends(d) == (TaskFinishes(d) \/ TaskFails(d)) /\ UNCHANGED <<goroutines, maps, volumes>>
Moves(p) == \/ Wanders(p) \/ Tells(p) \/ Waits(p) \/ Submits(p) \/ Orders(p) \/ Sees(p) \/ Forgets(p)
            \/ Clears(p)

(* Every step is one of these.                                             *)
LEMMA Steps ==
  ASSUME TypeInv, DeferOK, [Next]_vars
  PROVE  \/ \E p \in Proc : Moves(p) \/ Remembers(p) \/ DeleteForgetPvc(p) \/ DeleteForgetIdPv(p)
         \/ \E d \in Disk : Ends(d)
         \/ Crash
         \/ UNCHANGED <<goroutines, maps, cloud, volumes>>
  <1> USE DEF memory, provisioning, maps, cloud
  <1>t. /\ pc \in [Proc -> Location] /\ res \in [Proc -> {"none", "ok", "err"}] /\ job \in [Proc -> Request]
        /\ defers \in [Proc -> SUBSET Deferred]
    BY DEF TypeInv, TypeOK
  <1>1. ASSUME NEW p \in Proc, Answer(p)
        PROVE  Tells(p)
    BY <1>1, <1>t DEF Answer, Tells, Others, FromTo, Answers
  <1>2. ASSUME NEW p \in Proc, RunDeferred(p)
        PROVE  Wanders(p)
    <2>1. Others(p) /\ pc' = pc /\ pc[p] = "ret" /\ res' = res /\ job' = job /\ defers'[p] \subseteq defers[p]
      BY <1>2, <1>t DEF RunDeferred, Others
    <2>2. UNCHANGED <<cloud, maps, volumes>>
      BY <1>2 DEF RunDeferred
    <2> QED BY <2>1, <2>2 DEF Wanders, Busy, Stores, Polls, Answers, Settled, diskOf
  <1>3. ASSUME NEW p \in Proc, NEW r \in Requests, Start(p, r)
        PROVE  Wanders(p)
    <2>1. r.op \in {"create", "delete", "publish", "unpublish"}
      BY EbsAssumption DEF Request
    <2> QED BY <1>3, <1>t, <2>1 DEF Start, Wanders, Others, Busy, Stores, Polls, Answers, Settled
  <1>4. CASE Restart
    BY <1>4 DEF Restart
  <1>5. CASE CloudStep
    BY <1>5 DEF CloudStep, CloudNext, Ends
  <1>6. CASE UNCHANGED vars \/ \E n \in Node : NodeFlips(n)
    BY <1>6 DEF vars, NodeFlips
  <1> QED
    BY <1>1, <1>2, <1>3, <1>4, <1>5, <1>6, CreateSteps, DeleteSteps, PublishSteps, UnpublishSteps
    DEF Next, Handle, Moves

----------------------------------------------------------------------------
(* Disks.  A disk that exists keeps its name, and one that was made stays  *)
(* so, deleted or not; an id that is not handed out is as it was, unless   *)
(* it is ordered now.                                                      *)
DisksKept ==
    \A d \in Disk :
        /\ disk[d].state # "none" => /\ disk'[d].state # "none" /\ disk'[d].pv = disk[d].pv
                                     /\ Made(d) => Made(d)'
        /\ disk[d].state = "none" =>
              \/ disk'[d].state = "none" /\ disk'[d].pv = disk[d].pv
              \/ \E p \in Proc : /\ pc[p] = "cSubmit" /\ disk'[d].state = "new"
                                 /\ disk'[d].pv = pvOf(p)

(* Every step does so.                                                     *)
LEMMA DisksStay ==
  ASSUME TypeInv, DeferOK, CloudShape, [Next]_vars
  PROVE  DisksKept
  <1>t. CloudTypeOK
    BY DEF TypeInv, TypeOK
  <1>1. CASE UNCHANGED disk
    BY <1>1 DEF DisksKept, Made
  <1>2. ASSUME NEW p \in Proc, Submits(p) \/ Forgets(p)
        PROVE  DisksKept
    <2>1. ASSUME NEW q, NEW kind, NEW n, Submit(q, diskOf(p), kind, n)
          PROVE  \A d \in Disk : disk'[d].pv = disk[d].pv /\ disk'[d].state = disk[d].state
      BY <2>1, <1>t DEF Submit, CloudTypeOK, DiskRecord
    <2>2. Forget(p, diskOf(p)) =>
             \A d \in Disk : disk'[d].pv = disk[d].pv /\ disk'[d].state = disk[d].state
      BY <1>t DEF Forget, CloudTypeOK, DiskRecord
    <2> QED BY <1>2, <2>1, <2>2 DEF Submits, Forgets, DisksKept, Made
  <1>3. ASSUME NEW p \in Proc, Orders(p)
        PROVE  DisksKept
    <2>1. PICK q \in {p, NoProc}, d \in Disk : SubmitCreate(q, d, pvOf(p)) /\ pc[p] = "cSubmit"
      BY <1>3 DEF Orders
    <2>2. /\ disk[d].state = "none" /\ disk'[d].state = "new" /\ disk'[d].pv = pvOf(p)
          /\ \A e \in Disk : e # d => disk'[e] = disk[e]
      BY <2>1, <1>t DEF SubmitCreate, CloudTypeOK, DiskRecord
    <2> QED BY <2>1, <2>2 DEF DisksKept, Made
  <1>4. ASSUME NEW d \in Disk, Ends(d)
        PROVE  DisksKept
    <2>1. PICK state, node, result : /\ EndTask(d, state, node, result)
                                     /\ state # "none" /\ (Made(d) => state \notin {"new", "broken"})
                                     /\ disk[d].state # "none"
      <3>1. CASE TaskFinishes(d)
        BY <3>1 DEF TaskFinishes, CloudShape, Made
      <3>2. CASE TaskFails(d)
        BY <3>2 DEF TaskFails, CloudShape, Made
      <3> QED BY <1>4, <3>1, <3>2 DEF Ends
    <2>2. disk'[d].state = state
      BY <2>1, <1>t DEF EndTask, CloudTypeOK, DiskRecord
    <2>3. \A e \in Disk : disk'[e].pv = disk[e].pv /\ (e # d => disk'[e] = disk[e])
      BY <2>1, <1>t DEF EndTask, CloudTypeOK, DiskRecord
    <2> QED BY <2>1, <2>2, <2>3 DEF DisksKept, Made
  <1>5. CASE Crash
    BY <1>5, <1>t DEF Crash, ForgetAll, DisksKept, Made, CloudTypeOK, DiskRecord
  <1> QED
    BY <1>1, <1>2, <1>3, <1>4, <1>5, Steps
    DEF Moves, Remembers, Wanders, Tells, Waits, Sees, Clears, CreateStoreIdPv, CreateStorePvc, CreateDone,
        DeleteForgetPvc, DeleteForgetIdPv, cloud

(* The cloud's records keep their shape.                                   *)
LEMMA NextShape ==
  ASSUME TypeInv, DeferOK, CloudShape, [Next]_vars
  PROVE  CloudShape'
  <1>t. CloudTypeOK /\ JobOK
    BY DEF TypeInv, TypeOK
  <1>1. CASE UNCHANGED disk
    BY <1>1 DEF CloudShape
  <1>2. ASSUME NEW p \in Proc, Submits(p) \/ Forgets(p)
        PROVE  CloudShape'
    <2>1. diskOf(p) \in Disk
      BY <1>2, <1>t DEF Submits, Forgets, FromTo, JobOK, HasDisk, Polls, DeleteAt, PublishAt, UnpublishAt
    <2> QED BY <1>2, <1>t, <2>1, SubmitShape, ForgetShape DEF Submits, Forgets
  <1>3. ASSUME NEW p \in Proc, Orders(p)
        PROVE  CloudShape'
    <2>1. pvOf(p) \in Pv
      BY <1>3, <1>t DEF Orders, JobOK, CreateAt
    <2> QED BY <1>3, <1>t, <2>1, SubmitCreateShape DEF Orders
  <1>4. ASSUME NEW d \in Disk, Ends(d)
        PROVE  CloudShape'
    BY <1>4, <1>t, TaskEndsShape DEF Ends
  <1>5. CASE Crash
    BY <1>5, <1>t DEF Crash, ForgetAll, CloudShape, CloudTypeOK, DiskRecord
  <1> QED
    BY <1>1, <1>2, <1>3, <1>4, <1>5, Steps
    DEF Moves, Remembers, Wanders, Tells, Waits, Sees, Clears, CreateStoreIdPv, CreateStorePvc, CreateDone,
        DeleteForgetPvc, DeleteForgetIdPv, cloud

(* FailedCreateIsFinal as a condition on one step.                         *)
FinalStep ==
    \A v \in Pv : diskProcessingMap[v] = "error" =>
        \/ diskProcessingMap'[v] = "error" /\ DisksFor(v)' = DisksFor(v)
        \/ Crash

(* A mark "error" is not "creating": who orders a disk, or clears a mark,  *)
(* has stored the mark of its own volume.                                  *)
LEMMA NextFinal ==
  ASSUME TypeInv, DeferOK, MarksOK, CloudShape, KnownOK, [Next]_vars
  PROVE  FinalStep
  <1> SUFFICES ASSUME NEW v \in Pv, diskProcessingMap[v] = "error"
               PROVE  \/ diskProcessingMap'[v] = "error" /\ DisksFor(v)' = DisksFor(v)
                      \/ Crash
    BY DEF FinalStep
  <1>m. ASSUME NEW p \in Proc, Creating(p)
        PROVE  pvOf(p) # v
    <2>1. InCreate(p)
      BY <1>m DEF DeferOK, DeferOf, Creating, InCreate
    <2> QED BY <2>1 DEF MarksOK
  <1>1. CASE Crash
    BY <1>1
  <1>2. DisksFor(v)' = DisksFor(v)
    <2>1. NoPv # v
      BY CloudAssumption
    <2>2. ASSUME NEW d \in Disk
          PROVE  disk'[d].pv = v <=> disk[d].pv = v
      <3>1. CASE disk[d].state # "none"
        BY <3>1, DisksStay DEF DisksKept
      <3>2. CASE disk[d].state = "none"
        <4>1. disk[d].pv = NoPv
          BY <3>2 DEF KnownOK
        <4>2. ASSUME NEW p \in Proc, pc[p] = "cSubmit", disk'[d].pv = pvOf(p)
              PROVE  disk'[d].pv # v
          BY <1>m, <4>2 DEF Creating
        <4> QED BY <2>1, <3>2, <4>1, <4>2, DisksStay DEF DisksKept
      <3> QED BY <3>1, <3>2
    <2> QED BY <2>2 DEF DisksFor
  <1>3. CASE ~ Crash
    <2> USE DEF memory, provisioning, Refuse, Goto, Return, Defer
    <2>1. ASSUME NEW p \in Proc, CreateVolume(p)
          PROVE  diskProcessingMap'[v] = "error"
      <3>1. CASE CreateDone(p)
        BY <1>m, <3>1 DEF CreateDone, Creating, TypeInv, TypeOK
      <3>2. CASE CreateGuard(p)
        BY <3>2 DEF CreateGuard, TypeInv, TypeOK
      <3> QED BY <1>3, <2>1, <3>1, <3>2
              DEF CreateVolume, CreateLoad, CreateCheck, CreateSubmit, CreatePoll, CreatePanics, TaskDone,
                  CreateStoreIdPv, CreateStorePvc
    <2>2. ASSUME NEW p \in Proc, DeleteVolume(p)
          PROVE  diskProcessingMap'[v] = "error"
      BY <2>2 DEF DeleteVolume, DeleteLoad, DeleteFind, DeleteGuard, DeleteSubmit, DeletePoll, StartTask,
                  DeleteForgetPvc, DeleteForgetIdPv, TaskDone
    <2>3. ASSUME NEW p \in Proc, ControllerPublishVolume(p)
          PROVE  diskProcessingMap'[v] = "error"
      BY <2>3 DEF ControllerPublishVolume, PublishLoad, PublishFind, PublishReady, LockNode, LockDisk,
                  ForceDetachSubmit, ForceDetachMark, ForceDetachPoll, ForceDetachFail, PublishCount,
                  PublishSubmit, PublishMark, PublishPoll, PublishFail, PublishClear, StartTask,
                  TaskDone, MarkAttaching
    <2>4. ASSUME NEW p \in Proc, ControllerUnpublishVolume(p)
          PROVE  diskProcessingMap'[v] = "error"
      BY <2>4 DEF ControllerUnpublishVolume, UnpublishEvent, UnpublishLoad, UnpublishFind, LockNode, LockDisk,
                  UnpublishSubmit, UnpublishStore, UnpublishMark, UnpublishPoll, UnpublishFail,
                  UnpublishClear, StartTask, TaskDone, MarkDetaching
    <2>5. ASSUME NEW p \in Proc, RunDeferred(p) \/ Answer(p) \/ (\E r \in Requests : Start(p, r))
          PROVE  diskProcessingMap'[v] = "error"
      BY <2>5 DEF RunDeferred, Answer, Start, TypeInv, TypeOK
    <2>6. CASE CloudStep \/ UNCHANGED vars \/ (\E n \in Node : NodeFlips(n))
      <3>1. UNCHANGED diskProcessingMap
        BY <2>6 DEF CloudStep, NodeFlips, vars
      <3> QED BY <1>2, <3>1
    <2> QED BY <1>2, <1>3, <2>1, <2>2, <2>3, <2>4, <2>5, <2>6 DEF Next, Handle, Restart
  <1> QED BY <1>1, <1>3

----------------------------------------------------------------------------
(* Tasks.                                                                  *)

(* Where it matters a request's disk is a disk.                            *)
LEMMA DiskAt ==
  ASSUME TypeInv, NEW p \in Proc,
         pc[p] \in Busy \/ (pc[p] = "ret" /\ res[p] = "ok")
  PROVE  diskOf(p) \in Disk
  BY DEF TypeInv, JobOK, Busy, Stores, Polls, HasDisk, DeleteAt, PublishAt, UnpublishAt

(* Steps that leave the cloud.                                             *)
LEMMA QuietTasks ==
  ASSUME TypeInv, DeferOK, TaskOK, NEW p \in Proc,
         \/ Wanders(p) \/ Tells(p) \/ Waits(p) \/ Clears(p) \/ Remembers(p)
         \/ DeleteForgetPvc(p) \/ DeleteForgetIdPv(p)
  PROVE  TaskOK'
  <1>1. UNCHANGED <<disk, outcome>> /\ Others(p)
    BY DEF Wanders, Tells, Waits, Clears, Remembers, CreateStoreIdPv, CreateStorePvc, CreateDone,
           DeleteForgetPvc, DeleteForgetIdPv, Goto, Return, Others, TypeInv, TypeOK, cloud
  <1>2. ASSUME NEW q \in Proc, q # p
        PROVE  TaskOf(q)'
    BY <1>1, <1>2 DEF TaskOK, TaskOf, Others, Made, On, Off, Quiet, Settled, AttachedTo, diskOf, nodeOf
  <1>3. TaskOf(p)'
    <2>t. TaskOf(p)
      BY DEF TaskOK
    <2>1. CASE Wanders(p)
      <3>1. \A d \in Disk : disk'[d].by # p
        BY <1>1, <2>t, <2>1 DEF Wanders, TaskOf, Busy
      <3>2. Settled(p)' => TaskOf(p) /\ Settled(p) /\ job'[p] = job[p]
        BY <2>t, <2>1 DEF Wanders
      <3> QED BY <1>1, <2>1, <3>1, <3>2
              DEF Wanders, TaskOf, Busy, Stores, Polls, On, Off, Quiet, AttachedTo, diskOf, nodeOf
    <2>2. CASE Tells(p)
      BY <1>1, <2>t, <2>2 DEF Tells, FromTo, TaskOf, Stores, Polls, Settled
    <2>3. CASE Waits(p)
      BY <1>1, <2>t, <2>3 DEF Waits, FromTo, TaskOf, Stores, Polls, Settled, On, Off, Quiet, AttachedTo,
                              diskOf,
                              nodeOf
    <2>4. CASE Clears(p)
      <3>1. /\ pc[p] = "pClear" => job[p].op = "publish"
            /\ pc[p] = "uClear" => job[p].op = "unpublish"
        BY DEF DeferOK, DeferOf, PublishAt, UnpublishAt
      <3> QED BY <1>1, <2>t, <2>4, <3>1 DEF Clears, FromTo, TaskOf, Stores, Polls, Settled, On, Off, Quiet,
                                            AttachedTo, diskOf, nodeOf
    <2>5. CASE Remembers(p)
      <3>1. job[p].op = "create" /\ job' = job /\ pc[p] \in {"cIdPv", "cPvc", "cDone"}
        BY <2>5 DEF Remembers, CreateStoreIdPv, CreateStorePvc, CreateDone, Goto, Return, DeferOK, DeferOf,
                    CreateAt
      <3>2. pc'[p] \in {"cPvc", "cDone", "ret"}
        BY <2>5 DEF Remembers, CreateStoreIdPv, CreateStorePvc, CreateDone, Goto, Return, TypeInv, TypeOK
      <3> QED BY <1>1, <2>t, <3>1, <3>2 DEF TaskOf, Stores, Polls, Settled, Made, diskOf
    <2>6. CASE DeleteForgetPvc(p) \/ DeleteForgetIdPv(p)
      <3>1. job[p].op = "delete" /\ job' = job /\ pc[p] \in {"dPvc", "dIdPv"}
        BY <2>6 DEF DeleteForgetPvc, DeleteForgetIdPv, Goto, Return, DeferOK, DeferOf, DeleteAt
      <3>2. pc'[p] \in {"dIdPv", "ret"}
        BY <2>6 DEF DeleteForgetPvc, DeleteForgetIdPv, Goto, Return, TypeInv, TypeOK
      <3> QED BY <1>1, <2>t, <3>1, <3>2 DEF TaskOf, Stores, Polls, Settled
    <2> QED BY <2>1, <2>2, <2>3, <2>4, <2>5, <2>6
  <1> QED BY <1>2, <1>3 DEF TaskOK

(* Who waits for a disk's lock to be answered holds it.                    *)
Rests(p) ==
    \/ pc[p] \in {"pMark", "pPoll", "pClear", "uStore", "uMark", "uPoll", "uClear"}
    \/ Settled(p)

(* What such a request knows of its disk lasts when the records of its     *)
(* disk do, but for the start or the end of a delete.                      *)
RestKept(p) ==
    \/ disk'[diskOf(p)] = disk[diskOf(p)]
    \/ /\ disk'[diskOf(p)].node = disk[diskOf(p)].node
       /\ disk'[diskOf(p)].task \in {"none", "delete"}
       /\ \/ disk'[diskOf(p)].state = disk[diskOf(p)].state
          \/ disk[diskOf(p)].state # "attached" /\ disk'[diskOf(p)].state = "gone"
    \/ /\ disk'[diskOf(p)].node = disk[diskOf(p)].node /\ disk'[diskOf(p)].state = disk[diskOf(p)].state
       /\ disk'[diskOf(p)].task = disk[diskOf(p)].task

(* Another request's step, or the cloud's, leaves a request as it was.     *)
LEMMA TaskOfOthers ==
  ASSUME TypeInv, TaskOK, DisksKept, NEW o \in Proc,
         pc'[o] = pc[o], res'[o] = res[o], job'[o] = job[o], defers'[o] = defers[o], outcome'[o] = outcome[o],
         \A e \in Disk : disk'[e].by = o =>
            disk[e].by = o /\ disk'[e].task = disk[e].task /\ disk'[e].to = disk[e].to,
         Rests(o) /\ (On(o) \/ Off(o)) => RestKept(o)
  PROVE  TaskOf(o)'
  <1>1. TaskOf(o) /\ diskOf(o)' = diskOf(o) /\ nodeOf(o)' = nodeOf(o) /\ Settled(o)' = Settled(o)
    BY DEF TaskOK, diskOf, nodeOf, Settled
  <1>2. pc[o] \in {"cPoll", "cIdPv", "cPvc", "cDone"} => diskOf(o) \in Disk
    BY DiskAt DEF Busy, Polls
  <1>3. pc[o] \in {"cPoll", "cIdPv", "cPvc", "cDone"} /\ Made(diskOf(o)) => Made(diskOf(o))'
    BY <1>2 DEF DisksKept, Made, diskOf
  <1>4. Rests(o) /\ On(o) => On(o)'
    BY <1>1 DEF On, RestKept, Quiet, AttachedTo
  <1>5. Rests(o) /\ Off(o) => Off(o)'
    BY <1>1 DEF Off, RestKept, Quiet
  <1>6. \A d \in Disk : disk'[d].by = o =>
          /\ diskOf(o)' = d /\ pc'[o] \in Stores \union Polls /\ outcome'[o] = "doing"
          /\ pc'[o] = "cPoll" => disk'[d].task = "create"
          /\ pc'[o] \in {"pMark", "pPoll"} => disk'[d].task = "attach" /\ disk'[d].to = nodeOf(o)'
          /\ pc'[o] \in {"uStore", "uMark", "uPoll"} => disk'[d].task = "detach"
    BY <1>1 DEF TaskOf
  <1>7. /\ pc'[o] = "cPoll" /\ outcome'[o] = "finish" => Made(diskOf(o))'
        /\ pc'[o] \in {"cIdPv", "cPvc", "cDone"} => Made(diskOf(o))'
    BY <1>1, <1>3 DEF TaskOf
  <1>8. /\ pc'[o] \in {"pMark", "pPoll"} /\ outcome'[o] = "finish" => On(o)'
        /\ pc'[o] = "pClear" \/ (Settled(o)' /\ job'[o].op = "publish") => On(o)'
    BY <1>1, <1>4 DEF TaskOf, Rests
  <1>9. /\ pc'[o] \in {"uStore", "uMark", "uPoll"} /\ outcome'[o] = "finish" => Off(o)'
        /\ pc'[o] = "uClear" \/ (Settled(o)' /\ job'[o].op = "unpublish") => Off(o)'
    BY <1>1, <1>5 DEF TaskOf, Rests
  <1> QED BY <1>6, <1>7, <1>8, <1>9 DEF TaskOf, Made

(* A task that is started is that of its disk and of who polls it.  No     *)
(* other request that has the disk's lock is disturbed: an attach or a     *)
(* detach is submitted under the lock, and a delete changes nothing yet.   *)
LEMMA SubmittedTasks ==
  ASSUME TypeInv, DeferOK, LocksOwned, TaskOK, DisksKept, NEW p \in Proc, Submits(p)
  PROVE  TaskOK'
  <1>d. PICK d \in Disk : d = diskOf(p)
    BY DEF Submits, TypeInv, JobOK, HasDisk, DeleteAt, PublishAt, UnpublishAt
  <1>n. p # NoProc /\ NoProc \notin Proc
    BY CloudAssumption
  <1>1. PICK kind \in {"attach", "detach", "delete"}, n \in Node \union {NoNode}, q \in {p, NoProc} :
           /\ Submit(q, d, kind, n)
           /\ kind # "delete" => "disk" \in defers[p]
           /\ q = p => /\ pc'[p] \in {"dPoll", "fMark", "pMark", "uStore"}
                       /\ pc'[p] = "pMark" => kind = "attach" /\ n = nodeOf(p)
                       /\ pc'[p] = "uStore" => kind = "detach"
           /\ q = NoProc => pc'[p] = "ret" /\ res'[p] = "err"
    BY <1>d, <1>n DEF Submits
  <1>2. disk \in [Disk -> DiskRecord] /\ outcome \in [Proc -> {"none", "doing", "finish", "error"}]
    BY DEF TypeInv, TypeOK, CloudTypeOK
  <1>3. /\ disk'[d].by = q /\ disk'[d].task = kind /\ disk'[d].to = n
        /\ disk'[d].state = disk[d].state /\ disk'[d].node = disk[d].node
    BY <1>1, <1>2 DEF Submit, DiskRecord
  <1>4. \A e \in Disk : e # d => disk'[e] = disk[e]
    BY <1>1, <1>2 DEF Submit
  <1>5. \A o \in Proc : outcome'[o] = IF o = q THEN "doing" ELSE outcome[o]
    BY <1>1 DEF Submit, Await
  <1>6. Others(p) /\ job' = job /\ pc[p] \notin Stores \union Polls
    BY DEF Submits, Stores, Polls
  <1>7. ASSUME NEW o \in Proc, o # p
        PROVE  TaskOf(o)'
    <2>1. /\ pc'[o] = pc[o] /\ res'[o] = res[o] /\ job'[o] = job[o] /\ defers'[o] = defers[o]
          /\ outcome'[o] = outcome[o]
      BY <1>5, <1>6, <1>7, <1>n DEF Others
    <2>2. \A e \in Disk : disk'[e].by = o => disk'[e] = disk[e]
      BY <1>3, <1>4, <1>7, <1>n
    <2>3. ASSUME Rests(o), On(o) \/ Off(o)
          PROVE  RestKept(o)
      <3>1. diskOf(o) \in Disk /\ "disk" \in defers[o]
        BY <2>3, DiskAt DEF Rests, Settled, Busy, Stores, Polls, DeferOK, DeferOf, DiskHeld
      <3>2. CASE diskOf(o) = d
        <4>1. "disk" \notin defers[p]
          BY <1>7, <1>d, <3>1, <3>2 DEF LocksOwned, HoldsDisk
        <4>2. kind = "delete"
          BY <1>1, <4>1
        <4> QED BY <1>3, <3>2, <4>2 DEF RestKept
      <3>3. CASE diskOf(o) # d
        BY <1>4, <3>1, <3>3 DEF RestKept
      <3> QED BY <3>2, <3>3
    <2> QED BY <2>1, <2>2, <2>3, TaskOfOthers
  <1>8. TaskOf(p)'
    <2>1. \A e \in Disk : disk'[e].by = p => q = p /\ e = d
      <3>1. \A e \in Disk : disk[e].by # p
        BY <1>6 DEF TaskOK, TaskOf
      <3> QED BY <1>3, <1>4, <1>n, <3>1
    <2>2. diskOf(p)' = d /\ nodeOf(p)' = nodeOf(p)
      BY <1>6, <1>d DEF diskOf, nodeOf
    <2>3. CASE q = p
      <3>1. outcome'[p] = "doing" /\ disk'[d].task = kind /\ disk'[d].to = n
        BY <1>3, <1>5, <2>3
      <3> QED BY <1>1, <2>1, <2>2, <2>3, <3>1 DEF TaskOf, Settled, Stores, Polls
    <2>4. CASE q = NoProc
      <3>1. pc'[p] = "ret" /\ res'[p] = "err" /\ \A e \in Disk : disk'[e].by # p
        BY <1>1, <1>n, <2>1, <2>4
      <3> QED BY <3>1 DEF TaskOf, Settled
    <2> QED BY <2>3, <2>4
  <1> QED BY <1>7, <1>8 DEF TaskOK

(* An order takes a disk that nobody has.                                  *)
LEMMA OrderedTasks ==
  ASSUME TypeInv, TaskOK, DisksKept, NEW p \in Proc, Orders(p)
  PROVE  TaskOK'
  <1>n. p # NoProc /\ NoProc \notin Proc
    BY CloudAssumption
  <1>1. PICK d \in Disk, q \in {p, NoProc} :
           /\ SubmitCreate(q, d, pvOf(p))
           /\ q = p => pc'[p] = "cPoll" /\ diskOf(p)' = d
           /\ q = NoProc => pc'[p] = "ret" /\ res'[p] = "err"
    BY <1>n DEF Orders
  <1>2. disk \in [Disk -> DiskRecord]
    BY DEF TypeInv, TypeOK, CloudTypeOK
  <1>3. /\ disk[d].state = "none" /\ disk'[d].by = q /\ disk'[d].task = "create"
        /\ \A e \in Disk : e # d => disk'[e] = disk[e]
    BY <1>1, <1>2 DEF SubmitCreate, DiskRecord
  <1>4. \A o \in Proc : outcome'[o] = IF o = q THEN "doing" ELSE outcome[o]
    BY <1>1 DEF SubmitCreate, Await
  <1>5. Others(p) /\ pc[p] \notin Stores \union Polls
    BY DEF Orders, Stores, Polls
  <1>6. ASSUME NEW o \in Proc, o # p
        PROVE  TaskOf(o)'
    <2>1. /\ pc'[o] = pc[o] /\ res'[o] = res[o] /\ job'[o] = job[o] /\ defers'[o] = defers[o]
          /\ outcome'[o] = outcome[o]
      BY <1>4, <1>5, <1>6, <1>n DEF Others
    <2>2. \A e \in Disk : disk'[e].by = o => disk'[e] = disk[e]
      BY <1>3, <1>6, <1>n
    <2>3. ASSUME Rests(o), On(o) \/ Off(o)
          PROVE  RestKept(o)
      <3>1. diskOf(o) \in Disk
        BY <2>3, DiskAt DEF Rests, Settled, Busy, Stores, Polls
      <3>2. diskOf(o) # d
        BY <1>3, <2>3 DEF On, Off, AttachedTo
      <3> QED BY <1>3, <3>1, <3>2 DEF RestKept
    <2> QED BY <2>1, <2>2, <2>3, TaskOfOthers
  <1>7. TaskOf(p)'
    <2>1. \A e \in Disk : disk'[e].by = p => q = p /\ e = d
      <3>1. \A e \in Disk : disk[e].by # p
        BY <1>5 DEF TaskOK, TaskOf
      <3> QED BY <1>3, <1>n, <3>1
    <2>2. CASE q = p
      <3>1. outcome'[p] = "doing" /\ disk'[d].task = "create"
        BY <1>3, <1>4, <2>2
      <3> QED BY <1>1, <2>1, <2>2, <3>1 DEF TaskOf, Settled, Stores, Polls
    <2>3. CASE q = NoProc
      <3>1. pc'[p] = "ret" /\ res'[p] = "err" /\ \A e \in Disk : disk'[e].by # p
        BY <1>1, <1>n, <2>1, <2>3
      <3> QED BY <3>1 DEF TaskOf, Settled
    <2> QED BY <2>2, <2>3
  <1> QED BY <1>6, <1>7 DEF TaskOK

(* A task that is seen, or not waited for, is not polled any more.         *)
LEMMA LeftTasks ==
  ASSUME TypeInv, TaskOK, DisksKept, NEW p \in Proc, Sees(p) \/ Forgets(p)
  PROVE  TaskOK'
  <1>n. NoProc \notin Proc
    BY CloudAssumption
  <1>1. /\ Others(p) /\ job' = job /\ outcome \in [Proc -> {"none", "doing", "finish", "error"}]
        /\ \A o \in Proc : o # p => outcome'[o] = outcome[o]
    BY DEF Sees, Forgets, Forget, TypeInv, TypeOK, CloudTypeOK
  <1>2. \A e \in Disk : /\ disk'[e].by # p
                        /\ disk'[e].task = disk[e].task /\ disk'[e].state = disk[e].state
                        /\ disk'[e].node = disk[e].node /\ disk'[e].to = disk[e].to
                        /\ disk'[e].by = disk[e].by \/ disk'[e].by = NoProc
    <2>1. CASE Sees(p)
      BY <2>1 DEF Sees, TaskOK, TaskOf
    <2>2. CASE Forgets(p)
      <3>1. \A e \in Disk : e # diskOf(p) => disk[e].by # p
        BY DEF TaskOK, TaskOf
      <3>2. \A e \in Disk : /\ disk'[e].task = disk[e].task /\ disk'[e].state = disk[e].state
                            /\ disk'[e].node = disk[e].node /\ disk'[e].to = disk[e].to
                            /\ disk'[e].by = IF e = diskOf(p) /\ disk[e].by = p THEN NoProc ELSE disk[e].by
        BY <2>2 DEF Forgets, Forget, TypeInv, TypeOK, CloudTypeOK, DiskRecord
      <3> QED BY <3>1, <3>2, <1>n
    <2> QED BY <2>1, <2>2
  <1>3. ASSUME NEW o \in Proc, o # p
        PROVE  TaskOf(o)'
    <2>1. /\ pc'[o] = pc[o] /\ res'[o] = res[o] /\ job'[o] = job[o] /\ defers'[o] = defers[o]
          /\ outcome'[o] = outcome[o]
      BY <1>1, <1>3 DEF Others
    <2>2. \A e \in Disk : disk'[e].by = o =>
             disk[e].by = o /\ disk'[e].task = disk[e].task /\ disk'[e].to = disk[e].to
      BY <1>2, <1>n
    <2>3. ASSUME Rests(o)
          PROVE  RestKept(o)
      <3>1. diskOf(o) \in Disk
        BY <2>3, DiskAt DEF Rests, Settled, Busy, Stores, Polls
      <3> QED BY <1>2, <3>1 DEF RestKept
    <2> QED BY <2>1, <2>2, <2>3, TaskOfOthers
  <1>4. TaskOf(p)'
    <2>1. CASE Forgets(p)
      <3>1. pc'[p] \in {"ret", "fFail", "pFail", "uFail"} /\ (pc'[p] = "ret" => res'[p] = "err")
        BY <2>1 DEF Forgets, FromTo
      <3> QED BY <1>2, <3>1 DEF TaskOf, Settled
    <2>2. CASE Sees(p)
      <3>1. disk' = disk /\ TaskOf(p) /\ diskOf(p)' = diskOf(p) /\ nodeOf(p)' = nodeOf(p)
        BY <1>1, <2>2 DEF Sees, TaskOK, diskOf, nodeOf
      <3>2. outcome[p] = "finish"
        BY <2>2 DEF Sees
      <3>3. CASE FromTo(p, {"cPoll"}, {"cIdPv"})
        <4>1. Made(diskOf(p))'
          BY <3>1, <3>2, <3>3 DEF TaskOf, FromTo, Made
        <4> QED BY <1>2, <3>3, <4>1 DEF TaskOf, FromTo, Settled
      <3>4. CASE FromTo(p, {"pPoll"}, {"pClear"})
        <4>1. On(p)'
          BY <3>1, <3>2, <3>4 DEF TaskOf, FromTo, On, Quiet, AttachedTo
        <4> QED BY <1>2, <3>4, <4>1 DEF TaskOf, FromTo, Settled
      <3>5. CASE FromTo(p, {"uPoll"}, {"uClear"})
        <4>1. Off(p)'
          BY <3>1, <3>2, <3>5 DEF TaskOf, FromTo, Off, Quiet
        <4> QED BY <1>2, <3>5, <4>1 DEF TaskOf, FromTo, Settled
      <3>6. CASE FromTo(p, {"dPoll"}, {"dPvc"}) \/ FromTo(p, {"fPoll"}, {"pCount"})
        BY <1>2, <3>6 DEF TaskOf, FromTo, Settled
      <3> QED BY <2>2, <3>3, <3>4, <3>5, <3>6 DEF Sees
    <2> QED BY <2>1, <2>2
  <1> QED BY <1>3, <1>4 DEF TaskOK

(* A task that ends has its effect when its request is told it finished;   *)
(* on a disk that another request has done with only a delete can end.     *)
LEMMA EndedTasks ==
  ASSUME TypeInv, CloudShape, TaskOK, DisksKept, NEW d \in Disk, Ends(d)
  PROVE  TaskOK'
  <1>n. NoProc \notin Proc
    BY CloudAssumption
  <1>1. PICK state, node, result :
           /\ EndTask(d, state, node, result) /\ disk[d].task # "none"
           /\ result = "finish" =>
                 /\ disk[d].task = "create" => state = "free"
                 /\ disk[d].task = "attach" => state = "attached" /\ node = disk[d].to
                 /\ disk[d].task = "detach" => state = "free"
           /\ disk[d].task = "delete" =>
                 /\ node = disk[d].node
                 /\ state = disk[d].state \/ (disk[d].state # "attached" /\ state = "gone")
           /\ result \in {"finish", "error"}
    BY DEF Ends, TaskFinishes, TaskFails, CloudShape
  <1>2. disk \in [Disk -> DiskRecord]
    BY DEF TypeInv, TypeOK, CloudTypeOK
  <1>3. /\ disk'[d].by = NoProc /\ disk'[d].state = state /\ disk'[d].node = node /\ disk'[d].task = "none"
        /\ \A e \in Disk : e # d => disk'[e] = disk[e]
    BY <1>1, <1>2 DEF EndTask, DiskRecord
  <1>4. \A o \in Proc : outcome'[o] = IF o = disk[d].by THEN result ELSE outcome[o]
    BY <1>1 DEF EndTask
  <1>5. UNCHANGED <<pc, job, res, defers>>
    BY DEF Ends, goroutines
  <1>6. ASSUME NEW o \in Proc, disk[d].by # o
        PROVE  TaskOf(o)'
    <2>1. /\ pc'[o] = pc[o] /\ res'[o] = res[o] /\ job'[o] = job[o] /\ defers'[o] = defers[o]
          /\ outcome'[o] = outcome[o]
      BY <1>4, <1>5, <1>6
    <2>2. \A e \in Disk : disk'[e].by = o => disk'[e] = disk[e]
      BY <1>3, <1>n
    <2>3. ASSUME Rests(o), On(o) \/ Off(o)
          PROVE  RestKept(o)
      <3>1. diskOf(o) \in Disk
        BY <2>3, DiskAt DEF Rests, Settled, Busy, Stores, Polls
      <3>2. CASE diskOf(o) = d
        <4>1. disk[d].task = "delete"
          BY <1>1, <2>3, <3>2 DEF On, Off, Quiet
        <4> QED BY <1>1, <1>3, <3>2, <4>1 DEF RestKept
      <3>3. CASE diskOf(o) # d
        BY <1>3, <3>1, <3>3 DEF RestKept
      <3> QED BY <3>2, <3>3
    <2> QED BY <2>1, <2>2, <2>3, TaskOfOthers
  <1>7. ASSUME NEW o \in Proc, disk[d].by = o
        PROVE  TaskOf(o)'
    <2>1. /\ diskOf(o) = d /\ pc[o] \in Stores \union Polls
          /\ pc[o] = "cPoll" => disk[d].task = "create"
          /\ pc[o] \in {"pMark", "pPoll"} => disk[d].task = "attach" /\ disk[d].to = nodeOf(o)
          /\ pc[o] \in {"uStore", "uMark", "uPoll"} => disk[d].task = "detach"
          /\ \A e \in Disk : disk[e].by = o => e = d
      BY <1>7 DEF TaskOK, TaskOf
    <2>2. /\ diskOf(o)' = d /\ nodeOf(o)' = nodeOf(o) /\ pc'[o] = pc[o]
          /\ outcome'[o] = result /\ \A e \in Disk : disk'[e].by # o
      BY <1>3, <1>4, <1>5, <1>7, <1>n, <2>1 DEF diskOf, nodeOf
    <2>3. result = "finish" /\ pc[o] = "cPoll" => Made(diskOf(o))'
      BY <1>1, <1>3, <2>1, <2>2 DEF Made
    <2>4. result = "finish" /\ pc[o] \in {"pMark", "pPoll"} => On(o)'
      BY <1>1, <1>3, <2>1, <2>2 DEF On, Quiet, AttachedTo
    <2>5. result = "finish" /\ pc[o] \in {"uStore", "uMark", "uPoll"} => Off(o)'
      BY <1>1, <1>3, <2>1, <2>2 DEF Off, Quiet
    <2> QED BY <2>1, <2>2, <2>3, <2>4, <2>5 DEF TaskOf, Settled, Stores, Polls
  <1> QED BY <1>6, <1>7 DEF TaskOK

(* TaskOK is inductive.                                                    *)
LEMMA NextTasks ==
  ASSUME HeldInv, CloudShape, TaskOK, [Next]_vars
  PROVE  TaskOK'
  <1> USE DEF HeldInv
  <1>1. CASE Crash
    <2>1. \A d \in Disk : disk'[d].by = NoProc
      BY <1>1 DEF Crash, ForgetAll, TypeInv, TypeOK, CloudTypeOK, DiskRecord
    <2> QED BY <1>1, <2>1, CloudAssumption DEF Crash, TaskOK, TaskOf, Settled
  <1>2. CASE UNCHANGED <<goroutines, maps, cloud, volumes>>
    BY <1>2 DEF goroutines, cloud, TaskOK, TaskOf, Made, On, Off, Quiet, Settled, AttachedTo, diskOf, nodeOf
  <1> QED
    BY <1>1, <1>2, Steps, DisksStay, QuietTasks, SubmittedTasks, OrderedTasks, LeftTasks, EndedTasks DEF Moves

----------------------------------------------------------------------------
(* What is known, ordered and cached.                                      *)

(* The steps that store or forget move one request, whose disk stays.      *)
LEMMA MapSteps ==
  ASSUME TypeInv, NEW p \in Proc,
         Remembers(p) \/ DeleteForgetPvc(p) \/ DeleteForgetIdPv(p)
  PROVE  /\ Others(p) /\ job' = job /\ UNCHANGED <<cloud, volumes>>
         /\ diskOf(p) \in Disk
         /\ CreateStoreIdPv(p) => pc[p] = "cIdPv" /\ pc'[p] = "cPvc" /\ pvcCreatedMap' = pvcCreatedMap
         /\ CreateStorePvc(p) => pc[p] = "cPvc" /\ pc'[p] = "cDone" /\ diskIdPvMap' = diskIdPvMap
         /\ CreateDone(p) => FromTo(p, {"cDone"}, {"ret"}) /\ UNCHANGED maps
         /\ DeleteForgetPvc(p) => FromTo(p, {"dPvc"}, {"dIdPv"}) /\ diskIdPvMap' = diskIdPvMap
         /\ DeleteForgetIdPv(p) => FromTo(p, {"dIdPv"}, {"ret"}) /\ pvcCreatedMap' = pvcCreatedMap
  <1> USE DEF TypeInv, TypeOK, CreateStoreIdPv, CreateStorePvc, CreateDone, DeleteForgetPvc, DeleteForgetIdPv,
              Goto, Return, Remembers
  <1>1. Others(p) /\ job' = job /\ UNCHANGED <<cloud, volumes>>
    BY DEF Others, cloud
  <1>2. diskOf(p) \in Disk
    BY DEF JobOK, HasDisk, DeleteAt
  <1> QED BY <1>1, <1>2 DEF FromTo, maps

(* A disk becomes known when the request that ordered it stores it.        *)
LEMMA KnownStays ==
  ASSUME TypeInv, DeferOK, [Next]_vars, NEW d \in Disk, Known(d)'
  PROVE  Known(d) \/ \E p \in Proc : CreateStorePvc(p) /\ diskOf(p) = d
  <1>n. d # NoDisk
    BY EbsAssumption
  <1>1. ASSUME NEW p \in Proc, Others(p), Answers(p)' /\ diskOf(p)' = d => Known(d),
               d \in volumes' => Known(d),
               \A v \in Pv : pvcCreatedMap'[v] = d => Known(d)
        PROVE  Known(d)
    <2>1. ASSUME NEW q \in Proc, q # p, Answers(q)', diskOf(q)' = d
          PROVE  Known(d)
      BY <1>1, <2>1 DEF Others, Answers, diskOf, Known
    <2> QED BY <1>1, <2>1 DEF Known
  <1>2. ASSUME NEW p \in Proc, UNCHANGED <<maps, volumes>>, Others(p),
               Answers(p)' /\ diskOf(p)' = d => Known(d)
        PROVE  Known(d)
    BY <1>1, <1>2 DEF maps, Known
  <1>3. ASSUME NEW p \in Proc, Wanders(p)
        PROVE  Known(d)
    BY <1>2, <1>3 DEF Wanders, Known
  <1>4. ASSUME NEW p \in Proc, Tells(p)
        PROVE  Known(d)
    <2>1. ~ Answers(p)' /\ (d \in volumes' => Known(d))
      BY <1>4 DEF Tells, FromTo, Answers, Known
    <2> QED BY <1>1, <1>4, <2>1 DEF Tells, maps, Known
  <1>5. ASSUME NEW p \in Proc, Waits(p) \/ Submits(p) \/ Orders(p) \/ Sees(p) \/ Forgets(p)
        PROVE  Known(d)
    <2>1. ~ Answers(p)' /\ Others(p) /\ UNCHANGED <<maps, volumes>>
      BY <1>5 DEF Waits, Submits, Orders, Sees, Forgets, FromTo, Answers
    <2> QED BY <1>2, <2>1
  <1>6. ASSUME NEW p \in Proc, Clears(p)
        PROVE  Known(d)
    <2>1. pc[p] \in PublishAt \union UnpublishAt
      BY <1>6 DEF Clears, FromTo, PublishAt, UnpublishAt
    <2>2. job[p].op # "create"
      BY <2>1 DEF DeferOK, DeferOf
    <2>3. ~ Answers(p)'
      BY <1>6, <2>2 DEF Clears, FromTo, Answers
    <2> QED BY <1>2, <1>6, <2>3 DEF Clears
  <1>7. ASSUME NEW p \in Proc, CreateStorePvc(p), diskOf(p) # d
        PROVE  Known(d)
    <2>1. /\ Others(p) /\ diskOf(p)' = diskOf(p) /\ volumes' = volumes /\ pvOf(p) \in Pv
          /\ diskOf(p) \in Disk
      BY <1>7, MapSteps DEF Remembers, TypeInv, JobOK, CreateAt, CreateStorePvc, diskOf
    <2>2. \A v \in Pv : pvcCreatedMap'[v] \in {pvcCreatedMap[v], diskOf(p)}
      BY <1>7, <2>1 DEF CreateStorePvc, TypeInv, TypeOK
    <2> QED BY <1>1, <1>7, <2>1, <2>2 DEF Known
  <1>8. ASSUME NEW p \in Proc, CreateStoreIdPv(p) \/ CreateDone(p)
        PROVE  Known(d)
    <2>1. Others(p) /\ job' = job /\ volumes' = volumes /\ pvcCreatedMap' = pvcCreatedMap
      BY <1>8, MapSteps DEF Remembers, maps
    <2>2. Answers(p)' => Answers(p)
      BY <1>8, MapSteps DEF Remembers, FromTo, Answers
    <2>3. Answers(p)' /\ diskOf(p)' = d => Known(d)
      BY <2>1, <2>2 DEF Known, diskOf
    <2> QED BY <1>1, <2>1, <2>3 DEF Known
  <1>9. ASSUME NEW p \in Proc, DeleteForgetPvc(p) \/ DeleteForgetIdPv(p)
        PROVE  Known(d)
    <2>1. /\ Others(p) /\ job' = job /\ volumes' = volumes
          /\ FromTo(p, {"dPvc", "dIdPv"}, {"dIdPv", "ret"})
      BY <1>9, MapSteps DEF FromTo
    <2>2. ~ Answers(p)'
      BY <2>1 DEF FromTo, Answers, DeferOK, DeferOf, DeleteAt
    <2>3. \A v \in Pv : pvcCreatedMap'[v] \in {pvcCreatedMap[v], NoDisk}
      BY <1>9 DEF DeleteForgetPvc, DeleteForgetIdPv
    <2> QED BY <1>1, <1>n, <2>1, <2>2, <2>3 DEF Known
  <1>10. CASE UNCHANGED <<goroutines, maps, volumes>>
    BY <1>10 DEF goroutines, maps, Known, Answers, diskOf
  <1>11. CASE Crash
    BY <1>11, <1>n DEF Crash, Known, Answers
  <1> QED
    BY <1>3, <1>4, <1>5, <1>6, <1>7, <1>8, <1>9, <1>10, <1>11, Steps DEF Moves, Remembers, Ends

(* KnownOK is inductive: what is stored was made.                          *)
LEMMA NextKnown ==
  ASSUME TypeInv, DeferOK, CloudShape, TaskOK, KnownOK, [Next]_vars
  PROVE  KnownOK'
  <1>1. ASSUME NEW d \in Disk, Known(d)'
        PROVE  Made(d)
    <2>1. ASSUME NEW p \in Proc, CreateStorePvc(p), diskOf(p) = d
          PROVE  Made(d)
      BY <2>1 DEF CreateStorePvc, TaskOK, TaskOf
    <2> QED BY <1>1, <2>1, KnownStays DEF KnownOK
  <1>2. ASSUME NEW d \in Disk, Made(d)
        PROVE  Made(d)'
    <2>1. disk[d].state # "none"
      BY <1>2 DEF Made
    <2> QED BY <1>2, <2>1, DisksStay DEF DisksKept
  <1>3. ASSUME NEW d \in Disk, disk'[d].state = "none"
        PROVE  disk'[d].pv = NoPv
    BY <1>3, DisksStay DEF DisksKept, KnownOK
  <1> QED BY <1>1, <1>2, <1>3 DEF KnownOK

(* Who holds an ordered disk held it before, or orders it now.             *)
LEMMA OrderStays ==
  ASSUME TypeInv, DeferOK, [Next]_vars, NEW p \in Proc, pc'[p] \in Ordered
  PROVE  \/ /\ pc[p] \in Ordered /\ diskOf(p)' = diskOf(p) /\ pvOf(p)' = pvOf(p)
            /\ pc'[p] = "cPvc" => pc[p] = "cPvc" \/ CreateStoreIdPv(p)
         \/ /\ disk[diskOf(p)'].state = "none" /\ diskOf(p)' \in Disk /\ pc'[p] = "cPoll"
            /\ disk'[diskOf(p)'].state = "new" /\ disk'[diskOf(p)'].pv = pvOf(p)'
            /\ \A q \in Proc : q # p => pc'[q] = pc[q] /\ diskOf(q)' = diskOf(q)
            /\ UNCHANGED <<maps, volumes>>
  <1> DEFINE Kept == /\ pc[p] \in Ordered /\ diskOf(p)' = diskOf(p) /\ pvOf(p)' = pvOf(p)
                     /\ pc'[p] = "cPvc" => pc[p] = "cPvc" \/ CreateStoreIdPv(p)
  <1>1. ASSUME NEW q \in Proc, q # p, Others(q)
        PROVE  Kept
    BY <1>1 DEF Others, diskOf, pvOf
  <1>2. ASSUME NEW q \in Proc, Wanders(q) \/ Tells(q) \/ Waits(q) \/ Submits(q) \/ Forgets(q) \/ Clears(q)
        PROVE  q # p /\ Others(q)
    BY <1>2 DEF Wanders, Tells, Waits, Submits, Forgets, Clears, FromTo, Busy, Stores, Polls, Ordered
  <1>3. ASSUME NEW q \in Proc, Sees(q)
        PROVE  Kept
    <2>1. CASE q = p
      BY <1>3, <2>1 DEF Sees, FromTo, Ordered, diskOf, pvOf
    <2> QED BY <1>1, <1>3, <2>1 DEF Sees
  <1>4. CASE Orders(p)
    <2>1. PICK d \in Disk : SubmitCreate(p, d, pvOf(p)) /\ diskOf(p)' = d /\ pc'[p] = "cPoll"
      BY <1>4 DEF Orders, Ordered
    <2>2. disk[d].state = "none" /\ disk'[d].state = "new" /\ disk'[d].pv = pvOf(p)
      BY <2>1 DEF SubmitCreate, TypeInv, TypeOK, CloudTypeOK, DiskRecord
    <2> QED BY <1>4, <2>1, <2>2 DEF Orders, Others, diskOf
  <1>5. ASSUME NEW q \in Proc, q # p, Orders(q)
        PROVE  Kept
    BY <1>1, <1>5 DEF Orders
  <1>6. ASSUME NEW q \in Proc, Remembers(q) \/ DeleteForgetPvc(q) \/ DeleteForgetIdPv(q)
        PROVE  Kept
    <2>1. CASE q = p
      <3>1. CreateStoreIdPv(p) /\ job' = job /\ pc[p] = "cIdPv"
        BY <1>6, <2>1, MapSteps DEF Remembers, FromTo, Ordered
      <3> QED BY <3>1 DEF Ordered, diskOf, pvOf
    <2> QED BY <1>1, <1>6, <2>1, MapSteps
  <1>7. CASE UNCHANGED goroutines
    BY <1>7 DEF goroutines, diskOf, pvOf
  <1>8. CASE Crash
    BY <1>8 DEF Crash, Ordered
  <1> QED BY <1>1, <1>2, <1>3, <1>4, <1>5, <1>6, <1>7, <1>8, Steps DEF Ends, Moves

(* What diskIdPvMap has for a disk that nobody knows stays, unless its     *)
(* request stores it.                                                      *)
LEMMA IdPvStays ==
  ASSUME TypeInv, DeferOK, [Next]_vars, ~ Crash, NEW d \in Disk, ~ Known(d)
  PROVE  \/ diskIdPvMap'[d] = diskIdPvMap[d]
         \/ \E p \in Proc : CreateStoreIdPv(p) /\ diskOf(p) = d
  <1>1. ASSUME NEW p \in Proc, Moves(p)
        PROVE  diskIdPvMap' = diskIdPvMap
    BY <1>1 DEF Moves, Wanders, Tells, Waits, Submits, Orders, Sees, Forgets, Clears, maps
  <1>2. ASSUME NEW p \in Proc, DeleteForgetIdPv(p)
        PROVE  diskIdPvMap'[d] = diskIdPvMap[d]
    <2>1. diskOf(p) \in volumes
      BY <1>2 DEF DeleteForgetIdPv, DeferOK, DeferOf, DeleteAt
    <2>2. diskOf(p) # d
      BY <2>1 DEF Known
    <2> QED BY <1>2, <2>2 DEF DeleteForgetIdPv, TypeInv, TypeOK
  <1>3. ASSUME NEW p \in Proc, CreateStoreIdPv(p), diskOf(p) # d
        PROVE  diskIdPvMap'[d] = diskIdPvMap[d]
    BY <1>3 DEF CreateStoreIdPv, TypeInv, TypeOK
  <1>4. ASSUME NEW p \in Proc, CreateStorePvc(p) \/ CreateDone(p) \/ DeleteForgetPvc(p)
        PROVE  diskIdPvMap' = diskIdPvMap
    BY <1>4, MapSteps DEF Remembers, maps
  <1> QED BY <1>1, <1>2, <1>3, <1>4, Steps DEF Remembers, Ends, maps

(* OrderOK is inductive: an order takes a disk nobody has, and who stores  *)
(* one makes no other request's known.                                     *)
LEMMA NextOrder ==
  ASSUME TypeInv, DeferOK, CloudShape, KnownOK, OrderOK, [Next]_vars
  PROVE  OrderOK'
  <1> SUFFICES ASSUME NEW p \in Proc, pc'[p] \in Ordered
               PROVE  /\ disk'[diskOf(p)'].state # "none" /\ disk'[diskOf(p)'].pv = pvOf(p)'
                      /\ ~ Known(diskOf(p))'
                      /\ \A q \in Proc : pc'[q] \in Ordered /\ diskOf(q)' = diskOf(p)' => q = p
                      /\ pc'[p] = "cPvc" => diskIdPvMap'[diskOf(p)'] = pvOf(p)'
    BY DEF OrderOK
  <1>1. CASE /\ pc[p] \in Ordered /\ diskOf(p)' = diskOf(p) /\ pvOf(p)' = pvOf(p)
             /\ pc'[p] = "cPvc" => pc[p] = "cPvc" \/ CreateStoreIdPv(p)
    <2>d. PICK d \in Disk : d = diskOf(p) /\ d = diskOf(p)'
      BY <1>1 DEF TypeInv, JobOK, HasDisk, Ordered
    <2>1. disk[d].state # "none" /\ disk[d].pv = pvOf(p) /\ ~ Known(d)
      BY <1>1, <2>d DEF OrderOK
    <2>2. disk'[d].state # "none" /\ disk'[d].pv = pvOf(p)
      BY <2>1, DisksStay DEF DisksKept
    <2>3. ~ Known(d)'
      <3>1. ASSUME NEW q \in Proc, CreateStorePvc(q), diskOf(q) = d
            PROVE  FALSE
        <4>1. pc[q] \in Ordered /\ pc'[q] \notin Ordered
          BY <3>1, MapSteps DEF Remembers, Ordered
        <4> QED BY <1>1, <2>d, <3>1, <4>1 DEF OrderOK
      <3> QED BY <2>1, <3>1, KnownStays
    <2>4. ASSUME NEW q \in Proc, pc'[q] \in Ordered, diskOf(q)' = d
          PROVE  q = p
      <3>1. pc[q] \in Ordered /\ diskOf(q) = d
        BY <2>1, <2>4, OrderStays
      <3> QED BY <1>1, <2>d, <3>1 DEF OrderOK
    <2>5. ASSUME pc'[p] = "cPvc"
          PROVE  diskIdPvMap'[d] = pvOf(p)
      <3>c. ~ Crash
        BY <2>5 DEF Crash
      <3>1. ASSUME NEW q \in Proc, CreateStoreIdPv(q), diskOf(q) = d
            PROVE  diskIdPvMap'[d] = pvOf(p)
        <4>1. q = p
          BY <1>1, <2>d, <3>1 DEF OrderOK, Ordered, CreateStoreIdPv
        <4> QED BY <3>1, <4>1 DEF CreateStoreIdPv, TypeInv, TypeOK
      <3>2. CASE pc[p] = "cPvc" /\ diskIdPvMap'[d] = diskIdPvMap[d]
        BY <2>d, <3>2 DEF OrderOK, Ordered
      <3> QED BY <1>1, <2>1, <2>5, <2>d, <3>1, <3>2, <3>c, IdPvStays
    <2> QED BY <1>1, <2>d, <2>2, <2>3, <2>4, <2>5
  <1>2. CASE /\ disk[diskOf(p)'].state = "none" /\ diskOf(p)' \in Disk /\ pc'[p] = "cPoll"
             /\ disk'[diskOf(p)'].state = "new" /\ disk'[diskOf(p)'].pv = pvOf(p)'
             /\ \A q \in Proc : q # p => pc'[q] = pc[q] /\ diskOf(q)' = diskOf(q)
             /\ UNCHANGED <<maps, volumes>>
    <2>d. PICK d \in Disk : d = diskOf(p)'
      BY <1>2
    <2>3. ~ Known(d)'
      <3>1. ~ Known(d)
        BY <1>2, <2>d DEF KnownOK, Made
      <3>2. ASSUME NEW q \in Proc, CreateStorePvc(q), diskOf(q) = d
            PROVE  FALSE
        BY <1>2, <2>d, <3>2 DEF CreateStorePvc, Ordered, OrderOK
      <3> QED BY <3>1, <3>2, KnownStays
    <2>4. ASSUME NEW q \in Proc, pc'[q] \in Ordered, diskOf(q)' = d, q # p
          PROVE  FALSE
      BY <1>2, <2>d, <2>4 DEF OrderOK
    <2> QED BY <1>2, <2>d, <2>3, <2>4
  <1> QED BY <1>1, <1>2, OrderStays

(* CacheOK is inductive: what is stored is nobody else's, and what is      *)
(* deleted is found under the name it was made for.                        *)
LEMMA NextCache ==
  ASSUME TypeInv, DeferOK, CloudShape, KnownOK, OrderOK, CacheOK, [Next]_vars
  PROVE  CacheOK'
  <1>t. /\ pvcCreatedMap \in [Pv -> Disk \union {NoDisk}] /\ NoDisk \notin Disk
        /\ diskIdPvMap \in [Disk -> Pv \union {NoPv}]
    BY EbsAssumption DEF TypeInv, TypeOK
  <1>k. ASSUME NEW v \in Pv, pvcCreatedMap[v] # NoDisk
        PROVE  /\ pvcCreatedMap[v] \in Disk /\ Known(pvcCreatedMap[v])
               /\ disk'[pvcCreatedMap[v]].pv = v
    <2>1. pvcCreatedMap[v] \in Disk /\ Known(pvcCreatedMap[v])
      BY <1>k, <1>t DEF Known
    <2>2. disk[pvcCreatedMap[v]].state # "none" /\ disk[pvcCreatedMap[v]].pv = v
      BY <1>k, <2>1 DEF KnownOK, Made, CacheOK
    <2> QED BY <2>1, <2>2, DisksStay DEF DisksKept
  <1>c. CASE Crash
    BY <1>c DEF Crash, CacheOK
  <1>s. ASSUME NEW p \in Proc, CreateStorePvc(p)
        PROVE  /\ pvOf(p) \in Pv /\ diskOf(p) \in Disk /\ ~ Known(diskOf(p)) /\ pc[p] = "cPvc"
               /\ disk[diskOf(p)].pv = pvOf(p) /\ disk'[diskOf(p)] = disk[diskOf(p)]
               /\ diskIdPvMap[diskOf(p)] = pvOf(p) /\ diskIdPvMap' = diskIdPvMap
               /\ pvcCreatedMap' = [pvcCreatedMap EXCEPT ![pvOf(p)] = diskOf(p)]
    BY <1>s, MapSteps DEF Remembers, CreateStorePvc, TypeInv, JobOK, CreateAt, Ordered, OrderOK, cloud
  <1>m. ASSUME NEW p \in Proc, Moves(p)
        PROVE  UNCHANGED maps
    BY <1>m DEF Moves, Wanders, Tells, Waits, Submits, Orders, Sees, Forgets, Clears
  <1>p. ASSUME ~ Crash, NEW v \in Pv, pvcCreatedMap'[v] # NoDisk
        PROVE  \/ pvcCreatedMap'[v] = pvcCreatedMap[v]
               \/ \E p \in Proc : CreateStorePvc(p) /\ v = pvOf(p) /\ pvcCreatedMap'[v] = diskOf(p)
    <2>1. ASSUME NEW p \in Proc, CreateStorePvc(p)
          PROVE  pvcCreatedMap'[v] = pvcCreatedMap[v] \/ (v = pvOf(p) /\ pvcCreatedMap'[v] = diskOf(p))
      BY <1>t, <1>s, <2>1
    <2>2. ASSUME NEW p \in Proc, DeleteForgetPvc(p)
          PROVE  pvcCreatedMap'[v] = pvcCreatedMap[v]
      BY <1>p, <2>2 DEF DeleteForgetPvc
    <2>3. ASSUME NEW p \in Proc, CreateStoreIdPv(p) \/ CreateDone(p) \/ DeleteForgetIdPv(p)
          PROVE  pvcCreatedMap' = pvcCreatedMap
      BY <2>3, MapSteps DEF Remembers, maps
    <2> QED BY <1>m, <1>p, <2>1, <2>2, <2>3, Steps DEF Remembers, Ends, maps
  <1>1. ASSUME ~ Crash, NEW v \in Pv, pvcCreatedMap'[v] # NoDisk
        PROVE  diskIdPvMap'[pvcCreatedMap'[v]] = v /\ disk'[pvcCreatedMap'[v]].pv = v
    <2>1. CASE pvcCreatedMap'[v] = pvcCreatedMap[v]
      <3>d. PICK d \in Disk : d = pvcCreatedMap[v] /\ Known(d) /\ diskIdPvMap[d] = v
        BY <1>1, <1>k, <2>1 DEF CacheOK
      <3>1. ASSUME NEW p \in Proc, CreateStoreIdPv(p)
            PROVE  diskIdPvMap'[d] = diskIdPvMap[d]
        <4>1. diskOf(p) # d
          BY <3>1, <3>d DEF CreateStoreIdPv, OrderOK, Ordered
        <4> QED BY <1>t, <3>1, <4>1 DEF CreateStoreIdPv
      <3>2. ASSUME NEW p \in Proc, DeleteForgetIdPv(p)
            PROVE  diskIdPvMap'[d] = diskIdPvMap[d]
        <4>1. diskOf(p) # d
          BY <3>2, <3>d DEF DeleteForgetIdPv, CacheOK
        <4> QED BY <1>t, <3>2, <4>1 DEF DeleteForgetIdPv
      <3>3. ASSUME NEW p \in Proc, CreateStorePvc(p) \/ CreateDone(p) \/ DeleteForgetPvc(p)
            PROVE  diskIdPvMap' = diskIdPvMap
        BY <3>3, MapSteps DEF Remembers, maps
      <3>4. diskIdPvMap'[d] = diskIdPvMap[d]
        BY <1>1, <1>m, <3>1, <3>2, <3>3, Steps DEF Remembers, Ends, maps
      <3> QED BY <1>1, <1>k, <2>1, <3>4, <3>d
    <2>2. ASSUME NEW p \in Proc, CreateStorePvc(p), v = pvOf(p), pvcCreatedMap'[v] = diskOf(p)
          PROVE  diskIdPvMap'[pvcCreatedMap'[v]] = v /\ disk'[pvcCreatedMap'[v]].pv = v
      BY <1>s, <2>2
    <2> QED BY <1>1, <1>p, <2>1, <2>2
  <1>2. ASSUME ~ Crash, NEW q \in Proc, pc'[q] = "dIdPv", NEW v \in Pv, pvcCreatedMap'[v] = diskOf(q)'
        PROVE  FALSE
    <2>1. CASE DeleteForgetPvc(q)
      <3>1. diskOf(q)' = diskOf(q) /\ diskOf(q) \in Disk
        BY <2>1, MapSteps DEF diskOf
      <3>2. v # diskIdPvMap[diskOf(q)] /\ pvcCreatedMap[v] = diskOf(q)
        BY <1>t, <1>2, <2>1, <3>1 DEF DeleteForgetPvc
      <3> QED BY <1>t, <3>1, <3>2 DEF CacheOK
    <2>2. CASE ~ DeleteForgetPvc(q)
      <3>1. pc[q] = "dIdPv" /\ diskOf(q)' = diskOf(q)
        <4>1. ASSUME NEW p \in Proc, Others(p), p # q
              PROVE  pc[q] = "dIdPv" /\ diskOf(q)' = diskOf(q)
          BY <1>2, <4>1 DEF Others, diskOf
        <4>2. ASSUME NEW p \in Proc, Moves(p)
              PROVE  Others(p) /\ p # q
          BY <1>2, <4>2 DEF Moves, Wanders, Tells, Waits, Submits, Orders, Sees, Forgets, Clears, FromTo, Busy
        <4>3. ASSUME NEW p \in Proc, Remembers(p) \/ DeleteForgetIdPv(p) \/ DeleteForgetPvc(p)
              PROVE  Others(p) /\ p # q
          BY <1>2, <2>2, <4>3, MapSteps DEF Remembers, FromTo
        <4>4. CASE UNCHANGED goroutines
          BY <1>2, <4>4 DEF goroutines, diskOf
        <4> QED BY <1>2, <4>1, <4>2, <4>3, <4>4, Steps DEF Ends
      <3>2. diskOf(q) \in Disk /\ Known(diskOf(q)) /\ pvcCreatedMap[v] # diskOf(q)
        BY <3>1 DEF DeferOK, DeferOf, DeleteAt, TypeInv, JobOK, HasDisk, Known, CacheOK
      <3>3. ASSUME NEW p \in Proc, CreateStorePvc(p), pvcCreatedMap'[v] = diskOf(p)
            PROVE  FALSE
        BY <1>2, <1>s, <3>1, <3>2, <3>3
      <3> QED BY <1>2, <1>p, <1>t, <3>1, <3>2, <3>3
    <2> QED BY <2>1, <2>2
  <1> QED BY <1>1, <1>2, <1>c DEF CacheOK

----------------------------------------------------------------------------
(* The invariant, and what follows from it.                                *)

(* It holds at the start: no request runs, nothing is stored, and the      *)
(* disks Kubernetes knows of were made before.                             *)
LEMMA InitIInv ==
  ASSUME Init
  PROVE  IInv /\ DetachMarksOwned
  <1>1. TypeInv
    BY InitTypeInv
  <1>2. /\ \A p \in Proc : pc[p] = "idle" /\ defers[p] = {}
        /\ \A d \in Disk : diskIdPvMap[d] = NoPv /\ disk[d].by = NoProc /\ diskDeletingMap[d] = "none"
        /\ \A d \in Provisioned : disk[d].state = "free"
        /\ \A d \in Disk : disk[d].pv = NoPv
        /\ \A v \in Pv : pvcCreatedMap[v] = NoDisk /\ diskProcessingMap[v] = "none"
        /\ volumes = Provisioned
    BY CloudAssumption DEF Init, MemoryInit, CloudInit, NewDisk
  <1>3. CloudShape
    BY CloudAssumption DEF Init, CloudInit, NewDisk, CloudShape
  <1>4. LocksOwned
    BY DEF Init, MemoryInit, LocksOwned, HoldsNode, HoldsDisk
  <1>5. DeferOK /\ MarksOK
    BY <1>2 DEF DeferOK, DeferOf, CreateAt, DeleteAt, PublishAt, UnpublishAt, Unlocked, DiskHeld, Creating,
                MarksOK, InCreate, InDelete
  <1>6. TaskOK
    BY <1>2, CloudAssumption DEF TaskOK, TaskOf, Settled
  <1>7. KnownOK
    BY <1>2, EbsAssumption DEF KnownOK, Known, Answers, Made
  <1>8. OrderOK /\ CacheOK
    BY <1>2 DEF OrderOK, CacheOK, Ordered
  <1>9. DetachMarksOwned
    BY DEF Init, MemoryInit, DetachMarksOwned
  <1> QED BY <1>1, <1>3, <1>4, <1>5, <1>6, <1>7, <1>8, <1>9 DEF IInv, HeldInv

(* Every step keeps it.                                                    *)
LEMMA NextIInv ==
  ASSUME IInv, DetachMarksOwned, [Next]_vars
  PROVE  IInv' /\ DetachMarksOwned'
  <1>1. HeldInv'
    BY NextTypeInv, NextLocks, NextDefers DEF IInv, HeldInv
  <1> QED
    BY <1>1, NextMarks, NextShape, NextTasks, NextKnown, NextOrder, NextCache, NextDetach DEF IInv, HeldInv

(* So it always holds.                                                     *)
THEOREM EbsInvariant == Spec => [](IInv /\ DetachMarksOwned)
  BY InitIInv, NextIInv, PTL DEF Spec

(* One request at a time creates a volume and one deletes a disk, and the  *)
(* marks "creating" and "deleting" are those of requests in progress: the  *)
(* mark is stored before the call is deferred that takes it away, in the   *)
(* same request.                                                           *)
THEOREM VolumeMarksAreOwned == Spec => []VolumeMarksOwned
  <1>1. IInv => VolumeMarksOwned
    <2> SUFFICES ASSUME IInv PROVE VolumeMarksOwned
      OBVIOUS
    <2>1. \A p \in Proc : Creating(p) => InCreate(p)
      BY DEF IInv, HeldInv, DeferOK, DeferOf, Creating, InCreate
    <2> QED BY <2>1 DEF IInv, MarksOK, VolumeMarksOwned, InCreate, InDelete
  <1> QED BY <1>1, EbsInvariant, PTL

(* What CreateVolume answers from pvcCreatedMap was completely made for    *)
(* the volume, and DeleteVolume of that disk finds it in diskIdPvMap.      *)
THEOREM CacheIsConsistent == Spec => []CacheConsistent
  <1>1. IInv => CacheConsistent
    <2> SUFFICES ASSUME IInv, NEW v \in Pv, pvcCreatedMap[v] # NoDisk
                 PROVE  /\ disk[pvcCreatedMap[v]].pv = v /\ diskIdPvMap[pvcCreatedMap[v]] = v
                        /\ disk[pvcCreatedMap[v]].state \in {"free", "attached", "gone"}
      BY DEF CacheConsistent
    <2>1. pvcCreatedMap[v] \in Disk /\ Known(pvcCreatedMap[v])
      BY DEF IInv, HeldInv, TypeInv, TypeOK, Known
    <2>2. Made(pvcCreatedMap[v])
      BY <2>1 DEF IInv, KnownOK
    <2>3. disk[pvcCreatedMap[v]] \in DiskRecord
      BY <2>1 DEF IInv, HeldInv, TypeInv, TypeOK, CloudTypeOK
    <2>4. disk[pvcCreatedMap[v]].state \in {"free", "attached", "gone"}
      BY <2>2, <2>3 DEF DiskRecord, DiskState, Made
    <2> QED BY <2>1, <2>4 DEF IInv, CacheOK
  <1> QED BY <1>1, EbsInvariant, PTL

(* However a ControllerUnpublishVolume ends, it leaves neither the mark    *)
(* "detaching" nor an event id behind.                                     *)
THEOREM DetachMarksAreOwned == Spec => []DetachMarksOwned
  BY EbsInvariant, PTL

(* While the disk is locked nobody else changes where it is, so what a     *)
(* publish or an unpublish answers is true when it is answered.            *)
THEOREM AnswersHoldUnderLock == Spec => []AnswerHoldsUnderLock
  <1>1. IInv => AnswerHoldsUnderLock
    <2> SUFFICES ASSUME IInv, NEW p \in Proc
                 PROVE  /\ job[p].op = "publish" /\ (pc[p] = "pClear" \/ Settled(p)) => On(p)
                        /\ job[p].op = "unpublish" /\ (pc[p] = "uClear" \/ Settled(p)) => Off(p)
      BY DEF AnswerHoldsUnderLock, Settled, On, Off, AttachedTo
    <2> QED BY DEF IInv, TaskOK, TaskOf
  <1> QED BY <1>1, EbsInvariant, PTL

(* A CreateVolume that failed is final: a step that makes a disk for the   *)
(* volume, or takes the mark "error" away, would be of a request that has  *)
(* stored "creating" there.                                                *)
THEOREM FailedCreatesAreFinal == Spec => FailedCreateIsFinal
  <1>1. IInv /\ [Next]_vars => FinalStep
    BY NextFinal DEF IInv, HeldInv
  <1>2. Spec => [][FinalStep]_vars
    BY <1>1, EbsInvariant, PTL DEF Spec
  <1> QED BY <1>2 DEF FailedCreateIsFinal, FinalStep
=============================================================================
