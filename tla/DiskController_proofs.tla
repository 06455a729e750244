------------------------ MODULE DiskController_proofs ------------------------
(***************************************************************************)
(* Proofs about DiskController, for every number of requests, names, disks *)
(* and nodes: the types are kept, marks belong to requests, and what       *)
(* CreateVolume answers from its cache was made for the name, although no  *)
(* request excludes another.  What stands in for a lock is that an order   *)
(* gives a disk that nobody else knows (OrderOK) until it is kept in both  *)
(* maps, and that only a disk Kubernetes was told of is deleted.           *)
(***************************************************************************)
EXTENDS DiskController, CloudDisk_proofs, TLAPS

CreateAt == {"cCached", "cMark", "cAgain", "cSubmit", "cStore", "cPoll", "cKeep"}
DeleteAt == {"dMark", "dInfo", "dSubmit", "dStore", "dPoll", "dDone"}
PublishAt == {"pMark", "pInfo", "pReady", "fSubmit", "fStore", "fPoll", "pSubmit", "pStore", "pPoll"}
UnpublishAt == {"uMark", "uInfo", "uSubmit", "uStore", "uPoll"}
Ordered == {"cStore", "cPoll", "cKeep"}
HasDisk == Ordered \union DeleteAt \union PublishAt \union UnpublishAt
Stores == {"cStore", "dStore", "fStore", "pStore", "uStore"}
Polls == {"cPoll", "dPoll", "fPoll", "pPoll", "uPoll"}

(* A request has the arguments its handler uses where it is.               *)
JobOK ==
    \A p \in Proc :
        /\ pc[p] \in CreateAt => pvOf(p) \in Pv
        /\ pc[p] \in HasDisk => diskOf(p) \in Disk
        /\ pc[p] \in PublishAt \union UnpublishAt => nodeOf(p) \in Node
        /\ pc[p] = "ret" /\ res[p] = "ok" => diskOf(p) \in Disk
        /\ pc[p] \in DeleteAt => job[p].op = "delete" /\ diskOf(p) \in volumes
        /\ pc[p] \in PublishAt => job[p].op = "publish"
        /\ pc[p] \in UnpublishAt => job[p].op = "unpublish"

TypeInv == TypeOK /\ JobOK

Made(d) == disk[d].state \notin {"none", "new", "broken"}

(* Who polls a disk's task is about that disk, and waits; a task it has    *)
(* seen finish has had its effect.                                         *)
TaskOf(p) ==
    /\ \A d \in Disk : disk[d].by = p =>
          /\ diskOf(p) = d /\ pc[p] \in Stores \union Polls /\ outcome[p] = "doing"
          /\ pc[p] \in {"cStore", "cPoll"} => disk[d].task = "create"
          /\ pc[p] \in {"dStore", "dPoll"} => disk[d].task = "delete"
    /\ pc[p] \in {"cStore", "cPoll"} /\ outcome[p] = "finish" => Made(diskOf(p))
    /\ pc[p] = "cKeep" => Made(diskOf(p))
    /\ pc[p] \in {"dStore", "dPoll"} /\ outcome[p] = "finish" => disk[diskOf(p)].state = "gone"
    /\ pc[p] = "dDone" => disk[diskOf(p)].state = "gone"
TaskOK == \A p \in Proc : TaskOf(p)

Answers(p) == pc[p] = "ret" /\ res[p] = "ok" /\ job[p].op = "create"

(* Where a disk is known beyond the request that ordered it.               *)
Known(d) ==
    \/ d \in volumes \/ diskIdPvMap[d] # NoPv
    \/ \E v \in Pv : pvcCreatedMap[v] = d
    \/ \E p \in Proc : Answers(p) /\ diskOf(p) = d

KnownOK == \A d \in Disk : Known(d) => Made(d)

(* What was ordered for a name is the request's own.                       *)
OrderOK ==
    \A p \in Proc : pc[p] \in Ordered =>
        /\ disk[diskOf(p)].state # "none" /\ disk[diskOf(p)].pv = pvOf(p)
        /\ ~ Known(diskOf(p))
        /\ \A q \in Proc : pc[q] \in Ordered /\ diskOf(q) = diskOf(p) => q = p

CacheOK ==
    /\ \A v \in Pv : pvcCreatedMap[v] # NoDisk =>
          diskIdPvMap[pvcCreatedMap[v]] = v /\ disk[pvcCreatedMap[v]].pv = v
    /\ \A p \in Proc : pc[p] = "dDone" => \A v \in Pv : pvcCreatedMap[v] # diskOf(p)

IInv == TypeInv /\ CloudShape /\ TaskOK /\ KnownOK /\ OrderOK /\ CacheOK

----------------------------------------------------------------------------
(* Types, and what a request has.                                          *)

(* A new process has empty maps and idle goroutines.                       *)
LEMMA InitTypeInv == Init => TypeInv
  <1>1. Init => TypeOK
    BY CloudInitTypeOK, CloudAssumption DEF Init, Fresh, TypeOK, Request, NoRequest, Location
  <1>2. Init => JobOK
    BY DEF Init, Fresh, JobOK, CreateAt, DeleteAt, PublishAt, UnpublishAt, Ordered, HasDisk
  <1> QED BY <1>1, <1>2 DEF TypeInv

(* CreateVolume learns its disk from the cloud or from the cache.          *)
LEMMA JobDiskUpdate ==
  ASSUME job \in [Proc -> Request], NEW p \in Proc, NEW d \in Disk
  PROVE  [job EXCEPT ![p].disk = d] \in [Proc -> Request]
  BY DEF Request

(* CreateVolume.                                                           *)
LEMMA CreateTypeInv ==
  ASSUME TypeInv, CloudShape, NEW p \in Proc, CreateVolume(p)
  PROVE  TypeInv'
  <1> USE DEF TypeInv, TypeOK, JobOK, pvOf, diskOf, nodeOf, CreateAt, DeleteAt, PublishAt, UnpublishAt,
              Ordered, HasDisk, cloud, caches, marks
  <1>1. CASE CreateCached(p)
    <2>job. job' \in [Proc -> Request]
      BY <1>1, JobDiskUpdate DEF CreateCached, AnswerCached, Goto, Return, Refuse, Continue, Succeed
    <2>1. TypeOK'
      BY <1>1, <2>job
         DEF CloudTypeOK, Location, CreateCached, AnswerCached, Goto, Return, Refuse, Continue, Succeed
    <2>2. JobOK'
      BY <1>1, <2>job DEF CreateCached, AnswerCached, Goto, Return, Refuse, Continue, Succeed, Request
    <2> QED BY <2>1, <2>2
  <1>2. CASE CreateMark(p)
    <2>1. TypeOK'
      BY <1>2 DEF CloudTypeOK, Location, CreateMark, Goto, Return, Refuse, Continue, Succeed
    <2>2. JobOK'
      BY <1>2 DEF CreateMark, Goto, Return, Refuse, Continue, Succeed
    <2> QED BY <2>1, <2>2
  <1>3. CASE CreateAgain(p)
    <2>job. job' \in [Proc -> Request]
      BY <1>3, JobDiskUpdate DEF CreateAgain, AnswerCached, Goto, Return, Refuse, Continue, Succeed
    <2>1. TypeOK'
      BY <1>3, <2>job
         DEF CloudTypeOK, Location, CreateAgain, AnswerCached, Goto, Return, Refuse, Continue, Succeed
    <2>2. JobOK'
      BY <1>3, <2>job DEF CreateAgain, AnswerCached, Goto, Return, Refuse, Continue, Succeed, Request
    <2> QED BY <2>1, <2>2
  <1>4. CASE CreateSubmit(p)
    <2>cloud. CloudTypeOK'
      BY <1>4, SubmitCreateTypeOK DEF CloudTypeOK, CreateSubmit, Refuse
    <2>job. job' \in [Proc -> Request]
      BY <1>4, JobDiskUpdate DEF CreateSubmit, Return, Refuse
    <2>1. TypeOK'
      BY <1>4, <2>cloud, <2>job DEF Location, CreateSubmit, Return, Refuse
    <2>2. JobOK'
      BY <1>4, <2>job DEF CreateSubmit, Return, Refuse, Request
    <2> QED BY <2>1, <2>2
  <1>5. CASE CreateStore(p)
    <2>1. TypeOK'
      BY <1>5 DEF CloudTypeOK, Location, CreateStore, MarkIn, Goto, Return, Refuse, Continue, Succeed
    <2>2. JobOK'
      BY <1>5 DEF CreateStore, Goto, Return, Refuse, Continue, Succeed
    <2> QED BY <2>1, <2>2
  <1>6. CASE CreatePoll(p)
    <2>cloud. CloudTypeOK'
      BY <1>6, ForgetTypeOK DEF CloudTypeOK, CreatePoll, Finished, GaveUp
    <2>1. TypeOK'
      BY <1>6, <2>cloud DEF Location, CreatePoll, Finished, GaveUp, MarkIn, Goto, Return
    <2>2. JobOK'
      BY <1>6 DEF CreatePoll, Finished, GaveUp, Goto, Return
    <2> QED BY <2>1, <2>2
  <1>7. CASE CreateKeep(p)
    <2>1. TypeOK'
      BY <1>7 DEF CloudTypeOK, Location, CreateKeep, MarkIn, Goto, Return, Refuse, Continue, Succeed
    <2>2. JobOK'
      BY <1>7 DEF CreateKeep, Goto, Return, Refuse, Continue, Succeed
    <2> QED BY <2>1, <2>2
  <1> QED BY <1>1, <1>2, <1>3, <1>4, <1>5, <1>6, <1>7 DEF CreateVolume

(* DeleteVolume.                                                           *)
LEMMA DeleteTypeInv ==
  ASSUME TypeInv, CloudShape, NEW p \in Proc, DeleteVolume(p)
  PROVE  TypeInv'
  <1> USE DEF TypeInv, TypeOK, JobOK, pvOf, diskOf, nodeOf, CreateAt, DeleteAt, PublishAt, UnpublishAt,
              Ordered, HasDisk, cloud, caches, marks
  <1>1. CASE DeleteMark(p)
    <2>1. TypeOK'
      BY <1>1 DEF CloudTypeOK, Location, DeleteMark, Goto, Return, Refuse, Continue, Succeed
    <2>2. JobOK'
      BY <1>1 DEF DeleteMark, Goto, Return, Refuse, Continue, Succeed
    <2> QED BY <2>1, <2>2
  <1>2. CASE DeleteInfo(p)
    <2>1. TypeOK'
      BY <1>2 DEF CloudTypeOK, Location, DeleteInfo, Goto, Return, Refuse, Continue, Succeed
    <2>2. JobOK'
      BY <1>2 DEF DeleteInfo, Goto, Return, Refuse, Continue, Succeed
    <2> QED BY <2>1, <2>2
  <1>3. CASE DeleteSubmit(p)
    <2>cloud. CloudTypeOK'
      BY <1>3, SubmitTypeOK DEF CloudTypeOK, TaskKind, DeleteSubmit, StartTask, Refuse
    <2>1. TypeOK'
      BY <1>3, <2>cloud DEF Location, DeleteSubmit, StartTask, Goto, Return, Refuse
    <2>2. JobOK'
      BY <1>3 DEF DeleteSubmit, StartTask, Goto, Return, Refuse
    <2> QED BY <2>1, <2>2
  <1>4. CASE DeleteStore(p)
    <2>1. TypeOK'
      BY <1>4 DEF CloudTypeOK, Location, DeleteStore, MarkIn, Goto, Return, Refuse, Continue, Succeed
    <2>2. JobOK'
      BY <1>4 DEF DeleteStore, Goto, Return, Refuse, Continue, Succeed
    <2> QED BY <2>1, <2>2
  <1>5. CASE DeletePoll(p)
    <2>cloud. CloudTypeOK'
      BY <1>5, ForgetTypeOK DEF CloudTypeOK, DeletePoll, Finished, GaveUp
    <2>1. TypeOK'
      BY <1>5, <2>cloud DEF Location, DeletePoll, Finished, GaveUp, MarkIn, Goto, Return
    <2>2. JobOK'
      BY <1>5 DEF DeletePoll, Finished, GaveUp, Goto, Return
    <2> QED BY <2>1, <2>2
  <1>6. CASE DeleteDone(p)
    <2>1. TypeOK'
      BY <1>6 DEF CloudTypeOK, Location, DeleteDone, MarkIn, Goto, Return, Refuse, Continue, Succeed
    <2>2. JobOK'
      BY <1>6 DEF DeleteDone, Goto, Return, Refuse, Continue, Succeed
    <2> QED BY <2>1, <2>2
  <1> QED BY <1>1, <1>2, <1>3, <1>4, <1>5, <1>6 DEF DeleteVolume

(* ControllerPublishVolume.                                                *)
LEMMA PublishTypeInv ==
  ASSUME TypeInv, CloudShape, NEW p \in Proc, ControllerPublishVolume(p)
  PROVE  TypeInv'
  <1> USE DEF TypeInv, TypeOK, JobOK, pvOf, diskOf, nodeOf, CreateAt, DeleteAt, PublishAt, UnpublishAt,
              Ordered, HasDisk, cloud, caches, marks
  <1>1. CASE PublishMark(p)
    <2>1. TypeOK'
      BY <1>1 DEF CloudTypeOK, Location, PublishMark, Goto, Return, Refuse, Continue, Succeed
    <2>2. JobOK'
      BY <1>1 DEF PublishMark, Goto, Return, Refuse, Continue, Succeed
    <2> QED BY <2>1, <2>2
  <1>2. CASE PublishInfo(p)
    <2>1. TypeOK'
      BY <1>2 DEF CloudTypeOK, Location, PublishInfo, Goto, Return, Refuse, Continue, Succeed
    <2>2. JobOK'
      BY <1>2 DEF PublishInfo, Goto, Return, Refuse, Continue, Succeed
    <2> QED BY <2>1, <2>2
  <1>3. CASE PublishReady(p)
    <2>1. TypeOK'
      BY <1>3 DEF CloudTypeOK, Location, PublishReady, Goto, Return, Refuse, Continue, Succeed
    <2>2. JobOK'
      BY <1>3 DEF PublishReady, Goto, Return, Refuse, Continue, Succeed
    <2> QED BY <2>1, <2>2
  <1>4. CASE ForceDetachSubmit(p)
    <2>cloud. CloudTypeOK'
      BY <1>4, SubmitTypeOK DEF CloudTypeOK, TaskKind, ForceDetachSubmit, StartTask, Refuse
    <2>1. TypeOK'
      BY <1>4, <2>cloud DEF Location, ForceDetachSubmit, StartTask, Goto, Return, Refuse
    <2>2. JobOK'
      BY <1>4 DEF ForceDetachSubmit, StartTask, Goto, Return, Refuse
    <2> QED BY <2>1, <2>2
  <1>5. CASE ForceDetachStore(p)
    <2>1. TypeOK'
      BY <1>5
         DEF CloudTypeOK, Location, ForceDetachStore, MarkAttaching, MarkIn, Goto, Return, Refuse,
             Continue, Succeed
    <2>2. JobOK'
      BY <1>5 DEF ForceDetachStore, MarkAttaching, Goto, Return, Refuse, Continue, Succeed
    <2> QED BY <2>1, <2>2
  <1>6. CASE ForceDetachPoll(p)
    <2>cloud. CloudTypeOK'
      BY <1>6, ForgetTypeOK DEF CloudTypeOK, ForceDetachPoll, Finished, GaveUp
    <2>1. TypeOK'
      BY <1>6, <2>cloud DEF Location, ForceDetachPoll, Finished, GaveUp, MarkIn, Goto, Return
    <2>2. JobOK'
      BY <1>6 DEF ForceDetachPoll, Finished, GaveUp, Goto, Return
    <2> QED BY <2>1, <2>2
  <1>7. CASE PublishSubmit(p)
    <2>cloud. CloudTypeOK'
      BY <1>7, SubmitTypeOK DEF CloudTypeOK, TaskKind, PublishSubmit, StartTask, Refuse
    <2>1. TypeOK'
      BY <1>7, <2>cloud DEF Location, PublishSubmit, StartTask, Goto, Return, Refuse
    <2>2. JobOK'
      BY <1>7 DEF PublishSubmit, StartTask, Goto, Return, Refuse
    <2> QED BY <2>1, <2>2
  <1>8. CASE PublishStore(p)
    <2>1. TypeOK'
      BY <1>8
         DEF CloudTypeOK, Location, PublishStore, MarkAttaching, MarkIn, Goto, Return, Refuse,
             Continue, Succeed
    <2>2. JobOK'
      BY <1>8 DEF PublishStore, MarkAttaching, Goto, Return, Refuse, Continue, Succeed
    <2> QED BY <2>1, <2>2
  <1>9. CASE PublishPoll(p)
    <2>cloud. CloudTypeOK'
      BY <1>9, ForgetTypeOK DEF CloudTypeOK, PublishPoll, Finished, GaveUp
    <2>1. TypeOK'
      BY <1>9, <2>cloud DEF Location, PublishPoll, Finished, GaveUp, MarkIn, Goto, Return
    <2>2. JobOK'
      BY <1>9 DEF PublishPoll, Finished, GaveUp, Goto, Return
    <2> QED BY <2>1, <2>2
  <1> QED BY <1>1, <1>2, <1>3, <1>4, <1>5, <1>6, <1>7, <1>8, <1>9 DEF ControllerPublishVolume

(* ControllerUnpublishVolume.                                              *)
LEMMA UnpublishTypeInv ==
  ASSUME TypeInv, CloudShape, NEW p \in Proc, ControllerUnpublishVolume(p)
  PROVE  TypeInv'
  <1> USE DEF TypeInv, TypeOK, JobOK, pvOf, diskOf, nodeOf, CreateAt, DeleteAt, PublishAt, UnpublishAt,
              Ordered, HasDisk, cloud, caches, marks
  <1>1. CASE UnpublishMark(p)
    <2>1. TypeOK'
      BY <1>1 DEF CloudTypeOK, Location, UnpublishMark, Goto, Return, Refuse, Continue, Succeed
    <2>2. JobOK'
      BY <1>1 DEF UnpublishMark, Goto, Return, Refuse, Continue, Succeed
    <2> QED BY <2>1, <2>2
  <1>2. CASE UnpublishInfo(p)
    <2>1. TypeOK'
      BY <1>2 DEF CloudTypeOK, Location, UnpublishInfo, Goto, Return, Refuse, Continue, Succeed
    <2>2. JobOK'
      BY <1>2 DEF UnpublishInfo, Goto, Return, Refuse, Continue, Succeed
    <2> QED BY <2>1, <2>2
  <1>3. CASE UnpublishSubmit(p)
    <2>cloud. CloudTypeOK'
      BY <1>3, SubmitTypeOK DEF CloudTypeOK, TaskKind, UnpublishSubmit, StartTask, Refuse
    <2>1. TypeOK'
      BY <1>3, <2>cloud DEF Location, UnpublishSubmit, StartTask, Goto, Return, Refuse
    <2>2. JobOK'
      BY <1>3 DEF UnpublishSubmit, StartTask, Goto, Return, Refuse
    <2> QED BY <2>1, <2>2
  <1>4. CASE UnpublishStore(p)
    <2>1. TypeOK'
      BY <1>4 DEF CloudTypeOK, Location, UnpublishStore, MarkIn, Goto, Return, Refuse, Continue, Succeed
    <2>2. JobOK'
      BY <1>4 DEF UnpublishStore, Goto, Return, Refuse, Continue, Succeed
    <2> QED BY <2>1, <2>2
  <1>5. CASE UnpublishPoll(p)
    <2>cloud. CloudTypeOK'
      BY <1>5, ForgetTypeOK DEF CloudTypeOK, UnpublishPoll, Finished, GaveUp
    <2>1. TypeOK'
      BY <1>5, <2>cloud DEF Location, UnpublishPoll, Finished, GaveUp, MarkIn, Goto, Return
    <2>2. JobOK'
      BY <1>5 DEF UnpublishPoll, Finished, GaveUp, Goto, Return
    <2> QED BY <2>1, <2>2
  <1> QED BY <1>1, <1>2, <1>3, <1>4, <1>5 DEF ControllerUnpublishVolume

(* A request arrives, of a disk that Kubernetes has.                       *)
LEMMA StartTypeInv ==
  ASSUME TypeInv, NEW p \in Proc, NEW r \in Requests, Start(p, r)
  PROVE  TypeInv'
  <1> USE DEF TypeInv, TypeOK, JobOK, pvOf, diskOf, nodeOf, CreateAt, DeleteAt, PublishAt, UnpublishAt,
              Ordered, HasDisk, cloud, caches, marks
  <1>1. /\ r \in Request
        /\ r.op = "create" => r.pv \in Pv
        /\ r.op # "create" => r.disk \in Disk
        /\ r.op \in {"publish", "unpublish"} => r.node \in Node
        /\ r.op \in {"create", "delete", "publish", "unpublish"}
    BY DiskAssumption DEF Request
  <1>2. TypeOK'
    BY <1>1 DEF CloudTypeOK, Start, Location
  <1>3. JobOK'
    BY <1>1 DEF Start
  <1> QED BY <1>2, <1>3

(* TypeInv is inductive where the cloud's records have their shape.        *)
LEMMA NextTypeInv ==
  ASSUME TypeInv, CloudShape, [Next]_vars
  PROVE  TypeInv'
  <1>1. ASSUME NEW p \in Proc, Answer(p)
        PROVE  TypeInv'
    <2> USE
       DEF TypeInv, TypeOK, JobOK, pvOf, diskOf, nodeOf, CreateAt, DeleteAt, PublishAt, UnpublishAt,
                Ordered, HasDisk, cloud, caches, marks
    <2>1. TypeOK'
      BY <1>1 DEF CloudTypeOK, Answer, Location, Request, NoRequest
    <2>2. JobOK'
      BY <1>1 DEF Answer
    <2> QED BY <2>1, <2>2
  <1>2. CASE Restart
    <2>1. CloudTypeOK'
      BY <1>2, ForgetAllTypeOK DEF Restart, TypeInv, TypeOK
    <2>2. TypeOK'
      BY <1>2, <2>1, CloudAssumption DEF Restart, TypeInv, TypeOK, Request, NoRequest, Location
    <2>3. JobOK'
      BY <1>2 DEF Restart, JobOK, CreateAt, DeleteAt, PublishAt, UnpublishAt, Ordered, HasDisk
    <2> QED BY <2>2, <2>3 DEF TypeInv
  <1>3. CASE CloudStep
    <2>1. CloudTypeOK'
      BY <1>3, CloudNextTypeOK DEF CloudStep, TypeInv, TypeOK
    <2> QED
      BY <1>3, <2>1
         DEF CloudStep, TypeInv, TypeOK, JobOK, goroutines, caches, marks, pvOf, diskOf, nodeOf
  <1>4. CASE UNCHANGED vars
    BY <1>4
       DEF vars, TypeInv, TypeOK, CloudTypeOK, JobOK, goroutines, caches, marks, cloud, pvOf, diskOf,
           nodeOf
  <1> QED
    BY <1>1, <1>2, <1>3, <1>4, CreateTypeInv, DeleteTypeInv, PublishTypeInv, UnpublishTypeInv, StartTypeInv
    DEF Next, Handle
----------------------------------------------------------------------------
(* The marks.                                                              *)

MarkedAt == {"cPoll", "dPoll", "dDone", "uPoll"}
Others(p) == \A q \in Proc : q # p => pc'[q] = pc[q] /\ job'[q] = job[q] /\ res'[q] = res[q]

(* A step that stores none of these marks, of a request that has none to   *)
(* replace.                                                                *)
Unmarked(p) ==
    /\ pc[p] \notin MarkedAt /\ Others(p)
    /\ UNCHANGED <<diskProcessingMap, diskDeletingMap, diskDetachingMap>>

(* It leaves who has marked what as it was.                                *)
LEMMA UnmarkedStep ==
  ASSUME MarksOwned, NEW p \in Proc, Unmarked(p)
  PROVE  MarksOwned'
  <1>1. \A q \in Proc : pc[q] \in MarkedAt => pc'[q] = pc[q] /\ job'[q] = job[q]
    BY DEF Unmarked, Others
  <1> QED BY <1>1 DEF MarksOwned, Unmarked, MarkedAt, pvOf, diskOf

(* Most steps are such.                                                    *)
LEMMA UnmarkedSteps ==
  ASSUME TypeInv, NEW p \in Proc,
         \/ CreateCached(p) \/ CreateMark(p) \/ CreateAgain(p) \/ CreateSubmit(p) \/ CreateKeep(p)
         \/ DeleteMark(p) \/ DeleteInfo(p) \/ DeleteSubmit(p)
         \/ ControllerPublishVolume(p)
         \/ UnpublishMark(p) \/ UnpublishInfo(p) \/ UnpublishSubmit(p)
         \/ Answer(p) \/ (\E r \in Requests : Start(p, r))
  PROVE  Unmarked(p)
  <1> USE DEF TypeInv, TypeOK, Unmarked, Others, MarkedAt, Goto, Return, Refuse, Continue, Succeed,
              StartTask, marks, caches
  <1>1. CASE CreateCached(p) \/ CreateMark(p) \/ CreateAgain(p) \/ CreateSubmit(p) \/ CreateKeep(p)
    BY <1>1 DEF CreateCached, CreateMark, CreateAgain, CreateSubmit, CreateKeep, AnswerCached
  <1>2. CASE DeleteMark(p) \/ DeleteInfo(p) \/ DeleteSubmit(p)
    BY <1>2 DEF DeleteMark, DeleteInfo, DeleteSubmit
  <1>3. CASE ControllerPublishVolume(p)
    BY <1>3 DEF ControllerPublishVolume, PublishMark, PublishInfo, PublishReady, ForceDetachSubmit,
                ForceDetachStore, ForceDetachPoll, PublishSubmit, PublishStore, PublishPoll,
                MarkAttaching, GaveUp
  <1>4. CASE UnpublishMark(p) \/ UnpublishInfo(p) \/ UnpublishSubmit(p)
    BY <1>4 DEF UnpublishMark, UnpublishInfo, UnpublishSubmit
  <1>5. CASE Answer(p) \/ (\E r \in Requests : Start(p, r))
    BY <1>5 DEF Answer, Start
  <1> QED BY <1>1, <1>2, <1>3, <1>4, <1>5

(* The others store a mark on the way into the place where it is kept, or  *)
(* replace it on the way out.                                              *)
LEMMA MarkedSteps ==
  ASSUME TypeInv, MarksOwned, NEW p \in Proc,
         \/ CreateStore(p) \/ CreatePoll(p) \/ DeleteStore(p) \/ DeletePoll(p) \/ DeleteDone(p)
         \/ UnpublishStore(p) \/ UnpublishPoll(p)
  PROVE  MarksOwned'
  <1> USE DEF TypeInv, TypeOK, JobOK, MarksOwned, MarkIn, Goto, Return, GaveUp, pvOf, diskOf, CreateAt,
              DeleteAt, UnpublishAt, Ordered, HasDisk
  <1>1. CASE CreateStore(p)
    BY <1>1 DEF CreateStore
  <1>2. CASE CreatePoll(p)
    BY <1>2 DEF CreatePoll
  <1>3. CASE DeleteStore(p)
    BY <1>3 DEF DeleteStore
  <1>4. CASE DeletePoll(p)
    BY <1>4 DEF DeletePoll
  <1>5. CASE DeleteDone(p)
    BY <1>5 DEF DeleteDone
  <1>6. CASE UnpublishStore(p)
    BY <1>6 DEF UnpublishStore
  <1>7. CASE UnpublishPoll(p)
    BY <1>7 DEF UnpublishPoll
  <1> QED BY <1>1, <1>2, <1>3, <1>4, <1>5, <1>6, <1>7

(* MarksOwned is inductive where the types are kept.                       *)
LEMMA NextMarks ==
  ASSUME TypeInv, MarksOwned, [Next]_vars
  PROVE  MarksOwned'
  <1>1. ASSUME NEW p \in Proc, Handle(p)
        PROVE  MarksOwned'
    BY <1>1, UnmarkedSteps, UnmarkedStep, MarkedSteps
    DEF Handle, CreateVolume, DeleteVolume, ControllerUnpublishVolume
  <1>2. ASSUME NEW p \in Proc, NEW r \in Requests, Start(p, r)
        PROVE  MarksOwned'
    BY <1>2, UnmarkedSteps, UnmarkedStep
  <1>3. CASE Restart
    BY <1>3 DEF Restart, MarksOwned
  <1>4. CASE CloudStep \/ UNCHANGED vars
    BY <1>4 DEF CloudStep, vars, goroutines, marks, MarksOwned, pvOf, diskOf
  <1> QED BY <1>1, <1>2, <1>3, <1>4 DEF Next

----------------------------------------------------------------------------
(* What a step may do to the disks and the caches.                         *)

FromTo(p, from, to) == pc[p] \in from /\ pc'[p] \in to
Busy == Stores \union Polls \union {"cKeep", "dDone"}

(* It looks, marks or starts, and may answer from the cache;               *)
Wanders(p) ==
    /\ Others(p) /\ UNCHANGED <<cloud, caches, volumes>>
    /\ pc[p] \notin Busy /\ pc'[p] \notin Busy
    /\ Answers(p)' => \E v \in Pv : diskOf(p)' = pvcCreatedMap[v]

(* it gives the answer;                                                    *)
Tells(p) ==
    /\ Others(p) /\ UNCHANGED <<cloud, caches>>
    /\ FromTo(p, {"ret"}, {"idle"})
    /\ volumes' = IF Answers(p) THEN volumes \union {diskOf(p)} ELSE volumes

(* it goes on from its task to the wait for it;                            *)
Waits(p) ==
    /\ Others(p) /\ UNCHANGED <<cloud, caches, volumes, job>>
    /\ \/ FromTo(p, {"cStore"}, {"cPoll"})
       \/ FromTo(p, {"dStore"}, {"dPoll"})
       \/ FromTo(p, Stores \ {"cStore", "dStore"}, Polls \ {"cPoll", "dPoll"})

(* it starts a task;                                                       *)
Submits(p) ==
    /\ Others(p) /\ UNCHANGED <<caches, volumes, job>>
    /\ pc[p] \in {"dSubmit", "fSubmit", "pSubmit", "uSubmit"}
    /\ \E kind \in {"attach", "detach", "delete"}, n \in Node \union {NoNode} :
          /\ kind = "attach" => n \in Node
          /\ \/ /\ Submit(p, diskOf(p), kind, n) /\ pc'[p] \in Stores \ {"cStore"}
                /\ pc'[p] = "dStore" => kind = "delete"
             \/ Submit(NoProc, diskOf(p), kind, n) /\ pc'[p] = "ret" /\ res'[p] = "err"

(* it orders a disk;                                                       *)
Orders(p) ==
    /\ Others(p) /\ UNCHANGED <<caches, volumes>>
    /\ pc[p] = "cSubmit" /\ pvOf(p)' = pvOf(p)
    /\ \E d \in Disk :
          \/ SubmitCreate(p, d, pvOf(p)) /\ pc'[p] = "cStore" /\ diskOf(p)' = d
          \/ SubmitCreate(NoProc, d, pvOf(p)) /\ pc'[p] = "ret" /\ res'[p] = "err"

(* it sees its task finished;                                              *)
Sees(p) ==
    /\ Others(p) /\ UNCHANGED <<disk, diskIdPvMap, volumes, job>>
    /\ outcome[p] = "finish" /\ outcome' = [outcome EXCEPT ![p] = "none"]
    /\ \/ FromTo(p, {"cPoll"}, {"cKeep"}) /\ UNCHANGED pvcCreatedMap
       \/ /\ FromTo(p, {"dPoll"}, {"dDone"})
          /\ pvcCreatedMap' = [v \in Pv |-> IF v = diskIdPvMap[diskOf(p)] THEN NoDisk
                                            ELSE pvcCreatedMap[v]]
       \/ FromTo(p, Polls \ {"cPoll", "dPoll"}, {"pSubmit", "ret"}) /\ UNCHANGED pvcCreatedMap

(* or it does not wait for it any longer.                                  *)
Forgets(p) ==
    /\ Others(p) /\ UNCHANGED <<caches, volumes, job>>
    /\ FromTo(p, Polls, {"ret"}) /\ res'[p] = "err"
    /\ Forget(p, diskOf(p))

(* The steps of CreateVolume.                                              *)
LEMMA CreateSteps ==
  ASSUME TypeInv, NEW p \in Proc, CreateVolume(p)
  PROVE  Wanders(p) \/ Waits(p) \/ Orders(p) \/ Sees(p) \/ Forgets(p) \/ CreateKeep(p)
  <1> USE DEF TypeInv, TypeOK, JobOK, Others, FromTo, Busy, Stores, Polls, CreateAt, Goto, Return,
              Refuse, Continue, caches, marks, cloud, pvOf, diskOf
  <1>1. CASE CreateCached(p) \/ CreateMark(p) \/ CreateAgain(p)
    <2>1. CASE AnswerCached(p)
      <3>1. diskOf(p)' = pvcCreatedMap[pvOf(p)]
        BY <2>1 DEF AnswerCached, Request
      <3> QED BY <1>1, <2>1, <3>1
         DEF CreateCached, CreateMark, CreateAgain, AnswerCached, Wanders, Answers
    <2>2. CASE ~ AnswerCached(p)
      BY <1>1, <2>2 DEF CreateCached, CreateMark, CreateAgain, Wanders, Answers
    <2> QED BY <2>1, <2>2
  <1>2. CASE CreateSubmit(p)
    <2>1. CASE Refuse(p)
      BY <1>2, <2>1 DEF CreateSubmit, Wanders, Answers
    <2>2. ASSUME NEW d \in Disk, job' = [job EXCEPT ![p].disk = d]
          PROVE  diskOf(p)' = d /\ pvOf(p)' = pvOf(p)
      BY <2>2 DEF Request
    <2> QED BY <1>2, <2>1, <2>2 DEF CreateSubmit, Orders
  <1>3. CASE CreateStore(p)
    BY <1>3 DEF CreateStore, Waits
  <1>4. CASE CreatePoll(p)
    BY <1>4 DEF CreatePoll, Finished, GaveUp, Sees, Forgets
  <1> QED BY <1>1, <1>2, <1>3, <1>4 DEF CreateVolume

(* A call that starts a task.                                              *)
LEMMA StartTaskSteps ==
  ASSUME TypeInv, NEW p \in Proc, NEW at, NEW to, NEW kind \in {"attach", "detach", "delete"},
         NEW n \in Node \union {NoNode}, StartTask(p, at, to, kind, n),
         at \in {"dSubmit", "fSubmit", "pSubmit", "uSubmit"}, to \in Stores \ {"cStore"},
         to = "dStore" => kind = "delete", kind = "attach" => n \in Node
  PROVE  Wanders(p) \/ Submits(p)
  <1> USE DEF TypeInv, TypeOK, Others, Stores, StartTask, Goto, Return, Refuse, caches, marks, cloud
  <1>1. CASE Refuse(p)
    BY <1>1 DEF Wanders, Answers, Busy, Polls
  <1>2. CASE Goto(p, to) /\ Submit(p, diskOf(p), kind, n) /\ UNCHANGED <<caches, marks>>
    BY <1>2 DEF Submits
  <1>3. CASE Return(p, "err") /\ Submit(NoProc, diskOf(p), kind, n) /\ UNCHANGED <<caches, marks>>
    BY <1>3 DEF Submits
  <1> QED BY <1>1, <1>2, <1>3

(* The steps of DeleteVolume.                                              *)
LEMMA DeleteSteps ==
  ASSUME TypeInv, NEW p \in Proc, DeleteVolume(p)
  PROVE  \/ Wanders(p) \/ Waits(p) \/ Submits(p) \/ Sees(p) \/ Forgets(p) \/ DeleteDone(p)
  <1>1. CASE DeleteSubmit(p)
    BY <1>1, StartTaskSteps DEF DeleteSubmit, Stores
  <1> USE DEF TypeInv, TypeOK, JobOK, Others, FromTo, Busy, Stores, Polls, DeleteAt, Goto, Return,
              Refuse, Continue, Succeed, caches, marks, cloud
  <1>2. CASE DeleteMark(p) \/ DeleteInfo(p)
    BY <1>2 DEF DeleteMark, DeleteInfo, Wanders, Answers
  <1>3. CASE DeleteStore(p)
    BY <1>3 DEF DeleteStore, Waits
  <1>4. CASE DeletePoll(p)
    BY <1>4 DEF DeletePoll, Finished, GaveUp, Sees, Forgets
  <1> QED BY <1>1, <1>2, <1>3, <1>4 DEF DeleteVolume

(* The steps of ControllerPublishVolume.                                   *)
LEMMA PublishSteps ==
  ASSUME TypeInv, NEW p \in Proc, ControllerPublishVolume(p)
  PROVE  Wanders(p) \/ Waits(p) \/ Submits(p) \/ Sees(p) \/ Forgets(p)
  <1>1. CASE ForceDetachSubmit(p)
    BY <1>1, StartTaskSteps DEF ForceDetachSubmit, Stores
  <1>2. CASE PublishSubmit(p)
    <2>1. nodeOf(p) \in Node
      BY <1>2 DEF PublishSubmit, StartTask, TypeInv, JobOK, PublishAt
    <2> QED BY <1>2, <2>1, StartTaskSteps DEF PublishSubmit, Stores
  <1> USE DEF TypeInv, TypeOK, JobOK, Others, FromTo, Busy, Stores, Polls, PublishAt, Goto, Return,
              Refuse, Continue, Succeed, caches, marks, cloud
  <1>3. CASE PublishMark(p) \/ PublishInfo(p) \/ PublishReady(p)
    BY <1>3 DEF PublishMark, PublishInfo, PublishReady, Wanders, Answers
  <1>4. CASE ForceDetachStore(p) \/ PublishStore(p)
    BY <1>4 DEF ForceDetachStore, PublishStore, MarkAttaching, Waits
  <1>5. CASE ForceDetachPoll(p) \/ PublishPoll(p)
    BY <1>5 DEF ForceDetachPoll, PublishPoll, Finished, GaveUp, Sees, Forgets
  <1> QED BY <1>1, <1>2, <1>3, <1>4, <1>5 DEF ControllerPublishVolume

(* The steps of ControllerUnpublishVolume.                                 *)
LEMMA UnpublishSteps ==
  ASSUME TypeInv, NEW p \in Proc, ControllerUnpublishVolume(p)
  PROVE  Wanders(p) \/ Waits(p) \/ Submits(p) \/ Sees(p) \/ Forgets(p)
  <1>1. CASE UnpublishSubmit(p)
    BY <1>1, StartTaskSteps DEF UnpublishSubmit, Stores
  <1> USE DEF TypeInv, TypeOK, JobOK, Others, FromTo, Busy, Stores, Polls, UnpublishAt, Goto, Return,
              Refuse, Continue, Succeed, caches, marks, cloud
  <1>2. CASE UnpublishMark(p) \/ UnpublishInfo(p)
    BY <1>2 DEF UnpublishMark, UnpublishInfo, Wanders, Answers
  <1>3. CASE UnpublishStore(p)
    BY <1>3 DEF UnpublishStore, Waits
  <1>4. CASE UnpublishPoll(p)
    BY <1>4 DEF UnpublishPoll, Finished, GaveUp, Sees, Forgets
  <1> QED BY <1>1, <1>2, <1>3, <1>4 DEF ControllerUnpublishVolume

Ends(d) == (TaskFinishes(d) \/ TaskFails(d)) /\ UNCHANGED <<goroutines, caches, volumes>>

(* Every step is one of these.                                             *)
LEMMA Steps ==
  ASSUME TypeInv, [Next]_vars
  PROVE  \/ \E p \in Proc : \/ Wanders(p) \/ Tells(p) \/ Waits(p) \/ Submits(p) \/ Orders(p)
                            \/ Sees(p) \/ Forgets(p) \/ CreateKeep(p) \/ DeleteDone(p)
         \/ \E d \in Disk : Ends(d)
         \/ Restart
         \/ UNCHANGED <<goroutines, caches, cloud, volumes>>
  <1>1. ASSUME NEW p \in Proc, Answer(p)
        PROVE  Tells(p)
    BY <1>1 DEF Answer, Tells, Others, FromTo, Answers, TypeInv, TypeOK, caches, cloud
  <1>2. ASSUME NEW p \in Proc, NEW r \in Requests, Start(p, r)
        PROVE  Wanders(p)
    <2>1. r.op \in {"create", "delete", "publish", "unpublish"}
      BY DiskAssumption DEF Request
    <2> QED BY <1>2, <2>1 DEF Start, Wanders, Others, Busy, Stores, Polls, Answers, TypeInv, TypeOK,
                              caches, cloud
  <1>3. CASE CloudStep
    BY <1>3 DEF CloudStep, CloudNext, Ends
  <1>4. CASE UNCHANGED vars
    BY <1>4 DEF vars
  <1> QED
    BY <1>1, <1>2, <1>3, <1>4, CreateSteps, DeleteSteps, PublishSteps, UnpublishSteps DEF Next, Handle

----------------------------------------------------------------------------
(* Disks.  A disk that exists keeps its name; one that was made stays so,  *)
(* deleted or not, and one that is gone stays away.                        *)
DisksKept ==
    \A d \in Disk : disk[d].state # "none" =>
        /\ disk'[d].state # "none" /\ disk'[d].pv = disk[d].pv
        /\ Made(d) => Made(d)'
        /\ disk[d].state = "gone" => disk'[d].state = "gone"

(* Every step does so.                                                     *)
LEMMA DisksStay ==
  ASSUME TypeInv, CloudShape, [Next]_vars
  PROVE  DisksKept
  <1>t. CloudTypeOK
    BY DEF TypeInv, TypeOK
  <1>1. CASE UNCHANGED disk
    BY <1>1 DEF DisksKept, Made
  <1>2. ASSUME NEW p \in Proc, Submits(p) \/ Forgets(p)
        PROVE  DisksKept
    <2>1. ASSUME NEW q, NEW kind, NEW n, Submit(q, diskOf(p), kind, n)
          PROVE  \A d \in Disk : disk'[d].pv = disk[d].pv /\ disk'[d].state = disk[d].state
      BY <2>1, <1>t DEF Submit, CloudTypeOK, DiskRecord
    <2>2. Forget(p, diskOf(p)) =>
             \A d \in Disk : disk'[d].pv = disk[d].pv /\ disk'[d].state = disk[d].state
      BY <1>t DEF Forget, CloudTypeOK, DiskRecord
    <2> QED BY <1>2, <2>1, <2>2 DEF Submits, Forgets, DisksKept, Made
  <1>3. ASSUME NEW p \in Proc, Orders(p)
        PROVE  DisksKept
    <2>1. PICK q \in {p, NoProc}, d \in Disk : SubmitCreate(q, d, pvOf(p))
      BY <1>3 DEF Orders
    <2> QED BY <2>1, <1>t DEF SubmitCreate, DisksKept, Made, CloudTypeOK, DiskRecord
  <1>4. ASSUME NEW d \in Disk, Ends(d)
        PROVE  DisksKept
    <2>1. PICK state, node, result : /\ EndTask(d, state, node, result)
                                     /\ state # "none" /\ (Made(d) => state \notin {"new", "broken"})
                                     /\ disk[d].state = "gone" => state = "gone"
      <3>1. CASE TaskFinishes(d)
        BY <3>1 DEF TaskFinishes, CloudShape, Made
      <3>2. CASE TaskFails(d)
        BY <3>2 DEF TaskFails, CloudShape, Made
      <3> QED BY <1>4, <3>1, <3>2 DEF Ends
    <2>2. disk'[d].state = state
      BY <2>1, <1>t DEF EndTask, CloudTypeOK, DiskRecord
    <2>3. \A e \in Disk : disk'[e].pv = disk[e].pv /\ (e # d => disk'[e] = disk[e])
      BY <2>1, <1>t DEF EndTask, CloudTypeOK, DiskRecord
    <2> QED BY <2>1, <2>2, <2>3 DEF DisksKept, Made
  <1>5. CASE Restart
    BY <1>5, <1>t DEF Restart, ForgetAll, DisksKept, Made, CloudTypeOK, DiskRecord
  <1> QED
    BY <1>1, <1>2, <1>3, <1>4, <1>5, Steps
    DEF Wanders, Tells, Waits, Sees, CreateKeep, DeleteDone, cloud

(* The cloud's records keep their shape.                                   *)
LEMMA NextShape ==
  ASSUME TypeInv, CloudShape, [Next]_vars
  PROVE  CloudShape'
  <1>t. CloudTypeOK /\ JobOK
    BY DEF TypeInv, TypeOK
  <1>1. CASE UNCHANGED disk
    BY <1>1 DEF CloudShape
  <1>2. ASSUME NEW p \in Proc, Submits(p) \/ Forgets(p)
        PROVE  CloudShape'
    <2>1. diskOf(p) \in Disk
      BY <1>2, <1>t DEF Submits, Forgets, FromTo, JobOK, HasDisk, Ordered, Polls, DeleteAt, PublishAt,
                        UnpublishAt
    <2> QED BY <1>2, <1>t, <2>1, SubmitShape, ForgetShape DEF Submits, Forgets
  <1>3. ASSUME NEW p \in Proc, Orders(p)
        PROVE  CloudShape'
    <2>1. pvOf(p) \in Pv
      BY <1>3, <1>t DEF Orders, JobOK, CreateAt
    <2> QED BY <1>3, <1>t, <2>1, SubmitCreateShape DEF Orders
  <1>4. ASSUME NEW d \in Disk, Ends(d)
        PROVE  CloudShape'
    BY <1>4, <1>t, TaskEndsShape DEF Ends
  <1>5. CASE Restart
    BY <1>5, <1>t DEF Restart, ForgetAll, CloudShape, CloudTypeOK, DiskRecord
  <1> QED
    BY <1>1, <1>2, <1>3, <1>4, <1>5, Steps
    DEF Wanders, Tells, Waits, Sees, CreateKeep, DeleteDone, cloud

----------------------------------------------------------------------------
(* Tasks.                                                                  *)

(* Steps that start no task.                                               *)
LEMMA QuietTasks ==
  ASSUME TypeInv, TaskOK, NEW p \in Proc,
         Wanders(p) \/ Tells(p) \/ Waits(p) \/ CreateKeep(p) \/ DeleteDone(p)
  PROVE  TaskOK'
  <1>1. UNCHANGED <<disk, outcome>> /\ Others(p)
    BY DEF Wanders, Tells, Waits, CreateKeep, DeleteDone, Return, Others, TypeInv, TypeOK, cloud
  <1>2. CASE Waits(p)
    BY <1>1, <1>2 DEF Waits, FromTo, Others, TaskOK, TaskOf, Made, Stores, Polls, diskOf
  <1>3. CASE Wanders(p) \/ Tells(p) \/ CreateKeep(p) \/ DeleteDone(p)
    <2>1. pc[p] \notin Stores \union Polls /\ pc'[p] \notin Busy
      BY <1>3 DEF Wanders, Tells, FromTo, CreateKeep, DeleteDone, Return, Stores, Polls, Busy, TypeInv,
                  TypeOK
    <2> QED BY <1>1, <2>1 DEF Others, TaskOK, TaskOf, Made, Stores, Polls, Busy, diskOf
  <1> QED BY <1>2, <1>3

(* A task that is started is that of its disk and of who polls it.         *)
LEMMA StartedTasks ==
  ASSUME TypeInv, CloudShape, TaskOK, NEW p \in Proc, Submits(p) \/ Orders(p), DisksKept
  PROVE  TaskOK'
  <1>1. PICK q \in {p, NoProc}, d \in Disk :
           /\ disk'[d].by = q /\ \A e \in Disk : e # d => disk'[e] = disk[e]
           /\ \A o \in Proc : outcome'[o] = IF o = q THEN "doing" ELSE outcome[o]
           /\ q = p => /\ diskOf(p)' = d /\ pc'[p] \in Stores
                       /\ pc'[p] = "cStore" => disk'[d].task = "create"
                       /\ pc'[p] = "dStore" => disk'[d].task = "delete"
           /\ q = NoProc => pc'[p] = "ret"
    <2>t. /\ disk \in [Disk -> DiskRecord]
          /\ \A e \in Disk : disk[e] = [state |-> disk[e].state, node |-> disk[e].node,
                task |-> disk[e].task, to |-> disk[e].to, by |-> disk[e].by, pv |-> disk[e].pv]
      BY DEF TypeInv, TypeOK, CloudTypeOK, DiskRecord
    <2>c. p # NoProc
      BY CloudAssumption
    <2>a. ASSUME NEW q, NEW d \in Disk, NEW kind, NEW n, Submit(q, d, kind, n)
          PROVE  /\ disk'[d].by = q /\ disk'[d].task = kind
                 /\ \A e \in Disk : e # d => disk'[e] = disk[e]
                 /\ \A o \in Proc : outcome'[o] = IF o = q THEN "doing" ELSE outcome[o]
      BY <2>a, <2>t DEF Submit, Await
    <2>b. ASSUME NEW q, NEW d \in Disk, NEW v, SubmitCreate(q, d, v)
          PROVE  /\ disk'[d].by = q /\ disk'[d].task = "create"
                 /\ \A e \in Disk : e # d => disk'[e] = disk[e]
                 /\ \A o \in Proc : outcome'[o] = IF o = q THEN "doing" ELSE outcome[o]
      BY <2>b, <2>t DEF SubmitCreate, Await
    <2>1. CASE Orders(p)
      <3>1. PICK d \in Disk :
               \/ SubmitCreate(p, d, pvOf(p)) /\ pc'[p] = "cStore" /\ diskOf(p)' = d
               \/ SubmitCreate(NoProc, d, pvOf(p)) /\ pc'[p] = "ret"
        BY <2>1 DEF Orders
      <3>2. CASE SubmitCreate(p, d, pvOf(p)) /\ pc'[p] = "cStore" /\ diskOf(p)' = d
        BY <3>2, <2>b, <2>c DEF Stores
      <3>3. CASE SubmitCreate(NoProc, d, pvOf(p)) /\ pc'[p] = "ret"
        <4>1. /\ disk'[d].by = NoProc /\ \A e \in Disk : e # d => disk'[e] = disk[e]
              /\ \A o \in Proc : outcome'[o] = IF o = NoProc THEN "doing" ELSE outcome[o]
          BY <3>3, <2>b
        <4> QED BY <3>3, <4>1, <2>c
      <3> QED BY <3>1, <3>2, <3>3
    <2>2. CASE Submits(p)
      <3>1. diskOf(p) \in Disk /\ diskOf(p)' = diskOf(p)
        BY <2>2 DEF Submits, TypeInv, JobOK, HasDisk, DeleteAt, PublishAt, UnpublishAt, diskOf
      <3>2. PICK kind, n :
               \/ /\ Submit(p, diskOf(p), kind, n) /\ pc'[p] \in Stores \ {"cStore"}
                  /\ pc'[p] = "dStore" => kind = "delete"
               \/ Submit(NoProc, diskOf(p), kind, n) /\ pc'[p] = "ret"
        BY <2>2 DEF Submits
      <3>3. CASE /\ Submit(p, diskOf(p), kind, n) /\ pc'[p] \in Stores \ {"cStore"}
                 /\ pc'[p] = "dStore" => kind = "delete"
        BY <3>1, <3>3, <2>a, <2>c DEF Stores
      <3>4. CASE Submit(NoProc, diskOf(p), kind, n) /\ pc'[p] = "ret"
        BY <3>1, <3>4, <2>a, <2>c
      <3> QED BY <3>2, <3>3, <3>4
    <2> QED BY <2>1, <2>2
  <1>2. Others(p) /\ pc[p] \notin Stores \union Polls
    BY DEF Submits, Orders, Stores, Polls
  <1>3. ASSUME NEW o \in Proc, o # p
        PROVE  TaskOf(o)'
    <2>1. TaskOf(o) /\ pc'[o] = pc[o] /\ diskOf(o)' = diskOf(o) /\ outcome'[o] = outcome[o]
      BY <1>1, <1>2, <1>3, CloudAssumption DEF TaskOK, Others, diskOf
    <2>2. \A e \in Disk : disk'[e].by = o => disk'[e] = disk[e]
      BY <1>1, <1>3, CloudAssumption
    <2>3. pc[o] \in {"cStore", "cPoll", "cKeep", "dStore", "dPoll", "dDone"} => diskOf(o) \in Disk
      BY DEF TypeInv, JobOK, HasDisk, Ordered, DeleteAt
    <2> QED BY <2>1, <2>2, <2>3 DEF TaskOf, DisksKept, Made
  <1>4. TaskOf(p)'
    <2>1. \A e \in Disk : disk[e].by # p
      BY <1>2 DEF TaskOK, TaskOf
    <2>2. pc'[p] \in Stores \union {"ret"} /\ \A e \in Disk : disk'[e].by = p => q = p /\ e = d
      BY <1>1, <2>1, CloudAssumption
    <2> QED BY <1>1, <2>2 DEF TaskOf, Stores
  <1> QED BY <1>3, <1>4 DEF TaskOK

(* A task that is seen, or not waited for, is not polled any more.         *)
LEMMA LeftTasks ==
  ASSUME TypeInv, TaskOK, NEW p \in Proc, Sees(p) \/ Forgets(p), DisksKept
  PROVE  TaskOK'
  <1>1. \A o \in Proc : o # p => pc'[o] = pc[o] /\ diskOf(o)' = diskOf(o) /\ outcome'[o] = outcome[o]
    BY DEF Sees, Forgets, Forget, Others, TypeInv, TypeOK, CloudTypeOK, diskOf
  <1>2. \A e \in Disk : /\ disk'[e].by # p
                        /\ disk'[e].task = disk[e].task /\ disk'[e].state = disk[e].state
                        /\ disk'[e].by = disk[e].by \/ disk'[e].by = NoProc
    <2>1. CASE Sees(p)
      BY <2>1 DEF Sees, TaskOK, TaskOf
    <2>2. CASE Forgets(p)
      <3>1. \A e \in Disk : e # diskOf(p) => disk[e].by # p
        BY DEF TaskOK, TaskOf
      <3>2. \A e \in Disk : /\ disk'[e].task = disk[e].task /\ disk'[e].state = disk[e].state
                            /\ disk'[e].by = IF e = diskOf(p) /\ disk[e].by = p THEN NoProc ELSE disk[e].by
        BY <2>2 DEF Forgets, Forget, TypeInv, TypeOK, CloudTypeOK, DiskRecord
      <3> QED BY <3>1, <3>2, CloudAssumption
    <2> QED BY <2>1, <2>2
  <1>3. ASSUME NEW o \in Proc, o # p
        PROVE  TaskOf(o)'
    <2>1. pc[o] \in {"cStore", "cPoll", "cKeep", "dStore", "dPoll", "dDone"} => diskOf(o) \in Disk
      BY DEF TypeInv, JobOK, HasDisk, Ordered, DeleteAt
    <2>2. TaskOf(o) /\ pc'[o] = pc[o] /\ diskOf(o)' = diskOf(o) /\ outcome'[o] = outcome[o]
      BY <1>1, <1>3 DEF TaskOK
    <2>3. \A e \in Disk : /\ disk'[e].by = o => disk[e].by = o
                          /\ disk'[e].task = disk[e].task /\ disk'[e].state = disk[e].state
      BY <1>2, CloudAssumption
    <2>4. /\ pc[o] \in {"cStore", "cPoll", "cKeep"} => Made(diskOf(o))' = Made(diskOf(o))
          /\ pc[o] \in {"dStore", "dPoll", "dDone"} =>
                disk'[diskOf(o)'].state = disk[diskOf(o)].state
      BY <2>1, <2>2, <2>3 DEF Made
    <2> QED BY <2>2, <2>3, <2>4 DEF TaskOf
  <1>4. TaskOf(p)'
    <2>1. pc[p] \in {"cPoll", "dPoll"} => diskOf(p) \in Disk
      BY DEF TypeInv, JobOK, HasDisk, Ordered, DeleteAt
    <2>2. CASE Sees(p)
      BY <1>2, <2>1, <2>2 DEF Sees, FromTo, TaskOK, TaskOf, Made, Polls, diskOf
    <2>3. CASE Forgets(p)
      <3>1. pc'[p] = "ret"
        BY <2>3 DEF Forgets, FromTo
      <3> QED BY <1>2, <3>1 DEF TaskOf, Made, diskOf
    <2> QED BY <2>2, <2>3
  <1> QED BY <1>3, <1>4 DEF TaskOK

(* A task that ends has its effect when its request is told it finished.   *)
LEMMA EndedTasks ==
  ASSUME TypeInv, CloudShape, TaskOK, NEW d \in Disk, Ends(d), DisksKept
  PROVE  TaskOK'
  <1>1. PICK state, node, result :
           /\ EndTask(d, state, node, result)
           /\ result = "finish" /\ disk[d].task = "create" => state = "free"
           /\ result = "finish" /\ disk[d].task = "delete" => state = "gone"
           /\ result \in {"finish", "error"}
    BY DEF Ends, TaskFinishes, TaskFails
  <1>2. /\ disk'[d].by = NoProc /\ disk'[d].state = state
        /\ \A e \in Disk : e # d => disk'[e] = disk[e]
        /\ \A o \in Proc : outcome'[o] = IF o = disk[d].by THEN result ELSE outcome[o]
    BY <1>1 DEF EndTask, TypeInv, TypeOK, CloudTypeOK, DiskRecord
  <1>3. UNCHANGED <<pc, job>>
    BY DEF Ends, goroutines
  <1>4. ASSUME NEW o \in Proc
        PROVE  TaskOf(o)'
    <2>1. pc[o] \in {"cStore", "cPoll", "cKeep", "dStore", "dPoll", "dDone"} => diskOf(o) \in Disk
      BY DEF TypeInv, JobOK, HasDisk, Ordered, DeleteAt
    <2>2. TaskOf(o)
      BY DEF TaskOK
    <2>3. CASE disk[d].by = o
      <3>1. \A e \in Disk : disk'[e].by # o
        BY <1>2, <2>2, <2>3, CloudAssumption DEF TaskOf
      <3> QED BY <1>1, <1>2, <1>3, <2>1, <2>2, <2>3, <3>1 DEF TaskOf, Made, diskOf, Stores, Polls
    <2>4. CASE disk[d].by # o
      BY <1>2, <1>3, <2>1, <2>2, <2>4, CloudAssumption DEF TaskOf, DisksKept, Made, diskOf
    <2> QED BY <2>3, <2>4
  <1> QED BY <1>4 DEF TaskOK

(* TaskOK is inductive.                                                    *)
LEMMA NextTasks ==
  ASSUME TypeInv, CloudShape, TaskOK, [Next]_vars
  PROVE  TaskOK'
  <1>1. CASE Restart
    <2>1. \A d \in Disk : disk'[d].by = NoProc
      BY <1>1 DEF Restart, ForgetAll, TypeInv, TypeOK, CloudTypeOK, DiskRecord
    <2> QED BY <1>1, <2>1, CloudAssumption DEF Restart, TaskOK, TaskOf
  <1>2. CASE UNCHANGED <<goroutines, caches, cloud, volumes>>
    BY <1>2 DEF goroutines, cloud, TaskOK, TaskOf, Made, diskOf
  <1> QED BY <1>1, <1>2, Steps, DisksStay, QuietTasks, StartedTasks, LeftTasks, EndedTasks


----------------------------------------------------------------------------
(* What is known, ordered and cached.                                      *)

(* A disk becomes known when the request that ordered it keeps it.         *)
LEMMA KnownStays ==
  ASSUME TypeInv, [Next]_vars, NEW d \in Disk, Known(d)'
  PROVE  Known(d) \/ \E p \in Proc : CreateKeep(p) /\ diskOf(p) = d
  <1>n. d # NoDisk
    BY DiskAssumption
  <1>1. ASSUME NEW p \in Proc, Others(p), Answers(p)' /\ diskOf(p)' = d => Known(d),
               volumes' \subseteq volumes \union {e \in Disk : Known(e)},
               diskIdPvMap'[d] \in {diskIdPvMap[d], NoPv},
               \A v \in Pv : pvcCreatedMap'[v] \in {pvcCreatedMap[v], NoDisk}
        PROVE  Known(d)
    <2>1. ASSUME NEW q \in Proc, q # p, Answers(q)', diskOf(q)' = d
          PROVE  Known(d)
      BY <1>1, <2>1 DEF Others, Answers, diskOf, Known
    <2> QED BY <1>n, <1>1, <2>1 DEF Known
  <1>2. ASSUME NEW p \in Proc, Wanders(p)
        PROVE  Known(d)
    <2>1. Answers(p)' /\ diskOf(p)' = d => Known(d)
      BY <1>2 DEF Wanders, Known
    <2> QED BY <1>1, <1>2, <2>1 DEF Wanders, caches
  <1>3. ASSUME NEW p \in Proc, Tells(p)
        PROVE  Known(d)
    <2>1. ~ Answers(p)'
      BY <1>3 DEF Tells, FromTo, Answers
    <2>2. volumes' \subseteq volumes \union {e \in Disk : Known(e)}
      BY <1>3 DEF Tells, Known, Answers, TypeInv, JobOK
    <2> QED BY <1>1, <1>3, <2>1, <2>2 DEF Tells, caches
  <1>4. ASSUME NEW p \in Proc, Waits(p) \/ Submits(p) \/ Orders(p) \/ Forgets(p)
        PROVE  Known(d)
    <2>1. ~ Answers(p)'
      BY <1>4 DEF Waits, Submits, Orders, Forgets, FromTo, Answers, Stores, Polls
    <2> QED BY <1>1, <1>4, <2>1 DEF Waits, Submits, Orders, Forgets, caches
  <1>5. ASSUME NEW p \in Proc, Sees(p)
        PROVE  Known(d)
    <2>1. ~ Answers(p)'
      BY <1>5 DEF Sees, FromTo, Answers, Polls, TypeInv, JobOK, PublishAt, UnpublishAt
    <2> QED BY <1>1, <1>5, <2>1 DEF Sees
  <1>6. ASSUME NEW p \in Proc, DeleteDone(p)
        PROVE  Known(d)
    <2>1. ~ Answers(p)' /\ Others(p)
      BY <1>6 DEF DeleteDone, Return, Answers, Others, TypeInv, TypeOK, JobOK, DeleteAt
    <2> QED BY <1>1, <1>6, <2>1 DEF DeleteDone, Return, TypeInv, TypeOK
  <1>7. ASSUME NEW p \in Proc, CreateKeep(p), d # diskOf(p)
        PROVE  Known(d)
    <2>1. Others(p) /\ diskOf(p)' = diskOf(p)
      BY <1>7 DEF CreateKeep, Return, Others, TypeInv, TypeOK, diskOf
    <2>2. pvOf(p) \in Pv /\ diskOf(p) \in Disk
      BY <1>7 DEF CreateKeep, TypeInv, JobOK, CreateAt, HasDisk, Ordered
    <2>3. /\ diskIdPvMap'[d] = diskIdPvMap[d] /\ volumes' = volumes
          /\ \A v \in Pv : pvcCreatedMap'[v] \in {pvcCreatedMap[v], diskOf(p)}
      BY <1>7, <2>2 DEF CreateKeep, Return, TypeInv, TypeOK
    <2>4. \A q \in Proc : Answers(q)' /\ diskOf(q)' = d => Answers(q) /\ diskOf(q) = d
      BY <1>7, <2>1 DEF Others, Answers, diskOf
    <2> QED BY <1>7, <2>3, <2>4 DEF Known
  <1>8. CASE \E e \in Disk : Ends(e)
    BY <1>8 DEF Ends, goroutines, caches, Known, Answers, diskOf
  <1>9. CASE UNCHANGED <<goroutines, caches, cloud, volumes>>
    BY <1>9 DEF goroutines, caches, Known, Answers, diskOf
  <1>10. CASE Restart
    BY <1>10, <1>n DEF Restart, Known, Answers
  <1> QED
    BY <1>2, <1>3, <1>4, <1>5, <1>6, <1>7, <1>8, <1>9, <1>10, Steps

(* KnownOK is inductive: what is kept was made.                            *)
LEMMA NextKnown ==
  ASSUME TypeInv, CloudShape, TaskOK, KnownOK, [Next]_vars
  PROVE  KnownOK'
  <1>1. ASSUME NEW d \in Disk, Known(d)'
        PROVE  Made(d)
    <2>1. ASSUME NEW p \in Proc, CreateKeep(p), diskOf(p) = d
          PROVE  Made(d)
      BY <2>1 DEF CreateKeep, TaskOK, TaskOf
    <2> QED BY <1>1, <2>1, KnownStays DEF KnownOK
  <1>2. ASSUME NEW d \in Disk, Made(d)
        PROVE  Made(d)'
    <2>1. disk[d].state # "none"
      BY <1>2 DEF Made
    <2> QED BY <1>2, <2>1, DisksStay DEF DisksKept
  <1> QED BY <1>1, <1>2 DEF KnownOK

(* Who holds an ordered disk held it before, or orders it now.             *)
LEMMA OrderStays ==
  ASSUME TypeInv, [Next]_vars, NEW p \in Proc, pc'[p] \in Ordered
  PROVE  \/ pc[p] \in Ordered /\ diskOf(p)' = diskOf(p) /\ pvOf(p)' = pvOf(p)
         \/ /\ disk[diskOf(p)'].state = "none" /\ diskOf(p)' \in Disk
            /\ disk'[diskOf(p)'].state = "new" /\ disk'[diskOf(p)'].pv = pvOf(p)'
            /\ \A q \in Proc : q # p => pc'[q] = pc[q] /\ diskOf(q)' = diskOf(q)
  <1>1. ASSUME NEW q \in Proc, q # p, Others(q)
        PROVE  pc[p] \in Ordered /\ diskOf(p)' = diskOf(p) /\ pvOf(p)' = pvOf(p)
    BY <1>1 DEF Others, diskOf, pvOf
  <1>2. ASSUME NEW q \in Proc,
               Wanders(q) \/ Tells(q) \/ Submits(q) \/ Forgets(q) \/ CreateKeep(q) \/ DeleteDone(q)
        PROVE  q # p /\ Others(q)
    BY <1>2 DEF Wanders, Tells, Submits, Forgets, CreateKeep, DeleteDone, Return, FromTo, Busy, Stores,
                Polls, Ordered, Others, TypeInv, TypeOK
  <1>3. ASSUME NEW q \in Proc, Waits(q) \/ Sees(q)
        PROVE  pc[p] \in Ordered /\ diskOf(p)' = diskOf(p) /\ pvOf(p)' = pvOf(p)
    <2>1. CASE q = p
      BY <1>3, <2>1 DEF Waits, Sees, FromTo, Stores, Polls, Ordered, diskOf, pvOf
    <2> QED BY <1>1, <1>3, <2>1 DEF Waits, Sees
  <1>4. CASE Orders(p)
    <2>1. PICK d \in Disk : SubmitCreate(p, d, pvOf(p)) /\ diskOf(p)' = d
      BY <1>4 DEF Orders, Ordered
    <2>2. disk[d].state = "none" /\ disk'[d].state = "new" /\ disk'[d].pv = pvOf(p)
      BY <2>1 DEF SubmitCreate, TypeInv, TypeOK, CloudTypeOK, DiskRecord
    <2> QED BY <1>4, <2>1, <2>2 DEF Orders, Others, diskOf
  <1>5. ASSUME NEW q \in Proc, q # p, Orders(q)
        PROVE  Others(q)
    BY <1>5 DEF Orders
  <1>6. CASE UNCHANGED goroutines
    BY <1>6 DEF goroutines, diskOf, pvOf
  <1>7. CASE Restart
    BY <1>7 DEF Restart, Ordered
  <1> QED BY <1>1, <1>2, <1>3, <1>4, <1>5, <1>6, <1>7, Steps DEF Ends

(* OrderOK is inductive: an order takes a disk nobody has, and who keeps   *)
(* one makes no other request's known.                                     *)
LEMMA NextOrder ==
  ASSUME TypeInv, CloudShape, KnownOK, OrderOK, [Next]_vars
  PROVE  OrderOK'
  <1> SUFFICES ASSUME NEW p \in Proc, pc'[p] \in Ordered
               PROVE  /\ disk'[diskOf(p)'].state # "none" /\ disk'[diskOf(p)'].pv = pvOf(p)'
                      /\ ~ Known(diskOf(p))'
                      /\ \A q \in Proc : pc'[q] \in Ordered /\ diskOf(q)' = diskOf(p)' => q = p
    BY DEF OrderOK
  <1>1. CASE pc[p] \in Ordered /\ diskOf(p)' = diskOf(p) /\ pvOf(p)' = pvOf(p)
    <2>d. PICK d \in Disk : d = diskOf(p) /\ d = diskOf(p)'
      BY <1>1 DEF TypeInv, JobOK, HasDisk
    <2>1. disk[d].state # "none" /\ disk[d].pv = pvOf(p) /\ ~ Known(d)
      BY <1>1, <2>d DEF OrderOK
    <2>2. disk'[d].state # "none" /\ disk'[d].pv = pvOf(p)
      BY <2>1, DisksStay DEF DisksKept
    <2>3. ~ Known(d)'
      <3>1. ASSUME NEW q \in Proc, CreateKeep(q), diskOf(q) = d
            PROVE  FALSE
        <4>1. pc[q] \in Ordered /\ pc'[q] \notin Ordered
          BY <3>1 DEF CreateKeep, Return, Ordered, TypeInv, TypeOK
        <4> QED BY <1>1, <2>d, <3>1, <4>1 DEF OrderOK
      <3> QED BY <2>1, <3>1, KnownStays
    <2>4. ASSUME NEW q \in Proc, pc'[q] \in Ordered, diskOf(q)' = d
          PROVE  q = p
      <3>1. pc[q] \in Ordered /\ diskOf(q) = d
        BY <2>1, <2>4, OrderStays
      <3> QED BY <1>1, <2>d, <3>1 DEF OrderOK
    <2> QED BY <1>1, <2>d, <2>2, <2>3, <2>4
  <1>2. CASE /\ disk[diskOf(p)'].state = "none" /\ diskOf(p)' \in Disk
             /\ disk'[diskOf(p)'].state = "new" /\ disk'[diskOf(p)'].pv = pvOf(p)'
             /\ \A q \in Proc : q # p => pc'[q] = pc[q] /\ diskOf(q)' = diskOf(q)
    <2>d. PICK d \in Disk : d = diskOf(p)'
      BY <1>2
    <2>3. ~ Known(d)'
      <3>1. ~ Known(d)
        BY <1>2, <2>d DEF KnownOK, Made
      <3>2. ASSUME NEW q \in Proc, CreateKeep(q), diskOf(q) = d
            PROVE  FALSE
        BY <1>2, <2>d, <3>2 DEF CreateKeep, Ordered, OrderOK
      <3> QED BY <3>1, <3>2, KnownStays
    <2>4. ASSUME NEW q \in Proc, pc'[q] \in Ordered, diskOf(q)' = d, q # p
          PROVE  FALSE
      BY <1>2, <2>d, <2>4 DEF OrderOK
    <2> QED BY <1>2, <2>d, <2>3, <2>4
  <1> QED BY <1>1, <1>2, OrderStays

(* Every other step leaves the caches, but for what a delete or a restart  *)
(* takes out of them.                                                      *)
CachesLeft ==
    /\ \A v \in Pv : pvcCreatedMap'[v] \in {pvcCreatedMap[v], NoDisk}
    /\ diskIdPvMap' = diskIdPvMap \/ \A v \in Pv : pvcCreatedMap'[v] = NoDisk

(* A delete takes the disk's name out of the cache before it is done.      *)
CacheLeaves(p) ==
    \/ pc[p] = "dDone" /\ diskOf(p)' = diskOf(p)
    \/ /\ diskOf(p)' = diskOf(p) /\ diskOf(p) \in Disk
       /\ \A v \in Pv : pvcCreatedMap'[v] = IF v = diskIdPvMap[diskOf(p)] THEN NoDisk ELSE pvcCreatedMap[v]

(* It does; and only CreateKeep and DeleteDone do more.                    *)
LEMMA CacheSteps ==
  ASSUME TypeInv, [Next]_vars
  PROVE  /\ CachesLeft \/ \E p \in Proc : CreateKeep(p) \/ DeleteDone(p)
         /\ \A p \in Proc : pc'[p] = "dDone" => CacheLeaves(p)
  <1>1. ASSUME NEW p \in Proc, Wanders(p) \/ Tells(p) \/ Waits(p) \/ Submits(p) \/ Orders(p) \/ Forgets(p)
        PROVE  /\ CachesLeft /\ pc'[p] # "dDone" /\ Others(p)
    BY <1>1 DEF Wanders, Tells, Waits, Submits, Orders, Forgets, FromTo, Busy, Stores, Polls, caches,
                CachesLeft
  <1>2. ASSUME NEW p \in Proc, Sees(p)
        PROVE  /\ CachesLeft /\ (pc'[p] = "dDone" => CacheLeaves(p)) /\ Others(p)
    <2>1. CASE FromTo(p, {"dPoll"}, {"dDone"})
      <3>1. diskOf(p) \in Disk /\ diskOf(p)' = diskOf(p)
        BY <1>2, <2>1 DEF Sees, FromTo, TypeInv, JobOK, HasDisk, DeleteAt, diskOf
      <3>2. \A v \in Pv : pvcCreatedMap'[v] = IF v = diskIdPvMap[diskOf(p)] THEN NoDisk
                                              ELSE pvcCreatedMap[v]
        BY <1>2, <2>1 DEF Sees, FromTo, Polls
      <3> QED BY <1>2, <3>1, <3>2 DEF Sees, CachesLeft, CacheLeaves
    <2>2. CASE ~ FromTo(p, {"dPoll"}, {"dDone"})
      BY <1>2, <2>2 DEF Sees, FromTo, CachesLeft
    <2> QED BY <2>1, <2>2
  <1>3. ASSUME NEW p \in Proc, CreateKeep(p) \/ DeleteDone(p)
        PROVE  pc'[p] # "dDone" /\ Others(p)
    BY <1>3 DEF CreateKeep, DeleteDone, Return, Others, TypeInv, TypeOK
  <1>4. ASSUME NEW p \in Proc, NEW q \in Proc, q # p, Others(p)
        PROVE  pc'[q] = "dDone" => CacheLeaves(q)
    BY <1>4 DEF Others, CacheLeaves, diskOf
  <1>5. CASE UNCHANGED <<goroutines, caches>>
    BY <1>5 DEF goroutines, caches, CachesLeft, CacheLeaves, diskOf
  <1>6. CASE Restart
    BY <1>6 DEF Restart, CachesLeft
  <1>7. ASSUME NEW p \in Proc, CachesLeft \/ CreateKeep(p) \/ DeleteDone(p), Others(p),
               pc'[p] = "dDone" => CacheLeaves(p)
        PROVE  /\ CachesLeft \/ \E q \in Proc : CreateKeep(q) \/ DeleteDone(q)
               /\ \A q \in Proc : pc'[q] = "dDone" => CacheLeaves(q)
    BY <1>4, <1>7
  <1> QED BY <1>1, <1>2, <1>3, <1>5, <1>6, <1>7, Steps DEF Ends

(* CacheOK is inductive: what is kept is nobody else's, and what is        *)
(* deleted is found under the name it was made for.                        *)
LEMMA NextCache ==
  ASSUME TypeInv, CloudShape, KnownOK, OrderOK, CacheOK, [Next]_vars
  PROVE  CacheOK'
  <1>t. /\ pvcCreatedMap \in [Pv -> Disk \union {NoDisk}] /\ NoDisk \notin Disk
        /\ diskIdPvMap \in [Disk -> Pv \union {NoPv}]
    BY DiskAssumption DEF TypeInv, TypeOK
  <1>k. ASSUME NEW v \in Pv, pvcCreatedMap[v] # NoDisk
        PROVE  /\ pvcCreatedMap[v] \in Disk /\ Known(pvcCreatedMap[v])
               /\ disk'[pvcCreatedMap[v]].pv = v
    <2>1. pvcCreatedMap[v] \in Disk /\ Known(pvcCreatedMap[v])
      BY <1>k, <1>t DEF Known
    <2>2. disk[pvcCreatedMap[v]].state # "none" /\ disk[pvcCreatedMap[v]].pv = v
      BY <1>k, <2>1 DEF KnownOK, Made, CacheOK
    <2> QED BY <2>1, <2>2, DisksStay DEF DisksKept
  <1>1. ASSUME NEW v \in Pv, pvcCreatedMap'[v] # NoDisk
        PROVE  diskIdPvMap'[pvcCreatedMap'[v]] = v /\ disk'[pvcCreatedMap'[v]].pv = v
    <2>1. CASE CachesLeft
      BY <1>1, <1>k, <2>1 DEF CachesLeft, CacheOK
    <2>2. ASSUME NEW p \in Proc, CreateKeep(p)
          PROVE  diskIdPvMap'[pvcCreatedMap'[v]] = v /\ disk'[pvcCreatedMap'[v]].pv = v
      <3>1. /\ pvOf(p) \in Pv /\ diskOf(p) \in Disk /\ ~ Known(diskOf(p))
            /\ disk[diskOf(p)].pv = pvOf(p) /\ disk'[diskOf(p)] = disk[diskOf(p)]
        BY <2>2 DEF CreateKeep, TypeInv, JobOK, CreateAt, HasDisk, Ordered, OrderOK, cloud
      <3>2. CASE v = pvOf(p)
        BY <1>t, <2>2, <3>1, <3>2 DEF CreateKeep
      <3>3. CASE v # pvOf(p)
        <4>1. pvcCreatedMap'[v] = pvcCreatedMap[v]
          BY <1>t, <2>2, <3>1, <3>3 DEF CreateKeep
        <4>2. pvcCreatedMap[v] # diskOf(p)
          BY <1>1, <1>k, <3>1, <4>1
        <4>3. diskIdPvMap'[pvcCreatedMap[v]] = diskIdPvMap[pvcCreatedMap[v]]
          BY <1>t, <1>1, <1>k, <2>2, <4>1, <4>2 DEF CreateKeep
        <4> QED BY <1>1, <1>k, <4>1, <4>3 DEF CacheOK
      <3> QED BY <3>2, <3>3
    <2>3. ASSUME NEW p \in Proc, DeleteDone(p)
          PROVE  diskIdPvMap'[pvcCreatedMap'[v]] = v /\ disk'[pvcCreatedMap'[v]].pv = v
      <3>1. pvcCreatedMap' = pvcCreatedMap /\ pvcCreatedMap[v] # diskOf(p)
        BY <2>3 DEF DeleteDone, CacheOK
      <3>2. diskIdPvMap'[pvcCreatedMap[v]] = diskIdPvMap[pvcCreatedMap[v]]
        BY <1>t, <1>1, <1>k, <2>3, <3>1 DEF DeleteDone
      <3> QED BY <1>1, <1>k, <3>1, <3>2 DEF CacheOK
    <2> QED BY <2>1, <2>2, <2>3, CacheSteps
  <1>2. ASSUME NEW p \in Proc, pc'[p] = "dDone", NEW v \in Pv, pvcCreatedMap'[v] = diskOf(p)'
        PROVE  FALSE
    <2>1. CASE pc[p] = "dDone" /\ diskOf(p)' = diskOf(p)
      <3>1. diskOf(p) \in Disk /\ Known(diskOf(p)) /\ pvcCreatedMap[v] # diskOf(p)
        BY <2>1 DEF TypeInv, JobOK, HasDisk, DeleteAt, Known, CacheOK
      <3>2. ASSUME NEW q \in Proc, CreateKeep(q)
            PROVE  FALSE
        <4>1. pvOf(q) \in Pv /\ ~ Known(diskOf(q))
          BY <3>2 DEF CreateKeep, TypeInv, JobOK, CreateAt, Ordered, OrderOK
        <4>2. pvcCreatedMap'[v] \in {pvcCreatedMap[v], diskOf(q)}
          BY <1>t, <3>2, <4>1 DEF CreateKeep
        <4> QED BY <1>2, <2>1, <3>1, <4>1, <4>2
      <3>3. pvcCreatedMap'[v] \in {pvcCreatedMap[v], NoDisk}
        BY <3>2, CacheSteps DEF CachesLeft, DeleteDone
      <3> QED BY <1>t, <1>2, <2>1, <3>1, <3>3
    <2>2. CASE /\ diskOf(p)' = diskOf(p) /\ diskOf(p) \in Disk
               /\ \A w \in Pv : pvcCreatedMap'[w] = IF w = diskIdPvMap[diskOf(p)] THEN NoDisk
                                                    ELSE pvcCreatedMap[w]
      <3>1. v # diskIdPvMap[diskOf(p)] /\ pvcCreatedMap[v] = diskOf(p)
        BY <1>t, <1>2, <2>2
      <3> QED BY <1>t, <2>2, <3>1 DEF CacheOK
    <2> QED BY <1>2, <2>1, <2>2, CacheSteps DEF CacheLeaves
  <1> QED BY <1>1, <1>2 DEF CacheOK

----------------------------------------------------------------------------
(* The invariant, and what follows from it.                                *)

(* It holds at the start: no request runs, nothing is kept, and the disks  *)
(* Kubernetes knows of were made before.                                   *)
LEMMA InitIInv ==
  ASSUME Init
  PROVE  IInv /\ MarksOwned
  <1>1. TypeInv
    BY InitTypeInv
  <1>2. /\ \A p \in Proc : pc[p] = "idle"
        /\ \A d \in Disk : diskIdPvMap[d] = NoPv /\ disk[d].by = NoProc
        /\ \A d \in Provisioned : disk[d].state = "free"
        /\ \A v \in Pv : pvcCreatedMap[v] = NoDisk
        /\ volumes = Provisioned
    BY CloudAssumption DEF Init, Fresh, CloudInit, NewDisk
  <1>3. CloudShape
    BY CloudAssumption DEF Init, CloudInit, NewDisk, CloudShape
  <1>4. TaskOK
    BY <1>2, CloudAssumption DEF TaskOK, TaskOf
  <1>5. KnownOK
    BY <1>2, DiskAssumption DEF KnownOK, Known, Answers, Made
  <1>6. OrderOK /\ CacheOK
    BY <1>2 DEF OrderOK, CacheOK, Ordered
  <1>7. MarksOwned
    BY DEF Init, Fresh, MarksOwned
  <1> QED BY <1>1, <1>3, <1>4, <1>5, <1>6, <1>7 DEF IInv

(* Every step keeps it.                                                    *)
LEMMA NextIInv ==
  ASSUME IInv, MarksOwned, [Next]_vars
  PROVE  IInv' /\ MarksOwned'
  BY NextTypeInv, NextShape, NextTasks, NextKnown, NextOrder, NextCache, NextMarks DEF IInv

(* So it always holds.                                                     *)
THEOREM DiskInvariant == Spec => [](IInv /\ MarksOwned)
  BY InitIInv, NextIInv, PTL DEF Spec

(* The handlers keep the types of the maps they share.                     *)
THEOREM DiskTypeCorrect == Spec => []TypeOK
  <1>1. IInv => TypeOK
    BY DEF IInv, TypeInv
  <1> QED BY <1>1, DiskInvariant, PTL

(* "creating", "deleting" and "detaching" belong to requests that will     *)
(* take them away, although nothing keeps two requests from sharing one.   *)
THEOREM DiskMarksOwned == Spec => []MarksOwned
  BY DiskInvariant, PTL

(* What CreateVolume answers from its cache was made for the name, and the *)
(* delete of that disk finds the name.                                     *)
THEOREM DiskCacheConsistent == Spec => []CacheConsistent
  <1>1. IInv => CacheConsistent
    <2> SUFFICES ASSUME IInv, NEW v \in Pv, pvcCreatedMap[v] # NoDisk
                 PROVE  /\ diskIdPvMap[pvcCreatedMap[v]] = v /\ disk[pvcCreatedMap[v]].pv = v
                        /\ disk[pvcCreatedMap[v]].state \notin {"new", "broken"}
      BY DEF CacheConsistent
    <2>1. pvcCreatedMap[v] \in Disk
      BY DEF IInv, TypeInv, TypeOK
    <2> QED BY <2>1 DEF IInv, KnownOK, Known, Made, CacheOK
  <1> QED BY <1>1, DiskInvariant, PTL

(* A delete that saw its task finish left no name that CreateVolume would  *)
(* answer with the deleted disk.                                           *)
THEOREM DiskDeletesForget == Spec => []DeleteForgets
  <1>1. IInv => DeleteForgets
    BY DEF IInv, TaskOK, TaskOf, CacheOK, DeleteForgets
  <1> QED BY <1>1, DiskInvariant, PTL
=============================================================================
