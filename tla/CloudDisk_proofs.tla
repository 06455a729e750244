------------------------- MODULE CloudDisk_proofs -------------------------
(***************************************************************************)
(* What the controllers' proofs need of the cloud: every request and every *)
(* end of a task keeps the types of what the cloud knows.                  *)
(***************************************************************************)
EXTENDS CloudDisk, TLAPS

(* The cloud starts with records of the right type.                        *)
LEMMA CloudInitTypeOK == CloudInit => CloudTypeOK
  BY CloudAssumption DEF CloudInit, CloudTypeOK, NewDisk, DiskRecord, DiskState, TaskKind

(* A record of the cloud has the fields of its type, and can be updated    *)
(* field by field.                                                         *)
LEMMA DiskRecordFields ==
  ASSUME CloudTypeOK, NEW d \in Disk
  PROVE  /\ disk[d] \in DiskRecord
         /\ disk[d].state \in DiskState
         /\ disk[d].node \in Node \union {NoNode}
         /\ disk[d].task \in TaskKind
         /\ disk[d].to \in Node \union {NoNode}
         /\ disk[d].by \in Proc \union {NoProc}
         /\ disk[d].pv \in Pv \union {NoPv}
  BY DEF CloudTypeOK, DiskRecord

(* A task accepted on a disk, its answer received or lost, keeps the types.*)
LEMMA SubmitTypeOK ==
  ASSUME CloudTypeOK, NEW p \in Proc \union {NoProc}, NEW d \in Disk, NEW kind \in TaskKind,
         NEW n \in Node \union {NoNode}, Submit(p, d, kind, n)
  PROVE  CloudTypeOK'
  <1>1. disk' \in [Disk -> DiskRecord]
    BY DEF CloudTypeOK, Submit, DiskRecord
  <1>2. outcome' \in [Proc -> {"none", "doing", "finish", "error"}]
    BY DEF CloudTypeOK, Submit, Await
  <1> QED BY <1>1, <1>2 DEF CloudTypeOK

(* So does a new disk.                                                     *)
LEMMA SubmitCreateTypeOK ==
  ASSUME CloudTypeOK, NEW p \in Proc \union {NoProc}, NEW d \in Disk, NEW pv \in Pv,
         SubmitCreate(p, d, pv)
  PROVE  CloudTypeOK'
  <1>1. disk' \in [Disk -> DiskRecord]
    BY DEF CloudTypeOK, SubmitCreate, DiskRecord, DiskState, TaskKind
  <1>2. outcome' \in [Proc -> {"none", "doing", "finish", "error"}]
    BY DEF CloudTypeOK, SubmitCreate, Await
  <1> QED BY <1>1, <1>2 DEF CloudTypeOK

(* So does a caller that stops polling its task id ...                     *)
LEMMA ForgetTypeOK ==
  ASSUME CloudTypeOK, NEW p \in Proc, NEW d \in Disk, Forget(p, d)
  PROVE  CloudTypeOK'
  <1>1. disk' \in [Disk -> DiskRecord]
    BY DEF CloudTypeOK, Forget, DiskRecord
  <1>2. outcome' \in [Proc -> {"none", "doing", "finish", "error"}]
    BY DEF CloudTypeOK, Forget
  <1> QED BY <1>1, <1>2 DEF CloudTypeOK

(* ... and a controller that dies with all of its task ids.                *)
LEMMA ForgetAllTypeOK ==
  ASSUME CloudTypeOK, ForgetAll
  PROVE  CloudTypeOK'
  <1>1. disk' \in [Disk -> DiskRecord]
    BY DEF CloudTypeOK, ForgetAll, DiskRecord
  <1>2. outcome' \in [Proc -> {"none", "doing", "finish", "error"}]
    BY DEF ForgetAll
  <1> QED BY <1>1, <1>2 DEF CloudTypeOK

(* The end of one task, with any result, keeps the types.                  *)
LEMMA EndTaskTypeOK ==
  ASSUME CloudTypeOK, NEW d \in Disk, NEW state \in DiskState, NEW node \in Node \union {NoNode},
         NEW result \in {"finish", "error"}, EndTask(d, state, node, result)
  PROVE  CloudTypeOK'
  <1>1. disk' \in [Disk -> DiskRecord]
    <2>1. disk \in [Disk -> DiskRecord] /\ disk[d] \in DiskRecord
      BY DEF CloudTypeOK
    <2>2. [disk[d] EXCEPT !.state = state, !.node = node, !.task = "none",
                          !.to = NoNode, !.by = NoProc] \in DiskRecord
      BY <2>1 DEF DiskRecord, TaskKind
    <2>3. disk' = [disk EXCEPT ![d] = [disk[d] EXCEPT !.state = state, !.node = node, !.task = "none",
                                                      !.to = NoNode, !.by = NoProc]]
      BY DEF EndTask
    <2> QED BY <2>1, <2>2, <2>3
  <1>2. outcome' \in [Proc -> {"none", "doing", "finish", "error"}]
    BY DEF CloudTypeOK, EndTask
  <1> QED BY <1>1, <1>2 DEF CloudTypeOK

(* Every end of a task in the cloud keeps the types.                       *)
LEMMA CloudNextTypeOK ==
  ASSUME CloudTypeOK, CloudNext
  PROVE  CloudTypeOK'
  <1>1. PICK d \in Disk : TaskFinishes(d) \/ TaskFails(d)
    BY DEF CloudNext
  <1>2. CASE TaskFinishes(d)
    <2>1. disk[d].to \in Node \union {NoNode}
      BY DiskRecordFields
    <2> QED BY <1>2, <2>1, EndTaskTypeOK DEF TaskFinishes, DiskState
  <1>3. CASE TaskFails(d)
    <2>1. disk[d].state \in DiskState /\ disk[d].node \in Node \union {NoNode}
      BY DiskRecordFields
    <2>2. (IF disk[d].task = "create" THEN "broken" ELSE disk[d].state) \in DiskState
      BY <2>1 DEF DiskState
    <2> QED BY <1>3, <2>1, <2>2, EndTaskTypeOK DEF TaskFails
  <1> QED BY <1>1, <1>2, <1>3
----------------------------------------------------------------------------
(* What a disk's record may be beyond its type: only an attached disk has  *)
(* a node, only an existing one a task, and an attach task a target.       *)
CloudShape ==
    \A d \in Disk :
        /\ disk[d].state = "attached" => disk[d].node \in Node
        /\ disk[d].state # "attached" => disk[d].node = NoNode
        /\ disk[d].state = "none" => disk[d].task = "none"
        /\ disk[d].task = "create" => disk[d].state = "new"
        /\ disk[d].task = "attach" => disk[d].to \in Node

(* The cloud starts with records of that shape.                            *)
LEMMA CloudInitShape == CloudInit => CloudShape
  BY DEF CloudInit, CloudShape, NewDisk

(* A task that is accepted keeps the shape ...                             *)
LEMMA SubmitShape ==
  ASSUME CloudTypeOK, CloudShape, NEW p \in Proc \union {NoProc}, NEW d \in Disk,
         NEW kind \in {"attach", "detach", "delete"}, NEW n \in Node \union {NoNode},
         kind = "attach" => n \in Node, Submit(p, d, kind, n)
  PROVE  CloudShape'
  BY DEF CloudTypeOK, CloudShape, DiskRecord, Submit, Exists

(* ... and so does a new disk, ...                                         *)
LEMMA SubmitCreateShape ==
  ASSUME CloudTypeOK, CloudShape, NEW p \in Proc \union {NoProc}, NEW d \in Disk, NEW pv \in Pv,
         SubmitCreate(p, d, pv)
  PROVE  CloudShape'
  BY DEF CloudTypeOK, CloudShape, DiskRecord, SubmitCreate

(* ... a caller that stops polling, a controller that dies, ...            *)
LEMMA ForgetShape ==
  ASSUME CloudTypeOK, CloudShape, NEW p \in Proc, NEW d \in Disk, Forget(p, d) \/ ForgetAll
  PROVE  CloudShape'
  BY DEF CloudTypeOK, CloudShape, DiskRecord, Forget, ForgetAll

(* ... and the end of a task.                                              *)
LEMMA TaskEndsShape ==
  ASSUME CloudTypeOK, CloudShape, NEW d \in Disk, TaskFinishes(d) \/ TaskFails(d)
  PROVE  CloudShape'
  <1>1. CASE TaskFinishes(d)
    <2>1. PICK state, node :
             /\ EndTask(d, state, node, "finish")
             /\ state \in {"free", "attached", "gone"}
             /\ IF state = "attached" THEN node \in Node ELSE node = NoNode
      BY <1>1 DEF CloudShape, TaskFinishes
    <2>2. disk' = [disk EXCEPT ![d] = [@ EXCEPT !.state = state, !.node = node, !.task = "none",
                                                !.to = NoNode, !.by = NoProc]]
      BY <2>1 DEF EndTask
    <2> QED BY <2>1, <2>2 DEF CloudTypeOK, CloudShape, DiskRecord
  <1>2. CASE TaskFails(d)
    BY <1>2 DEF CloudTypeOK, CloudShape, DiskRecord, TaskFails, EndTask
  <1> QED BY <1>1, <1>2
=============================================================================
