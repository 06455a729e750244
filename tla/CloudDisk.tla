----------------------------- MODULE CloudDisk -----------------------------
(***************************************************************************)
(* The block-storage cloud as the controllers see it (external: there is   *)
(* no code of it in the repository).  A disk is created, attached,         *)
(* detached and deleted by tasks; a request to start a task is answered    *)
(* with a task id, and the caller then polls that id.                      *)
(*                                                                         *)
(* What is assumed of the cloud, and no more:                              *)
(*   - a disk runs one task at a time, a second one is refused (the status *)
(*     a disk reports, "mounting", "unmounting", ..., is a single value);  *)
(*   - a task that finishes has had its effect, a task that fails has had  *)
(*     none, and any task may do either or never end;                      *)
(*   - an attached disk is neither attached again nor deleted;             *)
(*   - the cloud does not limit the number of disks of a node.             *)
(* A request may also be accepted and its answer lost.                     *)
(***************************************************************************)
EXTENDS Naturals, FiniteSets

CONSTANTS Proc,        \* the handler goroutines that can wait for a task
          Pv,          \* the names of PersistentVolumes
          Disk,        \* disk ids, handed out once each by the cloud
          Node,        \* cloud instances
          NoProc, NoPv, NoNode,
          Provisioned  \* disks that exist when the controller starts

ASSUME CloudAssumption ==
    /\ Provisioned \subseteq Disk
    /\ NoProc \notin Proc /\ NoPv \notin Pv /\ NoNode \notin Node

VARIABLES disk,        \* what the cloud knows of every disk id
          outcome      \* what polling its task id would tell each handler

DiskState == {"none", "new", "free", "attached", "broken", "gone"}
TaskKind == {"none", "create", "attach", "detach", "delete"}
DiskRecord == [state : DiskState,
               node  : Node \union {NoNode},   \* where it is attached
               task  : TaskKind,               \* the task that is running
               to    : Node \union {NoNode},   \* the node the task was sent for
               by    : Proc \union {NoProc},   \* who polls that task
               pv    : Pv \union {NoPv}]       \* the name it was created with

CloudTypeOK ==
    /\ disk \in [Disk -> DiskRecord]
    /\ outcome \in [Proc -> {"none", "doing", "finish", "error"}]

NewDisk(s) == [state |-> s, node |-> NoNode, task |-> "none", to |-> NoNode,
               by |-> NoProc, pv |-> NoPv]

CloudInit ==
    /\ disk = [d \in Disk |-> NewDisk(IF d \in Provisioned THEN "free" ELSE "none")]
    /\ outcome = [p \in Proc |-> "none"]

Exists(d) == disk[d].state \notin {"none", "gone"}
AttachedTo(d, n) == disk[d].state = "attached" /\ disk[d].node = n
DisksOf(n) == {d \in Disk : AttachedTo(d, n)}

----------------------------------------------------------------------------
(* Requests.  `p' is the caller, or NoProc when the answer is lost.        *)

Await(p) == outcome' = [q \in Proc |-> IF q = p THEN "doing" ELSE outcome[q]]

Submit(p, d, kind, n) ==
    /\ Exists(d) /\ disk[d].task = "none"
    /\ disk' = [disk EXCEPT ![d] = [@ EXCEPT !.task = kind, !.to = n, !.by = p]]
    /\ Await(p)

SubmitCreate(p, d, pv) ==
    /\ disk[d].state = "none"
    /\ disk' = [disk EXCEPT ![d] = [@ EXCEPT !.state = "new", !.task = "create",
                                             !.by = p, !.pv = pv]]
    /\ Await(p)

(* The caller p of d's task stops polling it: the task itself goes on.     *)
Forget(p, d) ==
    /\ disk' = [disk EXCEPT ![d].by = IF @ = p THEN NoProc ELSE @]
    /\ outcome' = [outcome EXCEPT ![p] = "none"]

ForgetAll ==
    /\ disk' = [d \in Disk |-> [disk[d] EXCEPT !.by = NoProc]]
    /\ outcome' = [p \in Proc |-> "none"]

----------------------------------------------------------------------------
(* Tasks end.                                                              *)

EndTask(d, state, node, result) ==
    /\ disk' = [disk EXCEPT ![d] = [@ EXCEPT !.state = state, !.node = node, !.task = "none",
                                             !.to = NoNode, !.by = NoProc]]
    /\ outcome' = [p \in Proc |-> IF p = disk[d].by THEN result ELSE outcome[p]]

TaskFinishes(d) ==
    \/ /\ disk[d].task = "create"
       /\ EndTask(d, "free", NoNode, "finish")
    \/ /\ disk[d].task = "attach" /\ disk[d].state = "free"
       /\ EndTask(d, "attached", disk[d].to, "finish")
    \/ /\ disk[d].task = "detach" /\ disk[d].state = "attached"
       /\ EndTask(d, "free", NoNode, "finish")
    \/ /\ disk[d].task = "delete" /\ disk[d].state # "attached"
       /\ EndTask(d, "gone", NoNode, "finish")

TaskFails(d) ==
    /\ disk[d].task # "none"
    /\ EndTask(d, IF disk[d].task = "create" THEN "broken" ELSE disk[d].state,
               disk[d].node, "error")

CloudNext == \E d \in Disk : TaskFinishes(d) \/ TaskFails(d)
=============================================================================
