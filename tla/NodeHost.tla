------------------------------ MODULE NodeHost ------------------------------
(***************************************************************************)
(* What the node services of the block drivers work on: a host's mounts    *)
(* and filesystems, the commands they run there (pkg/driver/utils/utils.go)*)
(* and the kubelet that calls them.                                        *)
(*                                                                         *)
(* A disk has one staging path, a pod one target path, which binds the     *)
(* staging path.  A bind shows what the staging path showed then: the disk,*)
(* or, when nothing was mounted there, the bare directory.                 *)
(*                                                                         *)
(* Assumed of the host: mkfs refuses a device that is mounted; the kernel  *)
(* refuses to mount a device where it already is; any command may fail,    *)
(* and a blkid that does not reports a filesystem that is there.           *)
(***************************************************************************)
EXTENDS Naturals, Sequences

CONSTANTS Proc,          \* the goroutines of the node service
          Disk, Target,  \* disks attached to the node, target paths of pods
          NoDisk, NoTarget,
          volumeOf,      \* the disk each target path is for
          MaxBinds       \* binds that may be stacked on one target path

ASSUME HostAssumption ==
    /\ NoDisk \notin Disk /\ NoTarget \notin Target
    /\ volumeOf \in [Target -> Disk] /\ MaxBinds \in Nat \ {0}

VARIABLES pc, job, res,  \* a goroutine: where it is, its request, its answer
          staged,        \* disks mounted at their staging path
          binds,         \* what is bound at a target path, the last on top
          fs,            \* what is on a disk
          recorded,      \* disks recorded, outside the node, as formatted
          overlapped     \* disks two requests of which were in progress at once

handlers == <<pc, job, res>>
host == <<staged, binds, fs, recorded>>
hostVars == <<handlers, host, overlapped>>

Request == [op : {"stage", "publish", "unpublish", "unstage"},
            disk : Disk \union {NoDisk}, target : Target \union {NoTarget}]
NoRequest == [op |-> "stage", disk |-> NoDisk, target |-> NoTarget]

HostTypeOK ==
    /\ job \in [Proc -> Request]
    /\ res \in [Proc -> {"none", "ok", "err"}]
    /\ staged \in SUBSET Disk
    /\ \A t \in Target : binds[t] \in UNION {[1 .. n -> {"disk", "dir"}] : n \in 0 .. MaxBinds}
    /\ fs \in [Disk -> {"none", "fs", "data"}]
    /\ recorded \in SUBSET Disk /\ overlapped \in SUBSET Disk

HostInit ==
    /\ pc = [p \in Proc |-> "idle"]
    /\ job = [p \in Proc |-> NoRequest]
    /\ res = [p \in Proc |-> "none"]
    /\ staged = {} /\ binds = [t \in Target |-> <<>>]
    /\ fs = [d \in Disk |-> "none"]
    /\ recorded = {} /\ overlapped = {}

diskOf(p) == job[p].disk
targetOf(p) == job[p].target

----------------------------------------------------------------------------
(* How a goroutine moves.                                                  *)

Goto(p, to) == pc' = [pc EXCEPT ![p] = to] /\ UNCHANGED <<job, res, overlapped>>
Return(p, r) ==
    /\ pc' = [pc EXCEPT ![p] = "ret"]
    /\ res' = [res EXCEPT ![p] = r]
    /\ UNCHANGED <<job, overlapped>>

(* The kubelet calls.  It does one thing at a time with a volume, but when *)
(* a call has timed out its handler runs on.                               *)
InProgress(d) == \E p \in Proc : pc[p] # "idle" /\ diskOf(p) = d

Call(p, op, d, t, to) ==
    /\ pc[p] = "idle"
    /\ pc' = [pc EXCEPT ![p] = to]
    /\ job' = [job EXCEPT ![p] = [op |-> op, disk |-> d, target |-> t]]
    /\ overlapped' = IF InProgress(d) THEN overlapped \union {d} ELSE overlapped
    /\ UNCHANGED <<res, host>>

Answer(p) ==
    /\ pc[p] = "ret"
    /\ pc' = [pc EXCEPT ![p] = "idle"]
    /\ job' = [job EXCEPT ![p] = NoRequest]
    /\ res' = [res EXCEPT ![p] = "none"]
    /\ UNCHANGED <<host, overlapped>>

(* The process ends and starts again; the host does not.                   *)
HandlersEnd ==
    /\ pc' = [p \in Proc |-> "idle"]
    /\ job' = [p \in Proc |-> NoRequest]
    /\ res' = [p \in Proc |-> "none"]
    /\ UNCHANGED <<host, overlapped>>

----------------------------------------------------------------------------
(* Commands.                                                               *)

Bound(t) == binds[t] # <<>>

(* utils.Mounted.  When its command cannot be run it says no.              *)
Mounted(isMounted, says) == says => isMounted

(* os.Stat: the kubelet makes and removes the directories, and removes     *)
(* none that is mounted.                                                   *)
FileExisted(isMounted, says) == isMounted => says

UsesDevice(t, d) == volumeOf[t] = d /\ \E i \in DOMAIN binds[t] : binds[t][i] = "disk"
InUse(d) == d \in staged \/ \E t \in Target : UsesDevice(t, d)

(* mkfs.ext3 and mkfs.ext4 overwrite what is there; mkfs.xfs refuses to,   *)
(* which is any failure: the drivers look for "existing filesystem" in the *)
(* output, and RunCommand returns none with an error.                      *)
Mkfs(d) ==
    /\ ~ InUse(d)
    /\ fs' = [fs EXCEPT ![d] = "fs"]
    /\ UNCHANGED <<staged, binds, recorded>>

MountDevice(d) ==
    /\ fs[d] # "none" /\ d \notin staged
    /\ staged' = staged \union {d}
    /\ UNCHANGED <<binds, fs, recorded>>

BindMount(t) ==
    /\ Len(binds[t]) < MaxBinds
    /\ binds' = [binds EXCEPT ![t] = Append(@, IF volumeOf[t] \in staged THEN "disk" ELSE "dir")]
    /\ UNCHANGED <<staged, fs, recorded>>

(* umount, repeated after "fuser -k" when the path is busy.                *)
UnmountDevice(d) ==
    /\ d \in staged
    /\ staged' = staged \ {d}
    /\ UNCHANGED <<binds, fs, recorded>>

UnbindMount(t) ==
    /\ Bound(t)
    /\ binds' = [binds EXCEPT ![t] = SubSeq(@, 1, Len(@) - 1)]
    /\ UNCHANGED <<staged, fs, recorded>>

Record(d) ==
    /\ recorded' = recorded \union {d}
    /\ UNCHANGED <<staged, binds, fs>>

(* A pod writes to its volume.                                             *)
PodWrites(t) ==
    /\ Bound(t) /\ binds[t][Len(binds[t])] = "disk"
    /\ fs' = [fs EXCEPT ![volumeOf[t]] = "data"]
    /\ UNCHANGED <<handlers, overlapped, staged, binds, recorded>>
=============================================================================
