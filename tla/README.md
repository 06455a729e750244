# cds-csi-driver: specifications, model checking, proofs

The repository builds one binary with six Container Storage Interface (CSI)
drivers; `cmd/main.go` starts the one its flag names. Every driver has a
controller service (a StatefulSet of one replica) and a node service (a
DaemonSet). Kubernetes sidecars turn volumes and pods into RPCs, and call again
whenever an answer is an error. The gRPC server runs each RPC in a goroutine of
its own. The storage is elsewhere: a cloud that creates, attaches, detaches and
deletes block disks by asynchronous tasks, NFS servers, object stores.

What makes this hard is the same everywhere: RPCs of one volume interleave; an
answer that is lost is followed by a retry, perhaps while the cloud's task goes
on; the controller keeps its idea of what is going on in memory and loses it in
a restart; and each handler is a sequence of calls any of which can fail.

## Inventory

| part | state it keeps | operations | interacts with | what is hard | what makes it correct |
|---|---|---|---|---|---|
| EBS controller (`pkg/driver/ebs_disk/controllerserver.go`) | nine `sync.Map`s: volumes made, marks *creating*, *deleting*, *attaching*, *detaching*, event ids, two maps used as locks | CreateVolume, DeleteVolume, ControllerPublishVolume (with forced detach), ControllerUnpublishVolume; a periodic patch of PV labels | cloud tasks, Kubernetes nodes | check and mark in separate map calls; marks that survive an error; restart; polls that give up | locks exclude, marks belong to running requests, cached volumes exist, a failed create is not repeated, answers are true |
| CCS controller (`pkg/driver/ccsdisk`) | `VolumeLocks`, a ConfigMap of volumes made, a mutex for counting disks | the same four RPCs | cloud, ConfigMap (optimistic concurrency), PV list | lookup before the lock; record before the disk is ready; conflicts that are not retried; count without a reservation | lock excludes, a record names a disk made for that name, what was seen under the lock stays true |
| CDS disk controller (`pkg/driver/disk`) | the maps of the EBS controller as plain Go maps | the same four RPCs, topology patches | cloud | unsynchronised maps, marks stored after the call they guard, sticky errors | as for EBS |
| EKS block controller (`pkg/driver/eks_block`) | `CacheLockMap`, for names, nodes and disks alike | the same four RPCs | cloud through a client of its own | what a name or an id stands for is read anew each time, of a disk before it is locked; one map of locks for three kinds of ids; a forced detach locks, unlocks and locks again | locks exclude, a name has one block, a disk moves only for the request that holds it |
| block nodes (`*/nodeserver.go` of the four) | maps of staging/publishing marks, a format mark in a ConfigMap (CCS, EBS) or at the service (EKS, CDS), `VolumeLocks` (CCS) | Stage, Publish, Unpublish, Unstage | mount table, `mkfs`, `blkid`, ConfigMap | sticky marks, format mark lost after `mkfs`, early returns that leave marks | never format a disk with data; never give a pod the bare directory; what is remembered as mounted is; marks end with their request |
| NAS (`pkg/driver/nas`) | `processedPvc`, a table of reference-counted locks, a marker file per dynamic directory | CreateVolume, DeleteVolume, node Publish/Unpublish | NFS mounts, PV and StorageClass | temporary mounts shared by name; a lock dropped from the table while others take it; half-made markers; id of a dynamic volume | creations of one volume exclude; directories are made in the mounted export; an answered volume keeps its directory |
| OSS (`pkg/driver/oss`) | a node-wide mutex, credential files, two marker objects per volume | CreateVolume, DeleteVolume, Stage, Publish, Unpublish, Unstage | s3fs processes, object store | rollback of a mount that is not ready; credentials' life; legacy volumes staged at publish | credentials exist while and only while the mount needs them; a bind has a mounted source |
| locks (`pkg/driver/utils/idlocker.go`, `pkg/sets`) | a set of ids under a mutex | TryAcquire, Release | CCS controller and node | ids of two kinds in one set | an id has one holder |
| cloud clients (`eks_block/api`, `utils/eks_client`), helpers (`utils/utils.go`), logging, identity services, `cmd` | none | HTTP, shell, flags | | pure I/O | |

## What is modelled

### CloudDisk (external)

`CloudDisk` is the cloud as the controllers use it. `disk[d]` is what the cloud
would say of a disk and the task it runs, `outcome[p]` what a goroutine would
learn from polling the task it started. `Submit` starts a task for a caller, or
for `NoProc` when the answer is lost; `TaskFinishes` and `TaskFails` end it at
any time, or never. Assumed are: one task per disk at a time (the status a disk
reports is a single value); a finished task has had its effect and a failed one
none; attached disks are neither attached again nor deleted. The cloud is not
assumed to limit the disks of a node, and the instance id of a disk is taken to
change when a task ends.

### EbsController

`EbsController` is `ebs_disk/controllerserver.go`. One `Proc` is one goroutine;
`pc` says where it is and each action is one access to a shared map or one call
of the cloud, under the guard of the code around it. The maps are variables with
the names of the code (`diskAttachingMap`, `AttachDetachMap`, ...), an absent key
being `"none"` or a sentinel. `defers` holds the deferred calls a request has
registered; at `"ret"` they run, last first, one action each, and `Answer` sends
the result. A mark that is stored before a return is an action of its own, so
that other requests come in between. `Restart` empties the maps and drops all
requests; `CreatePanics` is the same, caused by `CreateVolume` using the nil
result of `parseDiskVolumeOptions` before looking at its error (lines 137-138).

The data that does not matter is gone: sizes, zones and quotas are "the check
may refuse", 119 polls are "may give up at any time", and the errors' texts are
one answer `"err"`.

### VolumeLocks, VolumeRecord, CcsController

`CcsController` is `ccsdisk/controllerserver.go` and `ccsapi.go` in the same
style over two small modules it instantiates. `VolumeLocks` is
`utils/idlocker.go`. `VolumeRecord` is the ConfigMap `record-volume-info`: the
API server accepts an update only from a writer that has read the stored
version, and `current` is the set of such writers. A conflict is wrapped in
another error before `RetryOnConflict` sees it, so an update is tried once.
`deleteVolumeInfo` removes one record per update from one copy: the second
update of a call always conflicts. The marks that nodes write in the same
ConfigMap are `NodeFormats`, one atomic read and update, which makes
controllers' copies stale. There are no task ids here: polling looks at the
disk, so an action may see the end of somebody else's task. A forced detach
(line 204) names the node of the request and not the one the disk is on. What
the cloud makes of that is not in the repository, so it may refuse it, fail it,
detach the disk where it is, or end the task without effect (`DetachMisses`). A handler that
answers `nil, nil` (line 200) is an error to the sidecar, since gRPC does not
marshal a nil message.

### EksController, DiskOwnership

`EksController` is `eks_block/controllerserver.go` and `cache.go`. The controller
remembers nothing but locks: `CacheLockMap` holds names, nodes and disks, and
`held[p]` are the entries that a goroutine will delete. `deleteDisk`,
`attachDisk` and `detachDisk` are functions that lock and unlock by themselves,
so that a publish with a forced detach locks node and disk twice, for two nodes.
`unmountFailed` is what the block service's status tells of a detach that
failed. The client turns every `Code` but `"Success"` into an error, so a refused
task ends the request.

`DiskOwnership` is an abstract specification: a disk has one holder at a time
(`Take`, `Give`), moves only while it is held or because of a task that its
holder left behind (`Move`, `Leave`), and a restart forgets the holders.
`EksController` implements it with the mapping at the end of its module: the
holder of a disk is the request that will delete its id from `CacheLockMap`, its
place is the node the cloud has it on, and it has a stray task when it runs an
attach or a detach that nobody polls.

### DiskController

`DiskController` is `disk/controllerserver.go`. It looks like the EBS controller
and is a different algorithm: a request looks a mark up, asks the cloud for the
task, and stores its own mark after that, so the marks warn others off and
exclude nobody. The maps are plain Go maps. The runtime may end the process when
two goroutines use one at once, and `ControllerUnpublishVolume` indexes an empty
slice when the cloud no longer lists the disk; both are the action `Restart`.
The mark `"error"` has no end but a restart. A forced detach leaves
`"attaching"` when the attach after it is refused, which is why `MarksOwned` does
not speak of that mark.

### The nodes: NodeHost, MarkedNode, EbsNode, EksNode, DiskNode, CcsNode, OssNode, NasNode, Nodes

`NodeHost` is what the node services work on: what is mounted at a staging path
(`staged`), what is bound at a pod's target path (`binds`, a stack, each layer
the disk or the bare directory below the staging path), what is on a disk (`fs`)
and what is recorded about it outside the node (`recorded`); the commands
on them, each of which may fail; and the kubelet, which calls in any order a call
the driver has. `utils.RunCommand` returns no output with an error, so that the
drivers' branch for mkfs's "existing filesystem" is never taken, and is not
modelled. `Mounted` says no when its command cannot be run. `blkid` may fail too,
and the drivers take that for an empty device: the request is then at `sUnread`
(`ksUnread` with CCS), from where it runs `mkfs` whatever is on the disk. Assumed of
the host is that `mkfs` refuses a device that is mounted, and that a `blkid` that
does not fail reports a filesystem that is there.

The EBS, EKS and CDS nodes share the steps of `MarkedNode`: maps from a path to
a mark, looked up and stored in separate calls. What they do differently is in
`EbsNode`, `EksNode` and `DiskNode`: where a publish leaves its mark on each
path, what keeps an unstage off another, and how a disk is known to be formatted
(the ConfigMap `ebs-formated`, the block service's record, or a flag of the
cloud that is set after `mkfs` without looking at the device; it is always at
`sUnread`). `CcsNode` locks the disk with `VolumeLocks` and remembers nothing; the
CCS controller may remove its record while it is in use (`RecordRemoved`, the
residual records of `deleteVolumeInfo`). `OssNode` has one mutex, credential files
and a rollback that ignores when they cannot be removed (`ForgetCredential`), `NasNode` mounts at the target path without any
lock. `Nodes` composes them: the `--driver` flag chooses one at the start, pods
write to what they are given, and the process restarts, which loses maps and
locks and leaves the host as it is.

Data can be lost in these models, as in the code, and `DataKept` says how far it
has to come to that: a request that is about to run `mkfs` on a disk with data is one whose
`blkid` failed, and the disk is none that the process has formatted or recognised since it
started (EBS, EKS) or that is recorded (CCS). Two things have to fail,
then: the knowledge of the format is lost, by a save that failed and a restart or with a CCS
record that is removed, and `blkid` fails. With CDS, which does not look, the first is enough.
That a request whose `blkid` found nothing finds nothing when it formats, however calls
fail in between, is part of the same property.

Two more things the models show plainly, and that are no property because nothing in the
repository says otherwise: the mark `"publishing"` stays behind early returns
of all three (and behind a success of the EBS and EKS nodes, which delete the
map instead of the path from the map), so that a retry is told to wait; and the mark
`"ok"` of an unpublish stays, so that the second unpublish of a path does nothing.

### NasController

`NasController` is `nas/controllerserver.go`, `mount.go` and `utils.go`.
`lockSubpathCreate` is three actions: refer to a lock of the table, wait for its
mutex, and after the release drop the reference and with the last one the entry.
The export is mounted at a path that is a function of the name, the parent of
what is deleted at one that is a function of the id; both may be found mounted,
or fail to be unmounted. `directory[v]` is the state of a volume's directory and
marker, step by step, since each step may be the last. `processedPvc` is filled
by name and emptied by id. An id that this release gives out names the export;
the id of a volume of an earlier release (`Legacy`) names its directory. A delete
is sent again, however it ended (`released` are the volumes once given up).

## The runs

| run | asks | bounds |
|---|---|---|
| `EbsVolumes` | are marks, caches and the promise about failed creates kept? | 2 goroutines, 2 volumes (one with parameters that do not parse), 2 disks, restarts |
| `EbsAttach` | do requests that move disks exclude each other, clean up and answer the truth? | 2 goroutines, 2 disks, 2 nodes (one comes and goes), limit of 1 disk per node, restarts |
| `EbsRequests` | is every request answered? | 2 goroutines, 1 volume, 1 disk, 1 node, all four RPCs |
| `EbsForceDetach` | expected violation: is the event a request is told its node has another's? | as `EbsAttach`, without restarts |
| `CcsVolumes` | do locks and records stay consistent? | 2 goroutines, 2 names, 2 disks, restarts |
| `CcsAttach` | is what was seen, and what is answered, true? | 2 goroutines, 2 disks, 2 nodes, deletes of one disk, limit 1, restarts |
| `CcsRecorded` | expected violation: has a volume that is skipped as created been created? | 2 goroutines, 1 name, 2 disks |
| `EksVolumes` | locks, one block per name, true answers; does it implement `DiskOwnership`? | 2 goroutines, 1 name, 3 disks (two of which can be made), 2 nodes (one comes and goes), limit 1, restarts |
| `DiskVolumes` | do marks belong to requests, and is the cache right, when nothing excludes? | 2 goroutines, 1 name, 2 disks, 2 nodes, restarts |
| `Nodes` | for each of the six drivers: are marks cleaned up, is what is remembered mounted, no bare directory bound, no disk with data formatted that was looked at or is known, what is let go free? | 2 goroutines, 1 disk, 1 target path, `MaxBinds` 2, restarts, `Overlap` |
| `NasVolumes` | does the lock table exclude, is a directory made in the export and kept, does every request end? | 2 goroutines, 1 volume of this release and 1 older, 2 lock objects, restarts, export `/` |
| `NasDelete` | expected violation: has each volume a directory of its own? | 1 goroutine, 2 volumes, an export below `/` |

Two goroutines are enough for every race of the controllers found in reading
them: each is between a check and a mark of one request and a whole request of
another; what a third would do, a lost answer or a restart does too, because
both leave a task behind that no goroutine waits for. Two disks let one name
have two disks, and two requests compete for one node; two nodes let a disk move
and come back. The limit 1 makes the node full in one step. Each request may
arrive any number of times, which covers the sidecars' retries. The state
spaces of the controllers are finite without any counter, so nothing is cut off.
Goroutines are interchangeable (`Symmetry`), and so are names and disks in
`CcsVolumes`, where no request names one by itself; no run checks liveness with symmetry.

`Nodes` has two bounds. `MaxBinds`: a publish stacks a bind on another when two
of them overlap or `Mounted` could not look; with two layers both happen, and a
third would add only more of the same. `Overlap` names, for each driver, the calls of
a disk that may run at the same time, which happens when the kubelet gives up on
one and calls again: any of them with the drivers that lock (CCS, OSS) and with
NAS; with the three that keep marks one kind of pair each (stage and unstage with
EBS, publish and unpublish with EKS, unstage with CDS, where a misspelt mark lets
two of them run), since they share the steps of `MarkedNode` and all pairs of all
of them do not fit in one run. `overlapped` remembers the disks it happened
to, because some properties promise less of those.

`NasVolumes` has as many lock objects as goroutines, the most that are in use at
once, so that an object is used again when it is dropped.

In `EbsController` a goroutine that can go on does (`WF_vars(Handle(p))`):
no call waits for a lock or a channel, `describeTaskStatus` returns after 119
polls, and Go's scheduler does not starve a goroutine. `Answered` needs no
more, in particular nothing of the cloud, the sidecars or the nodes.

In `NasController` a goroutine may wait for a mutex, and the others may take it
again and again: beside `WF_vars(Handle(p))` it is assumed that a goroutine does
not wait for ever for a mutex that is free infinitely often
(`SF_vars(LockAcquire(p))`), which is what the starvation mode of Go's
`sync.Mutex` is for. That the mutex is released at all is not assumed: it is what
`Completed` shows. It does assume, as `WF_vars(Handle(p))`, that what a goroutine runs
comes back: `mount` and `umount` have no timeout (`utils.RunCommandArgs`), and `mkdir`,
`chmod` and the writing of a marker are on a hard NFS mount (no option of `nas/const.go`
makes it soft). While the NFS server is out a request stays where it is, with the mutex
of its name, and so do all later requests of that name: `Completed` is a
property of a driver whose NFS server answers. The API calls of the EBS controller are
assumed to return in the same way.

Every property has a fault, an operator next to the one it replaces marked
"Fault:", that a plausible change of the code would be, and TLC finds the
property violated under it.

### What the violations show

* `EbsForceDetach`: a publish of a disk that sits on a node that is not Ready
  takes the lock of its own node, detaches the disk by force, counts the disks of the
  node and then asks for the same lock again (lines 334 and 395). It is refused with "The
  Node %s Has Another Event", and the event is its own: the run ends where it is about
  to be refused, with no other request holding the node. The disk is marked
  *attaching* in that state, and line 395 returns without taking the mark away.
* `CcsRecorded`: a volume is recorded before its disk is ready (line 79 before
  84), so that the retry of a `CreateVolume` that timed out is answered "has been
  created" with a disk that is still being made, or has failed.

* `NasDelete`: the repository's `README.md:181` promises that each PV is
  provisioned into an isolated directory beneath the configured export. It is,
  but its id encodes server and path of the export
  (`nas/controllerserver.go:113-117`), `DeleteVolume` decodes that and mounts the
  directory above, and `mount.go:244-263` removes what the path names: the export
  with all volumes in it. With the export `/` every delete is refused
  (`mount.go:212-216`) and nothing is lost, which is why `VolumesKept` is
  checked there.

## What is proved

Every invariant of the runs that pass is a theorem, and so are their action
property `FailedCreateIsFinal` and the refinement `OwnsDisks`: they hold for every
value of the constants that the named assumptions allow, not only for the
instances TLC went through. The assumptions on constants say no more than that the
values that stand for "none" are none of the things they stand beside, that ids of
different kinds differ where one map holds both, and that a request has the
arguments its RPC requires. TLC has checked each inductive
invariant on the instances of the component's runs.

`EbsController_proofs` proves, for any sets of goroutines, volumes, disks and
nodes and any requests (`CloudAssumption`, `EbsAssumption` only):

* `TypeCorrect`: `Spec => []TypeOK`. `TypeOK` alone is not inductive, because
  an action applies a map to the disk or node of its request. `TypeInv` adds
  `JobOK`: by where it is, a request has the arguments its handler reads, and
  what it has deferred is about them. There is one lemma per RPC with one step
  per action, and the cloud's steps are lemmas of `CloudDisk_proofs`.
* `LocksAreOwned`: `Spec => []LocksOwned`. An entry of `AttachDetachMap` or
  `DiskMultiTaskMap` is that of exactly one request, which will delete it.
  `LocksOwned` is inductive relative to `TypeInv`. Most steps leave the locks,
  the requests and the deferred calls alone (`LocksKept`); a request without
  locks may change (`LocksKeptByOthers`); the locks are taken only when free
  (`LockNodeLocks`, `LockDiskLocks`) and released by their holder
  (`RunDeferredLocks`).
* `EbsInvariant`: `Spec => [](IInv /\ DetachMarksOwned)`, the inductive invariant
  the rest follows from. To types and locks it adds what is deferred where a
  handler is (`DeferOK`), that "creating" and "deleting" are locks on the name
  and the disk (`MarksOK`), which records the cloud can have (`CloudShape`), that
  who polls a task works on its disk, and that a task it saw finish has had its
  effect (`TaskOK`), that what anybody else can know of was made (`KnownOK`), that
  what a CreateVolume has ordered is its own (`OrderOK`) and that a delete takes the
  name out before the disk's entry (`CacheOK`). A lemma, `Steps`, reduces the
  actions to a dozen kinds of step, and the other lemmas have one case for each.
* `VolumeMarksAreOwned`: `Spec => []VolumeMarksOwned`, from `MarksOK`. A success
  removes "creating" before the request has answered, and its deferred call, which
  then does nothing, may run while the mark is the next request's: `InCreate` ends
  where the lock does.
* `CacheIsConsistent`: `Spec => []CacheConsistent`, from `CacheOK`, `OrderOK`
  and `KnownOK`. That two creates never store into each other's entries follows
  from the cloud's giving out an id once, not from a mark.
* `DetachMarksAreOwned`: `Spec => []DetachMarksOwned`. The event id of a node is
  written and deleted under the lock of the node (`LocksOwned`); "detaching" is
  replaced by the request that stored it because it still holds the disk.
* `AnswersHoldUnderLock`: `Spec => []AnswerHoldsUnderLock`, from `TaskOK`. While a
  request holds the disk, the only task another can start on it is a delete, and the
  disk it takes away is not attached.
* `FailedCreatesAreFinal`: `Spec => FailedCreateIsFinal`, an action property.
  Whoever orders a disk or clears a mark has "creating" stored for its volume, so
  that a volume marked "error" is none of theirs.

`CcsController_proofs` proves, in the same generality (`CloudAssumption`,
`CcsAssumption`):

* `CcsTypeCorrect`: `Spec => []TypeOK`, again with a `JobOK`.
* `VolumeLocksAreOwned`: `Spec => []VolumeLocksOwned`, by the argument of
  `LocksAreOwned`. It needs `JobOK` for one thing more: CreateVolume learns its
  disk while it holds the lock of its name, so what a request locks must not
  depend on the disk there.
* `RecordsAreRight`: `Spec => []RecordsNameTheirDisk`. The property relates two
  stores that change one after the other and is far from inductive. `RecordInv`
  adds: a disk whose id has not been handed out is known to nobody; a disk that a
  delete task runs on is known to Kubernetes and named by no record; a request
  that is about to delete works on a disk that no record names; and the disk of a
  CreateVolume that has yet to write its record is `Private`: not known to
  Kubernetes, in no record, and no other CreateVolume's. So what is deleted can
  get no record afterwards, and what gets a record is being deleted by nobody.
  `RecordInv` was checked by TLC on the instances of `CcsVolumes` and
  `CcsAttach` before it was proved. The argument does not use the lock: the
  order of the calls, and that an update is made from the stored version only,
  are enough.
* `CcsInvariant`: `Spec => [](LockInv /\ SeenOK)`. `LockInv` is all of the above with
  `HeldOK`: a request works on its disk only while it holds it. `SeenOf` says for
  each place of a handler what the request has seen of its disk and, while it polls,
  which task may still be running. It holds because whoever holds
  the lock of a disk is the only one to start a task on it, and the look under the
  lock has shown that no earlier task is left.
* `SeenHolds` and `CcsAnswersHold`: `Spec => []SeenStillHolds` and
  `Spec => []AnswerHoldsUnderLock`, from it. A poll looks at the disk: that the
  state it waits for is the end of its own task needs the clauses of `SeenOf` about
  the places in between. A detach that misses moves nothing and ends the task, after which the
  request still waits for the disk to be free and gives up.

`EksController_proofs` proves, for any requests, names, disks and nodes
(`CloudAssumption`, `EksAssumption`):

* `EksTypeCorrect`, `CacheLocksAreOwned`, `AnswersHold`: `Spec => []TypeOK`,
  `Spec => []CacheLocksOwned`, `Spec => []AnswerHoldsUnderLock`, from one
  inductive invariant, `IInv`. It says, besides, what a request has and holds where it is
  (`JobOK`), what the record of a disk may be (`CloudShape`), that whoever polls
  a task is the request of that disk and waits (`PollOK`), and that a request
  that waits has its own task running or its effect in place, to the answer
  (`TaskOK`). The last is why the lock matters: a task is accepted only on a disk that
  runs none, and no other request submits one while this one holds the disk.
  TLC checked `IInv` on the instance of `EksVolumes` before it was proved.
* `Steps`: a lemma that every step is one of taking a lock, giving one back,
  ordering a block, submitting a task, ceasing to poll, the end of a task, a
  restart, or none of these. The two theorems about names and the refinement have
  one case for each.
* `OneBlockOfAName`: `Spec => []OneBlockPerName`. The strengthening, `NameOK`:
  a request that has looked its name up and found nothing holds the name and
  there still is nothing. What a lost answer or a restart leaves behind is a
  block, which the next look-up finds.
* `ToldOfMadeDisks`: `Spec => []ToldIsCreated`, with `MadeOK`: a create that is
  answered has a disk that is made, and being made does not come undone.
* `ControllerOwnsDisks`: `Spec => OwnsDisks`, the refinement of `DiskOwnership`.
  The step that needs an argument is the end of a task: if nobody polls it, the disk is
  in `stray`, and if somebody does, that request holds the disk (`PollOK`, `JobOK`).

`DiskController_proofs` proves, for any requests, names, disks and nodes
(`CloudAssumption`, `DiskAssumption`), of a controller that locks nothing:

* `DiskTypeCorrect`: `Spec => []TypeOK`, with a `JobOK`.
* `DiskMarksOwned`: `Spec => []MarksOwned`, which is inductive where the types
  are kept. Most steps touch no such mark and are taken where the request has
  none (`Unmarked`); the others store it on the way into the place where it is
  kept or replace it on the way out. That two requests may share a mark does no
  harm to this: whoever ends first clears it, and the other only clears it
  again.
* `DiskCacheConsistent` and `DiskDeletesForget`: `Spec => []CacheConsistent` and
  `Spec => []DeleteForgets`, from the inductive `IInv`. What stands in for a
  lock is the cloud: `OrderOK` says that a disk a CreateVolume has ordered and
  not yet kept is known to nobody else (not to Kubernetes, a map or another
  CreateVolume), so what one request keeps never overwrites the entry of
  another's disk in `diskIdPvMap`; `KnownOK` that what is known was made;
  `TaskOK` that who has seen a task finish finds its effect; `CacheOK` adds to
  the property that a delete that is done has taken the name out. TLC checked
  `IInv` on the instance of `DiskVolumes` before it was proved. The lemma
  `Steps` reduces the actions to nine kinds of step.

`NasController_proofs` proves, for any finite set of goroutines
(`NasAssumption`):

* `NasTypeCorrect`: `Spec => []TypeOK`. That a count is a natural number, and
  so is never decremented from 0, is `CountOK`: the count of a lock is the number
  of requests that refer to it. It is about cardinalities, hence the finite set.
* `OneMakerOfAVolume`: `Spec => []CreationExclusive`. `LockOK`: requests that refer to a
  lock of one volume refer to the same one, it is in the table while anybody
  refers to it (that is `CountOK` again), and who is between acquire and release has its
  mutex.
* `MadeUnderTheMount`: `Spec => []MadeInExport`, which is inductive together with
  the others: only who has the lock of a name mounts and unmounts at its path.

* `MadeVolumesAreKept`: `Spec => []VolumesKept`. `KeptInv` adds that a request which
  is going to store or answer its volume as made has seen the marker, that the cache
  names only such volumes, and that what is removed below `/` is a volume of
  the earlier release which Kubernetes has given up.

`Nodes_proofs` proves, for any requests, disks and target paths, any of the
six drivers and any calls that may overlap (`HostAssumption`, `DriversAssumption`),
the inductive invariant `IInv` (`NodesInvariant`) and from it `TypeCorrect`,
`MarksAreOwned`, `StagedPathsAreMounted`, `NoPodHasABareDirectory`, `DataIsKept` and
`SuccessLetsGo`: the six invariants of the run `Nodes`. One argument serves all the
drivers:

* A request changes nothing of a disk but its own (`Elsewhere`). It is `Alone` with
  its disk when it holds the disk's lock (CCS), holds the mutex (OSS), or when no two
  requests of the disk have overlapped (the others, where the kubelet is what keeps
  requests apart); `AloneOK` says that two requests are never both alone with one disk.
* So what a request that is alone has seen of the disk (`SeenOf`) holds until its
  next step: the staging path is mounted when it binds it, there is no filesystem when
  it runs `mkfs` after `blkid` found none, a disk it has not been able to read is not known
  as formatted, nothing is mounted at the target when it answers.
* `DiskOf` states what is promised of a disk: every bind shows the disk,
  a path remembered as mounted is mounted. It is asked only of disks a
  driver promises something of (`Kept`), and it has only to be shown of steps of the
  request that is alone with the disk. `FsOf`, that what is mounted has a
  filesystem, is asked of every disk, those with overlapping requests included.
* The steps are treated in two layers. The first reduces the actions of each
  driver to a vocabulary of their own (`SharedStep` and `OwnStep` of the three drivers with
  marks, `CcsLooks`/`CcsLocks`/`CcsRuns`, `OssStep`, `NasLooks`/`NasRuns`); the second
  shows of each kind that it keeps the invariant.

TLC checked `IInv` on the instance of the run `Nodes`, all six drivers.
With a publish of CCS that binds without a look at the mount, the proof fails at the
step concerned and nowhere else.

Only model-checked are the two liveness properties, `Answered` and `Completed`:
they rest on fairness, and ENABLED is out of the prover's reach. So are
induction over data and recursive operators; the modules have none of the latter.

## What is not modelled

* The OSS controller (`oss/controllerserver.go`, `objectstore.go`). It keeps
  no state: `CreateVolume` writes two marker objects and `DeleteVolume` lists
  and removes a prefix, and both may be repeated. Whether the two goroutines of a
  removal both end depends on when the object store's client stops after its
  context is cancelled, and the client is not in the repository.
* Making the directory of a static NAS volume that is not there, in the node's
  publish: the controller's mount, directory and umount, once more and without a
  marker.
* The periodic topology patches of three controllers, which write labels and read
  nothing the handlers write.
* The EKS and cloud clients: request signing and HTTP, without state. What they
  turn into an error is in the controllers' models.
* Shell commands, logging, identity services, arguments and options,
  `ValidateVolumeCapabilities` and the RPCs that answer "unimplemented": pure
  I/O, pure formatting, or no state.

What could be added on top of this: `DiskOwnership` for the EBS and CCS
controllers, whose locks are of the same kind, and an instance of `Nodes` with a
disk of two pods.
