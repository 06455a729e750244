--------------------------- MODULE NasController ---------------------------
(***************************************************************************)
(* The controller service of the NAS driver                                *)
(* (pkg/driver/nas/controllerserver.go, mount.go and utils.go).  To make a *)
(* volume, the export of its NFS server is mounted for a while in the      *)
(* controller, and a directory with a marker is made in it; to delete one, *)
(* the directory that holds the volume's path is mounted, and what the     *)
(* path names is removed.  A goroutine is a p \in Proc.                    *)
(*                                                                         *)
(* One export is enough: the server of a volume is a function of its name. *)
(* The id of a volume made by this release names the export, that of a     *)
(* volume made before (Legacy) is its name.                                *)
(***************************************************************************)
EXTENDS Integers, FiniteSets

CONSTANTS Proc,
          Pv, Legacy,    \* names; those of volumes made by an earlier release
          Export,        \* the id of every volume that is not
          Lock,          \* the objects volumeCreateLock
          NoProc, NoPv, NoLock,
          Creations, Deletions,  \* the volumes the provisioner may ask for
          RootExport,    \* whether the export is "/"
          MayRestart     \* whether the controller may restart

ASSUME NasAssumption ==
    /\ IsFiniteSet(Proc)
    /\ Legacy \subseteq Pv /\ Export \notin Pv
    /\ NoProc \notin Proc /\ NoPv \notin Pv /\ NoLock \notin Lock
    /\ Creations \subseteq Pv \ Legacy /\ Deletions \subseteq Pv
    /\ RootExport \in BOOLEAN /\ MayRestart \in BOOLEAN

VARIABLES pc, pvOf, res,   \* a goroutine: where it is, the volume, its answer
          lockOf,          \* ... and the lock it refers to
          locks,           \* subpathCreateLocks.locks
          references, holder,  \* of a lock: its count, who has its mutex
          processedPvc,    \* the volumes this process has made
          createMounts,    \* volumes the export is mounted for, in createVolumeRoot
          deleteMounts,    \* ids a parent directory is mounted for, in deleteVolumeRoot
          exported,        \* whether the server still has the export
          directory,       \* a volume's directory on the server, and its marker
          volumes,         \* the volumes Kubernetes has
          released         \* those it has given up, now or before

handlers == <<pc, pvOf, res>>
lockVars == <<lockOf, locks, references, holder>>
server == <<exported, directory>>
kubernetes == <<volumes, released>>
vars == <<handlers, lockVars, processedPvc, createMounts, deleteMounts, server, kubernetes>>

Id == Legacy \union {Export}
volumeID(v) == IF v \in Legacy THEN v ELSE Export

(* Where a goroutine has the mutex of its lock.                            *)
Locked == {"cAgain", "cMarked", "cUnmount", "cMount", "cMkdir", "cMarker", "cWrite", "cChmod",
           "cEnd", "cStore", "cUnlock"}
Location == {"idle", "ret", "cLoad", "cRefer", "cLock", "cForget",
             "dFind", "dUnmount", "dMount", "dRemove", "dEnd", "dForget"} \union Locked

TypeOK ==
    /\ pc \in [Proc -> Location]
    /\ pvOf \in [Proc -> Pv \union {NoPv}]
    /\ res \in [Proc -> {"none", "ok", "err"}]
    /\ lockOf \in [Proc -> Lock \union {NoLock}]
    /\ locks \in [Pv -> Lock \union {NoLock}]
    /\ references \in [Lock -> Nat]
    /\ holder \in [Lock -> Proc \union {NoProc}]
    /\ processedPvc \in SUBSET Pv
    /\ createMounts \in SUBSET Pv
    /\ deleteMounts \in SUBSET Id
    /\ exported \in BOOLEAN
    /\ directory \in [Pv -> {"none", "made", "empty", "marked"}]
    /\ volumes \in SUBSET Pv /\ released \in SUBSET Pv

Init ==
    /\ pc = [p \in Proc |-> "idle"]
    /\ pvOf = [p \in Proc |-> NoPv]
    /\ res = [p \in Proc |-> "none"]
    /\ lockOf = [p \in Proc |-> NoLock]
    /\ locks = [v \in Pv |-> NoLock]
    /\ references = [l \in Lock |-> 0]
    /\ holder = [l \in Lock |-> NoProc]
    /\ processedPvc = {} /\ createMounts = {} /\ deleteMounts = {}
    /\ exported = TRUE
    /\ directory = [v \in Pv |-> IF v \in Legacy THEN "made" ELSE "none"]
    /\ volumes = Legacy /\ released = {}

----------------------------------------------------------------------------
(* How a goroutine moves.                                                  *)

Goto(p, to) == pc' = [pc EXCEPT ![p] = to] /\ UNCHANGED <<pvOf, res, kubernetes>>
End(p, to, r) ==
    /\ pc' = [pc EXCEPT ![p] = to]
    /\ res' = [res EXCEPT ![p] = r]
    /\ UNCHANGED <<pvOf, kubernetes>>
Fail(p, to) == End(p, to, "err")

Create(p, v) ==
    /\ pc[p] = "idle" /\ v \in Creations
    /\ pc' = [pc EXCEPT ![p] = "cLoad"] /\ pvOf' = [pvOf EXCEPT ![p] = v]
    /\ UNCHANGED <<res, lockVars, processedPvc, createMounts, deleteMounts, server, kubernetes>>

(* The volume is Kubernetes' no more.  A delete is sent again when it      *)
(* failed, or its answer was lost.                                         *)
Delete(p, v) ==
    /\ pc[p] = "idle" /\ v \in Deletions
    /\ v \in volumes \union released
    /\ pc' = [pc EXCEPT ![p] = "dFind"] /\ pvOf' = [pvOf EXCEPT ![p] = v]
    /\ volumes' = volumes \ {v} /\ released' = released \union {v}
    /\ UNCHANGED <<res, lockVars, processedPvc, createMounts, deleteMounts, server>>

Answer(p) ==
    /\ pc[p] = "ret"
    /\ pc' = [pc EXCEPT ![p] = "idle"]
    /\ pvOf' = [pvOf EXCEPT ![p] = NoPv]
    /\ res' = [res EXCEPT ![p] = "none"]
    /\ UNCHANGED <<lockVars, processedPvc, createMounts, deleteMounts, server, kubernetes>>

----------------------------------------------------------------------------
(* lockSubpathCreate: a table of locks that are counted, so that one can   *)
(* be dropped with its last user.                                          *)

(* Fault: only the request that makes a lock is counted.                   *)
LockReferUncounted(p) ==
    /\ pc[p] = "cRefer"
    /\ \E l \in Lock :
          /\ IF locks[pvOf[p]] # NoLock
             THEN l = locks[pvOf[p]] /\ UNCHANGED <<references, holder>>
             ELSE /\ \A v \in Pv : locks[v] # l
                  /\ \A q \in Proc : lockOf[q] # l
                  /\ references' = [references EXCEPT ![l] = 1]
                  /\ holder' = [holder EXCEPT ![l] = NoProc]
          /\ locks' = [locks EXCEPT ![pvOf[p]] = l]
          /\ lockOf' = [lockOf EXCEPT ![p] = l]
    /\ Goto(p, "cLock")
    /\ UNCHANGED <<processedPvc, createMounts, deleteMounts, server>>

LockRefer(p) ==
    /\ pc[p] = "cRefer"
    /\ \E l \in Lock :
          /\ IF locks[pvOf[p]] # NoLock
             THEN l = locks[pvOf[p]] /\ references' = [references EXCEPT ![l] = @ + 1] /\ UNCHANGED holder
             ELSE /\ \A v \in Pv : locks[v] # l
                  /\ \A q \in Proc : lockOf[q] # l
                  /\ references' = [references EXCEPT ![l] = 1]
                  /\ holder' = [holder EXCEPT ![l] = NoProc]
          /\ locks' = [locks EXCEPT ![pvOf[p]] = l]
          /\ lockOf' = [lockOf EXCEPT ![p] = l]
    /\ Goto(p, "cLock")
    /\ UNCHANGED <<processedPvc, createMounts, deleteMounts, server>>

(* Fault: the mutex is not taken.                                          *)
LockAcquireSkipped(p) ==
    /\ pc[p] = "cLock"
    /\ Goto(p, "cAgain")
    /\ UNCHANGED <<lockVars, processedPvc, createMounts, deleteMounts, server>>

LockAcquire(p) ==
    /\ pc[p] = "cLock" /\ holder[lockOf[p]] = NoProc
    /\ holder' = [holder EXCEPT ![lockOf[p]] = p]
    /\ Goto(p, "cAgain")
    /\ UNCHANGED <<lockOf, locks, references, processedPvc, createMounts, deleteMounts, server>>

LockRelease(p) ==
    /\ pc[p] = "cUnlock"
    /\ holder' = [holder EXCEPT ![lockOf[p]] = NoProc]
    /\ Goto(p, "cForget")
    /\ UNCHANGED <<lockOf, locks, references, processedPvc, createMounts, deleteMounts, server>>

Answered(p) ==
    /\ pc' = [pc EXCEPT ![p] = "ret"]
    /\ volumes' = IF res[p] = "ok" THEN volumes \union {pvOf[p]} ELSE volumes
    /\ UNCHANGED <<pvOf, res, released>>

(* Fault: the lock is dropped with the first of its users.                 *)
LockForgetEarly(p) ==
    /\ pc[p] = "cForget"
    /\ references' = [references EXCEPT ![lockOf[p]] = @ - 1]
    /\ locks' = [locks EXCEPT ![pvOf[p]] = NoLock]
    /\ lockOf' = [lockOf EXCEPT ![p] = NoLock]
    /\ Answered(p)
    /\ UNCHANGED <<holder, processedPvc, createMounts, deleteMounts, server>>

LockForget(p) ==
    /\ pc[p] = "cForget"
    /\ references' = [references EXCEPT ![lockOf[p]] = @ - 1]
    /\ locks' = IF references[lockOf[p]] = 1 THEN [locks EXCEPT ![pvOf[p]] = NoLock] ELSE locks
    /\ lockOf' = [lockOf EXCEPT ![p] = NoLock]
    /\ Answered(p)
    /\ UNCHANGED <<holder, processedPvc, createMounts, deleteMounts, server>>

----------------------------------------------------------------------------
(* CreateVolume.                                                           *)

Creating == UNCHANGED <<lockVars, deleteMounts>>
Tries == Creating /\ UNCHANGED <<processedPvc, createMounts, server>>

(* A name or parameters that are refused, or a volume that was made.       *)
CreateLoad(p) ==
    /\ pc[p] = "cLoad"
    /\ \/ Fail(p, "ret")
       \/ /\ pvOf[p] \in processedPvc
          /\ pc' = [pc EXCEPT ![p] = "ret"]
          /\ res' = [res EXCEPT ![p] = "ok"]
          /\ volumes' = volumes \union {pvOf[p]}
          /\ UNCHANGED <<pvOf, released>>
       \/ pvOf[p] \notin processedPvc /\ Goto(p, "cRefer")
    /\ Tries

(* Fault: the lock is not given back when the options are refused.         *)
CreateAgainKeepsLock(p) ==
    /\ pc[p] = "cAgain"
    /\ \/ Fail(p, "ret")
       \/ pvOf[p] \in processedPvc /\ End(p, "cUnlock", "ok")
       \/ pvOf[p] \notin processedPvc /\ Goto(p, "cMarked")
    /\ Tries

CreateAgain(p) ==
    /\ pc[p] = "cAgain"
    /\ \/ Fail(p, "cUnlock")
       \/ pvOf[p] \in processedPvc /\ End(p, "cUnlock", "ok")
       \/ pvOf[p] \notin processedPvc /\ Goto(p, "cMarked")
    /\ Tries

(* The marker is looked for before the export is mounted: it is seen only  *)
(* below a mount that was left.  One of another volume is not looked at.   *)
CreateMarked(p) ==
    /\ pc[p] = "cMarked"
    /\ IF pvOf[p] \in createMounts /\ directory[pvOf[p]] = "marked"
       THEN Goto(p, "cStore")
       ELSE Goto(p, "cUnmount")
    /\ Tries

(* A mount that was left is undone, and the mount point made.              *)
CreateUnmount(p) ==
    /\ pc[p] = "cUnmount"
    /\ \/ Fail(p, "cUnlock") /\ createMounts' \in {createMounts, createMounts \ {pvOf[p]}}
       \/ Goto(p, "cMount") /\ createMounts' = createMounts \ {pvOf[p]}
    /\ Creating /\ UNCHANGED <<processedPvc, server>>

CreateMount(p) ==
    /\ pc[p] = "cMount"
    /\ \/ Fail(p, "cEnd") /\ UNCHANGED createMounts
       \/ /\ exported /\ pvOf[p] \notin createMounts
          /\ Goto(p, "cMkdir") /\ createMounts' = createMounts \union {pvOf[p]}
    /\ Creating /\ UNCHANGED <<processedPvc, server>>

CreateMkdir(p) ==
    /\ pc[p] = "cMkdir"
    /\ \/ Fail(p, "cEnd") /\ UNCHANGED directory
       \/ /\ exported /\ Goto(p, "cMarker")
          /\ directory' = [directory EXCEPT ![pvOf[p]] = IF @ = "none" THEN "made" ELSE @]
    /\ Creating /\ UNCHANGED <<processedPvc, createMounts, exported>>

(* ensureVolumeMarker: an empty marker is one of a different volume.       *)
CreateMarker(p) ==
    /\ pc[p] = "cMarker"
    /\ \/ Fail(p, "cEnd") /\ UNCHANGED directory
       \/ directory[pvOf[p]] = "marked" /\ Goto(p, "cChmod") /\ UNCHANGED directory
       \/ /\ directory[pvOf[p]] = "made" /\ Goto(p, "cWrite")
          /\ directory' = [directory EXCEPT ![pvOf[p]] = "empty"]
    /\ Creating /\ UNCHANGED <<processedPvc, createMounts, exported>>

(* Fault: a marker that could not be written is passed over.               *)
CreateWriteUnseen(p) ==
    /\ pc[p] = "cWrite"
    /\ Goto(p, "cChmod")
    /\ UNCHANGED directory \/ directory' = [directory EXCEPT ![pvOf[p]] = "marked"]
    /\ Creating /\ UNCHANGED <<processedPvc, createMounts, exported>>

CreateWrite(p) ==
    /\ pc[p] = "cWrite"
    /\ \/ Fail(p, "cEnd") /\ UNCHANGED directory
       \/ /\ directory[pvOf[p]] = "empty" /\ Goto(p, "cChmod")
          /\ directory' = [directory EXCEPT ![pvOf[p]] = "marked"]
    /\ Creating /\ UNCHANGED <<processedPvc, createMounts, exported>>

CreateChmod(p) ==
    /\ pc[p] = "cChmod"
    /\ \/ Fail(p, "cEnd")
       \/ directory[pvOf[p]] # "none" /\ End(p, "cEnd", "ok")
    /\ Tries

(* The deferred umount, whose failure counts unless there was another.     *)
(* Nothing is unmounted when the mounts cannot be read.                    *)
CreateEnd(p) ==
    /\ pc[p] = "cEnd"
    /\ \/ Fail(p, "cUnlock") /\ UNCHANGED createMounts
       \/ /\ createMounts' = createMounts \ {pvOf[p]}
          /\ IF res[p] = "ok" THEN Goto(p, "cStore") ELSE Goto(p, "cUnlock")
       \/ UNCHANGED createMounts /\ res[p] = "ok" /\ Goto(p, "cStore")
    /\ Creating /\ UNCHANGED <<processedPvc, server>>

CreateStore(p) ==
    /\ pc[p] = "cStore" /\ End(p, "cUnlock", "ok")
    /\ processedPvc' = processedPvc \union {pvOf[p]}
    /\ Creating /\ UNCHANGED <<createMounts, server>>

----------------------------------------------------------------------------
(* DeleteVolume.                                                           *)

Deleting == UNCHANGED <<lockVars, createMounts>>
DeleteTries == Deleting /\ UNCHANGED <<processedPvc, deleteMounts, server>>

(* Of a volume made before: its PersistentVolume is gone, or says whether  *)
(* its StorageClass archives.  The path may not be "/".                    *)
DeleteFind(p) ==
    /\ pc[p] = "dFind"
    /\ \/ Fail(p, "ret")
       \/ pvOf[p] \in Legacy /\ End(p, "ret", "ok")
       \/ (pvOf[p] \in Legacy \/ ~ RootExport) /\ Goto(p, "dUnmount")
    /\ DeleteTries

DeleteUnmount(p) ==
    /\ pc[p] = "dUnmount"
    /\ LET id == volumeID(pvOf[p]) IN
       \/ Fail(p, "ret") /\ deleteMounts' \in {deleteMounts, deleteMounts \ {id}}
       \/ Goto(p, "dMount") /\ deleteMounts' = deleteMounts \ {id}
    /\ Deleting /\ UNCHANGED <<processedPvc, server>>

(* The directory above the path: the export, or the one above the export.  *)
DeleteMount(p) ==
    /\ pc[p] = "dMount"
    /\ LET id == volumeID(pvOf[p]) IN
       \/ Fail(p, "dEnd") /\ UNCHANGED deleteMounts
       \/ /\ id \notin deleteMounts /\ (id = Export \/ exported)
          /\ Goto(p, "dRemove") /\ deleteMounts' = deleteMounts \union {id}
    /\ Deleting /\ UNCHANGED <<processedPvc, server>>

(* What the path of an id names.                                           *)
Named(v) == IF v \in Legacy THEN {v} ELSE Pv

(* Nothing is found when another request has unmounted the directory.      *)
(* Removal may stop half way.  Archived, the directory is there by another *)
(* name.                                                                   *)
DeleteRemove(p) ==
    /\ pc[p] = "dRemove"
    /\ \/ /\ Fail(p, "dEnd") /\ UNCHANGED exported
          /\ \E S \in SUBSET Named(pvOf[p]) :
                directory' = [v \in Pv |-> IF v \in S /\ volumeID(pvOf[p]) \in deleteMounts
                                           THEN "none" ELSE directory[v]]
       \/ /\ volumeID(pvOf[p]) \notin deleteMounts
          /\ End(p, "dEnd", "ok") /\ UNCHANGED server
       \/ /\ volumeID(pvOf[p]) \in deleteMounts
          /\ End(p, "dEnd", "ok")
          /\ directory' = [v \in Pv |-> IF v \in Named(pvOf[p]) THEN "none" ELSE directory[v]]
          /\ exported' = (exported /\ pvOf[p] \in Legacy)
    /\ Deleting /\ UNCHANGED <<processedPvc, deleteMounts>>

DeleteEnd(p) ==
    /\ pc[p] = "dEnd"
    /\ \/ Fail(p, "ret") /\ UNCHANGED deleteMounts
       \/ /\ deleteMounts' = deleteMounts \ {volumeID(pvOf[p])}
          /\ IF res[p] = "ok" THEN Goto(p, "dForget") ELSE Goto(p, "ret")
       \/ UNCHANGED deleteMounts /\ res[p] = "ok" /\ Goto(p, "dForget")
    /\ Deleting /\ UNCHANGED <<processedPvc, server>>

(* processedPvc is emptied by id, and is filled by name.                   *)
DeleteForget(p) ==
    /\ pc[p] = "dForget" /\ Goto(p, "ret")
    /\ processedPvc' = processedPvc \ {volumeID(pvOf[p])}
    /\ Deleting /\ UNCHANGED <<deleteMounts, server>>

----------------------------------------------------------------------------
(* The container starts anew, without the mounts it made.                  *)
Restart ==
    /\ MayRestart
    /\ pc' = [p \in Proc |-> "idle"]
    /\ pvOf' = [p \in Proc |-> NoPv]
    /\ res' = [p \in Proc |-> "none"]
    /\ lockOf' = [p \in Proc |-> NoLock]
    /\ locks' = [v \in Pv |-> NoLock]
    /\ references' = [l \in Lock |-> 0]
    /\ holder' = [l \in Lock |-> NoProc]
    /\ processedPvc' = {} /\ createMounts' = {} /\ deleteMounts' = {}
    /\ UNCHANGED <<server, kubernetes>>

CreateVolume(p) ==
    \/ CreateLoad(p) \/ LockRefer(p) \/ LockAcquire(p) \/ CreateAgain(p)
    \/ CreateMarked(p) \/ CreateUnmount(p) \/ CreateMount(p) \/ CreateMkdir(p) \/ CreateMarker(p)
    \/ CreateWrite(p) \/ CreateChmod(p) \/ CreateEnd(p) \/ CreateStore(p)
    \/ LockRelease(p) \/ LockForget(p)

DeleteVolume(p) ==
    \/ DeleteFind(p) \/ DeleteUnmount(p) \/ DeleteMount(p) \/ DeleteRemove(p)
    \/ DeleteEnd(p) \/ DeleteForget(p)

Handle(p) == CreateVolume(p) \/ DeleteVolume(p) \/ Answer(p)

Next ==
    \/ \E p \in Proc : (\E v \in Pv : Create(p, v) \/ Delete(p, v)) \/ Handle(p)
    \/ Restart

Spec == Init /\ [][Next]_vars

(* A goroutine goes on.  That assumes an NFS server that answers: mount and*)
(* umount have no timeout (utils.RunCommandArgs), and mkdir, chmod and the *)
(* writing of a marker on a hard mount, the default, wait out an outage    *)
(* with the name's mutex held.  A mutex of Go's that is waited for is      *)
(* handed over in the end (starvation mode), so that no goroutine waits for*)
(* ever while others take it in turns.                                     *)
Fairness == \A p \in Proc : WF_vars(Handle(p)) /\ SF_vars(LockAcquire(p))
FairSpec == Spec /\ Fairness

----------------------------------------------------------------------------
(* Properties.                                                             *)

(* Two requests never make one volume at a time (lockSubpathCreate), also  *)
(* while the lock they share is being dropped from the table, or a third   *)
(* comes with the first gone.                                              *)
CreationExclusive ==
    \A p, q \in Proc : pc[p] \in Locked /\ pc[q] \in Locked /\ pvOf[p] = pvOf[q] => p = q

(* The directory and its marker are made in the mounted export, never in   *)
(* the controller's own filesystem below it: no other request unmounts it. *)
MadeInExport ==
    \A p \in Proc : pc[p] \in {"cMkdir", "cMarker", "cWrite", "cChmod"} => pvOf[p] \in createMounts

(* The volumes Kubernetes has been answered, and has not asked to delete,  *)
(* have their directory, with its marker when this release made it         *)
(* (ensureVolumeMarker), whatever failed or was cut by a restart before    *)
(* the answer.  Stated of an export whose volumes are never removed: "/".  *)
VolumesKept ==
    RootExport => \A v \in volumes : directory[v] = (IF v \in Legacy THEN "made" ELSE "marked")

(* "Each PV is provisioned into an isolated directory beneath the          *)
(* configured NFS export" (README.md:181): a volume that nobody asks to    *)
(* delete keeps its own.  (Not so: the id of each names the export.)       *)
IsolatedDirectories == \A v \in volumes \ Deletions : directory[v] # "none"

(* Every request is answered, or ends with the process: a lock is given    *)
(* back on every path.  (While the NFS server answers, see Fairness.)      *)
Completed == \A p \in Proc : pc[p] # "idle" ~> pc[p] = "idle"
=============================================================================
