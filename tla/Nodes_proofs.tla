---------------------------- MODULE Nodes_proofs ----------------------------
(***************************************************************************)
(* Proofs about Nodes, for every number of requests, disks and pods, every *)
(* driver, and whatever calls overlap: the types are kept, marks are       *)
(* replaced by who left them, and what the drivers promise of a disk holds *)
(* of every disk that a request has to itself: by the lock of the CCS      *)
(* driver, the mutex of the OSS driver, or with the others because the     *)
(* kubelet has one request of it at a time.                                *)
(*                                                                         *)
(* The argument is the same for the six drivers.  A request changes its    *)
(* own disk only (Elsewhere), and does so when it has the disk to itself   *)
(* (Alone).  So what it has seen of the disk (SeenOf) holds until its next *)
(* step, and what is promised of a disk (DiskOf) only has to be shown of   *)
(* the steps of that request.                                              *)
(***************************************************************************)
EXTENDS Nodes, SequenceTheorems, TLAPS

----------------------------------------------------------------------------
(* Types, and what a request has where it is.                              *)

PublishAt == {"pMounted", "pMark", "pStore", "pInfo", "pFormatted", "pStaged", "pMount", "pBind",
              "pPublished", "pBindStaged", "pKept",
              "kpMounted", "kpLock", "kpInfo", "kpStaged", "kpMount", "kpBind",
              "opTarget", "opBind", "apCheck", "apMount", "apVerify", "apRollback"}
UnpublishAt == {"nMark", "nStore", "nUmount", "nOk", "knLock", "knUmount", "onLock", "onUmount",
                "anCheck", "anUmount"}
MountAt == {"osLock", "opLock", "vCheck", "vVerify", "vWrite", "vMount", "vMounted", "vReady"}

JobOf(p) ==
    /\ pc[p] # "idle" => diskOf(p) \in Disk
    /\ pc[p] # "idle" /\ job[p].op \in {"publish", "unpublish"} =>
          targetOf(p) \in Target /\ volumeOf[targetOf(p)] = diskOf(p)
    /\ pc[p] \in PublishAt \union {"opLock"} => job[p].op = "publish"
    /\ pc[p] \in UnpublishAt => job[p].op = "unpublish"
    /\ pc[p] \in MountAt => job[p].op \in {"stage", "publish"}
    /\ pc[p] = "osLock" => job[p].op = "stage"
    /\ pc[p] \in {"otLock", "otUmount", "otCredential"} => job[p].op = "unstage"
    /\ pc[p] \notin {"ret", "done"} => res[p] = "none"

NoMarks ==
    ~ Marked => /\ diskStagingMap = [d \in Disk |-> "none"]
                /\ diskUnPublishingMap = [t \in Target |-> "none"]
                /\ diskUnStagingMap = [d \in Disk |-> "none"]

TypeInv ==
    /\ TypeOK /\ NoMarks
    /\ binds \in [Target -> Seq({"disk", "dir"})]
    /\ \A p \in Proc : JobOf(p)

----------------------------------------------------------------------------
(* Who has a disk to itself.                                               *)

CcsHeld == {"done", "ksInfo", "ksProbe", "ksMkfs", "ksUnread", "ksSave", "ksMount",
            "kpInfo", "kpStaged", "kpMount", "kpBind", "knUmount", "ktUmount"}
OssHeld == {"done", "vCheck", "vVerify", "vWrite", "vMount", "vMounted", "vReady",
            "opTarget", "opBind", "onUmount", "otUmount", "otCredential"}

(* Of a disk two requests of which were in progress at once, only the      *)
(* drivers with a lock promise something.                                  *)
Kept(d) == driver \in {"ccs", "oss"} \/ d \notin overlapped

Alone(p) ==
    CASE driver = "ccs" -> pc[p] \in CcsHeld
      [] driver = "oss" -> pc[p] \in OssHeld
      [] OTHER -> pc[p] # "idle" /\ diskOf(p) \notin overlapped

AloneOK ==
    /\ driver = "ccs" =>
          /\ \A p \in Proc : pc[p] \in CcsHeld => diskOf(p) \in locks
          /\ \A p, q \in Proc : pc[p] \in CcsHeld /\ pc[q] \in CcsHeld /\ diskOf(p) = diskOf(q) => p = q
    /\ driver = "oss" => \A p \in Proc : pc[p] \in OssHeld => mountMu = p
    /\ \A p, q \in Proc : pc[p] # "idle" /\ pc[q] # "idle" /\ diskOf(p) = diskOf(q) /\ p # q =>
          diskOf(p) \in overlapped

----------------------------------------------------------------------------
(* What a disk is on the node, and what a request that has it to itself    *)
(* has seen of it.                                                         *)

HasFs(d) == fs[d] # "none"
OnlyDisk(t) == \A i \in DOMAIN binds[t] : binds[t][i] = "disk"

(* What is mounted, or bound, has a filesystem.                            *)
FsOf(d) ==
    driver \notin {"oss", "nas"} => (InUse(d) => HasFs(d))

DiskOf(d) ==
    /\ \A t \in Target : volumeOf[t] = d => OnlyDisk(t)
    /\ driver \in {"oss", "nas"} => \A t \in Target : volumeOf[t] = d => Len(binds[t]) <= 1
    /\ Marked /\ diskStagingMap[d] = "path" =>
          d \in staged \/ \E p \in Proc : diskOf(p) = d /\ At(p, {"tDone"})

SeenOf(p) ==
    LET d == diskOf(p)
        t == targetOf(p)
    IN  /\ pc[p] \in {"sStaged", "pBind", "pBindStaged", "kpBind", "vVerify", "vReady", "opBind"} =>
              d \in staged
        /\ pc[p] \in {"ksMkfs", "sMkfs"} => ~ HasFs(d)
        /\ pc[p] \in {"sProbe", "sUnread"} => d \notin diskFormattedMap
        /\ pc[p] \in {"ksProbe", "ksUnread"} => d \notin recorded
        /\ pc[p] = "otCredential" => d \notin staged
        /\ pc[p] = "done" /\ driver = "oss" /\ res[p] = "ok" /\ job[p].op = "unstage" =>
              d \notin staged \union credentials
        /\ \/ pc[p] \in {"opBind", "apMount"}
           \/ pc[p] \in MountAt /\ job[p].op = "publish"
           \/ driver \in {"oss", "nas"} /\ res[p] = "ok" /\ job[p].op = "unpublish"
           => ~ Bound(t)

DisksOK ==
    /\ \A d \in Disk : FsOf(d)
    /\ \A d \in Disk : Kept(d) => DiskOf(d)
    /\ \A p \in Proc : Alone(p) => SeenOf(p)

IInv == TypeInv /\ AloneOK /\ MarksOwned /\ DisksOK

----------------------------------------------------------------------------
(* Stacks of binds.                                                        *)

(* A bind goes on top, and says what it shows.                             *)
LEMMA Pushed ==
  ASSUME NEW S, NEW s \in Seq(S), NEW x \in S
  PROVE  /\ Append(s, x) \in Seq(S) /\ Len(Append(s, x)) = Len(s) + 1
         /\ \A i \in DOMAIN Append(s, x) : Append(s, x)[i] = x \/ (i \in DOMAIN s /\ Append(s, x)[i] = s[i])
         /\ \A i \in DOMAIN s : i \in DOMAIN Append(s, x) /\ Append(s, x)[i] = s[i]
  OBVIOUS

(* A umount takes the top off.                                             *)
LEMMA Popped ==
  ASSUME NEW S, NEW s \in Seq(S), s # <<>>
  PROVE  LET r == SubSeq(s, 1, Len(s) - 1)
         IN  /\ r \in Seq(S) /\ Len(r) = Len(s) - 1
             /\ \A i \in DOMAIN r : i \in DOMAIN s /\ r[i] = s[i]
  <1> DEFINE n == Len(s) - 1
             r == SubSeq(s, 1, n)
  <1>1. n \in Nat /\ Len(s) = n + 1 /\ s \in [1 .. Len(s) -> S]
    BY EmptySeq, LenProperties
  <1>2. \A i \in 1 .. n : s[i] \in S /\ i \in DOMAIN s
    BY <1>1
  <1> HIDE DEF n
  <1>3. r \in Seq(S) /\ Len(r) = n /\ \A i \in 1 .. n : r[i] = s[i]
    BY <1>1, <1>2, SubSeqProperties
  <1>4. DOMAIN r = 1 .. n
    BY <1>3, LenProperties
  <1> HIDE DEF r
  <1>5. r \in Seq(S) /\ Len(r) = Len(s) - 1 /\ \A i \in DOMAIN r : i \in DOMAIN s /\ r[i] = s[i]
    BY <1>1, <1>2, <1>3, <1>4
  <1> QED BY <1>5 DEF n, r

(* A stack is as TypeOK wants it when it is a short sequence.              *)
LEMMA StackType ==
  ASSUME NEW s \in Seq({"disk", "dir"})
  PROVE  s \in UNION {[1 .. n -> {"disk", "dir"}] : n \in 0 .. MaxBinds} <=> Len(s) <= MaxBinds
  <1>1. Len(s) \in Nat /\ s \in [1 .. Len(s) -> {"disk", "dir"}] /\ MaxBinds \in Nat
    BY LenProperties, HostAssumption
  <1>2. ASSUME Len(s) <= MaxBinds
        PROVE  s \in UNION {[1 .. n -> {"disk", "dir"}] : n \in 0 .. MaxBinds}
    <2>1. Len(s) \in 0 .. MaxBinds
      BY <1>1, <1>2
    <2> QED BY <1>1, <2>1
  <1>3. ASSUME NEW n \in 0 .. MaxBinds, s \in [1 .. n -> {"disk", "dir"}]
        PROVE  Len(s) <= MaxBinds
    BY <1>1, <1>3
  <1> QED BY <1>2, <1>3

----------------------------------------------------------------------------
(* What the step of a handler is, whatever the driver.                     *)

Location == CASE driver = "ccs" -> Ccs!CcsLocation
              [] driver = "oss" -> Oss!OssLocation
              [] driver = "nas" -> Nas!NasLocation
              [] OTHER -> MarkedLocation

(* It is one goroutine's, and goes from places of an operation to others   *)
(* of it.                                                                  *)
Others(p) == \A q \in Proc : q # p => pc'[q] = pc[q] /\ job'[q] = job[q] /\ res'[q] = res[q]

Leads(p, to) ==
    /\ to \in PublishAt => \/ pc[p] \in PublishAt \union {"opLock"}
                           \/ pc[p] \in MountAt /\ job[p].op = "publish"
    /\ to \in UnpublishAt => pc[p] \in UnpublishAt
    /\ to \in MountAt => pc[p] \in MountAt \/ pc[p] = "opTarget"
    /\ to \notin {"osLock", "opLock", "otLock", "idle"}
    /\ to = "otUmount" => pc[p] = "otLock"
    /\ to = "otCredential" => pc[p] = "otUmount"

Moves(p) ==
    /\ pc[p] # "idle" /\ pc'[p] # "idle" /\ Leads(p, pc'[p])
    /\ pc' = [pc EXCEPT ![p] = pc'[p]] /\ pc'[p] \in Location
    /\ res' = [res EXCEPT ![p] = res'[p]] /\ res'[p] \in {"none", "ok", "err"}
    /\ pc'[p] \notin {"ret", "done"} => res'[p] = res[p] /\ pc[p] \notin {"ret", "done"}
    /\ UNCHANGED <<job, overlapped, driver>>

(* It runs at most one command, on the request's disk or target path.      *)
Command(p) ==
    \/ UNCHANGED host
    \/ Mkfs(diskOf(p)) \/ MountDevice(diskOf(p)) \/ UnmountDevice(diskOf(p)) \/ Record(diskOf(p))
    \/ job[p].op = "publish" /\ driver # "nas" /\ BindMount(targetOf(p))
    \/ job[p].op \in {"publish", "unpublish"} /\ UnbindMount(targetOf(p))
    \/ driver = "nas" /\ job[p].op = "publish" /\ Nas!MountNFS(targetOf(p))
    \/ driver = "oss" /\ Oss!MountS3fs(diskOf(p))

(* A mark that says a request is under way is left by the request that     *)
(* stored it, and replaced as it goes.                                     *)
StagingAt == {"sFormatted", "sProbe", "sMkfs", "sUnread", "sSave", "sMount", "sStaged"}
UnPublishingAt == {"nUmount", "nOk"}
UnStagingAt == {"tUmount", "tDone"}

Marks(p) ==
    /\ \A d \in Disk : diskStagingMap'[d] = "staging" =>
          \/ d = diskOf(p) /\ pc'[p] \in StagingAt
          \/ diskStagingMap[d] = "staging" /\ ~ (d = diskOf(p) /\ pc[p] \in StagingAt)
    /\ \A t \in Target : diskUnPublishingMap'[t] = "unPublishing" =>
          \/ t = targetOf(p) /\ pc'[p] \in UnPublishingAt
          \/ diskUnPublishingMap[t] = "unPublishing" /\ ~ (t = targetOf(p) /\ pc[p] \in UnPublishingAt)
    /\ \A d \in Disk : diskUnStagingMap'[d] = "unStaging" =>
          \/ d = diskOf(p) /\ pc'[p] \in UnStagingAt
          \/ diskUnStagingMap[d] = "unStaging" /\ ~ (d = diskOf(p) /\ pc[p] \in UnStagingAt)

Acts(p) ==
    /\ Moves(p) /\ Command(p) /\ Marks(p) /\ MarksTypeOK' /\ NoMarks'
    /\ locks' \in SUBSET Disk /\ mountMu' \in Proc \union {NoProc} /\ credentials' \in SUBSET Disk

(* What a command does to the binds of the target path.                    *)
Pushes(t, x) ==
    /\ Len(binds[t]) < MaxBinds /\ staged' = staged /\ fs' = fs
    /\ binds' = [binds EXCEPT ![t] = Append(binds[t], x)]
Pops(t) ==
    /\ binds[t] # <<>> /\ staged' = staged /\ fs' = fs
    /\ binds' = [binds EXCEPT ![t] = SubSeq(binds[t], 1, Len(binds[t]) - 1)]

BindsChange(p) ==
    \/ binds' = binds
    \/ /\ targetOf(p) \in Target /\ volumeOf[targetOf(p)] = diskOf(p)
       /\ \/ Pushes(targetOf(p), "disk") /\ (diskOf(p) \in staged \/ driver = "nas")
          \/ Pushes(targetOf(p), "dir") /\ diskOf(p) \notin staged /\ driver # "nas"
          \/ Pops(targetOf(p))

(* The target path is one of the request's disk.                           *)
LEMMA CommandBinds ==
  ASSUME TypeInv, NEW p \in Proc, pc[p] # "idle", Command(p)
  PROVE  diskOf(p) \in Disk /\ BindsChange(p)
  <1>1. /\ diskOf(p) \in Disk
        /\ job[p].op \in {"publish", "unpublish"} => /\ targetOf(p) \in Target
                                                    /\ volumeOf[targetOf(p)] = diskOf(p)
    BY DEF TypeInv, JobOf
  <1>2. \/ binds' = binds
        \/ job[p].op = "publish" /\ driver # "nas" /\ BindMount(targetOf(p))
        \/ job[p].op \in {"publish", "unpublish"} /\ UnbindMount(targetOf(p))
        \/ driver = "nas" /\ job[p].op = "publish" /\ Nas!MountNFS(targetOf(p))
    BY DEF Command, host, Mkfs, MountDevice, UnmountDevice, Record, Oss!MountS3fs
  <1>3. ASSUME job[p].op = "publish", BindMount(targetOf(p))
        PROVE  \/ Pushes(targetOf(p), "disk") /\ diskOf(p) \in staged
               \/ Pushes(targetOf(p), "dir") /\ diskOf(p) \notin staged
    BY <1>1, <1>3 DEF BindMount, Pushes
  <1>4. ASSUME UnbindMount(targetOf(p))
        PROVE  Pops(targetOf(p))
    BY <1>4 DEF UnbindMount, Pops, Bound
  <1>5. ASSUME Nas!MountNFS(targetOf(p))
        PROVE  Pushes(targetOf(p), "disk")
    BY <1>5 DEF Nas!MountNFS, Pushes
  <1> QED BY <1>1, <1>2, <1>3, <1>4, <1>5 DEF BindsChange

(* A command keeps the types of the host ...                               *)
LEMMA CommandTypes ==
  ASSUME TypeInv, NEW p \in Proc, pc[p] # "idle", Command(p)
  PROVE  /\ staged' \in SUBSET Disk /\ fs' \in [Disk -> {"none", "fs", "data"}]
         /\ recorded' \in SUBSET Disk
         /\ binds' \in [Target -> Seq({"disk", "dir"})]
         /\ \A t \in Target : binds'[t] \in UNION {[1 .. n -> {"disk", "dir"}] : n \in 0 .. MaxBinds}
  <1>0. /\ diskOf(p) \in Disk
        /\ binds \in [Target -> Seq({"disk", "dir"})]
        /\ \A t \in Target : Len(binds[t]) <= MaxBinds
    BY StackType DEF TypeInv, TypeOK, HostTypeOK, JobOf
  <1>1. /\ staged' \in SUBSET Disk /\ fs' \in [Disk -> {"none", "fs", "data"}]
        /\ recorded' \in SUBSET Disk
    BY <1>0
    DEF Command, TypeInv, TypeOK, HostTypeOK, host, Mkfs, MountDevice, UnmountDevice, Record, BindMount,
                UnbindMount, Nas!MountNFS, Oss!MountS3fs
  <1>2. ASSUME NEW t \in Target
        PROVE  binds[t] \in Seq({"disk", "dir"}) /\ Len(binds[t]) \in Nat /\ MaxBinds \in Nat
    BY <1>0, LenProperties, HostAssumption
  <1> DEFINE Short == /\ binds' \in [Target -> Seq({"disk", "dir"})]
                      /\ \A t \in Target : Len(binds'[t]) <= MaxBinds
  <1>3. ASSUME NEW t \in Target, NEW x \in {"disk", "dir"}, Pushes(t, x)
        PROVE  Short
    <2>1. Append(binds[t], x) \in Seq({"disk", "dir"}) /\ Len(Append(binds[t], x)) <= MaxBinds
      BY <1>2, <1>3, Pushed DEF Pushes
    <2> QED BY <1>0, <1>3, <2>1 DEF Pushes
  <1>4. ASSUME NEW t \in Target, Pops(t)
        PROVE  Short
    <2> DEFINE r == SubSeq(binds[t], 1, Len(binds[t]) - 1)
    <2>1. r \in Seq({"disk", "dir"}) /\ Len(r) = Len(binds[t]) - 1
      BY <1>2, <1>4, Popped DEF Pops
    <2>2. Len(r) <= MaxBinds
      BY <1>0, <1>2, <2>1
    <2>3. binds' = [binds EXCEPT ![t] = r]
      BY <1>4 DEF Pops
    <2> HIDE DEF r
    <2> QED BY <1>0, <2>1, <2>2, <2>3
  <1>5. Short
    <2>1. CASE binds' = binds
      BY <1>0, <2>1
    <2> HIDE DEF Short
    <2> QED BY <1>3, <1>4, <2>1, CommandBinds DEF BindsChange
  <1> QED BY <1>1, <1>5, StackType

(* A step of a handler leaves the other requests alone ...                 *)
LEMMA MovesOthers ==
  ASSUME TypeInv, NEW p \in Proc, Moves(p)
  PROVE  Others(p) /\ pc \in [Proc -> Location]
  <1>1. pc \in [Proc -> Location]
    BY DEF TypeInv, TypeOK, Location
  <1>2. res \in [Proc -> {"none", "ok", "err"}]
    BY DEF TypeInv, TypeOK, HostTypeOK
  <1>3. /\ pc' = [pc EXCEPT ![p] = pc'[p]] /\ res' = [res EXCEPT ![p] = res'[p]] /\ job' = job
    BY DEF Moves
  <1> QED BY <1>1, <1>2, <1>3 DEF Others

(* ... and keeps the types.                                                *)
LEMMA ActsTypeInv ==
  ASSUME TypeInv, NEW p \in Proc, Acts(p)
  PROVE  TypeInv'
  <1>m. Moves(p) /\ MarksTypeOK' /\ NoMarks'
    BY DEF Acts
  <1>1. /\ res' \in [Proc -> {"none", "ok", "err"}] /\ job' \in [Proc -> Request]
        /\ overlapped' \in SUBSET Disk /\ driver' \in Drivers
    BY <1>m DEF Moves, TypeInv, TypeOK, HostTypeOK
  <1>2. HostTypeOK'
    BY <1>1, <1>m, CommandTypes DEF Acts, Moves, HostTypeOK
  <1>3. pc \in [Proc -> Location] /\ Location' = Location
    BY <1>m, MovesOthers
    DEF Location, Moves, Ccs!CcsLocation, Oss!OssLocation, Nas!NasLocation, MarkedLocation
  <1>4. pc' \in [Proc -> Location]
    BY <1>m, <1>3 DEF Moves
  <1>5. TypeOK'
    BY <1>1, <1>2, <1>3, <1>4 DEF TypeOK, Acts, Location
  <1>6. ASSUME NEW q \in Proc
        PROVE  JobOf(q)'
    <2>1. JobOf(q) /\ job' = job
      BY <1>m DEF TypeInv, Moves
    <2>2. CASE q # p
      <3>1. pc'[q] = pc[q] /\ res'[q] = res[q]
        BY <1>m, <2>2, MovesOthers DEF Others
      <3> QED BY <2>1, <3>1 DEF JobOf, diskOf, targetOf, PublishAt, UnpublishAt, MountAt
    <2>3. CASE q = p
      <3>1. pc[p] # "idle" /\ Leads(p, pc'[p])
        BY <1>m DEF Moves
      <3>2. pc'[p] \notin {"ret", "done"} => res'[p] = "none"
        BY <1>m, <2>1, <2>3 DEF Moves, JobOf
      <3> QED BY <2>1, <2>3, <3>1, <3>2 DEF JobOf, Leads, diskOf, targetOf, PublishAt, UnpublishAt,
                                                  MountAt
    <2> QED BY <2>2, <2>3
  <1> QED BY <1>5, <1>6, <1>m, CommandTypes DEF TypeInv, Acts, Moves

(* Marks that say a request is under way stay owned.                       *)
LEMMA ActsMarksOwned ==
  ASSUME TypeInv, MarksOwned, NEW p \in Proc, Acts(p)
  PROVE  MarksOwned'
  <1>1. Marks(p) /\ job' = job /\ \A q \in Proc : q # p => pc'[q] = pc[q]
    BY MovesOthers DEF Acts, Moves, Others
  <1>2. ASSUME NEW d \in Disk, diskStagingMap'[d] = "staging"
        PROVE  \E q \in Proc : diskOf(q)' = d /\ pc'[q] \in StagingAt
    BY <1>1, <1>2 DEF Marks, MarksOwned, At, StagingAt, diskOf
  <1>3. ASSUME NEW t \in Target, diskUnPublishingMap'[t] = "unPublishing"
        PROVE  \E q \in Proc : targetOf(q)' = t /\ pc'[q] \in UnPublishingAt
    BY <1>1, <1>3 DEF Marks, MarksOwned, At, UnPublishingAt, targetOf
  <1>4. ASSUME NEW d \in Disk, diskUnStagingMap'[d] = "unStaging"
        PROVE  \E q \in Proc : diskOf(q)' = d /\ pc'[q] \in UnStagingAt
    BY <1>1, <1>4 DEF Marks, MarksOwned, At, UnStagingAt, diskOf
  <1> QED BY <1>2, <1>3, <1>4 DEF MarksOwned, At, StagingAt, UnPublishingAt, UnStagingAt

----------------------------------------------------------------------------
(* A request changes its own disk, which it has to itself.                 *)

(* No two requests have a disk to themselves.                              *)
LEMMA AloneExcludes ==
  ASSUME AloneOK, NEW p \in Proc, NEW q \in Proc, p # q, Alone(p), Alone(q)
  PROVE  diskOf(p) # diskOf(q) /\ Kept(diskOf(p))
  <1>1. CASE driver = "ccs"
    BY <1>1 DEF AloneOK, Alone, Kept
  <1>2. CASE driver = "oss"
    BY <1>2 DEF AloneOK, Alone, Kept
  <1>3. CASE driver \notin {"ccs", "oss"}
    BY <1>3 DEF AloneOK, Alone, Kept
  <1> QED BY <1>1, <1>2, <1>3

(* Whoever has a disk to itself has one that something is promised of.     *)
LEMMA AloneKept ==
  ASSUME NEW p \in Proc, Alone(p)
  PROVE  Kept(diskOf(p))
  BY DEF Alone, Kept

(* A command leaves the other disks as they are, with what binds them.     *)
LEMMA CommandElsewhere ==
  ASSUME TypeInv, NEW p \in Proc, pc[p] # "idle", Command(p)
  PROVE  /\ \A d \in Disk \ {diskOf(p)} : /\ d \in staged' <=> d \in staged
                                          /\ d \in recorded' <=> d \in recorded
                                          /\ fs'[d] = fs[d]
         /\ \A t \in Target : volumeOf[t] # diskOf(p) => binds'[t] = binds[t]
  <1>1. diskOf(p) \in Disk /\ fs \in [Disk -> {"none", "fs", "data"}]
    BY DEF TypeInv, TypeOK, HostTypeOK, JobOf
  <1>2. \A d \in Disk \ {diskOf(p)} : /\ d \in staged' <=> d \in staged
                                      /\ d \in recorded' <=> d \in recorded
                                      /\ fs'[d] = fs[d]
    BY <1>1 DEF Command, host, Mkfs, MountDevice, UnmountDevice, Record, BindMount, UnbindMount,
                Nas!MountNFS, Oss!MountS3fs
  <1>3. \A t \in Target : volumeOf[t] # diskOf(p) => binds'[t] = binds[t]
    <2>1. DOMAIN binds = Target
      BY DEF TypeInv
    <2> QED BY <2>1, CommandBinds DEF BindsChange, Pushes, Pops
  <1> QED BY <1>2, <1>3

(* A disk that a command leaves mounted, or bound, has a filesystem.       *)
LEMMA CommandFs ==
  ASSUME TypeInv, NEW p \in Proc, pc[p] # "idle", Command(p), driver' = driver,
         \A d \in Disk : FsOf(d)
  PROVE  \A d \in Disk : FsOf(d)'
  <1> SUFFICES ASSUME NEW d \in Disk, driver \notin {"oss", "nas"}, InUse(d)'
               PROVE  HasFs(d)'
    BY DEF FsOf
  <1>0. /\ diskOf(p) \in Disk /\ BindsChange(p)
        /\ fs \in [Disk -> {"none", "fs", "data"}] /\ volumeOf \in [Target -> Disk]
        /\ binds \in [Target -> Seq({"disk", "dir"})]
        /\ InUse(d) => HasFs(d)
    BY CommandBinds, HostAssumption DEF TypeInv, TypeOK, HostTypeOK, FsOf
  <1>1. CASE Mkfs(diskOf(p))
    BY <1>0, <1>1 DEF Mkfs, InUse, HasFs, UsesDevice
  <1>2. CASE MountDevice(diskOf(p))
    BY <1>0, <1>2 DEF MountDevice, InUse, HasFs, UsesDevice
  <1>3. CASE UNCHANGED host \/ UnmountDevice(diskOf(p)) \/ Record(diskOf(p))
    BY <1>0, <1>3 DEF host, UnmountDevice, Record, InUse, HasFs, UsesDevice
  <1>4. ASSUME NEW t \in Target, volumeOf[t] = diskOf(p),
               \/ Pushes(t, "disk") /\ diskOf(p) \in staged
               \/ Pushes(t, "dir")
               \/ Pops(t)
        PROVE  HasFs(d)'
    <2>1. staged' = staged /\ fs' = fs
      BY <1>4 DEF Pushes, Pops
    <2>2. SUFFICES ASSUME NEW u \in Target, volumeOf[u] = d, \E i \in DOMAIN binds'[u] : binds'[u][i] = "disk"
                   PROVE  InUse(d)
      BY <1>0, <2>1 DEF InUse, UsesDevice, HasFs
    <2>3. CASE u # t
      <3>1. binds'[u] = binds[u]
        BY <1>0, <1>4, <2>3 DEF Pushes, Pops
      <3> QED BY <2>2, <3>1 DEF InUse, UsesDevice
    <2>4. CASE u = t
      <3>0. binds[t] \in Seq({"disk", "dir"})
        BY <1>0
      <3>1. CASE Pushes(t, "disk") /\ diskOf(p) \in staged
        BY <1>4, <2>2, <2>4, <3>1 DEF InUse
      <3>2. CASE Pushes(t, "dir")
        <4>1. binds'[t] = Append(binds[t], "dir")
          BY <1>0, <3>2 DEF Pushes
        <4>2. \A i \in DOMAIN binds'[t] :
                 binds'[t][i] = "dir" \/ (i \in DOMAIN binds[t] /\ binds'[t][i] = binds[t][i])
          BY <3>0, <4>1, Pushed
        <4> QED BY <2>2, <2>4, <4>2 DEF InUse, UsesDevice
      <3>3. CASE Pops(t)
        <4>1. binds'[t] = SubSeq(binds[t], 1, Len(binds[t]) - 1) /\ binds[t] # <<>>
          BY <1>0, <3>3 DEF Pops
        <4>2. \A i \in DOMAIN binds'[t] : i \in DOMAIN binds[t] /\ binds'[t][i] = binds[t][i]
          BY <3>0, <4>1, Popped
        <4> QED BY <2>2, <2>4, <4>2 DEF InUse, UsesDevice
      <3> QED BY <1>4, <3>1, <3>2, <3>3
    <2> QED BY <2>3, <2>4
  <1>5. CASE targetOf(p) \in Target /\ (BindMount(targetOf(p)) \/ UnbindMount(targetOf(p)))
    BY <1>0, <1>3, <1>4, <1>5
    DEF BindsChange, BindMount, UnbindMount, host, InUse, HasFs, UsesDevice
  <1> QED
    BY <1>1, <1>2, <1>3, <1>5, <1>0 DEF Command, TypeInv, JobOf

(* What a step of a handler does to the disk's binds, data and mark        *)
(* besides running the command.                                            *)
DiskStep(p) ==
    LET d == diskOf(p)
        t == targetOf(p)
    IN  /\ binds' = binds \/ Pops(t) \/ d \in staged \/ driver = "nas"
        /\ driver \in {"oss", "nas"} => binds' = binds \/ Pops(t) \/ ~ Bound(t)
        /\ Marked /\ diskStagingMap'[d] = "path" =>
              \/ d \in staged' \/ pc'[p] = "tDone"
              \/ diskStagingMap[d] = "path" /\ (d \in staged => d \in staged') /\ pc[p] # "tDone"

(* Such a step keeps what is promised of the disk.                         *)
LEMMA DiskKept ==
  ASSUME TypeInv, NEW p \in Proc, Moves(p), Command(p), DiskOf(diskOf(p)), DiskStep(p)
  PROVE  DiskOf(diskOf(p))'
  <1> DEFINE d == diskOf(p)
  <1>0. /\ d \in Disk /\ BindsChange(p) /\ Others(p) /\ job' = job /\ driver' = driver /\ pc[p] # "idle"
        /\ binds \in [Target -> Seq({"disk", "dir"})] /\ d' = d
    BY CommandBinds, MovesOthers DEF TypeInv, Moves, diskOf
  <1>1. ASSUME NEW t \in Target, volumeOf[t] = d
        PROVE  OnlyDisk(t)' /\ (driver \in {"oss", "nas"} => Len(binds'[t]) <= 1)
    <2>0. /\ OnlyDisk(t) /\ (driver \in {"oss", "nas"} => Len(binds[t]) <= 1)
          /\ binds[t] \in Seq({"disk", "dir"}) /\ Len(binds[t]) \in Nat
      BY <1>0, <1>1, LenProperties DEF DiskOf
    <2>1. CASE binds'[t] = binds[t]
      BY <2>0, <2>1 DEF OnlyDisk
    <2>2. CASE binds'[t] # binds[t]
      <3>1. t = targetOf(p)
        BY <1>0, <2>2 DEF BindsChange, Pushes, Pops
      <3>2. CASE Pops(t)
        <4>1. binds'[t] = SubSeq(binds[t], 1, Len(binds[t]) - 1) /\ binds[t] # <<>>
          BY <1>0, <3>2 DEF Pops
        <4>2. /\ \A i \in DOMAIN binds'[t] : i \in DOMAIN binds[t] /\ binds'[t][i] = binds[t][i]
              /\ Len(binds'[t]) = Len(binds[t]) - 1
          BY <2>0, <4>1, Popped
        <4> QED BY <2>0, <4>2 DEF OnlyDisk
      <3>3. CASE Pushes(t, "disk") /\ ~ Pops(t)
        <4>1. binds'[t] = Append(binds[t], "disk")
          BY <1>0, <3>3 DEF Pushes
        <4>2. /\ \A i \in DOMAIN binds'[t] :
                    binds'[t][i] = "disk" \/ (i \in DOMAIN binds[t] /\ binds'[t][i] = binds[t][i])
              /\ Len(binds'[t]) = Len(binds[t]) + 1
          BY <2>0, <4>1, Pushed
        <4>3. driver \in {"oss", "nas"} => Len(binds[t]) = 0
          BY <2>2, <3>1, <3>3, EmptySeq DEF DiskStep, Bound
        <4> QED BY <2>0, <4>2, <4>3 DEF OnlyDisk
      <3>4. CASE ~ Pushes(t, "disk") /\ ~ Pops(t)
        <4>1. Pushes(t, "dir") /\ d \notin staged /\ driver # "nas"
          BY <1>0, <2>2, <3>1, <3>4 DEF BindsChange
        <4> QED BY <2>2, <3>1, <3>4, <4>1 DEF DiskStep
      <3> QED BY <3>2, <3>3, <3>4
    <2> QED BY <2>1, <2>2
  <1>3. ASSUME Marked, diskStagingMap'[d] = "path"
        PROVE  d \in staged' \/ \E q \in Proc : diskOf(q)' = d /\ pc'[q] = "tDone"
    <2>1. CASE d \in staged' \/ pc'[p] = "tDone"
      BY <1>0, <2>1
    <2>2. CASE diskStagingMap[d] = "path" /\ (d \in staged => d \in staged') /\ pc[p] # "tDone"
      <3>1. d \in staged \/ \E q \in Proc : diskOf(q) = d /\ pc[q] = "tDone"
        BY <1>3, <2>2 DEF DiskOf, At
      <3> QED BY <1>0, <2>2, <3>1 DEF Others, diskOf
    <2> QED BY <1>3, <2>1, <2>2 DEF DiskStep
  <1> QED BY <1>0, <1>1, <1>3 DEF DiskOf, Marked, At

----------------------------------------------------------------------------
(* The steps of a handler.                                                 *)

(* The lock of a disk and the mutex are taken when free, and released by   *)
(* who has them.                                                           *)
Locks(p) ==
    /\ driver = "ccs" =>
          \/ locks' = locks /\ (pc'[p] \in CcsHeld => pc[p] \in CcsHeld)
          \/ locks' = locks \union {diskOf(p)} /\ diskOf(p) \notin locks
          \/ locks' = locks \ {diskOf(p)} /\ pc[p] \in CcsHeld /\ pc'[p] \notin CcsHeld
    /\ driver = "oss" =>
          \/ mountMu' = mountMu /\ (pc'[p] \in OssHeld => pc[p] \in OssHeld)
          \/ mountMu' = p /\ mountMu = NoProc
          \/ pc[p] \in OssHeld /\ pc'[p] \notin OssHeld

(* So they exclude.                                                        *)
LEMMA ActsAlone ==
  ASSUME TypeInv, AloneOK, NEW p \in Proc, Moves(p), Locks(p)
  PROVE  AloneOK'
  <1>0. Others(p) /\ job' = job /\ overlapped' = overlapped /\ driver' = driver /\ pc[p] # "idle"
    BY MovesOthers DEF Moves
  <1>1. ASSUME driver = "ccs"
        PROVE  /\ \A q \in Proc : pc'[q] \in CcsHeld => diskOf(q) \in locks'
               /\ \A q, r \in Proc :
                     pc'[q] \in CcsHeld /\ pc'[r] \in CcsHeld /\ diskOf(q) = diskOf(r) => q = r
    <2>0. /\ \A q \in Proc : pc[q] \in CcsHeld => diskOf(q) \in locks
          /\ \A q, r \in Proc : pc[q] \in CcsHeld /\ pc[r] \in CcsHeld /\ diskOf(q) = diskOf(r) => q = r
          /\ \A q \in Proc : q # p => pc'[q] = pc[q]
      BY <1>0, <1>1 DEF AloneOK, Others
    <2>1. CASE locks' = locks /\ (pc'[p] \in CcsHeld => pc[p] \in CcsHeld)
      BY <2>0, <2>1
    <2>2. CASE locks' = locks \union {diskOf(p)} /\ diskOf(p) \notin locks
      BY <2>0, <2>2
    <2>3. CASE locks' = locks \ {diskOf(p)} /\ pc[p] \in CcsHeld /\ pc'[p] \notin CcsHeld
      BY <2>0, <2>3
    <2> QED BY <1>1, <2>1, <2>2, <2>3 DEF Locks
  <1>2. ASSUME driver = "oss", NEW q \in Proc, pc'[q] \in OssHeld
        PROVE  mountMu' = q
    <2>0. /\ \A r \in Proc : pc[r] \in OssHeld => mountMu = r
          /\ \A r \in Proc : r # p => pc'[r] = pc[r]
      BY <1>0, <1>2 DEF AloneOK, Others
    <2> QED BY <1>2, <2>0, DriversAssumption DEF Locks
  <1>3. \A q, r \in Proc : pc'[q] # "idle" /\ pc'[r] # "idle" /\ diskOf(q) = diskOf(r) /\ q # r =>
          diskOf(q) \in overlapped
    BY <1>0 DEF AloneOK, Others
  <1> QED BY <1>0, <1>1, <1>2, <1>3 DEF AloneOK, diskOf

(* What a step does beyond its disk is nothing; what it does to it, it     *)
(* does alone, or to a disk of which nothing is promised.                  *)
Quiet == UNCHANGED <<host, credentials, diskStagingMap, diskFormattedMap>>
Elsewhere(p) ==
    \A d \in Disk \ {diskOf(p)} : /\ diskStagingMap'[d] = diskStagingMap[d]
                                  /\ d \in diskFormattedMap' <=> d \in diskFormattedMap
                                  /\ d \in credentials' <=> d \in credentials

(* So what is promised of the disks is kept.                               *)
LEMMA DisksByStep ==
  ASSUME TypeInv, AloneOK, DisksOK, NEW p \in Proc, Moves(p), Command(p), Locks(p), Elsewhere(p),
         Quiet \/ Alone(p) \/ ~ Kept(diskOf(p)),
         Kept(diskOf(p)) => DiskStep(p),
         Alone(p)' => SeenOf(p)'
  PROVE  DisksOK'
  <1>0. /\ Others(p) /\ job' = job /\ overlapped' = overlapped /\ driver' = driver /\ pc[p] # "idle"
        /\ \A q \in Proc : diskOf(q)' = diskOf(q) /\ targetOf(q)' = targetOf(q)
        /\ \A d \in Disk : Kept(d)' <=> Kept(d)
    BY MovesOthers DEF Moves, diskOf, targetOf, Kept
  <1>e. /\ \A d \in Disk \ {diskOf(p)} : /\ d \in staged' <=> d \in staged
                                         /\ d \in recorded' <=> d \in recorded
                                         /\ fs'[d] = fs[d]
        /\ \A t \in Target : volumeOf[t] # diskOf(p) => binds'[t] = binds[t]
    BY <1>0, CommandElsewhere
  <1>1. \A d \in Disk : FsOf(d)'
    BY <1>0, CommandFs DEF DisksOK
  <1>2. ASSUME NEW d \in Disk, Kept(d)
        PROVE  DiskOf(d)'
    <2>0. DiskOf(d)
      BY <1>2 DEF DisksOK
    <2>1. CASE d = diskOf(p)
      BY <1>0, <1>2, <2>0, <2>1, DiskKept
    <2>2. CASE d # diskOf(p)
      <3>1. /\ d \in staged' <=> d \in staged
            /\ d \in recorded' <=> d \in recorded
            /\ diskStagingMap'[d] = diskStagingMap[d]
            /\ \A t \in Target : volumeOf[t] = d => binds'[t] = binds[t]
        BY <1>e, <2>2 DEF Elsewhere
      <3>2. \A q \in Proc : diskOf(q) = d => pc'[q] = pc[q] /\ diskOf(q)' = d
        BY <1>0, <2>2 DEF Others
      <3> QED BY <1>0, <2>0, <3>1, <3>2 DEF DiskOf, OnlyDisk, At, Marked
    <2> QED BY <2>1, <2>2
  <1>3. ASSUME NEW q \in Proc, q # p, Alone(q)'
        PROVE  SeenOf(q)'
    <2>0. pc'[q] = pc[q] /\ res'[q] = res[q] /\ job'[q] = job[q]
      BY <1>0, <1>3 DEF Others
    <2>1. Alone(q)
      BY <1>0, <1>3, <2>0 DEF Alone, CcsHeld, OssHeld
    <2>2. SeenOf(q) /\ JobOf(q) /\ pc[q] # "idle"
      BY <2>1 DEF DisksOK, TypeInv, Alone, CcsHeld, OssHeld
    <2> DEFINE d == diskOf(q)
    <2>3. /\ d \in staged' <=> d \in staged
          /\ fs'[d] = fs[d] /\ (d \in credentials' <=> d \in credentials)
          /\ (d \in recorded' <=> d \in recorded) /\ (d \in diskFormattedMap' <=> d \in diskFormattedMap)
          /\ \A t \in Target : volumeOf[t] = d => binds'[t] = binds[t]
      <3>1. CASE Quiet
        BY <3>1 DEF Quiet, host
      <3>2. CASE d # diskOf(p)
        BY <1>e, <2>2, <3>2 DEF Elsewhere, JobOf
      <3>3. CASE d = diskOf(p) /\ ~ Quiet
        BY <1>3, <2>1, <3>3, AloneExcludes, AloneKept
      <3> QED BY <3>1, <3>2, <3>3
    <2>4. \/ pc[q] \in {"opBind", "apMount"}
          \/ pc[q] \in MountAt /\ job[q].op = "publish"
          \/ job[q].op = "unpublish"
          => Bound(targetOf(q))' = Bound(targetOf(q))
      BY <1>0, <2>2, <2>3 DEF JobOf, PublishAt, Bound
    <2>5. targetOf(q)' = targetOf(q) /\ diskOf(q)' = diskOf(q)
      BY <1>0
    <2> QED BY <1>0, <2>0, <2>2, <2>3, <2>4, <2>5 DEF SeenOf, HasFs, MountAt
  <1> QED BY <1>0, <1>1, <1>2, <1>3 DEF DisksOK

----------------------------------------------------------------------------
(* The EBS, EKS and CDS drivers.                                           *)

(* The steps they share, ...                                               *)
SharedStep(p) ==
    \/ StageMark(p) \/ StageStore(p) \/ StageMkfs(p) \/ StageMount(p) \/ StageStaged(p)
    \/ PublishMounted(p) \/ PublishMark(p) \/ PublishStore(p) \/ PublishStaged(p) \/ PublishMount(p)
    \/ PublishBind(p, "pBind", "pPublished") \/ PublishBind(p, "pBindStaged", "pKept") \/ PublishKept(p)
    \/ UnpublishMark(p) \/ UnpublishStore(p) \/ UnpublishUmount(p) \/ UnpublishOk(p)
    \/ UnstageStore(p) \/ UnstageUmount(p) \/ UnstageDone(p)

(* ... and what those that differ may be.                                  *)
OwnStep(p) ==
    \/ /\ UNCHANGED <<host, diskStagingMap, diskUnPublishingMap, diskUnStagingMap>>
       /\ diskFormattedMap' \in {diskFormattedMap, diskFormattedMap \union {diskOf(p)}}
       /\ diskFormattedMap' \in SUBSET Disk /\ diskPublishedMap' \in SUBSET Target
       /\ diskPublishingMap' \in [Target -> {"none", "publishing", "error", "path"}]
       /\ isFormat' \in [Proc -> BOOLEAN]
       /\ \/ pc[p] \in {"sInfo", "pInfo", "pFormatted", "tMark"} /\ Return(p, "err")
          \/ pc[p] = "pPublished" /\ Return(p, "ok")
          \/ pc[p] = "sInfo" /\ Goto(p, "sStore")
          \/ pc[p] = "sFormatted" /\ Goto(p, "sMount")
          \/ pc[p] = "sFormatted" /\ Goto(p, "sProbe") /\ diskOf(p) \notin diskFormattedMap'
          \/ pc[p] = "sProbe" /\ Goto(p, "sSave")
          \/ pc[p] = "sProbe" /\ Goto(p, "sMkfs") /\ ~ HasFs(diskOf(p))
          \/ pc[p] = "sProbe" /\ Goto(p, "sUnread") /\ diskFormattedMap' = diskFormattedMap
          \/ pc[p] = "sSave" /\ Goto(p, "sMount")
          \/ pc[p] = "pInfo" /\ Goto(p, "pFormatted")
          \/ pc[p] = "pFormatted" /\ Goto(p, "pStaged")
          \/ pc[p] = "tMark" /\ Goto(p, "tStore")
    \/ pc[p] \in {"sProbe", "sSave"} /\ StageFails(p)
    \/ pc[p] = "tMark" /\ UnstagePathGone(p)
    \/ pc[p] = "sSave" /\ Goto(p, "sMount") /\ Record(diskOf(p)) /\ UNCHANGED marks

(* The maps have their types; a request knows its disk, or target path.    *)
LEMMA MarkedTypes ==
  ASSUME TypeInv, NEW p \in Proc, pc[p] # "idle"
  PROVE  /\ MarksTypeOK /\ diskOf(p) \in Disk
         /\ pc[p] \in PublishAt \union UnpublishAt => targetOf(p) \in Target
         /\ diskFormattedMap \union {diskOf(p)} \in SUBSET Disk
  BY DEF TypeInv, TypeOK, MarksTypeOK, JobOf

(* The EBS driver's node service.                                          *)
LEMMA EbsSteps ==
  ASSUME TypeInv, NEW p \in Proc, Ebs!Handle(p)
  PROVE  SharedStep(p) \/ OwnStep(p)
  <1> USE DEF Ebs!Goto, Ebs!Return, Ebs!Continue, Ebs!Refuse, Ebs!Succeed, Ebs!host, Ebs!marks, Ebs!diskOf,
              Ebs!targetOf, Ebs!MarkStaging, Ebs!MarkPublishing, Ebs!MarkUnPublishing, Ebs!MarkUnStaging,
              Ebs!StageFails, Ebs!PublishFails, Ebs!Formatted, Ebs!Record,
              Goto, Return, Continue, Refuse, Succeed, host, marks, diskOf, targetOf,
              MarkStaging, MarkPublishing, MarkUnPublishing, MarkUnStaging,
              StageFails, PublishFails, Formatted, Record
  <1>1. ASSUME Ebs!NodeStageVolume(p)
        PROVE  SharedStep(p) \/ OwnStep(p)
    <2>1. CASE Ebs!StageMark(p) \/ Ebs!StageStore(p)
      BY <2>1 DEF SharedStep, Ebs!StageMark, Ebs!StageStore, StageMark, StageStore
    <2>2. CASE Ebs!StageMkfs(p) \/ Ebs!StageMount(p) \/ Ebs!StageStaged(p)
      BY <2>2
      DEF SharedStep, Ebs!StageMkfs, Ebs!StageMount, Ebs!StageStaged, StageMkfs, StageMount, StageStaged,
                  Ebs!Mkfs, Mkfs, Ebs!MountDevice, MountDevice, Ebs!InUse, InUse, Ebs!UsesDevice, UsesDevice
    <2>3. CASE Ebs!StageInfo(p) \/ Ebs!StageFormatted(p)
      BY <2>3, MarkedTypes DEF OwnStep, Ebs!StageInfo, Ebs!StageFormatted, Ebs!GetPvFormat, MarksTypeOK
    <2>4. CASE Ebs!Probe(p) \/ Ebs!SavePvFormat(p)
      BY <2>4, MarkedTypes DEF OwnStep, Ebs!Probe, Ebs!SavePvFormat, MarksTypeOK, HasFs
    <2> QED BY <1>1, <2>1, <2>2, <2>3, <2>4 DEF Ebs!NodeStageVolume, Ebs!formatDiskDevice
  <1>2. ASSUME Ebs!NodePublishVolume(p)
        PROVE  SharedStep(p) \/ OwnStep(p)
    <2>1. CASE Ebs!PublishMounted(p) \/ Ebs!PublishMark(p) \/ Ebs!PublishStore(p) \/ Ebs!PublishStaged(p)
      BY <2>1 DEF SharedStep, Ebs!PublishMounted, Ebs!PublishMark, Ebs!PublishStore, Ebs!PublishStaged,
                  PublishMounted, PublishMark, PublishStore, PublishStaged, Ebs!Bound, Bound, Ebs!Mounted, Mounted
    <2>2. CASE \/ Ebs!PublishMount(p) \/ Ebs!PublishKept(p)
               \/ Ebs!PublishBind(p, "pBind", "pPublished") \/ Ebs!PublishBind(p, "pBindStaged", "pKept")
      BY <2>2 DEF SharedStep, Ebs!PublishMount, Ebs!PublishKept, Ebs!PublishBind, PublishMount, PublishKept,
                  PublishBind, Ebs!MountDevice, MountDevice, Ebs!BindMount, BindMount
    <2>3. CASE Ebs!PublishInfo(p) \/ Ebs!PublishFormatted(p) \/ Ebs!PublishPublished(p)
      <3>0. pc[p] # "idle"
        BY <2>3 DEF Ebs!PublishInfo, Ebs!PublishFormatted, Ebs!PublishPublished
      <3>1. /\ diskFormattedMap \in SUBSET Disk /\ diskPublishedMap \in SUBSET Target
            /\ diskPublishingMap \in [Target -> {"none", "publishing", "error", "path"}]
            /\ isFormat \in [Proc -> BOOLEAN]
            /\ pc[p] = "pPublished" => job[p].target \in Target
        BY <3>0, MarkedTypes DEF MarksTypeOK, PublishAt
      <3> QED BY <2>3, <3>1 DEF OwnStep, Ebs!PublishInfo, Ebs!PublishFormatted, Ebs!PublishPublished
    <2> QED BY <1>2, <2>1, <2>2, <2>3 DEF Ebs!NodePublishVolume
  <1>3. ASSUME Ebs!NodeUnpublishVolume(p)
        PROVE  SharedStep(p)
    BY <1>3
    DEF SharedStep, Ebs!NodeUnpublishVolume, Ebs!UnpublishMark, Ebs!UnpublishStore, Ebs!UnpublishUmount,
                Ebs!UnpublishOk, UnpublishMark, UnpublishStore, UnpublishUmount, UnpublishOk,
                Ebs!FileExisted, FileExisted, Ebs!Bound, Bound, Ebs!UnbindMount, UnbindMount
  <1>4. ASSUME Ebs!NodeUnstageVolume(p)
        PROVE  SharedStep(p) \/ OwnStep(p)
    <2>1. CASE Ebs!UnstageStore(p) \/ Ebs!UnstageUmount(p) \/ Ebs!UnstageDone(p)
      BY <2>1
      DEF SharedStep, Ebs!UnstageStore, Ebs!UnstageUmount, Ebs!UnstageDone, UnstageStore, UnstageUmount,
                  UnstageDone, Ebs!UnmountDevice, UnmountDevice
    <2>2. CASE Ebs!UnstageMark(p)
      BY <2>2, MarkedTypes
      DEF OwnStep, Ebs!UnstageMark, Ebs!UnstagePathGone, UnstagePathGone, Ebs!FileExisted,
                               FileExisted, MarksTypeOK
    <2> QED BY <1>4, <2>1, <2>2 DEF Ebs!NodeUnstageVolume
  <1> QED BY <1>1, <1>2, <1>3, <1>4 DEF Ebs!Handle

(* The EKS driver's, which borrows some of the EBS driver's steps.         *)
LEMMA EksSteps ==
  ASSUME TypeInv, NEW p \in Proc, Eks!Handle(p)
  PROVE  SharedStep(p) \/ OwnStep(p)
  <1> USE DEF Eks!Goto, Eks!Return, Eks!Continue, Eks!Refuse, Eks!Succeed, Eks!host, Eks!marks, Eks!diskOf,
              Eks!targetOf, Eks!MarkStaging, Eks!MarkPublishing, Eks!MarkUnPublishing, Eks!MarkUnStaging,
              Eks!StageFails, Eks!PublishFails, Eks!Formatted, Eks!Record,
              Eks!Ebs!Goto, Eks!Ebs!Return, Eks!Ebs!Continue, Eks!Ebs!Refuse, Eks!Ebs!host, Eks!Ebs!marks,
              Eks!Ebs!diskOf, Eks!Ebs!targetOf, Eks!Ebs!MarkStaging, Eks!Ebs!MarkPublishing, Eks!Ebs!StageFails,
              Eks!Ebs!Formatted,
              Goto, Return, Continue, Refuse, Succeed, host, marks, diskOf, targetOf,
              MarkStaging, MarkPublishing, MarkUnPublishing, MarkUnStaging,
              StageFails, PublishFails, Formatted, Record
  <1>1. ASSUME Eks!NodeStageVolume(p)
        PROVE  SharedStep(p) \/ OwnStep(p)
    <2>1. CASE Eks!StageMark(p) \/ Eks!StageStore(p)
      BY <2>1 DEF SharedStep, Eks!StageMark, Eks!StageStore, StageMark, StageStore
    <2>2. CASE Eks!StageMkfs(p) \/ Eks!StageMount(p) \/ Eks!StageStaged(p)
      BY <2>2
      DEF SharedStep, Eks!StageMkfs, Eks!StageMount, Eks!StageStaged, StageMkfs, StageMount, StageStaged,
                  Eks!Mkfs, Mkfs, Eks!MountDevice, MountDevice, Eks!InUse, InUse, Eks!UsesDevice, UsesDevice
    <2>3. CASE Eks!StageInfo(p) \/ Eks!StageFormatted(p)
      BY <2>3, MarkedTypes DEF OwnStep, Eks!StageInfo, Eks!StageFormatted, Eks!GetPvFormat, MarksTypeOK
    <2>4. CASE Eks!Ebs!Probe(p) \/ Eks!SavePvFormat(p)
      BY <2>4, MarkedTypes DEF OwnStep, Eks!Ebs!Probe, Eks!SavePvFormat, MarksTypeOK, HasFs
    <2> QED BY <1>1, <2>1, <2>2, <2>3, <2>4 DEF Eks!NodeStageVolume, Eks!formatDiskDevice
  <1>2. ASSUME Eks!NodePublishVolume(p)
        PROVE  SharedStep(p) \/ OwnStep(p)
    <2>1. CASE Eks!PublishMounted(p) \/ Eks!PublishMark(p) \/ Eks!PublishStore(p) \/ Eks!PublishStaged(p)
      BY <2>1 DEF SharedStep, Eks!PublishMounted, Eks!PublishMark, Eks!PublishStore, Eks!PublishStaged,
                  PublishMounted, PublishMark, PublishStore, PublishStaged, Eks!Bound, Bound, Eks!Mounted, Mounted
    <2>2. CASE \/ Eks!PublishMount(p) \/ Eks!PublishKept(p)
               \/ Eks!PublishBind(p, "pBind", "pPublished") \/ Eks!PublishBind(p, "pBindStaged", "pKept")
      BY <2>2 DEF SharedStep, Eks!PublishMount, Eks!PublishKept, Eks!PublishBind, PublishMount, PublishKept,
                  PublishBind, Eks!MountDevice, MountDevice, Eks!BindMount, BindMount
    <2>3. CASE Eks!Ebs!PublishInfo(p) \/ Eks!Ebs!PublishFormatted(p) \/ Eks!Ebs!PublishPublished(p)
      <3>0. pc[p] # "idle"
        BY <2>3 DEF Eks!Ebs!PublishInfo, Eks!Ebs!PublishFormatted, Eks!Ebs!PublishPublished
      <3>1. /\ diskFormattedMap \in SUBSET Disk /\ diskPublishedMap \in SUBSET Target
            /\ diskPublishingMap \in [Target -> {"none", "publishing", "error", "path"}]
            /\ isFormat \in [Proc -> BOOLEAN]
            /\ pc[p] = "pPublished" => job[p].target \in Target
        BY <3>0, MarkedTypes DEF MarksTypeOK, PublishAt
      <3> QED BY <2>3, <3>1
              DEF OwnStep, Eks!Ebs!PublishInfo, Eks!Ebs!PublishFormatted, Eks!Ebs!PublishPublished
    <2> QED BY <1>2, <2>1, <2>2, <2>3 DEF Eks!NodePublishVolume
  <1>3. ASSUME Eks!NodeUnpublishVolume(p)
        PROVE  SharedStep(p)
    BY <1>3
    DEF SharedStep, Eks!NodeUnpublishVolume, Eks!UnpublishMark, Eks!UnpublishStore, Eks!UnpublishUmount,
                Eks!UnpublishOk, UnpublishMark, UnpublishStore, UnpublishUmount, UnpublishOk,
                Eks!FileExisted, FileExisted, Eks!Bound, Bound, Eks!UnbindMount, UnbindMount
  <1>4. ASSUME Eks!NodeUnstageVolume(p)
        PROVE  SharedStep(p) \/ OwnStep(p)
    <2>1. CASE Eks!UnstageStore(p) \/ Eks!UnstageUmount(p) \/ Eks!UnstageDone(p)
      BY <2>1
      DEF SharedStep, Eks!UnstageStore, Eks!UnstageUmount, Eks!UnstageDone, UnstageStore, UnstageUmount,
                  UnstageDone, Eks!UnmountDevice, UnmountDevice
    <2>2. CASE Eks!Ebs!UnstageMark(p)
      BY <2>2, MarkedTypes
      DEF OwnStep, Eks!Ebs!UnstageMark, Eks!Ebs!UnstagePathGone, UnstagePathGone, Eks!Ebs!FileExisted,
                               FileExisted, MarksTypeOK
    <2> QED BY <1>4, <2>1, <2>2 DEF Eks!NodeUnstageVolume
  <1> QED BY <1>1, <1>2, <1>3, <1>4 DEF Eks!Handle

(* A flag that is set leaves flags.                                        *)
LEMMA FlagType ==
  ASSUME NEW d, NEW S, NEW f \in [Proc -> BOOLEAN], NEW p, NEW g, g = [f EXCEPT ![p] = d \in S]
  PROVE  g \in [Proc -> BOOLEAN]
  <1>1. ASSUME NEW b \in BOOLEAN
        PROVE  [f EXCEPT ![p] = b] \in [Proc -> BOOLEAN]
    OBVIOUS
  <1>2. CASE d \in S
    <2>1. (d \in S) = TRUE
      BY <1>2
    <2>2. g = [f EXCEPT ![p] = TRUE]
      BY <2>1, Zenon
    <2> QED BY <2>2, <1>1
  <1>3. CASE d \notin S
    <2>1. (d \in S) = FALSE
      BY <1>3
    <2>2. g = [f EXCEPT ![p] = FALSE]
      BY <2>1, Zenon
    <2> QED BY <2>2, <1>1
  <1> QED BY <1>2, <1>3

(* The CDS driver's, which looks at no device before it formats it.        *)
LEMMA CdsSteps ==
  ASSUME TypeInv, NEW p \in Proc, driver = "cds", Cds!Handle(p)
  PROVE  SharedStep(p) \/ OwnStep(p)
  <1> USE DEF Cds!Goto, Cds!Return, Cds!Continue, Cds!Refuse, Cds!Succeed, Cds!host, Cds!marks, Cds!diskOf,
              Cds!targetOf, Cds!MarkStaging, Cds!MarkPublishing, Cds!MarkUnPublishing, Cds!MarkUnStaging,
              Cds!StageFails, Cds!PublishFails, Cds!Formatted, Cds!Record,
              Goto, Return, Continue, Refuse, Succeed, host, marks, diskOf, targetOf,
              MarkStaging, MarkPublishing, MarkUnPublishing, MarkUnStaging,
              StageFails, PublishFails, Formatted, Record
  <1>1. ASSUME Cds!NodeStageVolume(p)
        PROVE  SharedStep(p) \/ OwnStep(p)
    <2>1. CASE Cds!StageMark(p) \/ Cds!StageStore(p)
      BY <2>1 DEF SharedStep, Cds!StageMark, Cds!StageStore, StageMark, StageStore
    <2>2. CASE Cds!StageMkfs(p) \/ Cds!StageMount(p) \/ Cds!StageStaged(p)
      BY <2>2
      DEF SharedStep, Cds!StageMkfs, Cds!StageMount, Cds!StageStaged, StageMkfs, StageMount, StageStaged,
                  Cds!Mkfs, Mkfs, Cds!MountDevice, MountDevice, Cds!InUse, InUse, Cds!UsesDevice, UsesDevice
    <2>3. CASE Cds!StageInfo(p) \/ Cds!StageFormatted(p)
      <3>0. pc[p] # "idle"
        BY <2>3 DEF Cds!StageInfo, Cds!StageFormatted
      <3>1. /\ diskFormattedMap \in SUBSET Disk /\ diskPublishedMap \in SUBSET Target
            /\ diskPublishingMap \in [Target -> {"none", "publishing", "error", "path"}]
            /\ isFormat \in [Proc -> BOOLEAN]
        BY <3>0, MarkedTypes DEF MarksTypeOK
      <3>2. CASE Cds!StageInfo(p)
        <4>1. CASE Cds!Refuse(p)
          BY <3>1, <3>2, <4>1 DEF OwnStep, Cds!StageInfo
        <4>2. CASE Cds!SeeFormat(p, "sStore")
          <5>1. isFormat' \in [Proc -> BOOLEAN]
            <6>1. isFormat' = [isFormat EXCEPT ![p] = diskOf(p) \in recorded]
              BY <4>2 DEF Cds!SeeFormat, Cds!Keep
            <6>2. isFormat \in [Proc -> BOOLEAN]
              BY <3>1
            <6> HIDE DEF diskOf
            <6> QED BY <6>1, <6>2, FlagType
          <5>2. /\ Goto(p, "sStore")
                /\ UNCHANGED <<host, diskFormattedMap, diskStagingMap, diskPublishingMap, diskPublishedMap,
                               diskUnPublishingMap, diskUnStagingMap>>
            BY <4>2 DEF Cds!SeeFormat, Cds!Keep
          <5>3. pc[p] = "sInfo"
            BY <3>2 DEF Cds!StageInfo
          <5> HIDE DEF Goto, Return, host
          <5> QED BY <3>1, <5>1, <5>2, <5>3 DEF OwnStep
        <4> QED BY <3>2, <4>1, <4>2 DEF Cds!StageInfo
      <3>3. CASE Cds!StageFormatted(p)
        <4>1. isFormat' \in [Proc -> BOOLEAN]
          BY <3>1, <3>3 DEF Cds!StageFormatted, Cds!Keep
        <4>2. /\ pc[p] = "sFormatted"
              /\ Goto(p, "sMount") \/ (Goto(p, "sProbe") /\ diskOf(p) \notin diskFormattedMap)
          BY <3>3 DEF Cds!StageFormatted, Cds!KnownFormatted
        <4>3. UNCHANGED <<host, diskFormattedMap, diskStagingMap, diskPublishingMap, diskPublishedMap,
                          diskUnPublishingMap, diskUnStagingMap>>
          BY <3>3 DEF Cds!StageFormatted, Cds!Keep
        <4> HIDE DEF Goto, Return, host
        <4> QED BY <3>1, <4>1, <4>2, <4>3 DEF OwnStep
      <3> QED BY <2>3, <3>2, <3>3
    <2>4. CASE Cds!formatDiskDevice(p) /\ ~ Cds!StageMkfs(p)
      BY <2>4, MarkedTypes DEF OwnStep, Cds!formatDiskDevice, MarksTypeOK
    <2> QED BY <1>1, <2>1, <2>2, <2>3, <2>4 DEF Cds!NodeStageVolume, Cds!formatDiskDevice
  <1>2. ASSUME Cds!NodePublishVolume(p)
        PROVE  SharedStep(p) \/ OwnStep(p)
    <2>1. CASE Cds!PublishMounted(p) \/ Cds!PublishMark(p) \/ Cds!PublishStore(p) \/ Cds!PublishStaged(p)
      BY <2>1 DEF SharedStep, Cds!PublishMounted, Cds!PublishMark, Cds!PublishStore, Cds!PublishStaged,
                  PublishMounted, PublishMark, PublishStore, PublishStaged, Cds!Bound, Bound, Cds!Mounted, Mounted
    <2>2. CASE \/ Cds!PublishMount(p) \/ Cds!PublishKept(p)
               \/ Cds!PublishBind(p, "pBind", "pPublished") \/ Cds!PublishBind(p, "pBindStaged", "pKept")
      BY <2>2 DEF SharedStep, Cds!PublishMount, Cds!PublishKept, Cds!PublishBind, PublishMount, PublishKept,
                  PublishBind, Cds!MountDevice, MountDevice, Cds!BindMount, BindMount
    <2>3. CASE Cds!PublishInfo(p) \/ Cds!PublishFormatted(p) \/ Cds!PublishPublished(p)
      <3>0. pc[p] # "idle"
        BY <2>3 DEF Cds!PublishInfo, Cds!PublishFormatted, Cds!PublishPublished
      <3>1. /\ diskFormattedMap \in SUBSET Disk /\ diskPublishedMap \in SUBSET Target
            /\ diskPublishingMap \in [Target -> {"none", "publishing", "error", "path"}]
            /\ isFormat \in [Proc -> BOOLEAN]
            /\ pc[p] = "pPublished" => job[p].target \in Target
        BY <3>0, MarkedTypes DEF MarksTypeOK, PublishAt
      <3>2. CASE Cds!PublishInfo(p)
        <4>1. CASE Return(p, "err") /\ MarkPublishing(p, "none")
          BY <3>1, <3>2, <4>1 DEF OwnStep, Cds!PublishInfo
        <4>2. CASE Cds!SeeFormat(p, "pFormatted")
          <5>1. isFormat' \in [Proc -> BOOLEAN]
            <6>1. isFormat' = [isFormat EXCEPT ![p] = diskOf(p) \in recorded]
              BY <4>2 DEF Cds!SeeFormat, Cds!Keep
            <6>2. isFormat \in [Proc -> BOOLEAN]
              BY <3>1
            <6> HIDE DEF diskOf
            <6> QED BY <6>1, <6>2, FlagType
          <5>2. /\ Goto(p, "pFormatted")
                /\ UNCHANGED <<host, diskFormattedMap, diskStagingMap, diskPublishingMap, diskPublishedMap,
                               diskUnPublishingMap, diskUnStagingMap>>
            BY <4>2 DEF Cds!SeeFormat, Cds!Keep
          <5>3. pc[p] = "pInfo"
            BY <3>2 DEF Cds!PublishInfo
          <5> HIDE DEF Goto, Return, host
          <5> QED BY <3>1, <5>1, <5>2, <5>3 DEF OwnStep
        <4> QED BY <3>2, <4>1, <4>2 DEF Cds!PublishInfo
      <3>3. CASE Cds!PublishFormatted(p)
        <4>1. isFormat' \in [Proc -> BOOLEAN]
          BY <3>1, <3>3 DEF Cds!PublishFormatted, Cds!Keep
        <4>2. pc[p] = "pFormatted" /\ (Return(p, "err") \/ Goto(p, "pStaged"))
          BY <3>3 DEF Cds!PublishFormatted
        <4>3. UNCHANGED <<host, diskFormattedMap, diskStagingMap, diskPublishingMap, diskPublishedMap,
                          diskUnPublishingMap, diskUnStagingMap>>
          BY <3>3 DEF Cds!PublishFormatted, Cds!Keep
        <4> HIDE DEF Goto, Return, host
        <4> QED BY <3>1, <4>1, <4>2, <4>3 DEF OwnStep
      <3>4. CASE Cds!PublishPublished(p)
        BY <3>1, <3>4 DEF OwnStep, Cds!PublishPublished
      <3> QED BY <2>3, <3>2, <3>3, <3>4
    <2> QED BY <1>2, <2>1, <2>2, <2>3 DEF Cds!NodePublishVolume
  <1>3. ASSUME Cds!NodeUnpublishVolume(p)
        PROVE  SharedStep(p)
    BY <1>3
    DEF SharedStep, Cds!NodeUnpublishVolume, Cds!UnpublishMark, Cds!UnpublishStore, Cds!UnpublishUmount,
                Cds!UnpublishOk, UnpublishMark, UnpublishStore, UnpublishUmount, UnpublishOk,
                Cds!FileExisted, FileExisted, Cds!Bound, Bound, Cds!UnbindMount, UnbindMount
  <1>4. ASSUME Cds!NodeUnstageVolume(p)
        PROVE  SharedStep(p) \/ OwnStep(p)
    <2>1. CASE Cds!UnstageStore(p) \/ Cds!UnstageUmount(p) \/ Cds!UnstageDone(p)
      BY <2>1
      DEF SharedStep, Cds!UnstageStore, Cds!UnstageUmount, Cds!UnstageDone, UnstageStore, UnstageUmount,
                  UnstageDone, Cds!UnmountDevice, UnmountDevice
    <2>2. CASE Cds!UnstageMark(p)
      BY <2>2, MarkedTypes
      DEF OwnStep, Cds!UnstageMark, Cds!UnstagePathGone, UnstagePathGone, Cds!FileExisted,
                               FileExisted, MarksTypeOK
    <2> QED BY <1>4, <2>1, <2>2 DEF Cds!NodeUnstageVolume
  <1> QED BY <1>1, <1>2, <1>3, <1>4 DEF Cds!Handle

(* What a handler's step keeps, whatever the driver.                       *)
Handled(p) ==
    /\ Acts(p) /\ Locks(p) /\ Elsewhere(p)
    /\ Quiet \/ Alone(p) \/ ~ Kept(diskOf(p))
    /\ Kept(diskOf(p)) => DiskStep(p)
    /\ Alone(p)' => SeenOf(p)'

(* It is enough.                                                           *)
LEMMA HandledKeeps ==
  ASSUME IInv, NEW p \in Proc, Handled(p)
  PROVE  IInv'
  BY ActsTypeInv, ActsAlone, ActsMarksOwned, DisksByStep DEF IInv, Handled, Acts

(* Of the drivers that mark: where each operation is.                      *)
StageOp == {"sMark", "sInfo", "sStore", "sFormatted", "sProbe", "sMkfs", "sUnread", "sSave", "sMount",
            "sStaged"}
PublishOp == {"pMounted", "pMark", "pStore", "pInfo", "pFormatted", "pStaged", "pMount", "pBind",
              "pPublished", "pBindStaged", "pKept"}
UnpublishOp == {"nMark", "nStore", "nUmount", "nOk"}
UnstageOp == {"tMark", "tStore", "tUmount", "tDone"}

(* A step goes on within its operation, ...                                *)
LEMMA MarkedGoto ==
  ASSUME TypeInv, Marked, NEW p \in Proc, driver' = driver, NEW to, Goto(p, to),
         \E op \in {StageOp, PublishOp, UnpublishOp, UnstageOp} : pc[p] \in op /\ to \in op
  PROVE  /\ Moves(p) /\ pc'[p] = to
         /\ diskOf(p) \in Disk /\ (to \in PublishOp \union UnpublishOp => targetOf(p) \in Target)
  <1>1. pc \in [Proc -> MarkedLocation]
    BY DEF TypeInv, TypeOK, Marked
  <1>2. pc'[p] = to /\ pc' = [pc EXCEPT ![p] = pc'[p]] /\ UNCHANGED <<job, res, overlapped>>
    BY <1>1 DEF Goto
  <1>3. /\ Leads(p, to) /\ pc[p] \notin {"idle", "ret", "done"}
        /\ to \notin {"idle", "ret", "done"} /\ to \in Location
    BY DEF Leads, StageOp, PublishOp, UnpublishOp, UnstageOp, PublishAt, UnpublishAt, MountAt, Location,
           Marked,
           MarkedLocation
  <1>4. res \in [Proc -> {"none", "ok", "err"}]
    BY DEF TypeInv, TypeOK, HostTypeOK
  <1>5. JobOf(p)
    BY DEF TypeInv
  <1>6. diskOf(p) \in Disk /\ (to \in PublishOp \union UnpublishOp => targetOf(p) \in Target)
    BY <1>3, <1>5 DEF JobOf, StageOp, PublishOp, UnpublishOp, UnstageOp, PublishAt, UnpublishAt
  <1>7. res' = [res EXCEPT ![p] = res'[p]] /\ res'[p] \in {"none", "ok", "err"}
    BY <1>2, <1>4
  <1> QED BY <1>2, <1>3, <1>6, <1>7 DEF Moves

(* ... or ends it.                                                         *)
LEMMA MarkedReturn ==
  ASSUME TypeInv, Marked, NEW p \in Proc, driver' = driver, NEW r \in {"ok", "err"}, Return(p, r),
         pc[p] # "idle"
  PROVE  /\ Moves(p) /\ pc'[p] = "ret" /\ res'[p] = r
         /\ diskOf(p) \in Disk /\ (pc[p] \in PublishOp \union UnpublishOp => targetOf(p) \in Target)
  <1>1. pc \in [Proc -> MarkedLocation] /\ res \in [Proc -> {"none", "ok", "err"}]
    BY DEF TypeInv, TypeOK, Marked, HostTypeOK
  <1>2. /\ pc'[p] = "ret" /\ pc' = [pc EXCEPT ![p] = pc'[p]] /\ UNCHANGED <<job, overlapped>>
        /\ res'[p] = r /\ res' = [res EXCEPT ![p] = res'[p]]
    BY <1>1 DEF Return
  <1>3. Leads(p, "ret") /\ "ret" \in Location
    BY DEF Leads, PublishAt, UnpublishAt, MountAt, Location, Marked, MarkedLocation
  <1>5. JobOf(p)
    BY DEF TypeInv
  <1>6. diskOf(p) \in Disk /\ (pc[p] \in PublishOp \union UnpublishOp => targetOf(p) \in Target)
    BY <1>5 DEF JobOf, PublishOp, UnpublishOp, PublishAt, UnpublishAt
  <1> QED BY <1>2, <1>3, <1>6 DEF Moves

(* What a step of these does, while nobody else works on its disk.         *)
MarkedStep(p) ==
    /\ Moves(p) /\ Command(p) /\ Marks(p) /\ MarksTypeOK'
    /\ \A d \in Disk \ {diskOf(p)} : /\ diskStagingMap'[d] = diskStagingMap[d]
                                     /\ d \in diskFormattedMap' <=> d \in diskFormattedMap
    /\ SeenOf(p) => DiskStep(p)
    /\ SeenOf(p) => /\ pc'[p] \in {"sStaged", "pBind", "pBindStaged"} => diskOf(p) \in staged'
                    /\ pc'[p] = "sMkfs" => fs'[diskOf(p)] = "none"
                    /\ pc'[p] \in {"sProbe", "sUnread"} => diskOf(p) \notin diskFormattedMap'

(* One that leaves the host as it is, and the marks of what is under way.  *)
LEMMA QuietStep ==
  ASSUME TypeInv, Marked, NEW p \in Proc, Moves(p), MarksTypeOK',
         UNCHANGED <<host, diskStagingMap, diskUnPublishingMap, diskUnStagingMap>>,
         pc[p] \in StagingAt => pc'[p] \in StagingAt,
         pc[p] \notin UnPublishingAt \union UnStagingAt,
         pc'[p] \in {"sStaged", "pBind", "pBindStaged"} => diskOf(p) \in staged,
         pc'[p] = "sMkfs" => fs[diskOf(p)] = "none",
         \A d \in Disk \ {diskOf(p)} : d \in diskFormattedMap' <=> d \in diskFormattedMap,
         SeenOf(p) /\ pc'[p] \in {"sProbe", "sUnread"} => diskOf(p) \notin diskFormattedMap'
  PROVE  MarkedStep(p)
  <1>1. Command(p) /\ Marks(p)
    BY DEF Command, Marks
  <1>2. DiskStep(p)
    BY DEF DiskStep, host, UnStagingAt
  <1> QED BY <1>1, <1>2 DEF MarkedStep, host

(* One that stores a mark at the staging path.                             *)
LEMMA StagingMarked ==
  ASSUME TypeInv, Marked, NEW p \in Proc, Moves(p), diskOf(p) \in Disk,
         NEW mark \in {"none", "staging", "error", "path"}, MarkStaging(p, mark),
         mark = "staging" => pc'[p] \in StagingAt,
         mark = "path" => pc[p] = "sStaged",
         pc[p] \notin UnPublishingAt \union UnStagingAt,
         pc'[p] \notin {"sStaged", "pBind", "pBindStaged", "sProbe", "sMkfs", "sUnread"}
  PROVE  MarkedStep(p)
  <1>0. MarksTypeOK
    BY DEF TypeInv, TypeOK
  <1>1. /\ diskStagingMap'[diskOf(p)] = mark
        /\ \A d \in Disk \ {diskOf(p)} : diskStagingMap'[d] = diskStagingMap[d]
    BY <1>0 DEF MarksTypeOK, MarkStaging
  <1>2. Command(p) /\ Marks(p) /\ MarksTypeOK'
    BY <1>0, <1>1 DEF Command, Marks, MarkStaging, MarksTypeOK
  <1>3. SeenOf(p) => DiskStep(p)
    BY <1>1 DEF DiskStep, SeenOf, MarkStaging, host
  <1> QED BY <1>1, <1>2, <1>3 DEF MarkedStep, MarkStaging

(* NodeStageVolume.                                                        *)
LEMMA StageSteps ==
  ASSUME TypeInv, Marked, NEW p \in Proc, driver' = driver,
         StageMark(p) \/ StageStore(p) \/ StageMkfs(p) \/ StageMount(p) \/ StageStaged(p)
  PROVE  MarkedStep(p)
  <1>t. MarksTypeOK
    BY DEF TypeInv, TypeOK
  <1> USE DEF StageOp, PublishOp, UnpublishOp, UnstageOp, StagingAt, UnPublishingAt, UnStagingAt
  <1>1. CASE StageMark(p)
    <2>1. /\ Moves(p) /\ pc'[p] \in {"ret", "sInfo"} /\ pc[p] = "sMark"
      BY <1>1, MarkedGoto, MarkedReturn DEF StageMark, Refuse, Succeed, Continue
    <2>2. UNCHANGED <<host, marks>>
      BY <1>1 DEF StageMark, Refuse, Succeed, Continue
    <2> QED BY <1>t, <2>1, <2>2, QuietStep DEF MarksTypeOK, marks
  <1>2. CASE StageStore(p)
    <2>1. Moves(p) /\ pc'[p] = "sFormatted" /\ pc[p] = "sStore" /\ diskOf(p) \in Disk
      BY <1>2, MarkedGoto DEF StageStore
    <2> QED BY <1>2, <2>1, StagingMarked DEF StageStore
  <1>f. ASSUME StageFails(p), pc[p] \in {"sMkfs", "sUnread", "sMount"}
        PROVE  MarkedStep(p)
    <2>1. Moves(p) /\ pc'[p] = "ret" /\ diskOf(p) \in Disk
      BY <1>f, MarkedReturn DEF StageFails
    <2> QED BY <1>f, <2>1, StagingMarked DEF StageFails
  <1>3. CASE pc[p] \in {"sMkfs", "sUnread"} /\ Goto(p, "sSave") /\ Mkfs(diskOf(p)) /\ Formatted(p)
    <2>1. Moves(p) /\ pc'[p] = "sSave" /\ diskOf(p) \in Disk
      BY <1>3, MarkedGoto
    <2>2. MarksTypeOK'
      BY <1>3, <1>t, <2>1 DEF MarksTypeOK, Formatted
    <2>3. Command(p) /\ Marks(p)
      BY <1>3, <2>1 DEF Command, Marks, Formatted
    <2>4. SeenOf(p) => DiskStep(p)
      BY <1>3, <2>1 DEF SeenOf, DiskStep, Formatted, Mkfs
    <2> QED BY <1>3, <2>1, <2>2, <2>3, <2>4 DEF MarkedStep, Formatted
  <1>4. CASE pc[p] = "sMount" /\ Goto(p, "sStaged") /\ MountDevice(diskOf(p)) /\ UNCHANGED marks
    <2>1. Moves(p) /\ pc'[p] = "sStaged" /\ diskOf(p) \in Disk
      BY <1>4, MarkedGoto
    <2>2. MarksTypeOK'
      BY <1>4, <1>t, <2>1 DEF MarksTypeOK, marks
    <2>3. Command(p) /\ Marks(p)
      BY <1>4, <2>1 DEF Command, Marks, marks
    <2>4. DiskStep(p) /\ diskOf(p) \in staged'
      BY <1>4, <2>1 DEF DiskStep, marks, MountDevice
    <2> QED BY <1>4, <2>1, <2>2, <2>3, <2>4 DEF MarkedStep, marks
  <1>5. CASE StageStaged(p)
    <2>1. Moves(p) /\ pc'[p] = "ret" /\ pc[p] = "sStaged" /\ diskOf(p) \in Disk
      BY <1>5, MarkedReturn DEF StageStaged
    <2> QED BY <1>5, <2>1, StagingMarked DEF StageStaged
  <1> QED BY <1>1, <1>2, <1>f, <1>3, <1>4, <1>5 DEF StageMkfs, StageMount

(* NodePublishVolume.                                                      *)
LEMMA PublishSteps ==
  ASSUME TypeInv, Marked, NEW p \in Proc, driver' = driver,
         \/ PublishMounted(p) \/ PublishMark(p) \/ PublishStore(p) \/ PublishStaged(p) \/ PublishMount(p)
         \/ PublishBind(p, "pBind", "pPublished") \/ PublishBind(p, "pBindStaged", "pKept") \/ PublishKept(p)
  PROVE  MarkedStep(p)
  <1>t. MarksTypeOK
    BY DEF TypeInv, TypeOK
  <1> USE DEF StageOp, PublishOp, UnpublishOp, UnstageOp, StagingAt, UnPublishingAt, UnStagingAt
  <1>1. CASE PublishMounted(p) \/ PublishMark(p)
    <2>1. /\ Moves(p) /\ pc'[p] \in {"ret", "pMark", "pStore"} /\ pc[p] \in PublishOp
      BY <1>1, MarkedGoto, MarkedReturn DEF PublishMounted, PublishMark, Refuse, Succeed, Continue
    <2>2. UNCHANGED <<host, marks>>
      BY <1>1 DEF PublishMounted, PublishMark, Refuse, Succeed, Continue
    <2> QED BY <1>t, <2>1, <2>2, QuietStep DEF MarksTypeOK, marks
  <1>p. ASSUME NEW mark \in {"none", "publishing", "error", "path"}, MarkPublishing(p, mark),
               Moves(p), pc[p] \in PublishOp, pc'[p] \in {"ret", "pInfo"}, targetOf(p) \in Target
        PROVE  MarkedStep(p)
    <2>1. MarksTypeOK'
      BY <1>t, <1>p DEF MarksTypeOK, MarkPublishing
    <2>2. UNCHANGED <<host, diskFormattedMap, diskStagingMap, diskUnPublishingMap, diskUnStagingMap>>
      BY <1>p DEF MarkPublishing
    <2> QED BY <1>p, <2>1, <2>2, QuietStep
  <1>2. CASE PublishStore(p)
    <2>1. Moves(p) /\ pc'[p] = "pInfo" /\ pc[p] \in PublishOp /\ targetOf(p) \in Target
      BY <1>2, MarkedGoto DEF PublishStore
    <2> QED BY <1>2, <1>p, <2>1 DEF PublishStore
  <1>f. ASSUME PublishFails(p), pc[p] \in {"pMount", "pBind", "pBindStaged"}
        PROVE  MarkedStep(p)
    <2>1. Moves(p) /\ pc'[p] = "ret" /\ targetOf(p) \in Target
      BY <1>f, MarkedReturn DEF PublishFails
    <2> QED BY <1>f, <1>p, <2>1 DEF PublishFails
  <1>3. CASE PublishStaged(p)
    <2>1. /\ Moves(p) /\ pc[p] \in PublishOp
          /\ (pc'[p] = "pBindStaged" /\ diskOf(p) \in staged) \/ pc'[p] = "pMount"
      BY <1>3, MarkedGoto DEF PublishStaged, Continue, Mounted
    <2>2. UNCHANGED <<host, marks>>
      BY <1>3 DEF PublishStaged, Continue
    <2> QED BY <1>t, <2>1, <2>2, QuietStep DEF MarksTypeOK, marks
  <1>4. CASE pc[p] = "pMount" /\ Goto(p, "pBind") /\ MountDevice(diskOf(p)) /\ UNCHANGED marks
    <2>1. Moves(p) /\ pc'[p] = "pBind" /\ diskOf(p) \in Disk
      BY <1>4, MarkedGoto
    <2>2. MarksTypeOK'
      BY <1>4, <1>t, <2>1 DEF MarksTypeOK, marks
    <2>3. Command(p) /\ Marks(p)
      BY <1>4, <2>1 DEF Command, Marks, marks
    <2>4. DiskStep(p) /\ diskOf(p) \in staged'
      BY <1>4, <2>1 DEF DiskStep, marks, MountDevice
    <2> QED BY <1>4, <2>1, <2>2, <2>3, <2>4 DEF MarkedStep, marks
  <1>5. ASSUME NEW at \in {"pBind", "pBindStaged"}, NEW to \in {"pPublished", "pKept"},
               pc[p] = at, Goto(p, to), BindMount(targetOf(p)), UNCHANGED marks
        PROVE  MarkedStep(p)
    <2>1. Moves(p) /\ pc'[p] = to /\ diskOf(p) \in Disk
      BY <1>5, MarkedGoto
    <2>2. MarksTypeOK'
      BY <1>5, <1>t, <2>1 DEF MarksTypeOK, marks
    <2>3. job[p].op = "publish" /\ driver # "nas"
      BY <1>5 DEF TypeInv, JobOf, PublishAt, Marked
    <2>4. Command(p) /\ Marks(p)
      BY <1>5, <2>1, <2>3 DEF Command, Marks, marks
    <2>5. SeenOf(p) => DiskStep(p)
      BY <1>5, <2>1 DEF SeenOf, DiskStep, marks, BindMount, Marked
    <2> QED BY <1>5, <2>1, <2>2, <2>4, <2>5 DEF MarkedStep, marks
  <1>6. CASE PublishKept(p)
    <2>1. Moves(p) /\ pc'[p] = "ret" /\ pc[p] = "pKept" /\ targetOf(p) \in Target
      BY <1>6, MarkedReturn DEF PublishKept
    <2> QED BY <1>6, <1>p, <2>1 DEF PublishKept
  <1> QED BY <1>1, <1>2, <1>f, <1>3, <1>4, <1>5, <1>6 DEF PublishMount, PublishBind

(* NodeUnpublishVolume.                                                    *)
LEMMA UnpublishSteps ==
  ASSUME TypeInv, Marked, NEW p \in Proc, driver' = driver,
         UnpublishMark(p) \/ UnpublishStore(p) \/ UnpublishUmount(p) \/ UnpublishOk(p)
  PROVE  MarkedStep(p)
  <1>t. MarksTypeOK
    BY DEF TypeInv, TypeOK
  <1> USE DEF StageOp, PublishOp, UnpublishOp, UnstageOp, StagingAt, UnPublishingAt, UnStagingAt
  <1>1. CASE UnpublishMark(p)
    <2>1. /\ Moves(p) /\ pc'[p] \in {"ret", "nStore"} /\ pc[p] = "nMark"
      BY <1>1, MarkedGoto, MarkedReturn DEF UnpublishMark, Refuse, Succeed, Continue
    <2>2. UNCHANGED <<host, marks>>
      BY <1>1 DEF UnpublishMark, Refuse, Succeed, Continue
    <2> QED BY <1>t, <2>1, <2>2, QuietStep DEF MarksTypeOK, marks
  <1>p. ASSUME NEW mark \in {"unPublishing", "error", "ok"}, MarkUnPublishing(p, mark),
               diskPublishingMap' \in [Target -> {"none", "publishing", "error", "path"}],
               Moves(p), pc[p] \in UnpublishOp, targetOf(p) \in Target, pc'[p] \in {"nUmount", "ret"},
               mark = "unPublishing" => pc'[p] = "nUmount"
        PROVE  MarkedStep(p)
    <2>1. MarksTypeOK'
      BY <1>t, <1>p DEF MarksTypeOK, MarkUnPublishing
    <2>2. Command(p) /\ Marks(p)
      BY <1>t, <1>p DEF Command, Marks, MarkUnPublishing, MarksTypeOK
    <2>3. DiskStep(p)
      BY <1>p DEF DiskStep, MarkUnPublishing, host
    <2> QED BY <1>p, <2>1, <2>2, <2>3 DEF MarkedStep, MarkUnPublishing
  <1>2. CASE UnpublishStore(p)
    <2>1. Moves(p) /\ pc'[p] = "nUmount" /\ pc[p] \in UnpublishOp /\ targetOf(p) \in Target
      BY <1>2, MarkedGoto DEF UnpublishStore
    <2> QED BY <1>2, <1>p, <1>t, <2>1 DEF UnpublishStore, MarksTypeOK
  <1>3. CASE /\ pc[p] = "nUmount" /\ Return(p, "err")
             /\ MarkUnPublishing(p, "error") /\ UNCHANGED diskPublishingMap
    <2>1. Moves(p) /\ pc'[p] = "ret" /\ targetOf(p) \in Target
      BY <1>3, MarkedReturn
    <2> QED BY <1>3, <1>p, <1>t, <2>1 DEF MarksTypeOK
  <1>4. CASE pc[p] = "nUmount" /\ Goto(p, "nOk") /\ UnbindMount(targetOf(p)) /\ UNCHANGED marks
    <2>1. Moves(p) /\ pc'[p] = "nOk" /\ diskOf(p) \in Disk
      BY <1>4, MarkedGoto
    <2>2. MarksTypeOK'
      BY <1>4, <1>t, <2>1 DEF MarksTypeOK, marks
    <2>3. job[p].op = "unpublish"
      BY <1>4 DEF TypeInv, JobOf, UnpublishAt
    <2>4. Command(p) /\ Marks(p)
      BY <1>4, <2>1, <2>3 DEF Command, Marks, marks
    <2>5. DiskStep(p)
      BY <1>4, <2>1 DEF DiskStep, marks, UnbindMount, Pops, Bound
    <2> QED BY <1>4, <2>1, <2>2, <2>4, <2>5 DEF MarkedStep, marks
  <1>5. CASE UnpublishOk(p)
    <2>1. Moves(p) /\ pc'[p] = "ret" /\ pc[p] = "nOk" /\ targetOf(p) \in Target
      BY <1>5, MarkedReturn DEF UnpublishOk
    <2>2. diskPublishingMap' \in [Target -> {"none", "publishing", "error", "path"}]
      BY <1>5, <1>t DEF UnpublishOk, MarksTypeOK
    <2> QED BY <1>5, <1>p, <2>1, <2>2 DEF UnpublishOk
  <1> QED BY <1>1, <1>2, <1>3, <1>4, <1>5 DEF UnpublishUmount

(* NodeUnstageVolume.                                                      *)
LEMMA UnstageSteps ==
  ASSUME TypeInv, Marked, NEW p \in Proc, driver' = driver,
         UnstageStore(p) \/ UnstageUmount(p) \/ UnstageDone(p)
  PROVE  MarkedStep(p)
  <1>t. MarksTypeOK
    BY DEF TypeInv, TypeOK
  <1> USE DEF StageOp, PublishOp, UnpublishOp, UnstageOp, StagingAt, UnPublishingAt, UnStagingAt
  <1>p. ASSUME NEW mark \in {"none", "unStaging", "error"}, MarkUnStaging(p, mark), diskOf(p) \in Disk,
               \/ diskStagingMap' = [diskStagingMap EXCEPT ![diskOf(p)] = "none"]
               \/ diskStagingMap' = diskStagingMap /\ pc[p] # "tDone",
               Moves(p), pc[p] \in UnstageOp, pc'[p] \in {"tUmount", "ret"},
               mark = "unStaging" => pc'[p] = "tUmount"
        PROVE  MarkedStep(p)
    <2>1. /\ MarksTypeOK'
          /\ \A d \in Disk \ {diskOf(p)} : diskStagingMap'[d] = diskStagingMap[d]
      BY <1>t, <1>p DEF MarksTypeOK, MarkUnStaging
    <2>2. Command(p) /\ Marks(p)
      BY <1>t, <1>p DEF Command, Marks, MarkUnStaging, MarksTypeOK
    <2>3. DiskStep(p)
      BY <1>t, <1>p DEF DiskStep, MarkUnStaging, host, MarksTypeOK
    <2> QED BY <1>p, <2>1, <2>2, <2>3 DEF MarkedStep, MarkUnStaging
  <1>2. CASE UnstageStore(p)
    <2>1. Moves(p) /\ pc'[p] = "tUmount" /\ pc[p] = "tStore" /\ diskOf(p) \in Disk
      BY <1>2, MarkedGoto DEF UnstageStore
    <2> QED BY <1>2, <1>p, <2>1 DEF UnstageStore
  <1>3. CASE pc[p] = "tUmount" /\ Return(p, "err") /\ MarkUnStaging(p, "error") /\ UNCHANGED diskStagingMap
    <2>1. Moves(p) /\ pc'[p] = "ret" /\ diskOf(p) \in Disk
      BY <1>3, MarkedReturn
    <2> QED BY <1>3, <1>p, <2>1
  <1>4. CASE pc[p] = "tUmount" /\ Goto(p, "tDone") /\ UnmountDevice(diskOf(p)) /\ UNCHANGED marks
    <2>1. Moves(p) /\ pc'[p] = "tDone" /\ diskOf(p) \in Disk
      BY <1>4, MarkedGoto
    <2>2. MarksTypeOK'
      BY <1>4, <1>t, <2>1 DEF MarksTypeOK, marks
    <2>4. Command(p) /\ Marks(p)
      BY <1>4, <2>1 DEF Command, Marks, marks
    <2>5. DiskStep(p)
      BY <1>4, <2>1 DEF DiskStep, marks, UnmountDevice
    <2> QED BY <1>4, <2>1, <2>2, <2>4, <2>5 DEF MarkedStep, marks
  <1>5. CASE UnstageDone(p)
    <2>1. Moves(p) /\ pc'[p] = "ret" /\ pc[p] = "tDone" /\ diskOf(p) \in Disk
      BY <1>5, MarkedReturn DEF UnstageDone
    <2> QED BY <1>5, <1>p, <2>1 DEF UnstageDone
  <1> QED BY <1>2, <1>3, <1>4, <1>5 DEF UnstageUmount

(* What each driver does its own way.                                      *)
LEMMA OwnSteps ==
  ASSUME TypeInv, Marked, NEW p \in Proc, driver' = driver, OwnStep(p)
  PROVE  MarkedStep(p)
  <1>t. MarksTypeOK
    BY DEF TypeInv, TypeOK
  <1> USE DEF StageOp, PublishOp, UnpublishOp, UnstageOp, StagingAt, UnPublishingAt, UnStagingAt
  <1>1. ASSUME UNCHANGED <<host, diskStagingMap, diskUnPublishingMap, diskUnStagingMap>>,
               diskFormattedMap' \in {diskFormattedMap, diskFormattedMap \union {diskOf(p)}},
               diskFormattedMap' \in SUBSET Disk, diskPublishedMap' \in SUBSET Target,
               diskPublishingMap' \in [Target -> {"none", "publishing", "error", "path"}],
               isFormat' \in [Proc -> BOOLEAN],
               \/ pc[p] \in {"sInfo", "pInfo", "pFormatted", "tMark"} /\ Return(p, "err")
               \/ pc[p] = "pPublished" /\ Return(p, "ok")
               \/ pc[p] = "sInfo" /\ Goto(p, "sStore")
               \/ pc[p] = "sFormatted" /\ Goto(p, "sMount")
               \/ pc[p] = "sFormatted" /\ Goto(p, "sProbe") /\ diskOf(p) \notin diskFormattedMap'
               \/ pc[p] = "sProbe" /\ Goto(p, "sSave")
               \/ pc[p] = "sProbe" /\ Goto(p, "sMkfs") /\ ~ HasFs(diskOf(p))
               \/ pc[p] = "sProbe" /\ Goto(p, "sUnread") /\ diskFormattedMap' = diskFormattedMap
               \/ pc[p] = "sSave" /\ Goto(p, "sMount")
               \/ pc[p] = "pInfo" /\ Goto(p, "pFormatted")
               \/ pc[p] = "pFormatted" /\ Goto(p, "pStaged")
               \/ pc[p] = "tMark" /\ Goto(p, "tStore")
        PROVE  MarkedStep(p)
    <2>1. MarksTypeOK'
      BY <1>1, <1>t DEF MarksTypeOK
    <2>2. /\ Moves(p) /\ pc[p] \notin UnPublishingAt \union UnStagingAt
          /\ pc[p] \in StagingAt => pc'[p] \in StagingAt
          /\ pc'[p] \notin {"sStaged", "pBind", "pBindStaged"}
          /\ pc'[p] = "sMkfs" => ~ HasFs(diskOf(p))
          /\ pc'[p] = "sProbe" => diskOf(p) \notin diskFormattedMap'
          /\ pc'[p] = "sUnread" => pc[p] = "sProbe" /\ diskFormattedMap' = diskFormattedMap
      BY <1>1, MarkedGoto, MarkedReturn
    <2>3. SeenOf(p) /\ pc'[p] \in {"sProbe", "sUnread"} => diskOf(p) \notin diskFormattedMap'
      BY <2>2 DEF SeenOf
    <2> QED BY <1>1, <2>1, <2>2, <2>3, QuietStep DEF HasFs
  <1>2. CASE pc[p] \in {"sProbe", "sSave"} /\ StageFails(p)
    <2>1. Moves(p) /\ pc'[p] = "ret" /\ diskOf(p) \in Disk
      BY <1>2, MarkedReturn DEF StageFails
    <2> QED BY <1>2, <2>1, StagingMarked DEF StageFails
  <1>3. CASE pc[p] = "tMark" /\ UnstagePathGone(p)
    <2>1. Moves(p) /\ pc'[p] = "ret" /\ diskOf(p) \in Disk
      BY <1>3, MarkedReturn DEF UnstagePathGone
    <2> QED BY <1>3, <2>1, StagingMarked DEF UnstagePathGone
  <1>4. CASE pc[p] = "sSave" /\ Goto(p, "sMount") /\ Record(diskOf(p)) /\ UNCHANGED marks
    <2>1. Moves(p) /\ pc'[p] = "sMount" /\ diskOf(p) \in Disk
      BY <1>4, MarkedGoto
    <2>2. MarksTypeOK'
      BY <1>4, <1>t, <2>1 DEF MarksTypeOK, marks
    <2>4. Command(p) /\ Marks(p)
      BY <1>4, <2>1 DEF Command, Marks, marks
    <2>5. DiskStep(p)
      BY <1>4, <2>1 DEF DiskStep, marks, Record
    <2> QED BY <1>4, <2>1, <2>2, <2>4, <2>5 DEF MarkedStep, marks
  <1> QED BY <1>1, <1>2, <1>3, <1>4 DEF OwnStep

(* So the handlers of these drivers keep what Handled says.                *)
LEMMA MarkedHandled ==
  ASSUME IInv, Marked, NEW p \in Proc, SharedStep(p) \/ OwnStep(p), UNCHANGED <<locks, oss, driver>>
  PROVE  Handled(p)
  <1>1. TypeInv /\ driver' = driver
    BY DEF IInv
  <1>2. MarkedStep(p)
    BY <1>1, StageSteps, PublishSteps, UnpublishSteps, UnstageSteps, OwnSteps DEF SharedStep
  <1>3. /\ driver \in {"ebs", "eks", "cds"} /\ pc[p] # "idle" /\ job' = job /\ overlapped' = overlapped
        /\ pc'[p] \in MarkedLocation
    BY <1>2 DEF MarkedStep, Moves, Marked, Location
  <1>4. Acts(p)
    BY <1>1, <1>2, <1>3 DEF MarkedStep, Acts, NoMarks, Marked, TypeInv, TypeOK, oss
  <1>5. Locks(p) /\ Elsewhere(p)
    BY <1>2, <1>3 DEF MarkedStep, Locks, Elsewhere, oss
  <1>6. Alone(p) <=> Kept(diskOf(p))
    BY <1>3 DEF Alone, Kept
  <1>7. Alone(p) => SeenOf(p)
    BY DEF IInv, DisksOK
  <1>8. Alone(p)' => Alone(p)
    BY <1>1, <1>3 DEF Alone, diskOf
  <1>9. ASSUME SeenOf(p)
        PROVE  SeenOf(p)'
    BY <1>1, <1>2, <1>3, <1>9 DEF SeenOf, MarkedStep, MarkedLocation, MountAt, HasFs, diskOf, targetOf
  <1> QED BY <1>2, <1>4, <1>5, <1>6, <1>7, <1>8, <1>9 DEF Handled, MarkedStep

----------------------------------------------------------------------------
(* The CCS driver.                                                         *)

(* How a goroutine moves, whatever the driver: on, or to its end.          *)
LEMMA GotoMoves ==
  ASSUME TypeInv, NEW p \in Proc, driver' = driver, NEW to, Goto(p, to),
         pc[p] \notin {"idle", "ret", "done"}, to \notin {"idle", "ret", "done"}, to \in Location,
         Leads(p, to)
  PROVE  Moves(p) /\ pc'[p] = to /\ res' = res /\ diskOf(p) \in Disk /\ JobOf(p)
  <1>1. pc \in [Proc -> Location] /\ res \in [Proc -> {"none", "ok", "err"}] /\ JobOf(p)
    BY DEF TypeInv, TypeOK, HostTypeOK, Location
  <1>2. pc'[p] = to /\ pc' = [pc EXCEPT ![p] = pc'[p]] /\ UNCHANGED <<job, res, overlapped>>
    BY <1>1 DEF Goto
  <1>3. res' = [res EXCEPT ![p] = res'[p]] /\ res'[p] \in {"none", "ok", "err"}
    BY <1>1, <1>2
  <1> QED BY <1>1, <1>2, <1>3 DEF Moves, JobOf

Ends(p, to, r) ==
    /\ pc' = [pc EXCEPT ![p] = to]
    /\ res' = [res EXCEPT ![p] = r]
    /\ UNCHANGED <<job, overlapped>>

(* ... which sets its answer.                                              *)
LEMMA EndMoves ==
  ASSUME TypeInv, NEW p \in Proc, driver' = driver, NEW to \in {"ret", "done"},
         NEW r \in {"none", "ok", "err"}, Ends(p, to, r), pc[p] # "idle", to \in Location
  PROVE  Moves(p) /\ pc'[p] = to /\ res'[p] = r /\ diskOf(p) \in Disk /\ JobOf(p)
  <1>1. pc \in [Proc -> Location] /\ res \in [Proc -> {"none", "ok", "err"}] /\ JobOf(p)
    BY DEF TypeInv, TypeOK, HostTypeOK, Location
  <1>2. /\ pc'[p] = to /\ pc' = [pc EXCEPT ![p] = pc'[p]] /\ UNCHANGED <<job, overlapped>>
        /\ res'[p] = r /\ res' = [res EXCEPT ![p] = res'[p]]
    BY <1>1 DEF Ends
  <1>3. Leads(p, to)
    BY DEF Leads, PublishAt, UnpublishAt, MountAt
  <1> QED BY <1>1, <1>2, <1>3 DEF Moves, JobOf

(* Its steps: those that only look, ...                                    *)
CcsLooks(p) ==
    /\ UNCHANGED <<host, locks>>
    /\ \/ /\ pc[p] \in {"ksLock", "kpMounted", "kpLock", "knLock", "ktLock"}
          /\ \E r \in {"ok", "err"} : Ends(p, "ret", r)
       \/ pc[p] \in CcsHeld \ {"done"} /\ \E r \in {"ok", "err"} : Ends(p, "done", r)
       \/ pc[p] = "kpMounted" /\ Goto(p, "kpLock")
       \/ pc[p] = "ksInfo" /\ Goto(p, "ksMount")
       \/ pc[p] = "ksInfo" /\ Goto(p, "ksProbe") /\ diskOf(p) \notin recorded
       \/ pc[p] = "ksProbe" /\ (Goto(p, "ksMount") \/ Goto(p, "ksUnread"))
       \/ pc[p] = "ksProbe" /\ Goto(p, "ksMkfs") /\ ~ HasFs(diskOf(p))
       \/ pc[p] = "kpInfo" /\ Goto(p, "kpStaged")
       \/ pc[p] = "kpStaged" /\ Goto(p, "kpBind") /\ diskOf(p) \in staged
       \/ pc[p] = "kpStaged" /\ Goto(p, "kpMount")

(* ... those of the lock, ...                                              *)
CcsLocks(p) ==
    /\ UNCHANGED host
    /\ \/ /\ diskOf(p) \notin locks /\ locks' = locks \union {diskOf(p)}
          /\ \/ pc[p] = "ksLock" /\ Goto(p, "ksInfo")
             \/ pc[p] = "kpLock" /\ Goto(p, "kpInfo")
             \/ pc[p] = "knLock" /\ Goto(p, "knUmount")
             \/ pc[p] = "ktLock" /\ Goto(p, "ktUmount")
       \/ /\ pc[p] = "done" /\ locks' = locks \ {diskOf(p)}
          /\ pc' = [pc EXCEPT ![p] = "ret"] /\ UNCHANGED <<job, res, overlapped>>

(* ... and those that run a command.                                       *)
CcsRuns(p) ==
    /\ UNCHANGED locks
    /\ \/ pc[p] \in {"ksMkfs", "ksUnread"} /\ Mkfs(diskOf(p)) /\ Goto(p, "ksSave")
       \/ pc[p] = "ksSave" /\ Record(diskOf(p)) /\ Goto(p, "ksMount")
       \/ pc[p] = "ksMount" /\ MountDevice(diskOf(p)) /\ Ends(p, "done", "ok")
       \/ pc[p] = "kpMount" /\ MountDevice(diskOf(p)) /\ Goto(p, "kpBind")
       \/ pc[p] = "kpBind" /\ BindMount(targetOf(p)) /\ Ends(p, "done", "ok")
       \/ pc[p] = "knUmount" /\ UnbindMount(targetOf(p)) /\ Ends(p, "done", "ok")
       \/ pc[p] = "ktUmount" /\ UnmountDevice(diskOf(p)) /\ Ends(p, "done", "ok")

(* It takes no others.                                                     *)
LEMMA CcsSteps ==
  ASSUME NEW p \in Proc, Ccs!Handle(p)
  PROVE  CcsLooks(p) \/ CcsLocks(p) \/ CcsRuns(p)
  <1> USE DEF Ccs!Goto, Ccs!Return, Ccs!Continue, Ccs!Refuse, Ccs!Succeed, Ccs!Leave, Ccs!host, Ccs!diskOf,
              Ccs!targetOf, Ccs!Try, Ccs!TryLast, Goto, Ends, host, diskOf, targetOf
  <1>1. ASSUME NEW at \in {"ksLock", "kpLock", "knLock", "ktLock"}, NEW to, Ccs!LockDisk(p, at, to),
               \/ at = "ksLock" /\ to = "ksInfo"
               \/ at = "kpLock" /\ to = "kpInfo"
               \/ at = "knLock" /\ to = "knUmount"
               \/ at = "ktLock" /\ to = "ktUmount"
        PROVE  CcsLooks(p) \/ CcsLocks(p)
    BY <1>1 DEF Ccs!LockDisk, Ccs!TryAcquire, CcsLooks, CcsLocks
  <1>2. ASSUME Ccs!NodeStageVolume(p)
        PROVE  CcsLooks(p) \/ CcsLocks(p) \/ CcsRuns(p)
    <2>1. CASE Ccs!LockDisk(p, "ksLock", "ksInfo")
      BY <1>1, <2>1
    <2>2. CASE Ccs!StageInfo(p)
      BY <2>2 DEF Ccs!StageInfo, CcsLooks, CcsHeld
    <2>3. CASE Ccs!Probe(p)
      BY <2>3 DEF Ccs!Probe, CcsLooks, CcsHeld, HasFs
    <2>4. CASE \E at \in {"ksMkfs", "ksUnread"} : Ccs!Try(p, at, Ccs!Mkfs(Ccs!diskOf(p)), "ksSave")
      BY <2>4 DEF Ccs!Mkfs, Mkfs, Ccs!InUse, InUse, Ccs!UsesDevice, UsesDevice, CcsLooks, CcsRuns, CcsHeld
    <2>5. CASE Ccs!saveVolumeInfo(p)
      BY <2>5 DEF Ccs!saveVolumeInfo, Ccs!Record, Record, CcsLooks, CcsRuns, CcsHeld
    <2>6. CASE Ccs!TryLast(p, "ksMount", Ccs!MountDevice(Ccs!diskOf(p)))
      BY <2>6 DEF Ccs!MountDevice, MountDevice, CcsLooks, CcsRuns, CcsHeld
    <2> QED BY <1>2, <2>1, <2>2, <2>3, <2>4, <2>5, <2>6 DEF Ccs!NodeStageVolume, Ccs!formatDiskDevice
  <1>3. ASSUME Ccs!NodePublishVolume(p)
        PROVE  CcsLooks(p) \/ CcsLocks(p) \/ CcsRuns(p)
    <2>1. CASE Ccs!LockDisk(p, "kpLock", "kpInfo")
      BY <1>1, <2>1
    <2>2. CASE Ccs!PublishMounted(p)
      BY <2>2 DEF Ccs!PublishMounted, CcsLooks
    <2>3. CASE Ccs!PublishInfo(p) \/ Ccs!PublishStaged(p)
      BY <2>3 DEF Ccs!PublishInfo, Ccs!PublishStaged, Ccs!Mounted, CcsLooks, CcsHeld
    <2>4. CASE Ccs!Try(p, "kpMount", Ccs!MountDevice(Ccs!diskOf(p)), "kpBind")
      BY <2>4 DEF Ccs!MountDevice, MountDevice, CcsLooks, CcsRuns, CcsHeld
    <2>5. CASE Ccs!TryLast(p, "kpBind", Ccs!BindMount(Ccs!targetOf(p)))
      BY <2>5 DEF Ccs!BindMount, BindMount, CcsLooks, CcsRuns, CcsHeld
    <2> QED BY <1>3, <2>1, <2>2, <2>3, <2>4, <2>5 DEF Ccs!NodePublishVolume
  <1>4. ASSUME Ccs!NodeUnpublishVolume(p)
        PROVE  CcsLooks(p) \/ CcsLocks(p) \/ CcsRuns(p)
    <2>1. CASE Ccs!UnpublishLock(p)
      BY <1>1, <2>1 DEF Ccs!UnpublishLock, CcsLooks
    <2>2. CASE Ccs!TryLast(p, "knUmount", Ccs!UnbindMount(Ccs!targetOf(p)))
      BY <2>2 DEF Ccs!UnbindMount, UnbindMount, Ccs!Bound, Bound, CcsLooks, CcsRuns, CcsHeld
    <2> QED BY <1>4, <2>1, <2>2 DEF Ccs!NodeUnpublishVolume
  <1>5. ASSUME Ccs!NodeUnstageVolume(p)
        PROVE  CcsLooks(p) \/ CcsLocks(p) \/ CcsRuns(p)
    <2>1. CASE Ccs!LockDisk(p, "ktLock", "ktUmount")
      BY <1>1, <2>1
    <2>2. CASE Ccs!UnstageUmount(p)
      BY <2>2 DEF Ccs!UnstageUmount, Ccs!UnmountDevice, UnmountDevice, CcsLooks, CcsRuns, CcsHeld
    <2> QED BY <1>5, <2>1, <2>2 DEF Ccs!NodeUnstageVolume
  <1>6. CASE Ccs!Unlock(p)
    BY <1>6 DEF Ccs!Unlock, Ccs!Release, CcsLocks
  <1> QED BY <1>2, <1>3, <1>4, <1>5, <1>6 DEF Ccs!Handle

(* Of the drivers that keep no marks: what Handled asks of the rest.       *)
LEMMA UnmarkedActs ==
  ASSUME TypeInv, ~ Marked, NEW p \in Proc, Moves(p), Command(p), UNCHANGED marks,
         locks' \in SUBSET Disk, mountMu' \in Proc \union {NoProc}, credentials' \in SUBSET Disk
  PROVE  Acts(p) /\ UNCHANGED <<diskStagingMap, diskFormattedMap>>
  <1>1. Marks(p)
    BY DEF Moves, Marks, marks, Marked, TypeInv, NoMarks
  <1>2. MarksTypeOK'
    BY DEF TypeInv, TypeOK, MarksTypeOK, marks
  <1>3. NoMarks'
    BY DEF TypeInv, NoMarks, marks, Moves, Marked
  <1> QED BY <1>1, <1>2, <1>3 DEF Acts, marks

(* What Handled asks of the CCS driver.                                    *)
LEMMA CcsKeeps ==
  ASSUME TypeInv, driver = "ccs", NEW p \in Proc, UNCHANGED <<marks, oss, driver>>,
         Moves(p), Command(p), Locks(p), locks' \in SUBSET Disk,
         UNCHANGED host \/ pc[p] \in CcsHeld,
         DiskStep(p),
         pc'[p] = "kpBind" => diskOf(p) \in staged',
         pc'[p] = "ksMkfs" => fs'[diskOf(p)] = "none",
         pc'[p] \in {"ksProbe", "ksUnread"} => diskOf(p) \notin recorded'
  PROVE  Handled(p)
  <1>1. Acts(p) /\ UNCHANGED <<diskStagingMap, diskFormattedMap>>
    BY UnmarkedActs DEF Marked, oss, TypeInv, TypeOK
  <1>2. Elsewhere(p)
    BY <1>1 DEF Elsewhere, oss
  <1>3. Quiet \/ Alone(p)
    BY <1>1 DEF Quiet, Alone, oss
  <1>4. pc'[p] \in Ccs!CcsLocation /\ job' = job
    BY DEF Moves, Location
  <1>5. SeenOf(p)'
    BY <1>4 DEF SeenOf, Ccs!CcsLocation, MountAt, HasFs, diskOf, targetOf
  <1> QED BY <1>1, <1>2, <1>3, <1>5 DEF Handled

(* What a request sees of its disk is so while it holds the lock.          *)
LEMMA CcsHandled ==
  ASSUME IInv, driver = "ccs", NEW p \in Proc, UNCHANGED <<marks, oss, driver>>,
         CcsLooks(p) \/ CcsLocks(p) \/ CcsRuns(p)
  PROVE  Handled(p)
  <1>0. /\ TypeInv /\ locks \in SUBSET Disk /\ driver' = driver
        /\ Location = Ccs!CcsLocation
    BY DEF IInv, TypeInv, TypeOK, Location
  <1>1. CASE CcsLooks(p)
    <2>1. /\ Moves(p) /\ pc[p] # "idle"
          /\ pc'[p] \in CcsHeld => pc[p] \in CcsHeld
          /\ pc'[p] = "kpBind" => diskOf(p) \in staged
          /\ pc'[p] = "ksMkfs" => ~ HasFs(diskOf(p))
          /\ pc'[p] = "ksProbe" => diskOf(p) \notin recorded
          /\ pc'[p] = "ksUnread" => pc[p] = "ksProbe"
      <3>1. ASSUME NEW to \in {"ret", "done"}, NEW r \in {"ok", "err"}, Ends(p, to, r), pc[p] # "idle"
            PROVE  Moves(p) /\ pc'[p] = to
        BY <1>0, <3>1, EndMoves DEF Ccs!CcsLocation
      <3>2. ASSUME NEW to \in {"kpLock", "ksMount", "ksProbe", "ksMkfs", "ksUnread", "kpStaged", "kpBind",
                               "kpMount"},
                   Goto(p, to), pc[p] \in {"kpMounted", "ksInfo", "ksProbe", "kpInfo", "kpStaged"},
                   to \in PublishAt => pc[p] \in PublishAt
            PROVE  Moves(p) /\ pc'[p] = to
        <4>1. Leads(p, to)
          BY <3>2 DEF Leads, PublishAt, UnpublishAt, MountAt
        <4> QED BY <1>0, <3>2, <4>1, GotoMoves DEF Ccs!CcsLocation
      <3>3. CASE \/ /\ pc[p] \in {"ksLock", "kpMounted", "kpLock", "knLock", "ktLock"}
                    /\ \E r \in {"ok", "err"} : Ends(p, "ret", r)
                 \/ pc[p] \in CcsHeld \ {"done"} /\ \E r \in {"ok", "err"} : Ends(p, "done", r)
        BY <3>1, <3>3 DEF CcsHeld
      <3> QED BY <1>1, <3>2, <3>3 DEF CcsLooks, CcsHeld, PublishAt
    <2>2. Locks(p) /\ Command(p) /\ DiskStep(p)
      BY <1>0, <1>1, <2>1 DEF CcsLooks, Locks, Command, DiskStep, host, Marked
    <2>3. pc'[p] = "ksUnread" => diskOf(p) \notin recorded
      BY <1>0, <2>1 DEF Alone, CcsHeld, IInv, DisksOK, SeenOf
    <2> QED BY <1>0, <1>1, <2>1, <2>2, <2>3, CcsKeeps DEF CcsLooks, host, HasFs
  <1>2. CASE CcsLocks(p)
    <2>1. CASE pc[p] = "done"
      <3>1. res' = [res EXCEPT ![p] = res[p]] /\ res[p] \in {"none", "ok", "err"}
        BY <1>0, <1>2, <2>1 DEF CcsLocks, TypeInv, TypeOK, HostTypeOK
      <3>2. Moves(p) /\ pc'[p] = "ret"
        BY <1>0, <1>2, <2>1, <3>1, EndMoves DEF CcsLocks, Ends, Ccs!CcsLocation
      <3>3. Locks(p) /\ Command(p) /\ DiskStep(p)
        BY <1>0, <1>2, <2>1, <3>2 DEF CcsLocks, Locks, Command, DiskStep, host, Marked, CcsHeld
      <3> QED BY <1>0, <1>2, <2>1, <3>2, <3>3, CcsKeeps DEF CcsLocks
    <2>2. CASE pc[p] # "done"
      <3>1. ASSUME NEW at \in {"ksLock", "kpLock", "knLock", "ktLock"},
                   NEW to \in {"ksInfo", "kpInfo", "knUmount", "ktUmount"}, pc[p] = at, Goto(p, to),
                   to = "kpInfo" => at = "kpLock", to = "knUmount" => at = "knLock"
            PROVE  Moves(p) /\ pc'[p] = to /\ diskOf(p) \in Disk
        <4>1. Leads(p, to)
          BY <3>1 DEF Leads, PublishAt, UnpublishAt, MountAt
        <4> QED BY <1>0, <3>1, <4>1, GotoMoves DEF Ccs!CcsLocation
      <3>2. /\ Moves(p) /\ pc'[p] \in {"ksInfo", "kpInfo", "knUmount", "ktUmount"} /\ diskOf(p) \in Disk
            /\ UNCHANGED host /\ diskOf(p) \notin locks /\ locks' = locks \union {diskOf(p)}
        BY <1>2, <2>2, <3>1 DEF CcsLocks
      <3>3. Locks(p) /\ Command(p) /\ DiskStep(p)
        BY <1>0, <3>2 DEF Locks, Command, DiskStep, host, Marked
      <3> QED BY <1>0, <3>2, <3>3, CcsKeeps
    <2> QED BY <2>1, <2>2
  <1>3. CASE CcsRuns(p)
    <2>1. /\ Moves(p) /\ JobOf(p)
          /\ pc[p] \in {"ksMkfs", "ksUnread", "ksSave", "ksMount", "kpMount", "kpBind", "knUmount",
                        "ktUmount"}
          /\ pc'[p] = "kpBind" => pc[p] = "kpMount"
          /\ pc'[p] \in {"ksSave", "ksMount", "done", "kpBind"}
      <3>1. ASSUME Ends(p, "done", "ok"), pc[p] # "idle"
            PROVE  Moves(p) /\ pc'[p] = "done" /\ JobOf(p)
        BY <1>0, <3>1, EndMoves DEF Ccs!CcsLocation
      <3>2. ASSUME NEW to \in {"ksSave", "ksMount", "kpBind"}, Goto(p, to),
                   pc[p] \in {"ksMkfs", "ksUnread", "ksSave", "kpMount"},
                   to = "kpBind" => pc[p] = "kpMount"
            PROVE  Moves(p) /\ pc'[p] = to /\ JobOf(p)
        <4>1. Leads(p, to)
          BY <3>2 DEF Leads, PublishAt, UnpublishAt, MountAt
        <4> QED BY <1>0, <3>2, <4>1, GotoMoves DEF Ccs!CcsLocation
      <3> QED BY <1>3, <3>1, <3>2 DEF CcsRuns
    <2>2. Alone(p) /\ SeenOf(p)
      BY <1>0, <2>1 DEF Alone, CcsHeld, IInv, DisksOK
    <2>3. Command(p)
      BY <1>0, <1>3, <2>1 DEF CcsRuns, Command, JobOf, PublishAt, UnpublishAt
    <2>4. Locks(p)
      BY <1>0, <1>3, <2>1 DEF CcsRuns, Locks, CcsHeld
    <2>5. DiskStep(p)
      BY <1>0, <1>3, <2>1, <2>2
      DEF CcsRuns, DiskStep, SeenOf, Marked, Mkfs, Record, MountDevice, UnmountDevice, BindMount, UnbindMount,
          Pops, Bound
    <2>6. pc'[p] = "kpBind" => diskOf(p) \in staged'
      BY <1>3, <2>1 DEF CcsRuns, MountDevice
    <2> QED BY <1>0, <1>3, <2>1, <2>3, <2>4, <2>5, <2>6, CcsKeeps DEF CcsRuns, CcsHeld
  <1> QED BY <1>1, <1>2, <1>3

----------------------------------------------------------------------------
(* The OSS driver.                                                         *)

(* Its steps: those that only look, ...                                    *)
OssLooks(p) ==
    /\ UNCHANGED <<host, credentials, mountMu>>
    /\ \/ pc[p] \in OssHeld \ {"done"} /\ Ends(p, "done", "err")
       \/ pc[p] \in {"vCheck", "vVerify", "vReady"} /\ job[p].op = "stage" /\ Ends(p, "done", "ok")
       \/ pc[p] = "opTarget" /\ Ends(p, "done", "ok")
       \/ pc[p] = "onUmount" /\ ~ Bound(targetOf(p)) /\ Ends(p, "done", "ok")
       \/ pc[p] = "vCheck" /\ Goto(p, "vVerify") /\ diskOf(p) \in staged
       \/ pc[p] = "vCheck" /\ Goto(p, "vWrite")
       \/ pc[p] = "vMounted" /\ Goto(p, "vReady") /\ diskOf(p) \in staged
       \/ pc[p] \in {"vVerify", "vReady"} /\ job[p].op # "stage" /\ Goto(p, "opBind")
       \/ pc[p] = "opTarget" /\ ~ Bound(targetOf(p)) /\ diskOf(p) \in staged /\ Goto(p, "opBind")
       \/ pc[p] = "opTarget" /\ ~ Bound(targetOf(p)) /\ Goto(p, "vCheck")
       \/ pc[p] = "otUmount" /\ Goto(p, "otCredential") /\ diskOf(p) \notin staged

(* ... those of the mutex, ...                                             *)
OssLocks(p) ==
    /\ UNCHANGED <<host, credentials>>
    /\ \/ /\ mountMu = NoProc /\ mountMu' = p
          /\ \/ pc[p] = "osLock" /\ Goto(p, "vCheck")
             \/ pc[p] = "opLock" /\ Goto(p, "opTarget")
             \/ pc[p] = "onLock" /\ Goto(p, "onUmount")
             \/ pc[p] = "otLock" /\ Goto(p, "otUmount")
       \/ /\ pc[p] = "done" /\ mountMu' = NoProc
          /\ pc' = [pc EXCEPT ![p] = "ret"] /\ UNCHANGED <<job, res, overlapped>>

(* ... those of the staging path and its credentials, ...                  *)
OssStages(p) ==
    /\ UNCHANGED mountMu
    /\ \/ /\ pc[p] \in {"vVerify", "vReady"} /\ Ends(p, "done", "err")
          /\ credentials' \in {credentials, credentials \ {diskOf(p)}}
          /\ UnmountDevice(diskOf(p)) \/ UNCHANGED host
       \/ /\ pc[p] = "vWrite" /\ UNCHANGED host /\ credentials' = credentials \union {diskOf(p)}
          /\ Ends(p, "done", "err") \/ Goto(p, "vMount")
       \/ /\ pc[p] = "vMount"
          /\ \/ Ends(p, "done", "err") /\ credentials' \in {credentials, credentials \ {diskOf(p)}}
             \/ Goto(p, "vMounted") /\ UNCHANGED credentials
          /\ Oss!MountS3fs(diskOf(p)) \/ UNCHANGED host
       \/ /\ pc[p] = "vMounted" /\ UNCHANGED host /\ Ends(p, "done", "err")
          /\ credentials' \in {credentials, credentials \ {diskOf(p)}}
       \/ /\ pc[p] = "otUmount" /\ UnmountDevice(diskOf(p)) /\ UNCHANGED credentials
          /\ Goto(p, "otCredential")
       \/ /\ pc[p] = "otCredential" /\ UNCHANGED host /\ credentials' = credentials \ {diskOf(p)}
          /\ Ends(p, "done", "ok")

(* ... and those of the target path.                                       *)
OssBinds(p) ==
    /\ UNCHANGED <<mountMu, credentials>>
    /\ \/ pc[p] = "opBind" /\ BindMount(targetOf(p)) /\ \E r \in {"ok", "err"} : Ends(p, "done", r)
       \/ pc[p] = "onUmount" /\ UnbindMount(targetOf(p)) /\ Ends(p, "done", "ok")

OssStep(p) == OssLooks(p) \/ OssLocks(p) \/ OssStages(p) \/ OssBinds(p)

(* It takes no others.                                                     *)
LEMMA OssSteps ==
  ASSUME NEW p \in Proc, Oss!Handle(p)
  PROVE  OssStep(p)
  <1> USE DEF Oss!Goto, Oss!Continue, Oss!End, Oss!Fail, Oss!Succeed, Oss!host, Oss!diskOf, Oss!targetOf,
              Oss!NoCredential, Oss!ForgetCredential, Oss!MountS3fs, Oss!UnmountDevice, Oss!Bound,
              Goto, Ends, host, diskOf, targetOf, UnmountDevice, Bound, OssHeld, OssStep
  <1>1. CASE Oss!CheckStaged(p)
    BY <1>1 DEF Oss!CheckStaged, OssLooks
  <1>2. CASE Oss!VerifyStaged(p) \/ Oss!CheckReady(p)
    BY <1>2 DEF Oss!VerifyStaged, Oss!CheckReady, Oss!VerifyStagingMount, Oss!Staged, OssLooks, OssStages
  <1>3. CASE Oss!WriteOssCredential(p)
    BY <1>3 DEF Oss!WriteOssCredential, OssLooks, OssStages
  <1>4. CASE Oss!Mount(p) \/ Oss!IsMounted(p)
    BY <1>4 DEF Oss!Mount, Oss!IsMounted, OssLooks, OssStages
  <1>5. CASE Oss!PublishTarget(p)
    BY <1>5 DEF Oss!PublishTarget, OssLooks
  <1>6. CASE Oss!PublishBind(p)
    BY <1>6 DEF Oss!PublishBind, OssLooks, OssBinds, Oss!BindMount, BindMount
  <1>7. CASE Oss!UnpublishUmount(p)
    BY <1>7 DEF Oss!UnpublishUmount, OssLooks, OssBinds, Oss!UnbindMount, UnbindMount
  <1>8. CASE Oss!UnstageUmount(p) \/ Oss!UnstageCredential(p)
    BY <1>8 DEF Oss!UnstageUmount, Oss!UnstageCredential, OssLooks, OssStages
  <1>9. CASE \/ Oss!Lock(p, "osLock", "vCheck") \/ Oss!Lock(p, "opLock", "opTarget")
             \/ Oss!Lock(p, "onLock", "onUmount") \/ Oss!Lock(p, "otLock", "otUmount") \/ Oss!Unlock(p)
    BY <1>9 DEF Oss!Lock, Oss!Unlock, OssLocks
  <1> QED BY <1>1, <1>2, <1>3, <1>4, <1>5, <1>6, <1>7, <1>8, <1>9
          DEF Oss!Handle, Oss!NodeStageVolume, Oss!stageVolume, Oss!NodePublishVolume, Oss!NodeUnpublishVolume,
              Oss!NodeUnstageVolume

(* Where they lead.                                                        *)
LEMMA OssMoves ==
  ASSUME TypeInv, driver = "oss", driver' = driver, NEW p \in Proc, OssStep(p)
  PROVE  /\ Moves(p) /\ JobOf(p) /\ pc[p] # "idle" /\ pc'[p] \in Oss!OssLocation
         /\ pc'[p] \notin {"ret", "done"} => res'[p] = "none"
  <1>0. Location = Oss!OssLocation
    BY DEF Location
  <1>1. ASSUME NEW r \in {"ok", "err"}, Ends(p, "done", r), pc[p] # "idle"
        PROVE  Moves(p)
    BY <1>0, <1>1, EndMoves DEF Oss!OssLocation
  <1>2. ASSUME pc[p] = "done", pc' = [pc EXCEPT ![p] = "ret"], UNCHANGED <<job, res, overlapped>>
        PROVE  Moves(p)
    <2>1. res' = [res EXCEPT ![p] = res[p]] /\ res[p] \in {"none", "ok", "err"}
      BY <1>2 DEF TypeInv, TypeOK, HostTypeOK
    <2> QED BY <1>0, <1>2, <2>1, EndMoves DEF Ends, Oss!OssLocation
  <1> DEFINE Enters(to) == Goto(p, to) /\ pc[p] \notin {"idle", "ret", "done"} /\ Leads(p, to)
  <1>3. ASSUME NEW to \in {"vCheck", "vVerify", "vWrite", "vMount", "vMounted", "vReady", "opTarget", "opBind",
                           "onUmount", "otUmount", "otCredential"},
               Enters(to)
        PROVE  Moves(p)
    BY <1>0, <1>3, GotoMoves DEF Oss!OssLocation
  <1>4. JobOf(p)
    BY DEF TypeInv
  <1> SUFFICES Moves(p)
    BY <1>0, <1>4 DEF Moves, JobOf
  <1>5. CASE OssLooks(p)
    <2>1. CASE pc[p] # "idle" /\ (Ends(p, "done", "ok") \/ Ends(p, "done", "err"))
      BY <1>1, <2>1
    <2>2. CASE ~ (pc[p] # "idle" /\ (Ends(p, "done", "ok") \/ Ends(p, "done", "err")))
      <3>1. \/ Enters("vVerify") \/ Enters("vWrite") \/ Enters("vReady") \/ Enters("opBind")
            \/ Enters("vCheck") \/ Enters("otCredential")
        BY <1>4, <1>5, <2>2 DEF OssLooks, OssHeld, Leads, JobOf, PublishAt, UnpublishAt, MountAt
      <3> HIDE DEF Enters
      <3> QED BY <1>3, <3>1
    <2> QED BY <2>1, <2>2
  <1>6. CASE OssLocks(p)
    <2>1. CASE pc[p] = "done"
      BY <1>2, <1>6, <2>1 DEF OssLocks
    <2>2. CASE pc[p] # "done"
      <3>1. Enters("vCheck") \/ Enters("opTarget") \/ Enters("onUmount") \/ Enters("otUmount")
        BY <1>6, <2>2 DEF OssLocks, Leads, PublishAt, UnpublishAt, MountAt
      <3> HIDE DEF Enters
      <3> QED BY <1>3, <3>1
    <2> QED BY <2>1, <2>2
  <1>7. CASE OssStages(p)
    <2>1. \/ pc[p] # "idle" /\ (Ends(p, "done", "ok") \/ Ends(p, "done", "err"))
          \/ Enters("vMount") \/ Enters("vMounted") \/ Enters("otCredential")
      BY <1>7 DEF OssStages, Leads, PublishAt, UnpublishAt, MountAt
    <2> HIDE DEF Enters
    <2> QED BY <1>1, <1>3, <2>1
  <1>8. CASE OssBinds(p)
    BY <1>1, <1>8 DEF OssBinds
  <1> QED BY <1>5, <1>6, <1>7, <1>8 DEF OssStep

(* What a request sees of the mounts is so while it holds the mutex.       *)
LEMMA OssHandled ==
  ASSUME IInv, driver = "oss", NEW p \in Proc, UNCHANGED <<marks, locks, driver>>, OssStep(p)
  PROVE  Handled(p)
  <1> DEFINE d == diskOf(p)
             t == targetOf(p)
  <1>0. /\ TypeInv /\ JobOf(p) /\ driver' = driver /\ Moves(p) /\ job' = job
        /\ pc[p] # "idle" /\ pc'[p] \in Oss!OssLocation /\ (pc'[p] \notin {"ret", "done"} => res'[p] = "none")
        /\ locks \in SUBSET Disk /\ credentials \in SUBSET Disk /\ mountMu \in Proc \union {NoProc}
    BY OssMoves DEF IInv, TypeInv, TypeOK, Moves
  <1>d. d \in Disk /\ DiskOf(d) /\ (pc[p] \in OssHeld => SeenOf(p))
    BY <1>0 DEF JobOf, IInv, DisksOK, Kept, Alone
  <1>p. pc \in [Proc -> Oss!OssLocation] /\ res \in [Proc -> {"none", "ok", "err"}]
    BY <1>0 DEF TypeInv, TypeOK, HostTypeOK
  <1>g. ASSUME NEW to, Goto(p, to)
        PROVE  pc'[p] = to /\ res' = res
    BY <1>p, <1>g DEF Goto
  <1>e. ASSUME NEW to, NEW r, Ends(p, to, r)
        PROVE  pc'[p] = to /\ res'[p] = r
    BY <1>p, <1>e DEF Ends
  <1>1. Command(p)
    <2>1. CASE OssLooks(p) \/ OssLocks(p)
      BY <2>1 DEF OssLooks, OssLocks, Command
    <2>2. CASE OssStages(p)
      BY <2>2 DEF OssStages, Command, host
    <2>3. CASE OssBinds(p)
      BY <1>0, <2>3 DEF OssBinds, Command, JobOf, PublishAt, UnpublishAt
    <2> QED BY <2>1, <2>2, <2>3 DEF OssStep
  <1>2. Locks(p) /\ mountMu' \in Proc \union {NoProc}
    <2>1. CASE OssLocks(p)
      <3>1. CASE pc[p] = "done"
        BY <1>0, <1>p, <2>1, <3>1 DEF OssLocks, Locks, OssHeld
      <3>2. CASE pc[p] # "done"
        BY <1>0, <2>1, <3>2 DEF OssLocks, Locks
      <3> QED BY <3>1, <3>2
    <2>2. CASE OssLooks(p) \/ OssStages(p) \/ OssBinds(p)
      <3>1. mountMu' = mountMu /\ pc[p] \in OssHeld
        BY <2>2 DEF OssLooks, OssStages, OssBinds, OssHeld
      <3> QED BY <1>0, <3>1 DEF Locks
    <2> QED BY <2>1, <2>2 DEF OssStep
  <1>3. /\ credentials' \in SUBSET Disk
        /\ \A e \in Disk \ {d} : e \in credentials' <=> e \in credentials
        /\ UNCHANGED <<host, credentials>> \/ pc[p] \in OssHeld
    BY <1>0, <1>d DEF OssStep, OssLooks, OssLocks, OssStages, OssBinds, OssHeld
  <1>4. Acts(p) /\ UNCHANGED <<diskStagingMap, diskFormattedMap>>
    BY <1>0, <1>1, <1>2, <1>3, UnmarkedActs DEF Marked
  <1>5. Elsewhere(p) /\ (Quiet \/ Alone(p))
    BY <1>0, <1>3, <1>4 DEF Elsewhere, Quiet, Alone
  <1>6. DiskStep(p)
    <2>1. CASE binds' = binds
      BY <1>0, <2>1 DEF DiskStep, Marked
    <2>2. CASE OssBinds(p)
      BY <1>0, <1>d, <2>2 DEF OssBinds, DiskStep, Marked, SeenOf, OssHeld, BindMount, UnbindMount, Pops, Bound
    <2> QED BY <2>1, <2>2 DEF OssStep, OssLooks, OssLocks, OssStages, host, UnmountDevice, Oss!MountS3fs
  <1>7. ASSUME pc'[p] \in OssHeld
        PROVE  SeenOf(p)'
    <2>1. pc'[p] \in {"vVerify", "vReady", "opBind"} => d \in staged'
      <3>1. CASE OssLooks(p)
        BY <1>0, <1>d, <1>g, <1>e, <1>7, <3>1 DEF OssLooks, SeenOf, OssHeld, host
      <3>2. CASE OssLocks(p)
        BY <1>0, <1>d, <1>g, <1>e, <1>7, <1>p, <3>2 DEF OssLocks, SeenOf, OssHeld, host
      <3>3. CASE OssStages(p)
        BY <1>0, <1>d, <1>g, <1>e, <1>7, <3>3 DEF OssStages, SeenOf, OssHeld, host
      <3>4. CASE OssBinds(p)
        BY <1>0, <1>d, <1>g, <1>e, <1>7, <3>4 DEF OssBinds, SeenOf, OssHeld, host
      <3> QED BY <3>1, <3>2, <3>3, <3>4 DEF OssStep
    <2>2. pc'[p] = "otCredential" => d \notin staged'
      <3>1. CASE OssLooks(p)
        BY <1>0, <1>d, <1>g, <1>e, <1>7, <3>1 DEF OssLooks, SeenOf, OssHeld, host, UnmountDevice
      <3>2. CASE OssLocks(p)
        BY <1>0, <1>d, <1>g, <1>e, <1>7, <1>p, <3>2 DEF OssLocks, SeenOf, OssHeld, host, UnmountDevice
      <3>3. CASE OssStages(p)
        BY <1>0, <1>d, <1>g, <1>e, <1>7, <3>3 DEF OssStages, SeenOf, OssHeld, host, UnmountDevice
      <3>4. CASE OssBinds(p)
        BY <1>0, <1>d, <1>g, <1>e, <1>7, <3>4 DEF OssBinds, SeenOf, OssHeld, host, UnmountDevice
      <3> QED BY <3>1, <3>2, <3>3, <3>4 DEF OssStep
    <2>3. pc'[p] = "done" /\ res'[p] = "ok" /\ job[p].op = "unstage" => d \notin staged' \union credentials'
      <3>1. CASE OssLooks(p)
        BY <1>0, <1>d, <1>g, <1>e, <1>7, <3>1
        DEF OssLooks, SeenOf, OssHeld, host, JobOf, PublishAt, UnpublishAt
      <3>2. CASE OssLocks(p)
        BY <1>0, <1>d, <1>g, <1>e, <1>7, <1>p, <3>2
        DEF OssLocks, SeenOf, OssHeld, host, JobOf, PublishAt, UnpublishAt
      <3>3. CASE OssStages(p)
        BY <1>0, <1>d, <1>g, <1>e, <1>7, <3>3
        DEF OssStages, SeenOf, OssHeld, host, JobOf, PublishAt, UnpublishAt
      <3>4. CASE OssBinds(p)
        BY <1>0, <1>d, <1>g, <1>e, <1>7, <3>4
        DEF OssBinds, SeenOf, OssHeld, host, JobOf, PublishAt, UnpublishAt
      <3> QED BY <3>1, <3>2, <3>3, <3>4 DEF OssStep
    <2>4. pc'[p] = "opBind" \/ (pc'[p] \in MountAt /\ job[p].op = "publish") => binds'[t] = <<>>
      <3>1. CASE OssLooks(p)
        BY <1>0, <1>d, <1>g, <1>e, <1>7, <3>1
        DEF OssLooks, SeenOf, OssHeld, host, JobOf, MountAt, Bound, UnmountDevice, Oss!MountS3fs
      <3>2. CASE OssLocks(p)
        BY <1>0, <1>d, <1>g, <1>e, <1>7, <1>p, <3>2
        DEF OssLocks, SeenOf, OssHeld, host, JobOf, MountAt, Bound, UnmountDevice, Oss!MountS3fs
      <3>3. CASE OssStages(p)
        BY <1>0, <1>d, <1>g, <1>e, <1>7, <3>3
        DEF OssStages, SeenOf, OssHeld, host, JobOf, MountAt, Bound, UnmountDevice, Oss!MountS3fs
      <3>4. CASE OssBinds(p)
        BY <1>0, <1>d, <1>g, <1>e, <1>7, <3>4
        DEF OssBinds, SeenOf, OssHeld, host, JobOf, MountAt, Bound, UnmountDevice, Oss!MountS3fs
      <3> QED BY <3>1, <3>2, <3>3, <3>4 DEF OssStep
    <2>5. res'[p] = "ok" /\ job[p].op = "unpublish" => binds'[t] = <<>>
      <3>1. ASSUME res'[p] = "ok", job[p].op = "unpublish"
            PROVE  binds'[t] = <<>>
        <4>1. /\ pc[p] = "onUmount"
              /\ \/ UNCHANGED host /\ ~ Bound(t)
                 \/ UnbindMount(t)
          <5>1. CASE OssLooks(p)
            <6>1. Ends(p, "done", "ok")
              BY <1>0, <1>g, <1>e, <1>7, <3>1, <5>1 DEF OssLooks, OssHeld
            <6>2. pc'[p] = "done" /\ job[p].op # "publish" /\ pc[p] # "opTarget"
              BY <1>0, <1>e, <3>1, <6>1 DEF JobOf, PublishAt
            <6> QED BY <1>e, <1>g, <3>1, <5>1, <6>1, <6>2 DEF OssLooks
          <5>2. CASE OssLocks(p)
            BY <1>0, <1>g, <1>7, <1>p, <3>1, <5>2 DEF OssLocks, OssHeld
          <5>3. CASE OssStages(p)
            BY <1>0, <1>g, <1>e, <1>7, <3>1, <5>3 DEF OssStages, OssHeld, JobOf
          <5>4. CASE OssBinds(p)
            BY <1>0, <1>e, <3>1, <5>4 DEF OssBinds, JobOf, PublishAt
          <5> QED BY <5>1, <5>2, <5>3, <5>4 DEF OssStep
        <4>2. CASE UNCHANGED host /\ ~ Bound(t)
          BY <4>2 DEF Bound, host
        <4>3. CASE UnbindMount(t)
          <5>1. t \in Target /\ volumeOf[t] = d /\ Len(binds[t]) <= 1 /\ binds \in [Target -> Seq({"disk", "dir"})]
            BY <1>0, <1>d, <3>1 DEF JobOf, DiskOf, TypeInv
          <5>2. binds'[t] = SubSeq(binds[t], 1, Len(binds[t]) - 1) /\ binds[t] # <<>>
            BY <4>3, <5>1 DEF UnbindMount, Bound
          <5>3. Len(binds'[t]) = Len(binds[t]) - 1 /\ binds'[t] \in Seq({"disk", "dir"})
            BY <5>1, <5>2, Popped
          <5>4. Len(binds'[t]) = 0
            BY <5>1, <5>2, <5>3, LenProperties, EmptySeq
          <5> QED BY <5>3, <5>4, EmptySeq
        <4> QED BY <4>1, <4>2, <4>3
      <3> QED BY <3>1
    <2> QED BY <1>0, <2>1, <2>2, <2>3, <2>4, <2>5 DEF SeenOf, Oss!OssLocation, Bound, diskOf, targetOf
  <1> QED BY <1>0, <1>2, <1>4, <1>5, <1>6, <1>7 DEF Handled, Alone

----------------------------------------------------------------------------
(* The NAS driver.                                                         *)

(* Its steps: those that only look, and those that run a command.          *)
NasLooks(p) ==
    /\ UNCHANGED host
    /\ \/ pc[p] \in {"apCheck", "apMount", "apRollback", "anCheck", "anUmount"} /\ Return(p, "err")
       \/ pc[p] \in {"apCheck", "apVerify"} /\ Return(p, "ok")
       \/ pc[p] = "anCheck" /\ ~ Bound(targetOf(p)) /\ Return(p, "ok")
       \/ pc[p] = "apCheck" /\ ~ Bound(targetOf(p)) /\ Goto(p, "apMount")
       \/ pc[p] = "apVerify" /\ Goto(p, "apRollback")
       \/ pc[p] = "anCheck" /\ Goto(p, "anUmount")
NasRuns(p) ==
    \/ pc[p] = "apMount" /\ Nas!MountNFS(targetOf(p)) /\ Goto(p, "apVerify")
    \/ pc[p] = "apRollback" /\ UnbindMount(targetOf(p)) /\ Return(p, "err")
    \/ pc[p] = "anUmount" /\ UnbindMount(targetOf(p)) /\ Return(p, "ok")

(* It takes no others.                                                     *)
LEMMA NasSteps ==
  ASSUME NEW p \in Proc, Nas!Handle(p)
  PROVE  NasLooks(p) \/ NasRuns(p)
  <1> USE DEF Nas!Goto, Nas!Return, Nas!Continue, Nas!Refuse, Nas!Succeed, Nas!host, Nas!diskOf, Nas!targetOf,
              Nas!MountNFS, Nas!UnbindMount, Nas!Bound, Goto, Return, host, diskOf, targetOf, UnbindMount, Bound
  <1>1. CASE Nas!NodePublishVolume(p)
    BY <1>1 DEF Nas!NodePublishVolume, Nas!PublishCheck, Nas!mountNasVolume, Nas!PublishVerify,
                Nas!PublishRollback, NasLooks, NasRuns
  <1>2. CASE Nas!NodeUnpublishVolume(p)
    BY <1>2 DEF Nas!NodeUnpublishVolume, Nas!UnpublishCheck, Nas!UnpublishUmount, NasLooks, NasRuns
  <1> QED BY <1>1, <1>2 DEF Nas!Handle

(* What a request sees of the target path is so while it is the only one.  *)
LEMMA NasHandled ==
  ASSUME IInv, driver = "nas", NEW p \in Proc, UNCHANGED <<marks, locks, oss, driver>>,
         NasLooks(p) \/ NasRuns(p)
  PROVE  Handled(p)
  <1> DEFINE d == diskOf(p)
             t == targetOf(p)
  <1>0. /\ TypeInv /\ JobOf(p) /\ driver' = driver /\ Location = Nas!NasLocation
        /\ locks \in SUBSET Disk /\ credentials \in SUBSET Disk /\ mountMu \in Proc \union {NoProc}
        /\ pc \in [Proc -> Nas!NasLocation] /\ res \in [Proc -> {"none", "ok", "err"}]
        /\ pc[p] \notin {"idle", "ret", "done"}
    BY DEF IInv, TypeInv, TypeOK, HostTypeOK, Location, NasLooks, NasRuns
  <1>g. ASSUME NEW to \in {"apMount", "apVerify", "apRollback", "anUmount"}, Goto(p, to),
               to = "anUmount" => pc[p] = "anCheck",
               to # "anUmount" => pc[p] \in PublishAt
        PROVE  Moves(p) /\ pc'[p] = to /\ res' = res
    <2>1. Leads(p, to)
      BY <1>g DEF Leads, PublishAt, UnpublishAt, MountAt
    <2> QED BY <1>0, <1>g, <2>1, GotoMoves DEF Nas!NasLocation
  <1>e. ASSUME NEW r \in {"ok", "err"}, Return(p, r)
        PROVE  Moves(p) /\ pc'[p] = "ret" /\ res'[p] = r
    BY <1>0, <1>e, EndMoves DEF Return, Ends, Nas!NasLocation
  <1>1. Moves(p) /\ pc'[p] # "idle" /\ job' = job /\ overlapped' = overlapped
    <2>1. Moves(p)
      BY <1>g, <1>e DEF NasLooks, NasRuns, PublishAt
    <2> QED BY <2>1 DEF Moves
  <1>2. Command(p)
    BY <1>0 DEF NasLooks, NasRuns, Command, JobOf, PublishAt, UnpublishAt
  <1>3. staged' = staged /\ (binds' = binds \/ NasRuns(p))
    BY DEF NasLooks, NasRuns, host, Nas!MountNFS, UnbindMount
  <1>4. Acts(p) /\ UNCHANGED <<diskStagingMap, diskFormattedMap>>
    BY <1>0, <1>1, <1>2, UnmarkedActs DEF Marked, oss
  <1>5. Locks(p) /\ Elsewhere(p)
    BY <1>0, <1>4 DEF Locks, Elsewhere, oss
  <1>6. (Alone(p) <=> Kept(d)) /\ (Alone(p)' <=> Alone(p)) /\ (Alone(p) => SeenOf(p) /\ DiskOf(d))
    BY <1>0, <1>1 DEF Alone, Kept, IInv, DisksOK, JobOf, diskOf
  <1>7. ASSUME Alone(p)
        PROVE  DiskStep(p)
    <2>1. SeenOf(p)
      BY <1>6, <1>7
    <2>2. binds' = binds \/ Pops(t) \/ ~ Bound(t)
      BY <1>3, <2>1 DEF NasRuns, SeenOf, UnbindMount, Pops, Bound
    <2> QED BY <1>0, <1>3, <2>2 DEF DiskStep, Marked
  <1>8. ASSUME Alone(p)
        PROVE  SeenOf(p)'
    <2>1. pc'[p] \in Nas!NasLocation /\ driver' = "nas"
      BY <1>0, <1>1 DEF Moves
    <2>2. pc'[p] = "apMount" => binds'[t] = <<>>
      BY <1>g, <1>e DEF NasLooks, NasRuns, host, Bound, PublishAt
    <2>3. ASSUME res'[p] = "ok", job[p].op = "unpublish"
          PROVE  binds'[t] = <<>>
      <3>1. CASE NasLooks(p)
        BY <1>0, <1>g, <1>e, <2>3, <3>1 DEF NasLooks, host, Bound, JobOf, PublishAt
      <3>2. CASE NasRuns(p)
        <4>1. UnbindMount(t)
          BY <1>0, <1>g, <1>e, <2>3, <3>2 DEF NasRuns, JobOf, PublishAt
        <4>2. t \in Target /\ volumeOf[t] = d /\ Len(binds[t]) <= 1 /\ binds \in [Target -> Seq({"disk", "dir"})]
          BY <1>0, <1>6, <1>8, <2>3 DEF JobOf, DiskOf, TypeInv
        <4>3. binds'[t] = SubSeq(binds[t], 1, Len(binds[t]) - 1) /\ binds[t] # <<>>
          BY <4>1, <4>2 DEF UnbindMount, Bound
        <4>4. Len(binds'[t]) = Len(binds[t]) - 1 /\ binds'[t] \in Seq({"disk", "dir"})
          BY <4>2, <4>3, Popped
        <4>5. Len(binds'[t]) = 0
          BY <4>2, <4>3, <4>4, LenProperties, EmptySeq
        <4> QED BY <4>4, <4>5, EmptySeq
      <3> QED BY <3>1, <3>2
    <2> QED BY <1>1, <2>1, <2>2, <2>3 DEF SeenOf, Nas!NasLocation, MountAt, Bound, diskOf, targetOf
  <1> QED BY <1>4, <1>5, <1>6, <1>7, <1>8 DEF Handled

----------------------------------------------------------------------------
(* The calls, the answers, the pods and restarts.                          *)

(* The handler of any driver.                                              *)
LEMMA HandleKeeps ==
  ASSUME IInv, NEW p \in Proc, driver' = driver,
         \/ driver = "ebs" /\ Ebs!Handle(p) /\ UNCHANGED <<locks, oss>>
         \/ driver = "eks" /\ Eks!Handle(p) /\ UNCHANGED <<locks, oss>>
         \/ driver = "cds" /\ Cds!Handle(p) /\ UNCHANGED <<locks, oss>>
         \/ driver = "ccs" /\ Ccs!Handle(p) /\ UNCHANGED <<marks, oss>>
         \/ driver = "oss" /\ Oss!Handle(p) /\ UNCHANGED <<marks, locks>>
         \/ driver = "nas" /\ Nas!Handle(p) /\ UNCHANGED <<marks, locks, oss>>
  PROVE  IInv'
  <1>0. TypeInv
    BY DEF IInv
  <1>1. CASE /\ driver \in {"ebs", "eks", "cds"} /\ UNCHANGED <<locks, oss>>
             /\ SharedStep(p) \/ OwnStep(p)
    BY <1>1, MarkedHandled, HandledKeeps DEF Marked
  <1>2. CASE driver = "ccs" /\ Ccs!Handle(p) /\ UNCHANGED <<marks, oss>>
    BY <1>2, CcsSteps, CcsHandled, HandledKeeps
  <1>3. CASE driver = "oss" /\ Oss!Handle(p) /\ UNCHANGED <<marks, locks>>
    BY <1>3, OssSteps, OssHandled, HandledKeeps
  <1>4. CASE driver = "nas" /\ Nas!Handle(p) /\ UNCHANGED <<marks, locks, oss>>
    BY <1>4, NasSteps, NasHandled, HandledKeeps
  <1> QED BY <1>0, <1>1, <1>2, <1>3, <1>4, EbsSteps, EksSteps, CdsSteps

(* A call starts an operation, ...                                         *)
Starts(op, to) ==
    \/ op = "stage" /\ to \in {"sMark", "ksLock", "osLock"}
    \/ op = "publish" /\ to \in {"pMounted", "kpMounted", "opLock", "apCheck"}
    \/ op = "unpublish" /\ to \in {"nMark", "knLock", "onLock", "anCheck"}
    \/ op = "unstage" /\ to \in {"tMark", "ktLock", "otLock"}

Calling(p) ==
    LET r == job'[p]
    IN  /\ pc[p] = "idle" /\ pc' = [pc EXCEPT ![p] = pc'[p]] /\ pc'[p] \in Location
        /\ job' = [job EXCEPT ![p] = r] /\ r \in Request /\ r.disk \in Disk
        /\ r.op \in {"publish", "unpublish"} => r.target \in Target /\ volumeOf[r.target] = r.disk
        /\ Starts(r.op, pc'[p])
        /\ overlapped' = IF InProgress(r.disk) THEN overlapped \union {r.disk} ELSE overlapped
        /\ UNCHANGED <<res, host, marks, locks, oss, driver>>

(* ... so does that of each driver: of a volume, at the operation's start. *)
LEMMA CallIsCalling ==
  ASSUME TypeInv, NEW p \in Proc, NEW op \in Calls, NEW d \in Disk, NEW t \in Target \union {NoTarget},
         NEW to \in Location, Call(p, op, d, t, to), Starts(op, to),
         op \in {"publish", "unpublish"} => t \in Target /\ volumeOf[t] = d,
         UNCHANGED <<marks, locks, oss, driver>>
  PROVE  Calling(p)
  <1>1. pc \in [Proc -> Location] /\ job \in [Proc -> Request]
    BY DEF TypeInv, TypeOK, HostTypeOK, Location
  <1>2. [op |-> op, disk |-> d, target |-> t] \in Request
    BY DEF Request, Calls
  <1>3. /\ pc'[p] = to /\ pc' = [pc EXCEPT ![p] = to] /\ pc[p] = "idle"
        /\ job'[p] = [op |-> op, disk |-> d, target |-> t]
        /\ job' = [job EXCEPT ![p] = [op |-> op, disk |-> d, target |-> t]]
    BY <1>1 DEF Call
  <1>4. job'[p].op = op /\ job'[p].disk = d /\ job'[p].target = t
    BY <1>3
  <1>5. /\ overlapped' = IF InProgress(job'[p].disk) THEN overlapped \union {job'[p].disk} ELSE overlapped
        /\ UNCHANGED <<res, host, marks, locks, oss, driver>>
    BY <1>4 DEF Call
  <1>6. Starts(job'[p].op, pc'[p])
    BY <1>3, <1>4
  <1>7. /\ pc' = [pc EXCEPT ![p] = pc'[p]] /\ job' = [job EXCEPT ![p] = job'[p]] /\ job'[p] \in Request
    BY <1>2, <1>3
  <1> QED BY <1>3, <1>4, <1>5, <1>6, <1>7 DEF Calling

(* The kubelet calls so.                                                   *)
LEMMA KubeletCalls ==
  ASSUME TypeInv, NEW p \in Proc, Kubelet(p), driver' = driver
  PROVE  Calling(p)
  <1>0. volumeOf \in [Target -> Disk]
    BY HostAssumption
  <1>1. ASSUME NEW op, NEW d, NEW t, NEW to
        PROVE  /\ Ccs!Call(p, op, d, t, to) <=> Call(p, op, d, t, to)
               /\ Oss!Call(p, op, d, t, to) <=> Call(p, op, d, t, to)
               /\ Nas!Call(p, op, d, t, to) <=> Call(p, op, d, t, to)
    BY DEF Call, InProgress, diskOf, host, Ccs!Call, Ccs!InProgress, Ccs!diskOf, Ccs!host,
           Oss!Call, Oss!InProgress, Oss!diskOf, Oss!host, Nas!Call, Nas!InProgress, Nas!diskOf, Nas!host
  <1>2. /\ Marked => /\ "sMark" \in Location /\ "pMounted" \in Location
                     /\ "nMark" \in Location /\ "tMark" \in Location
        /\ driver = "ccs" => /\ "ksLock" \in Location /\ "kpMounted" \in Location
                             /\ "knLock" \in Location /\ "ktLock" \in Location
        /\ driver = "oss" => /\ "osLock" \in Location /\ "opLock" \in Location
                             /\ "onLock" \in Location /\ "otLock" \in Location
        /\ driver = "nas" => "apCheck" \in Location /\ "anCheck" \in Location
    BY DEF Location, Marked, MarkedLocation, Ccs!CcsLocation, Oss!OssLocation, Nas!NasLocation
  <1> USE DEF Calls, Starts, oss
  <1>3. ASSUME NEW d \in Disk,
               \/ Marked /\ Stage(p, d) /\ UNCHANGED <<locks, oss>>
               \/ driver = "ccs" /\ Ccs!Stage(p, d) /\ UNCHANGED <<marks, oss>>
               \/ driver = "oss" /\ Oss!Stage(p, d) /\ UNCHANGED <<marks, locks>>
        PROVE  Calling(p)
    BY <1>1, <1>2, <1>3, CallIsCalling DEF Stage, Ccs!Stage, Oss!Stage
  <1>4. ASSUME NEW d \in Disk,
               \/ Marked /\ Unstage(p, d) /\ UNCHANGED <<locks, oss>>
               \/ driver = "ccs" /\ Ccs!Unstage(p, d) /\ UNCHANGED <<marks, oss>>
               \/ driver = "oss" /\ Oss!Unstage(p, d) /\ UNCHANGED <<marks, locks>>
        PROVE  Calling(p)
    BY <1>1, <1>2, <1>4, CallIsCalling DEF Unstage, Ccs!Unstage, Oss!Unstage
  <1>5. ASSUME NEW t \in Target,
               \/ Marked /\ Publish(p, t) /\ UNCHANGED <<locks, oss>>
               \/ driver = "ccs" /\ Ccs!Publish(p, t) /\ UNCHANGED <<marks, oss>>
               \/ driver = "oss" /\ Oss!Publish(p, t) /\ UNCHANGED <<marks, locks>>
               \/ driver = "nas" /\ Nas!Publish(p, t) /\ UNCHANGED <<marks, locks, oss>>
        PROVE  Calling(p)
    BY <1>0, <1>1, <1>2, <1>5, CallIsCalling DEF Publish, Ccs!Publish, Oss!Publish, Nas!Publish
  <1>6. ASSUME NEW t \in Target,
               \/ Marked /\ Unpublish(p, t) /\ UNCHANGED <<locks, oss>>
               \/ driver = "ccs" /\ Ccs!Unpublish(p, t) /\ UNCHANGED <<marks, oss>>
               \/ driver = "oss" /\ Oss!Unpublish(p, t) /\ UNCHANGED <<marks, locks>>
               \/ driver = "nas" /\ Nas!Unpublish(p, t) /\ UNCHANGED <<marks, locks, oss>>
        PROVE  Calling(p)
    BY <1>0, <1>1, <1>2, <1>6, CallIsCalling DEF Unpublish, Ccs!Unpublish, Oss!Unpublish, Nas!Unpublish
  <1> QED BY <1>3, <1>4, <1>5, <1>6 DEF Kubelet

(* ... on a disk that another may have, and has seen nothing.              *)
LEMMA CallKeeps ==
  ASSUME IInv, NEW p \in Proc, Calling(p)
  PROVE  IInv'
  <1> DEFINE r == job'[p]
  <1>0. /\ TypeInv /\ AloneOK /\ MarksOwned /\ DisksOK
        /\ pc \in [Proc -> Location] /\ job \in [Proc -> Request] /\ overlapped \in SUBSET Disk
        /\ pc[p] = "idle" /\ r.disk \in Disk /\ r \in Request /\ Starts(r.op, pc'[p]) /\ pc'[p] \in Location
        /\ UNCHANGED <<res, host, marks, locks, oss, driver>>
    BY DEF IInv, TypeInv, TypeOK, HostTypeOK, Location, Calling
  <1>1. /\ \A q \in Proc : q # p => pc'[q] = pc[q] /\ job'[q] = job[q]
        /\ \A q \in Proc : q # p => diskOf(q)' = diskOf(q) /\ targetOf(q)' = targetOf(q)
        /\ diskOf(p)' = r.disk /\ targetOf(p)' = r.target
        /\ pc' \in [Proc -> Location] /\ job' \in [Proc -> Request]
    BY <1>0 DEF Calling, diskOf, targetOf
  <1>2. overlapped' = IF InProgress(r.disk) THEN overlapped \union {r.disk} ELSE overlapped
    BY DEF Calling
  <1>3. /\ pc'[p] \notin CcsHeld \union OssHeld \union StagingAt \union UnPublishingAt \union UnStagingAt
        /\ pc'[p] \notin {"idle", "ret", "done", "opBind", "apMount", "otCredential"}
        /\ pc'[p] \in PublishAt \union {"opLock"} => r.op = "publish"
        /\ pc'[p] \in UnpublishAt => r.op = "unpublish"
        /\ pc'[p] \in MountAt => pc'[p] \in {"osLock", "opLock"} /\ r.op \in {"stage", "publish"}
        /\ pc'[p] \in {"otLock", "otUmount", "otCredential"} => r.op = "unstage"
        /\ pc'[p] = "osLock" => r.op = "stage"
    BY <1>0
    DEF Starts, CcsHeld, OssHeld, StagingAt, UnPublishingAt, UnStagingAt, PublishAt, UnpublishAt, MountAt
  <1>4. TypeInv'
    <2>1. ASSUME NEW q \in Proc, q # p
          PROVE  JobOf(q)'
      <3>1. JobOf(q)
        BY <1>0 DEF TypeInv
      <3> QED BY <1>0, <1>1, <2>1, <3>1 DEF JobOf, PublishAt, UnpublishAt, MountAt
    <2>2. JobOf(p)'
      <3>1. res'[p] = "none"
        BY <1>0 DEF TypeInv, JobOf
      <3>2. r.op \in {"publish", "unpublish"} => r.target \in Target /\ volumeOf[r.target] = r.disk
        BY DEF Calling
      <3> QED BY <1>0, <1>1, <1>3, <3>1, <3>2 DEF JobOf, PublishAt, UnpublishAt, MountAt
    <2>3. HostTypeOK'
      BY <1>0, <1>1, <1>2 DEF TypeInv, TypeOK, HostTypeOK, host
    <2>4. TypeOK'
      BY <1>0, <1>1, <2>3
      DEF TypeInv, TypeOK, MarksTypeOK, marks, oss, Location, Ccs!CcsLocation, Oss!OssLocation, Nas!NasLocation,
          MarkedLocation
    <2>5. NoMarks' /\ (binds \in [Target -> Seq({"disk", "dir"})])'
      BY <1>0 DEF TypeInv, NoMarks, Marked, marks, host
    <2> QED BY <2>1, <2>2, <2>4, <2>5 DEF TypeInv
  <1>5. AloneOK'
    <2>1. driver = "ccs" => /\ \A q \in Proc : pc'[q] \in CcsHeld => diskOf(q)' \in locks
                            /\ \A q, s \in Proc :
                                  pc'[q] \in CcsHeld /\ pc'[s] \in CcsHeld /\ diskOf(q)' = diskOf(s)' => q = s
      BY <1>0, <1>1, <1>3 DEF AloneOK
    <2>2. driver = "oss" => \A q \in Proc : pc'[q] \in OssHeld => mountMu = q
      BY <1>0, <1>1, <1>3 DEF AloneOK
    <2>3. ASSUME NEW q \in Proc, NEW s \in Proc, pc'[q] # "idle", pc'[s] # "idle",
                 diskOf(q)' = diskOf(s)', q # s
          PROVE  diskOf(q)' \in overlapped'
      <3>1. CASE q # p /\ s # p
        BY <1>0, <1>1, <1>2, <2>3, <3>1 DEF AloneOK
      <3>2. CASE q = p \/ s = p
        <4>1. InProgress(r.disk)
          BY <1>1, <2>3, <3>2 DEF InProgress
        <4> QED BY <1>1, <1>2, <2>3, <3>2, <4>1
      <3> QED BY <3>1, <3>2
    <2> QED BY <1>0, <2>1, <2>2, <2>3 DEF AloneOK, oss
  <1>6. MarksOwned'
    <2>1. ASSUME NEW q \in Proc, pc[q] # "idle"
          PROVE  pc'[q] = pc[q] /\ diskOf(q)' = diskOf(q) /\ targetOf(q)' = targetOf(q)
      BY <1>0, <1>1, <2>1
    <2> QED BY <1>0, <2>1 DEF MarksOwned, At, marks
  <1>7. DisksOK'
    <2>1. \A d \in Disk : FsOf(d)'
      BY <1>0 DEF DisksOK, FsOf, InUse, UsesDevice, HasFs, host
    <2>2. ASSUME NEW d \in Disk, Kept(d)'
          PROVE  DiskOf(d)'
      <3>1. DiskOf(d)
        BY <1>0, <1>2, <2>2 DEF DisksOK, Kept
      <3>2. \A q \in Proc : pc[q] = "tDone" => pc'[q] = "tDone" /\ diskOf(q)' = diskOf(q)
        BY <1>0, <1>1
      <3> QED BY <1>0, <3>1, <3>2 DEF DiskOf, OnlyDisk, At, Marked, host, marks
    <2>3. ASSUME NEW q \in Proc, q # p, Alone(q)'
          PROVE  SeenOf(q)'
      <3>1. Alone(q)
        BY <1>0, <1>1, <1>2, <2>3 DEF Alone, CcsHeld, OssHeld
      <3>2. SeenOf(q)
        BY <1>0, <3>1 DEF DisksOK
      <3> QED BY <1>0, <1>1, <2>3, <3>2 DEF SeenOf, HasFs, Bound, host, marks, oss, MountAt
    <2>4. Alone(p)' => SeenOf(p)'
      <3>1. pc'[p] \in {"osLock", "opLock"} => driver = "oss"
        BY <1>0
        DEF Location, Ccs!CcsLocation, Nas!NasLocation, MarkedLocation
      <3>2. res'[p] = "none"
        BY <1>0 DEF TypeInv, JobOf
      <3>3. pc'[p] \notin {"sStaged", "pBind", "pBindStaged", "kpBind", "vVerify", "vReady", "opBind",
                           "ksProbe", "ksMkfs", "ksUnread", "sProbe", "sMkfs", "sUnread"}
        BY <1>3 DEF CcsHeld, OssHeld, StagingAt, PublishAt, Starts, Calling
      <3> QED BY <1>0, <1>3, <3>1, <3>2, <3>3 DEF SeenOf, Alone
    <2> QED BY <2>1, <2>2, <2>3, <2>4 DEF DisksOK
  <1> QED BY <1>4, <1>5, <1>6, <1>7 DEF IInv

(* A request that was answered, or a process that ended, has no disk.      *)
LEMMA AnswerKeeps ==
  ASSUME IInv, NEW p \in Proc, Answer(p), UNCHANGED <<marks, locks, oss, driver>>
  PROVE  IInv'
  <1>0. /\ TypeInv /\ AloneOK /\ MarksOwned /\ DisksOK
        /\ pc \in [Proc -> Location] /\ job \in [Proc -> Request] /\ res \in [Proc -> {"none", "ok", "err"}]
        /\ pc[p] = "ret" /\ UNCHANGED <<host, overlapped, marks, locks, oss, driver>>
    BY DEF IInv, TypeInv, TypeOK, HostTypeOK, Location, Answer
  <1>1. /\ \A q \in Proc : q # p => pc'[q] = pc[q] /\ job'[q] = job[q] /\ res'[q] = res[q]
        /\ pc'[p] = "idle" /\ res'[p] = "none"
    BY <1>0 DEF Answer
  <1>2. \A q \in Proc : q # p => diskOf(q)' = diskOf(q) /\ targetOf(q)' = targetOf(q)
    BY <1>1 DEF diskOf, targetOf
  <1>3. /\ pc' \in [Proc -> Location] /\ job' \in [Proc -> Request] /\ res' \in [Proc -> {"none", "ok", "err"}]
    <2>1. "idle" \in Location /\ NoRequest \in Request
      BY DEF Location, Ccs!CcsLocation, Oss!OssLocation, Nas!NasLocation, MarkedLocation, NoRequest, Request
    <2> QED BY <1>0, <2>1 DEF Answer
  <1>4. TypeInv'
    <2>1. ASSUME NEW q \in Proc
          PROVE  JobOf(q)'
      <3>1. JobOf(q)
        BY <1>0 DEF TypeInv
      <3> QED BY <1>1, <1>2, <3>1 DEF JobOf, PublishAt, UnpublishAt, MountAt
    <2>3. HostTypeOK'
      BY <1>0, <1>3 DEF TypeInv, TypeOK, HostTypeOK, host
    <2>4. TypeOK'
      BY <1>0, <1>3, <2>3
      DEF TypeInv, TypeOK, MarksTypeOK, marks, oss, Location, Ccs!CcsLocation, Oss!OssLocation, Nas!NasLocation,
          MarkedLocation
    <2>5. NoMarks' /\ (binds \in [Target -> Seq({"disk", "dir"})])'
      BY <1>0 DEF TypeInv, NoMarks, Marked, marks, host
    <2> QED BY <2>1, <2>4, <2>5 DEF TypeInv
  <1>5. AloneOK'
    BY <1>0, <1>1, <1>2 DEF AloneOK, CcsHeld, OssHeld, oss
  <1>6. MarksOwned'
    BY <1>0, <1>1, <1>2 DEF MarksOwned, At, marks
  <1>7. DisksOK'
    <2>1. \A d \in Disk : FsOf(d)'
      BY <1>0 DEF DisksOK, FsOf, InUse, UsesDevice, HasFs, host
    <2>2. ASSUME NEW d \in Disk, Kept(d)'
          PROVE  DiskOf(d)'
      <3>1. DiskOf(d)
        BY <1>0, <2>2 DEF DisksOK, Kept
      <3>2. \A q \in Proc : pc[q] = "tDone" => pc'[q] = "tDone" /\ diskOf(q)' = diskOf(q)
        BY <1>0, <1>1, <1>2
      <3> QED BY <1>0, <3>1, <3>2 DEF DiskOf, OnlyDisk, At, Marked, host, marks
    <2>3. ASSUME NEW q \in Proc, Alone(q)'
          PROVE  SeenOf(q)'
      <3>1. q # p
        BY <1>1, <2>3 DEF Alone, CcsHeld, OssHeld
      <3>2. Alone(q)
        BY <1>0, <1>1, <1>2, <2>3, <3>1 DEF Alone, CcsHeld, OssHeld
      <3>3. SeenOf(q)
        BY <1>0, <3>2 DEF DisksOK
      <3> QED BY <1>0, <1>1, <1>2, <3>1, <3>3 DEF SeenOf, HasFs, Bound, host, marks, oss, MountAt
    <2> QED BY <2>1, <2>2, <2>3 DEF DisksOK
  <1> QED BY <1>4, <1>5, <1>6, <1>7 DEF IInv

(* Nor has any when the process ends.                                      *)
LEMMA RestartKeeps ==
  ASSUME IInv, Restart, driver' = driver
  PROVE  IInv'
  <1>0. /\ TypeInv /\ DisksOK /\ UNCHANGED <<host, overlapped, credentials, driver>>
        /\ \A q \in Proc : pc'[q] = "idle" /\ res'[q] = "none"
        /\ locks' = {} /\ mountMu' = NoProc
    BY DEF IInv, Restart, HandlersEnd
  <1>1. /\ diskStagingMap' = [d \in Disk |-> "none"] /\ diskUnPublishingMap' = [t \in Target |-> "none"]
        /\ diskUnStagingMap' = [d \in Disk |-> "none"]
    BY DEF Restart, MarksLost
  <1>2. /\ pc' \in [Proc -> Location] /\ job' \in [Proc -> Request] /\ res' \in [Proc -> {"none", "ok", "err"}]
    <2>1. "idle" \in Location /\ NoRequest \in Request
      BY DEF Location, Ccs!CcsLocation, Oss!OssLocation, Nas!NasLocation, MarkedLocation, NoRequest, Request
    <2> QED BY <2>1 DEF Restart, HandlersEnd
  <1>3. MarksTypeOK'
    BY DEF Restart, MarksLost, MarksTypeOK
  <1>4. TypeInv'
    <2>1. ASSUME NEW q \in Proc
          PROVE  JobOf(q)'
      BY <1>0 DEF JobOf, PublishAt, UnpublishAt, MountAt
    <2>3. HostTypeOK'
      BY <1>0, <1>2 DEF TypeInv, TypeOK, HostTypeOK, host
    <2>4. TypeOK'
      BY <1>0, <1>2, <1>3, <2>3
      DEF TypeInv, TypeOK, Location, Ccs!CcsLocation, Oss!OssLocation, Nas!NasLocation, MarkedLocation
    <2>5. NoMarks' /\ (binds \in [Target -> Seq({"disk", "dir"})])'
      BY <1>0, <1>1 DEF TypeInv, NoMarks, host
    <2> QED BY <2>1, <2>4, <2>5 DEF TypeInv
  <1>5. AloneOK'
    BY <1>0 DEF AloneOK, CcsHeld, OssHeld
  <1>6. MarksOwned'
    BY <1>1 DEF MarksOwned
  <1>7. DisksOK'
    <2>1. \A d \in Disk : FsOf(d)'
      BY <1>0 DEF DisksOK, FsOf, InUse, UsesDevice, HasFs, host
    <2>2. ASSUME NEW d \in Disk, Kept(d)'
          PROVE  DiskOf(d)'
      <3>1. DiskOf(d)
        BY <1>0, <2>2 DEF DisksOK, Kept
      <3> QED BY <1>0, <1>1, <3>1 DEF DiskOf, OnlyDisk, host
    <2>3. \A q \in Proc : ~ Alone(q)'
      BY <1>0 DEF Alone, CcsHeld, OssHeld
    <2> QED BY <2>1, <2>2, <2>3 DEF DisksOK
  <1> QED BY <1>4, <1>5, <1>6, <1>7 DEF IInv

(* A pod writes to what is mounted, and so has a filesystem already.       *)
LEMMA PodWritesKeeps ==
  ASSUME IInv, Marked \/ driver = "ccs", NEW t \in Target, PodWrites(t), UNCHANGED <<marks, locks, oss, driver>>
  PROVE  IInv'
  <1> DEFINE d == volumeOf[t]
  <1>0. /\ TypeInv /\ AloneOK /\ MarksOwned /\ DisksOK /\ d \in Disk /\ fs \in [Disk -> {"none", "fs", "data"}]
        /\ UNCHANGED <<handlers, overlapped, staged, binds, recorded, marks, locks, oss, driver>>
        /\ fs' = [fs EXCEPT ![d] = "data"]
    BY HostAssumption DEF IInv, PodWrites, TypeInv, TypeOK, HostTypeOK
  <1>1. HasFs(d)
    <2>1. binds[t] \in Seq({"disk", "dir"}) /\ binds[t] # <<>>
      BY <1>0 DEF TypeInv, PodWrites, Bound
    <2>2. Len(binds[t]) \in DOMAIN binds[t]
      BY <2>1, LenProperties, EmptySeq
    <2>3. InUse(d)
      BY <2>2 DEF InUse, UsesDevice, PodWrites
    <2> QED BY <1>0, <2>3 DEF DisksOK, FsOf, Marked
  <1>2. fs' \in [Disk -> {"none", "fs", "data"}] /\ \A e \in Disk : HasFs(e)' <=> HasFs(e)
    BY <1>0, <1>1 DEF HasFs
  <1>3. TypeInv'
    <2>1. \A q \in Proc : JobOf(q)'
      BY <1>0 DEF TypeInv, JobOf, PublishAt, UnpublishAt, MountAt, handlers, diskOf, targetOf
    <2>2. TypeOK'
      BY <1>0, <1>2
      DEF TypeInv, TypeOK, HostTypeOK, MarksTypeOK, marks, oss, handlers, Ccs!CcsLocation, Oss!OssLocation,
          Nas!NasLocation, MarkedLocation
    <2>3. NoMarks' /\ (binds \in [Target -> Seq({"disk", "dir"})])'
      BY <1>0 DEF TypeInv, NoMarks, Marked, marks
    <2> QED BY <2>1, <2>2, <2>3 DEF TypeInv
  <1>4. AloneOK' /\ MarksOwned'
    BY <1>0 DEF AloneOK, MarksOwned, At, handlers, marks, oss, diskOf, targetOf, CcsHeld, OssHeld
  <1>5. DisksOK'
    <2>1. \A e \in Disk : FsOf(e)'
      BY <1>0, <1>2 DEF DisksOK, FsOf, InUse, UsesDevice
    <2>2. ASSUME NEW e \in Disk, Kept(e)'
          PROVE  DiskOf(e)'
      <3>1. DiskOf(e)
        BY <1>0, <2>2 DEF DisksOK, Kept
      <3> QED BY <1>0, <3>1 DEF DiskOf, OnlyDisk, At, Marked, marks, handlers, diskOf
    <2>3. ASSUME NEW q \in Proc, Alone(q)'
          PROVE  SeenOf(q)'
      <3>1. Alone(q)
        BY <1>0, <2>3 DEF Alone, handlers, diskOf, CcsHeld, OssHeld
      <3>2. SeenOf(q) /\ pc[q] # "idle" /\ diskOf(q) \in Disk
        BY <1>0, <3>1 DEF DisksOK, Alone, CcsHeld, OssHeld, TypeInv, JobOf
      <3> QED BY <1>0, <1>2, <3>2 DEF SeenOf, handlers, diskOf, targetOf, Bound, marks, oss, MountAt
    <2> QED BY <2>1, <2>2, <2>3 DEF DisksOK
  <1> QED BY <1>3, <1>4, <1>5 DEF IInv

(* A record that is removed tells nobody that a disk is not formatted.     *)
LEMMA RecordRemovedKeeps ==
  ASSUME IInv, NEW d \in Disk, RecordRemoved(d), driver' = driver
  PROVE  IInv'
  <1>0. /\ TypeInv /\ AloneOK /\ MarksOwned /\ DisksOK
        /\ recorded' \in SUBSET Disk /\ \A e : e \in recorded' => e \in recorded
        /\ UNCHANGED <<pc, job, res, overlapped, staged, binds, fs, marks, locks, oss, driver>>
        /\ UNCHANGED <<diskFormattedMap, diskStagingMap, diskUnPublishingMap, diskUnStagingMap>>
    BY DEF IInv, RecordRemoved, TypeInv, TypeOK, HostTypeOK, handlers, marks
  <1>1. TypeInv'
    <2>1. \A q \in Proc : JobOf(q)'
      BY <1>0 DEF TypeInv, JobOf, PublishAt, UnpublishAt, MountAt, diskOf, targetOf
    <2>2. TypeOK'
      BY <1>0
      DEF TypeInv, TypeOK, HostTypeOK, MarksTypeOK, marks, oss, Ccs!CcsLocation, Oss!OssLocation,
          Nas!NasLocation, MarkedLocation
    <2>3. NoMarks' /\ (binds \in [Target -> Seq({"disk", "dir"})])'
      BY <1>0 DEF TypeInv, NoMarks, Marked
    <2> QED BY <2>1, <2>2, <2>3 DEF TypeInv
  <1>2. AloneOK' /\ MarksOwned'
    BY <1>0 DEF AloneOK, MarksOwned, At, oss, diskOf, targetOf, CcsHeld, OssHeld
  <1>3. DisksOK'
    <2>1. \A e \in Disk : FsOf(e)' /\ (Kept(e)' => DiskOf(e)')
      BY <1>0 DEF DisksOK, FsOf, Kept, DiskOf, OnlyDisk, InUse, UsesDevice, HasFs, Marked, At, diskOf
    <2>2. ASSUME NEW q \in Proc, Alone(q)'
          PROVE  SeenOf(q)'
      <3>1. SeenOf(q)
        BY <1>0, <2>2 DEF DisksOK, Alone, diskOf, CcsHeld, OssHeld
      <3> QED BY <1>0, <3>1 DEF SeenOf, HasFs, Bound, MountAt, oss, diskOf, targetOf
    <2> QED BY <2>1, <2>2 DEF DisksOK
  <1> QED BY <1>1, <1>2, <1>3 DEF IInv

----------------------------------------------------------------------------
(* The theorems.                                                           *)

(* At first no request is made and the host is empty.                      *)
LEMMA InitIInv ==
  Init => IInv
  <1> SUFFICES ASSUME Init PROVE IInv
    OBVIOUS
  <1>0. /\ pc = [p \in Proc |-> "idle"] /\ job = [p \in Proc |-> NoRequest] /\ res = [p \in Proc |-> "none"]
        /\ staged = {} /\ binds = [t \in Target |-> <<>>] /\ fs = [d \in Disk |-> "none"]
        /\ recorded = {} /\ overlapped = {}
        /\ diskStagingMap = [d \in Disk |-> "none"] /\ diskUnPublishingMap = [t \in Target |-> "none"]
        /\ diskUnStagingMap = [d \in Disk |-> "none"]
        /\ locks = {} /\ mountMu = NoProc /\ credentials = {} /\ driver \in Drivers
    BY DEF Init, HostInit, MarksInit
  <1>1. "idle" \in Location /\ NoRequest \in Request
    BY DEF Location, Ccs!CcsLocation, Oss!OssLocation, Nas!NasLocation, MarkedLocation, NoRequest, Request
  <1>2. binds \in [Target -> Seq({"disk", "dir"})] /\ \A t \in Target : binds[t] = <<>> /\ Len(binds[t]) = 0
    BY <1>0
  <1>3. \A t \in Target : binds[t] \in UNION {[1 .. n -> {"disk", "dir"}] : n \in 0 .. MaxBinds}
    BY <1>2, StackType, HostAssumption
  <1>4. TypeInv
    <2>1. HostTypeOK
      BY <1>0, <1>1, <1>3 DEF HostTypeOK
    <2>2. MarksTypeOK
      BY DEF Init, MarksInit, MarksTypeOK
    <2>3. TypeOK
      BY <1>0, <1>1, <2>1, <2>2 DEF TypeOK, Location
    <2>4. NoMarks /\ \A p \in Proc : JobOf(p)
      BY <1>0 DEF NoMarks, JobOf, PublishAt, UnpublishAt, MountAt
    <2> QED BY <1>2, <2>3, <2>4 DEF TypeInv
  <1>5. AloneOK /\ MarksOwned
    BY <1>0 DEF AloneOK, MarksOwned, CcsHeld, OssHeld
  <1>6. DisksOK
    <2>1. ASSUME NEW d \in Disk
          PROVE  FsOf(d) /\ DiskOf(d)
      <3>1. \A t \in Target : DOMAIN binds[t] = {}
        BY <1>2
      <3> QED BY <1>0, <1>2, <3>1 DEF FsOf, DiskOf, InUse, UsesDevice, OnlyDisk
    <2>2. \A p \in Proc : ~ Alone(p)
      BY <1>0 DEF Alone, CcsHeld, OssHeld
    <2> QED BY <2>1, <2>2 DEF DisksOK
  <1> QED BY <1>4, <1>5, <1>6 DEF IInv

(* No step of the node, its kubelet, its pods or a restart breaks it.      *)
LEMMA NextIInv ==
  IInv /\ [Next]_vars => IInv'
  <1> SUFFICES ASSUME IInv, [Next]_vars PROVE IInv'
    OBVIOUS
  <1>0. TypeInv
    BY DEF IInv
  <1>1. ASSUME NEW p \in Proc, Kubelet(p), driver' = driver
        PROVE  IInv'
    BY <1>0, <1>1, KubeletCalls, CallKeeps
  <1>2. ASSUME NEW p \in Proc, Handle(p), driver' = driver
        PROVE  IInv'
    BY <1>2, HandleKeeps, AnswerKeeps DEF Handle
  <1>3. CASE Restart /\ driver' = driver
    BY <1>3, RestartKeeps
  <1>4. ASSUME Marked \/ driver = "ccs", driver' = driver, NEW t \in Target, PodWrites(t),
               UNCHANGED <<marks, locks, oss>>
        PROVE  IInv'
    BY <1>4, PodWritesKeeps
  <1>r. ASSUME driver' = driver, NEW d \in Disk, RecordRemoved(d)
        PROVE  IInv'
    BY <1>r, RecordRemovedKeeps
  <1>5. CASE UNCHANGED vars
    <2>1. UNCHANGED <<pc, job, res, staged, binds, fs, recorded, overlapped, diskFormattedMap, diskStagingMap,
                      diskUnPublishingMap, diskUnStagingMap, marks, locks, mountMu, credentials, driver>>
      BY <1>5 DEF vars, markedVars, hostVars, handlers, host, marks, oss
    <2>2. TypeInv' <=> TypeInv
      BY <2>1 DEF TypeInv, TypeOK, HostTypeOK, MarksTypeOK, marks, NoMarks, Marked, JobOf, diskOf, targetOf,
                  PublishAt, UnpublishAt, MountAt, Ccs!CcsLocation, Oss!OssLocation, Nas!NasLocation, MarkedLocation
    <2>3. (AloneOK' <=> AloneOK) /\ (MarksOwned' <=> MarksOwned)
      BY <2>1 DEF AloneOK, MarksOwned, At, diskOf, targetOf, CcsHeld, OssHeld
    <2>4. DisksOK' <=> DisksOK
      <3>1. \A p \in Proc : (Alone(p)' <=> Alone(p)) /\ (SeenOf(p)' <=> SeenOf(p))
        BY <2>1 DEF Alone, SeenOf, HasFs, Bound, MountAt, CcsHeld, OssHeld, diskOf, targetOf
      <3>2. \A d \in Disk : (Kept(d)' <=> Kept(d)) /\ (FsOf(d)' <=> FsOf(d)) /\ (DiskOf(d)' <=> DiskOf(d))
        BY <2>1 DEF Kept, FsOf, DiskOf, OnlyDisk, InUse, UsesDevice, HasFs, Marked, At, diskOf
      <3> QED BY <3>1, <3>2 DEF DisksOK
    <2> QED BY <2>2, <2>3, <2>4 DEF IInv
  <1> QED BY <1>1, <1>2, <1>3, <1>4, <1>r, <1>5 DEF Next

(* Whatever the driver, the calls that overlap and the restarts, IInv      *)
(* holds of the node.                                                      *)
THEOREM NodesInvariant ==
  Spec => []IInv
  <1> QED BY InitIInv, NextIInv, PTL DEF Spec

(* The variables of the six node services have their types.                *)
THEOREM TypeCorrect ==
  Spec => []TypeOK
  <1>1. IInv => TypeOK
    BY DEF IInv, TypeInv
  <1> QED BY <1>1, NodesInvariant, PTL

(* A mark that says a request is under way is that of a request that is,   *)
(* for the EBS, EKS and CDS drivers, whatever overlaps.                    *)
THEOREM MarksAreOwned ==
  Spec => []MarksOwned
  <1>1. IInv => MarksOwned
    BY DEF IInv
  <1> QED BY <1>1, NodesInvariant, PTL

(* A staging path remembered as mounted is, while the kubelet makes one    *)
(* request of the disk at a time.                                          *)
THEOREM StagedPathsAreMounted ==
  Spec => []StagedIsMounted
  <1>1. IInv => StagedIsMounted
    <2> SUFFICES ASSUME IInv, NEW d \in Disk, d \notin overlapped, diskStagingMap[d] = "path"
                 PROVE  d \in staged \/ \E p \in Proc : diskOf(p) = d /\ At(p, {"tDone"})
      BY DEF StagedIsMounted
    <2>1. Marked
      BY DEF IInv, TypeInv, NoMarks
    <2> QED BY <2>1 DEF IInv, DisksOK, Kept, DiskOf
  <1> QED BY <1>1, NodesInvariant, PTL

(* No pod is given a bare directory: with the locks of the CCS and OSS     *)
(* drivers whatever overlaps, with the others while the kubelet makes one  *)
(* request of the disk at a time.                                          *)
THEOREM NoPodHasABareDirectory ==
  Spec => []NoBareBind
  <1>1. IInv => NoBareBind
    <2> SUFFICES ASSUME IInv, NEW t \in Target, driver \in {"ccs", "oss"} \/ volumeOf[t] \notin overlapped
                 PROVE  \A i \in DOMAIN binds[t] : binds[t][i] = "disk"
      BY DEF NoBareBind
    <2>1. volumeOf[t] \in Disk /\ Kept(volumeOf[t])
      BY HostAssumption DEF Kept
    <2> QED BY <2>1 DEF IInv, DisksOK, DiskOf, OnlyDisk
  <1> QED BY <1>1, NodesInvariant, PTL

(* A disk with data is about to be formatted only by a request that has    *)
(* not read the device (blkid failed, or the driver is CDS) and to which   *)
(* neither the process nor, with the CCS driver, the record says that the  *)
(* disk is formatted: with the locks of the CCS driver whatever overlaps,  *)
(* with the others while the kubelet makes one request at a time.          *)
THEOREM DataIsKept ==
  Spec => []DataKept
  <1>1. IInv => DataKept
    <2> SUFFICES ASSUME IInv, NEW p \in Proc, At(p, {"sMkfs", "sUnread", "ksMkfs", "ksUnread"}),
                        fs[diskOf(p)] = "data", driver = "ccs" \/ diskOf(p) \notin overlapped
                 PROVE  \/ At(p, {"sUnread"}) /\ diskOf(p) \notin diskFormattedMap
                        \/ At(p, {"ksUnread"}) /\ diskOf(p) \notin recorded
      BY DEF DataKept
    <2>1. Alone(p)
      <3>1. pc[p] \in Location
        BY DEF IInv, TypeInv, TypeOK, Location
      <3> QED BY <3>1 DEF Alone, At, Location, CcsHeld, Ccs!CcsLocation, Oss!OssLocation
    <2>2. SeenOf(p)
      BY <2>1 DEF IInv, DisksOK
    <2> QED BY <2>2 DEF SeenOf, HasFs, At
  <1> QED BY <1>1, NodesInvariant, PTL

(* What a NodeUnstageVolume or NodeUnpublishVolume that succeeded lets go  *)
(* of is free: of the OSS driver whatever overlaps, of the NAS driver      *)
(* while the kubelet makes one request at a time.                          *)
THEOREM SuccessLetsGo ==
  Spec => []LetGo
  <1>1. IInv => LetGo
    <2> SUFFICES ASSUME IInv, NEW p \in Proc, res[p] = "ok"
                 PROVE  /\ driver = "oss" /\ pc[p] = "done" /\ job[p].op = "unstage" =>
                              diskOf(p) \notin staged \union credentials
                        /\ /\ job[p].op = "unpublish"
                           /\ (driver = "oss" /\ pc[p] = "done") \/ (driver = "nas" /\ diskOf(p) \notin overlapped)
                           => ~ Bound(targetOf(p))
      BY DEF LetGo
    <2>1. pc[p] \in {"ret", "done"}
      BY DEF IInv, TypeInv, JobOf
    <2>2. \/ driver = "oss" /\ pc[p] = "done"
          \/ driver = "nas" /\ diskOf(p) \notin overlapped
          => SeenOf(p)
      BY <2>1 DEF IInv, DisksOK, Alone, OssHeld
    <2> QED BY <2>2 DEF SeenOf
  <1> QED BY <1>1, NodesInvariant, PTL

=============================================================================
